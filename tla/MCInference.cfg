\* Two memories, four transcripts: each request, one verdict on any of its
\* candidates and the same request again.  Nothing follows the second answer,
\* hence no deadlock check.
SPECIFICATION Spec
CHECK_DEADLOCK FALSE
CONSTANTS
    Memory = {1, 2}
    NoAsr = NoAsr
    Unset = Unset
    Silent = ""
    MaxLength = 5
    MaxHints = 1
    SemanticCap = 1
    FuzzyThreshold = 760
    SemanticFloor = 600
    LexicalWeight = 65
    AuthorizationWeight = 14
    ContextWeight = 15
    PhoneticWeight = 5
    AlternativeWeight = 5
    LearnedWeight = 21
    NegativeWeight = 65
    AsrAlpha = 1
    AsrBeta = 3
    AsrMinimum = 3
    MinPositive = 150
    NegativeBlock = 120
    MinConflictPositive = 200
    MinAdvantage = 150
    Word = {"aditya", "adithya", "aaditya", "aditha", "rao", "message", "paint", "met", "today", "hall"}
    IgnoredTerm = {}
    Length <- MCLength
    Similarity <- MCSimilarity
    Sounds <- MCSounds
    Resemblance <- MCResemblance
    Power <- MCPower
    Curve <- MCCurve
    ReplayMargin = 120
    ReplayFloor = 200
    ReplayAdvantage = 150
    Asr <- MCAsr
    Store <- MCStore
    Body <- MCBody
    Active <- MCActive
    ShadowRequest <- MCShadowRequest
INVARIANTS RenderedFaithfully ReplayFaithful RejectionHonoured EditsWereHinted CompetitionListed
PROPERTY ArbitratesBestEvidence
