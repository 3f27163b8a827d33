\* One memory, taught, corrected, judged and overridden: promotion, demotion,
\* suppression.  Its requests carry no client event ids; MCStore covers those.
SPECIFICATION Spec
CHECK_DEADLOCK FALSE
CONSTANTS
    m1 = m1
    m2 = m2
    d1 = d1
    d2 = d2
    f1 = f1
    f2 = f2
    f3 = f3
    e1 = e1
    e2 = e2
    c1 = c1
    c2 = c2
    NoForm = NoForm
    NoEvent = NoEvent
    NoContext = NoContext
    PriorAlpha = 1
    PriorBeta = 1
    ExplicitWeight = 4
    CorrectionWeight = 2
    ConfirmationWeight = 2
    RejectionWeight = 3
    AutoConfirm = 80
    Demote = 60
    MinPositiveEvents = 3
    MinDistinctContexts = 2
    MemoryId = {m1}
    DecisionId = {d1}
    Form = {f1, f2}
    ClientEvent = {}
    Context = {c1, c2}
    Start <- OneStart
    TeachVariants <- OneVariant
    TeachScopes = {"global"}
    FeedbackScopes = {"auto", "context"}
    Changes <- StateChanges
    AsrFlags = {FALSE}
    BundleItems <- NoBundle
    MaxEdits = 1
    MaxCandidates = 1
    MaxVersions = 4
SYMMETRY ContextSymmetry
INVARIANT TypeOK
PROPERTIES SuppressionExplicit PromotionEarned DemotionFollowsEvidence ContextRejectionHarmless
