\* Two spans of one transcript with the same surface form and ASR metadata.
SPECIFICATION Spec
CHECK_DEADLOCK FALSE
CONSTANTS
    m1 = m1
    m2 = m2
    d1 = d1
    d2 = d2
    f1 = f1
    f2 = f2
    f3 = f3
    e1 = e1
    e2 = e2
    c1 = c1
    c2 = c2
    NoForm = NoForm
    NoEvent = NoEvent
    NoContext = NoContext
    PriorAlpha = 1
    PriorBeta = 1
    ExplicitWeight = 4
    CorrectionWeight = 2
    ConfirmationWeight = 2
    RejectionWeight = 3
    AutoConfirm = 80
    Demote = 60
    MinPositiveEvents = 3
    MinDistinctContexts = 2
    MemoryId = {m1}
    DecisionId = {d1}
    Form = {f1, f2}
    ClientEvent = {}
    Context = {NoContext}
    Start <- Starts
    TeachVariants <- OneVariant
    TeachScopes = {"global"}
    FeedbackScopes = {"auto"}
    Changes <- NoChanges
    AsrFlags = {TRUE}
    BundleItems <- NoBundle
    MaxEdits = 0
    MaxCandidates = 2
    MaxVersions = 4
INVARIANT FeedbackNeverFails
