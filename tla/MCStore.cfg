\* Two memories, two forms: client event ids, renames and imports, or decisions
\* with ASR metadata; merged and deleted in both.
SPECIFICATION Spec
CHECK_DEADLOCK FALSE
CONSTANTS
    m1 = m1
    m2 = m2
    d1 = d1
    d2 = d2
    f1 = f1
    f2 = f2
    f3 = f3
    e1 = e1
    e2 = e2
    c1 = c1
    c2 = c2
    NoForm = NoForm
    NoEvent = NoEvent
    NoContext = NoContext
    PriorAlpha = 1
    PriorBeta = 1
    ExplicitWeight = 4
    CorrectionWeight = 2
    ConfirmationWeight = 2
    RejectionWeight = 3
    AutoConfirm = 80
    Demote = 60
    MinPositiveEvents = 3
    MinDistinctContexts = 2
    MemoryId = {m1, m2}
    DecisionId = {d1}
    Form = {f1, f2}
    ClientEvent = {e1}
    Context = {NoContext}
    Start <- Starts
    TeachVariants <- OneVariant
    TeachScopes = {"global"}
    FeedbackScopes = {"auto"}
    Changes <- ManualRenames
    AsrFlags = {TRUE}
    BundleItems <- OneItem
    MaxEdits = 2
    MaxCandidates = 2
    MaxVersions = 3
CONSTRAINT OneMix
SYMMETRY StoreSymmetry
INVARIANTS CanonicalsUnique HistoryComplete OutcomesAttributed
PROPERTY LedgerKept
