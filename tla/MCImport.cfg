\* One bundle sent twice, with overlaps, interruptions and edits in between.
SPECIFICATION Spec
CHECK_DEADLOCK FALSE
CONSTANTS
    f1 = f1
    f2 = f2
    f3 = f3
    NoForm = NoForm
    NoEvent = NoEvent
    NoContext = NoContext
    NoMemory = NoMemory
    PriorAlpha = 1
    PriorBeta = 1
    ExplicitWeight = 4
    CorrectionWeight = 2
    ConfirmationWeight = 2
    RejectionWeight = 3
    AutoConfirm = 80
    Demote = 60
    MinPositiveEvents = 3
    MinDistinctContexts = 2
    MemoryId = {1, 2, 3, 4}
    DecisionId = {}
    Form = {f1, f2, f3}
    ClientEvent = {1, 2}
    Context = {}
    Start <- Starts
    Attempt = {1, 2}
    Modes = {"merge", "replace"}
    Bundles <- SmallBundles
    Edits <- SmallEdits
    MaxEdits = 1
INVARIANTS ReplacedByPrefix
PROPERTIES LedgerKept RestoredEntriesStay OnlyInterruptedEntriesDiffer ImportsEnd
