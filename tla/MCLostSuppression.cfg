\* A correction loads a candidate, a suppression commits, the correction commits.
SPECIFICATION Spec
CHECK_DEADLOCK FALSE
CONSTANTS
    m1 = m1
    m2 = m2
    d1 = d1
    d2 = d2
    f1 = f1
    f2 = f2
    e1 = e1
    c1 = c1
    c2 = c2
    NoForm = NoForm
    NoEvent = NoEvent
    NoContext = NoContext
    PriorAlpha = 1
    PriorBeta = 1
    ExplicitWeight = 4
    CorrectionWeight = 2
    ConfirmationWeight = 2
    RejectionWeight = 3
    AutoConfirm = 80
    Demote = 60
    MinPositiveEvents = 3
    MinDistinctContexts = 2
    w1 = w1
    w2 = w2
    Worker = {w1, w2}
    MemoryId = {m1}
    DecisionId = {d1, d2}
    Form = {f1, f2}
    ClientEvent = {e1}
    Context = {c1, c2}
    Start <- Starts
    Requests <- Judging
    MaxVersions = 4
SYMMETRY Symmetry
PROPERTY SuppressionExplicit
