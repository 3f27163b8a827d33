\* Two memories, two models, a cap of two vectors per polarity.  Restarts are
\* always possible, hence no state without a successor.
SPECIFICATION Spec
CONSTANTS
    m1 = m1
    m2 = m2
    c1 = c1
    c2 = c2
    c3 = c3
    modelA = modelA
    modelB = modelB
    Memory = {m1, m2}
    Model = {modelA, modelB}
    ModelRank <- Names
    Context = {c1, c2, c3}
    Rank <- Hashes
    NoContext = NoContext
    Distance <- Distances
    Cap = 2
    Idle = Idle
    Evidence <- SomeEvidence
    MaxObservations = 4
INVARIANTS EvidenceAttributed
PROPERTIES CapRestored EvictionKeepsSpread ActiveModelFirst SelectionEnds
