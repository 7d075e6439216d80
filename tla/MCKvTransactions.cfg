SPECIFICATION MCSpec
CONSTANTS
    c1 = c1
    c2 = c2
    e1 = e1
    e2 = e2
    None = None
    Partial = Partial
    Controller = {c1, c2}
    Config <- Looping
    Candidate = {"plain", "sized", "foreign"}
    Contract = {"raw", "packed"}
    MaxEpoch = 1
    Execution = {e1, e2}
    StateId = {"resident", "recomputed"}
    MaxGeneration = 2
    MaxSequence = 2
    Declared = {"raw", "packed"}
    Admitted = {"reencode", "reinterpret"}
    Drafts <- SomeDrafts
    Strangers <- SomeStrangers
    Measure <- SomeMeasures
    Odd <- SomeOdd
    Keys <- SomeKeys
    PageId = {1, 2}
    LastEpoch = 2
    MaxExact = 4
    MaxAge = 1
    MaxTokens = 1
SYMMETRY Alike
CHECK_DEADLOCK FALSE
INVARIANTS
    UndisturbedIsAtomic
    EvidenceIsTrue
    PlanningIsTrue
PROPERTIES
    FrontierIsJustified
    ImplementsVersionedState
