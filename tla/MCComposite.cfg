SPECIFICATION FairSpec
CONSTANTS
    r1 = r1
    r2 = r2
    r3 = r3
    b1 = b1
    b2 = b2
    b3 = b3
    b4 = b4
    Torn = Torn
    None = None
    Resource = {r1, r2, r3}
    Backend = {b1, b2, b3, b4}
    Serves <- ChainServes
    Order <- ChainOrder
    MaxAttempt = 2
INVARIANTS
    NothingLeaks
PROPERTIES
    OnlyBoundInstances
    DependentsFirst
    ImplementsAtomicGroup
    CallReturns
