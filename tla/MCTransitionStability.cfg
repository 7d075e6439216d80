SPECIFICATION Spec
CONSTANTS
    MaxAge = 2
    Cooldown = 2
    Window = 3
    MaxCommits = 2
    MaxTime = 4
    MaxPermits = 2
    MaxGeneration = 3
INVARIANTS
    RateKept
    CooldownKept
    HysteresisKept
