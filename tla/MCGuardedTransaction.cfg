SPECIFICATION MCSpec
CONSTANTS
    Boundary = {"thermal", "batch", "kernel"}
    p = p
    q = q
    Declared = {p, q}
    Rank <- Ranking
    MaxAge = 1
    MaxTime = 2
    MaxCalls = 2
    Loop = Loop
    Controller = {Loop}
    Candidate = {1, 2}
    Config <- RunConfigs
    Flavors = {"plain", "forecast", "model"}
    None = None
INVARIANTS
    ReportIsTrue
    CarriedOutIsChosen
    TrailTellsTheRun
    EvidenceStands
    PreflightIsExact
PROPERTIES
    ActsInTime
