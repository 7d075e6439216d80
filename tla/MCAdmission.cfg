\* Loops over clones of one handle, and admission controllers beside a loop.
SPECIFICATION MCSpec
CONSTANTS
    a1 = a1
    c1 = c1
    c2 = c2
    Controller <- Controllers
    Admitting <- Admitters
    Config <- Configs
    Candidate = {1, 2, 3, 4}
    None = None
    MaxSize = 3
    MinSize = 1
    MaxStep = 1
    Request <- Requests
    MaxExact = 5
    MaxCalls = 2
INVARIANTS HoldersFit RollbackAdmitted AdmissionIsExact ReportIsHonest
PROPERTY EveryoneEnds
CHECK_DEADLOCK FALSE
