CONSTANTS
    runner = runner
    guard = guard
    Controller = {runner, guard}
    Guarded = {guard}
    None = None
    Broken = Broken
    Candidate <- Profiles
    Rank <- Profiles
    Load <- Loads
    Select <- SelectFirst
    Live <- LiveSwitches
    Config <- MCConfig
    MaxEpoch = 3
SPECIFICATION Spec
INVARIANT RollbackEvidenceIsTrue

CHECK_DEADLOCK FALSE
