CONSTANTS
    runner = runner
    guard = guard
    Controller = {runner, guard}
    Guarded = {guard}
    None = None
    Broken = Broken
    Candidate <- Profiles
    Rank <- Profiles
    Load <- Loads
    Select <- SelectFirst
    Live <- LiveSwitches
    Config <- MCConfig
    MaxEpoch = 3
SPECIFICATION Spec
INVARIANTS
    SlotFollowsTransaction
    SoleEvidenceIsTrue
PROPERTIES
    MovesAreLiveCommits
    EveryCallReturns
CHECK_DEADLOCK FALSE
