\* Builders called in any order, and kernel candidates offered in any order.
CONSTANTS
    SpecOffer <- SpecOffers
    GroupOffer <- GroupOffers
    AdviceOffer <- AdviceOffers
    Advised <- AdvisedSpec
    Known <- KnownResources
    MaxDeclared <- Calls
    Begun <- Begins
    MaxResources = 2
    MaxConstraints = 1
    MaxHints = 2
    MaxMembers = 3
    MaxDependencies = 4
    MaxListed = 2
    MaxReservations = 2
    MaxBytes = 7
    MaxDepth = 2
    Fast = 4
    WordBits = 2
    MaxNodes = 7
    MaxVariables = 3
    MaxAssignments = 27
    MaxTerms = 3
    MaxSum = 20
    Offerable <- Candidates
    Setting <- Settings
    MaxProduct = 8
    Direction <- Directions
    MaxOffers = 3
    FullBps = 4
    MaxProfiles = 3
    MaxExactCapacity = 3
    MaxContractSize = 8
    CapabilityDraft <- Capables
    ProfileDraft <- ProfileLists
    RuleDraft <- RuleLists
    Snapshot <- Snapshots
    Observed <- Observables
    CurrentRank = {3, 4}
    MaxWrites = 5
    Reserved = {9}
    CustomBase = 20
    MaxGroups = 2
    Started <- Starts
    Ready <- Writable
    MaxWritten <- Lengths
    MaxReference = 3
    MaxEvidenceId = 2
    MaxWord = 4
    ReferenceDraft <- References
    BudgetDraft <- TaskBudgets
    EstimateDraft <- TaskEstimates
    InventoryDraft <- Hosts
    CandidateDraft <- CachedItems
    CostDraft <- CostDrafts
    LimitsDraft <- StorageLimits
SPECIFICATION MCSpec
INVARIANTS DeclarationsAreSound HonestSelection
    PlansAreFaithful 
CHECK_DEADLOCK FALSE
