\* Evaluations of a guard agree, a configuration means what it says, and plans
\* under guards stand while the world moves.
SPECIFICATION MCSpec
CONSTANTS
  MaxDepth = 3
  Fast = 3
  WordBits = 2
  MaxNodes = 7
  MaxVariables = 3
  MaxTerms = 3
  MaxSum = 3
  MaxAssignments = 27
  None = None
  Unconstrained = Unconstrained
  Keys <- MCKeys
  Declared <- MCDeclared
  Cases <- MCCases
  Answers <- MCAnswers
  Samples <- MCSamples
  MaxClock = 1
  MaxEpoch = 1
  MaxGeneration = 1
  Whole = 4
  Unity = 4
  Grain = 4
  GuardSlack = 6
  OperatorSlack = 10
  MaxPredicates = 3
  MaxGuards = 2
  MaxPolicySize = 12
  MaxWritten = 2
  MaxFacts = 3
  MaxCompiled = 2
  Resources <- MCResources
  Controllers <- MCControllers
  Policies <- MCPolicies
  MaxCpu = 4
  MaxExact = 8
  MaxWord = 9
  Kibi = 2
  MaxMoment = 2
  MaxChanges = 2
  ObserverSets <- MCObserverSets
  Hosts <- MCHosts
  Changes <- MCChanges
  Evaluators <- MCEvaluators
INVARIANTS
  EvaluatorsAgree
  AnalysisHolds
  ConstraintIsExact
  ConfigurationMeansWhatItSays
  LoopSettles
  FactsAreOfTheHost
  PlanIsSound
  TraceStands
CHECK_DEADLOCK FALSE
