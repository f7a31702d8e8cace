SPECIFICATION Spec
CONSTANTS
  GraphStages <- MCGraphStages
  NoStage = "no_stage"
  Edges <- MCEdges
  Conditions <- MCConditions
  Counters <- MCCounters
  NoCounter = "no_counter"
  RunLoopCap <- MCOneCap
  WorkItemLoopCap <- MCOneCap
  DispatchRetries = 1
  ModelEscalations = 0
  OwedBy <- MCOwedBy
  Profile <- MCProfile
  Critical <- MCCritical
  NotApplicableDefault <- MCNone
  NoVerdict = "no_verdict"
  Nobody = "nobody"
  WorkItems = {"w1"}
  MayReturn <- MCMayReturn
  PrologueCriteria <- MCNone
  Costs <- MCFree
  DispatchesPerRun = 5
  DispatchesPerWorkItem = 7
  RunUsd = 1
  WorkItemUsd = 1
  ReresolutionCap = 1
  SafePrefixes <- MCNoPrefix
  MaxRuns = 2
CHECK_DEADLOCK FALSE
INVARIANTS
  TypeOK
  LoopCapsHold
  DispatchCapsHold
  CompleteIsEarned
  ValidatedSinceLastChange
  ReresolutionCapHolds
PROPERTIES
  ConsumptionNeverRefunded
  ImplementsRunLifecycle
