SPECIFICATION FairSpec
CONSTANTS
  GraphStages <- MCGraphStages
  NoStage = "no_stage"
  Edges <- MCEdges
  Conditions <- MCConditions
  Counters <- MCNone
  NoCounter = "no_counter"
  RunLoopCap <- MCNoCaps
  WorkItemLoopCap <- MCNoCaps
  DispatchRetries = 5
  ModelEscalations = 1
  OwedBy <- MCOwedBy
  Profile <- MCProfile
  Critical <- MCCritical
  NotApplicableDefault <- MCNone
  NoVerdict = "no_verdict"
  Nobody = "nobody"
  WorkItems = {"w1"}
  MayReturn <- MCMayReturn
  PrologueCriteria <- MCNone
  Costs <- MCCosts
  DispatchesPerRun = 4
  DispatchesPerWorkItem = 7
  RunUsd = 5
  WorkItemUsd = 5
  ReresolutionCap = 1
  SafePrefixes <- MCPrefixes
  MaxRuns = 1
CHECK_DEADLOCK FALSE
PROPERTY
  RunEnds
INVARIANT
  CostOvershootIsOneDispatch
