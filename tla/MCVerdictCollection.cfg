SPECIFICATION CollectionSpec
CONSTANTS
  GraphStages <- MCGraphStages
  OwedBy <- MCOwedBy
  Profile <- MCProfile
  Critical <- MCCritical
  NotApplicableDefault <- MCNotApplicableDefault
  PrologueCriteria <- MCPrologue
  NoStage = "no_stage"
  NoVerdict = "no_verdict"
INVARIANTS
  CollectedTyped
  RouteBackCanHelp
  IncompleteNamesAStage
PROPERTY
  ImprovingNeverUndoes
