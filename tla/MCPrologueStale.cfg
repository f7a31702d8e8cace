SPECIFICATION Spec
CONSTANTS
  Mutating <- ShippedMutating
  SatisfiedBy <- ShippedSatisfiedBy
  Applicability <- ShippedApplicability
  NoPredicate = "none"
  FloorRules <- ShippedFloor
  Templates <- ShippedTemplates
  AdmissibleRiskClasses <- EveryRisk
  NoProposal <- NoFlow
  NoStageAsked <- NoStage
  Unstated <- MCUnstated
  TypePolicy <- ShippedTypes
  ProfileAccess <- ShippedProfileAccess
  Access <- MCAccess
  Unbounded = "all"
  Escaping = "outside"
  NoIdentity <- NoId
  Obligations <- MCObligations
  DiscoveryPerRun = 2
  DiscoveryPerWorkItem = 3
  Proposals <- OnlyDefect
  WorkflowProposals <- DefectFlow
  Worlds <- MergedMeanwhile
  Outages <- HostOutages
  Windows <- MCWindows
  Moves <- MergeMeanwhile
  MaxMoves = 1
  GapSets <- NoGaps
  Registries <- MCRegistries
  MismatchThreshold = 2
INVARIANT
  StaleDecidesNothing
CHECK_DEADLOCK FALSE
