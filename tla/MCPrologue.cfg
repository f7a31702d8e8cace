SPECIFICATION Spec
CONSTANTS
  Mutating <- ShippedMutating
  SatisfiedBy <- ShippedSatisfiedBy
  Applicability <- ShippedApplicability
  NoPredicate = "none"
  FloorRules <- ShippedFloor
  Templates <- ShippedTemplates
  AdmissibleRiskClasses <- EveryRisk
  NoProposal <- NoFlow
  NoStageAsked <- NoStage
  Unstated <- MCUnstated
  TypePolicy <- ShippedTypes
  ProfileAccess <- ShippedProfileAccess
  Access <- MCAccess
  Unbounded = "all"
  Escaping = "outside"
  NoIdentity <- NoId
  Obligations <- MCObligations
  DiscoveryPerRun = 2
  DiscoveryPerWorkItem = 3
  Proposals <- MCProposals
  WorkflowProposals <- MCWorkflows
  Worlds <- MCWorlds
  Outages <- MCOutages
  Windows <- MCWindows
  Moves <- MCMoves
  MaxMoves = 1
  GapSets <- MCGapSets
  Registries <- MCRegistries
  MismatchThreshold = 2
INVARIANTS
  UrgentReadingReachesAHuman
  ResumptionSkipsNoMutation
  FrozenGraphIsSound
CHECK_DEADLOCK FALSE
