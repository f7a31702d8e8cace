SPECIFICATION Spec
CONSTANTS
  Mutating <- ShippedMutating
  SatisfiedBy <- ShippedSatisfiedBy
  Applicability <- ShippedApplicability
  NoPredicate = "none"
  FloorRules <- ShippedFloor
  Templates <- ShippedTemplates
  AdmissibleRiskClasses <- EveryRisk
  NoProposal <- NoFlow
  NoStageAsked <- NoStage
  Unstated <- MCUnstated
  TypePolicy <- ShippedTypes
  ProfileAccess <- ShippedProfileAccess
  Access <- MCAccess
  Unbounded = "all"
  Escaping = "outside"
  NoIdentity <- NoId
  Obligations <- MCObligations
  DiscoveryPerRun = 2
  DiscoveryPerWorkItem = 3
  Proposals <- OnlyDefect
  WorkflowProposals <- DefectFlow
  Worlds <- OnlyMerged
  Outages <- NoOutage
  Windows <- NoWindows
  Moves <- NoMoves
  MaxMoves = 0
  GapSets <- NoGaps
  Registries <- MCRegistries
  MismatchThreshold = 2
INVARIANT
  ConsistentRealityResumes
CHECK_DEADLOCK FALSE
