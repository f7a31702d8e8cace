\* One retry of a failed dispatch, two calls at once, one change of the world.
SPECIFICATION Spec
CONSTANTS
  GraphStages <- MCGraphStages
  NoStage = NoStage
  Edges <- MCEdges
  Conditions <- MCNone
  Counters <- MCNone
  NoCounter = NoCounter
  RunLoopCap <- MCNoCaps
  WorkItemLoopCap <- MCNoCaps
  DispatchRetries = 1
  ModelEscalations = 1
  Tools <- MCTools
  SpawnNames <- MCSpawnNames
  SpawnFragments <- MCSpawnFragments
  NoTool = NoTool
  RolePolicy <- MCRolePolicy
  SampleShare = 5
  SampleMinimum = 1
  MismatchThreshold = 2
  AuthorizationThreshold = 1
  ContextFloor <- MCContextFloor
  AdapterDomains <- MCAdapterDomains
  AdapterTargets <- MCAdapterTargets
  StageDomains <- MCStageDomains
  RoleSpecs <- MCRoleSpecs
  Roles <- MCRoles
  Criteria <- MCCriteria
  Descriptors <- MCDescriptors
  Slots = {s1, s2}
  Operations <- MCOperations
  Registries <- MCRegistries
  Skills <- MCSkills
  Surfaces <- MCSurfaces
  Shapes <- MCShapes
  Touches <- MCTouches
  Refusals <- MCRefusals
  World <- MCWorld
  Changes <- MCChanges
  MaxChanges = 1
INVARIANTS
  CallsAreAsserted
  CoverageIsItsOwn
  NoEnvelopeOfViolation
PROPERTIES
  DispatchesConclude
CHECK_DEADLOCK FALSE
