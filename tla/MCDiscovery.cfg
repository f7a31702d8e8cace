SPECIFICATION Spec
CONSTANTS
  Initially <- MCWorlds
  Changed <- MCChanged
  Worlds <- MCWorldsAfter
  Inputs <- MCInputs
  Targets <- MCTargets
  Elsewhere <- MCElsewhere
  ChangesBefore <- MCChangesBefore
  MaxVersions = 3
  MaxChanges = 1
INVARIANTS
  FactsAreTrue
  AskedIsSeenAnew
PROPERTIES
  PromotionsNeedEvidence
CHECK_DEADLOCK FALSE
