SPECIFICATION Spec
CONSTANTS
  Calls = {c1, c2}
  c1 = c1
  c2 = c2
  Requests <- MCRequests
  MaxCalls = 4
  MaxDispatches = 2
  MaxLive = 2
  MaxCrashes = 1
  MaxAggregated = 2
SYMMETRY MCSymmetry
CHECK_DEADLOCK FALSE
INVARIANTS
  OneEffectPerKey
  NothingPerformedSilently
  CallsConserved
  ReplayNeverMutates
