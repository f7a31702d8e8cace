SPECIFICATION Spec
CONSTANTS
  Recoverers = {v1, v2}
  v1 = v1
  v2 = v2
  Stages <- MCStages
  Settings <- MCSettings
SYMMETRY MCSymmetry
CHECK_DEADLOCK FALSE
INVARIANTS
  TypeOK
  NoCorruptLine
  SeqsAscend
  IntentBeforeEffect
  LogTellsTheRun
  VerdictCoversAnswered
  RecoveryIsRepeatable
PROPERTY
  ImplementsAppendOnlyLog
