SPECIFICATION BridgeSpec
CONSTANTS
  CorrWindow = 4
  RearmAfter = 2
  EphJump = 1
  Ephs <- MCEphs
  OutcomeWindow = 4
  EffectMin = 2
  MinObservations = 4
  RecordsPerMinute = 2
  MinWindowForFp = 2
  NoEph = NoEph
  MaxAlerts = 2
INVARIANTS
  CorrelatedIsCaught
  OneOutcomePerAlert
  ForgivenIsQuiet
PROPERTIES
  OutcomeArrives
CHECK_DEADLOCK FALSE
