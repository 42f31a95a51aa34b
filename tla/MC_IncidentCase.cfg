SPECIFICATION Spec
CONSTANTS
  actor1 = actor1
  fpA = fpA
  fpB = fpB
  alert1 = alert1
  alert2 = alert2
  alert3 = alert3
  NoActor = NoActor
  Blank = Blank
  EmptyFp = EmptyFp
  NoId = NoId
  NoCase = NoCase
  Actors = {actor1}
  Fingerprints = {fpA, fpB}
  AlertIds = {alert1, alert2, alert3}
  Alerts <- MCAlerts
  StoreCap = 2
  MemberCap = 2
  MaxReopen = 1
INVARIANTS
  ContainedIffConfirmed
  ReportableIsCounted
PROPERTIES
  NothingLostSilently
  ReopenNeedsNewAlert
  ImplementsLifecycle
