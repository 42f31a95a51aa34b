CONSTANTS
  None = None
  Indicators <- MCIndicators
  Kind <- MCKind
  Normal <- MCNormal
  Alerts <- MCAlerts
  Input <- MCInput
  Retrievals <- MCRetrievals
  Services <- MCServices
  Bodies <- MCBodies
  Reports <- MCReports
  Catalogues <- MCCatalogues
  Metrics <- MCMetrics
  Setting <- MCSetting
  Analyses <- MCAnalyses
  Cap = 2
  Cell <- MCCell
  Degree <- MCDegree
  Near <- MCNear
  Levels <- MCLevels
  Skies <- MCSkies
  TTL = 2
  JamTTL = 2
  MaxClock = 2
SPECIFICATION InvestigationSpec
INVARIANTS
  EgressIsBounded
  FetchedOnce
PROPERTIES
  HeardCounts
  InvestigationEnds
