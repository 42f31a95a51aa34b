SPECIFICATION Spec
CONSTANTS
  clean = clean
  leaky = leaky
  blind = blind
  None = None
  First = leaky
  Results <- MCResults
  Gaps <- MCGaps
  SloRules <- MCSloRules
  Controls <- MCControls
  Floor = 800
  Approved <- MCApproved
  Missing = Missing
  Branches = {"hotfix"}
  Entries = {"unsolved", "note"}
  Labels = {"ko_fatal"}
  MaxCommits = 3
INVARIANTS
  ProductionPassedItsGates
  RelapseIsCritical
  GateAndMetricsAgree
