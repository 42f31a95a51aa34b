SPECIFICATION Spec
CONSTANTS
  vehicle = vehicle
  link = link
  hash = hash
  unregistered = unregistered
  Assets = {vehicle, link, unregistered}
  DependsOn <- MCDependsOn
  Iocs = {hash}
  WindowSec = 1
  StormCount = 3
  MultiAxisAssets = 2
  ClusterMin = 2
  MaxAlerts = 4
  MaxGap = 2
INVARIANTS
  ArmedIsNotStarved
  ClusterIsSemantic
PROPERTIES
  ReportedOncePerSpell
