SPECIFICATION Spec
CONSTANTS
  red = red
  blue = blue
  scan = scan
  spoof = spoof
  i1 = i1
  i2 = i2
  i3 = i3
  isolate = isolate
  Actors = {red, blue}
  NoActor = NoActor
  Ids = {i1, i2, i3}
  NoId = NoId
  Techniques = {scan, spoof}
  Playbooks = {isolate}
  NoPlaybook = NoPlaybook
  Observations <- MCObservations
  ChainCap = 4
  SeenCap = 2
  TTL = 2
  MinSupport = 1
  Faults = {"load", "write"}
  MaxPolls = 6
INVARIANTS
  PredictionsConserved
PROPERTIES
  FlaggedThenHit
  PredictedFromLastSteps
