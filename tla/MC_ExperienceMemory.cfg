SPECIFICATION Spec
CONSTANTS
  red = red
  blue = blue
  drift = drift
  jam = jam
  NoActor = NoActor
  Actors = {red, blue}
  Signals = {drift, jam}
  Observations <- MCObservations
  TopK = 4
  PageSize = 4
  MaxMisread = 1
  Faults = {"failed_call", "refused_call", "crash"}
INVARIANTS
  ClearedStaysClosed
  QueuedIsRevoked
PROPERTIES
  OnlyConfirmationUndoes
