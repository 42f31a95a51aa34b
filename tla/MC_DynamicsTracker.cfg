SPECIFICATION Spec
SYMMETRY Symmetry
CONSTANTS
  gcs = gcs
  c2 = c2
  relay = relay
  uav = uav
  spoof = spoof
  Assets = {gcs, c2, relay, uav}
  Scenarios = {spoof}
  Upstream = {gcs, c2, relay}
  Retention = 2
  Window = 1
  MaxEntries = 2
  Minute = 2
  Horizon = 5
INVARIANTS
  DwellIsActivity
  LateralIsUpstreamActive
