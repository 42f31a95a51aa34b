------------------------- MODULE MC_DynamicsTracker -------------------------
(***************************************************************************)
(* Three upstream assets and a vehicle, one scenario, and room for two     *)
(* entries, so that both dictionaries overflow.  The clock runs long       *)
(* enough for an activity of twice the retention and for a second one      *)
(* after a silence.                                                        *)
(***************************************************************************)
EXTENDS DynamicsTracker, TLC

CONSTANTS gcs, c2, relay, uav, spoof

Symmetry == Permutations({gcs, c2, relay})
=============================================================================
