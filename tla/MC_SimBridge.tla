---------------------------- MODULE MC_SimBridge ----------------------------
(***************************************************************************)
(* Two alerts, a window longer than the calm that rearms the detector, so  *)
(* that two windows overlap, and Eph that jumps, falls or is missing.      *)
(***************************************************************************)
EXTENDS SimBridge

MCEphs == {0, 1}
=============================================================================
