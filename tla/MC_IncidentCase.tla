--------------------------- MODULE MC_IncidentCase ---------------------------
(***************************************************************************)
(* One actor and two fingerprints: three possible cases for a store of     *)
(* two, so that eviction, folding and reopening all meet.  Every alert     *)
(* comes through the hot path without an actor and is later observed with  *)
(* actor1; alerts 1 and 2 share a fingerprint, alert 3 has another and is *)
(* a DoS.  The last three alerts have no id, or bind to no case.           *)
(***************************************************************************)
EXTENDS IncidentCase

CONSTANTS actor1, fpA, fpB, alert1, alert2, alert3

AlertOf(id, actor, fp, stage, dos) ==
  [id |-> id, actor |-> actor, fp |-> fp, stage |-> stage, dos |-> dos]

MCAlerts ==
  { AlertOf(alert1, NoActor, fpA, 1, FALSE),  AlertOf(alert1, actor1, fpA, 1, FALSE),
    AlertOf(alert2, NoActor, fpA, 11, FALSE), AlertOf(alert2, actor1, fpA, 11, FALSE),
    AlertOf(alert3, NoActor, fpB, 11, FALSE), AlertOf(alert3, actor1, fpB, 11, TRUE),
    AlertOf(NoId, actor1, fpB, 0, FALSE),
    AlertOf(alert1, Blank, fpA, 1, FALSE),    AlertOf(alert2, NoActor, EmptyFp, 0, FALSE) }
=============================================================================
