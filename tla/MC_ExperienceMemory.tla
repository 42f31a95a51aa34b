------------------------ MODULE MC_ExperienceMemory ------------------------
(***************************************************************************)
(* Two actors, and two signals.  The false positives share an actor, a     *)
(* signal or neither with each of the attacks, one of them has no actor;   *)
(* an attack has no signals, another no judged alert, and one observation  *)
(* is inconclusive.  All records together exceed the cap of a scan, so     *)
(* reviews are cut off as well as whole.  The refused calls that are       *)
(* misread concern any one of the records, any number of times.            *)
(***************************************************************************)
EXTENDS ExperienceMemory

CONSTANTS red, blue, drift, jam

Seen(actor, signals, env, judged) ==
  [actor |-> actor, signals |-> signals, env |-> env, judged |-> judged]

MCObservations ==
  { Seen(red, {drift}, "fp", TRUE),
    Seen(blue, {drift, jam}, "fp", TRUE),
    Seen(NoActor, {drift}, "fp", TRUE),
    Seen(red, {}, "tp", TRUE),
    Seen(blue, {jam}, "tp", TRUE),
    Seen(red, {drift}, "tp", FALSE),
    Seen(red, {drift}, "inconclusive", TRUE) }
=============================================================================
