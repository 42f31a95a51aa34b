-------------------------- MODULE MC_ActorProfile --------------------------
(***************************************************************************)
(* Two actors, of which the second does one thing only, and two            *)
(* techniques.  Predictions need one precedent and live for two alerts; a  *)
(* chain keeps four steps and an engagement the ids of two alerts, so the  *)
(* third one pushes out the first.                                         *)
(***************************************************************************)
EXTENDS ActorProfile

CONSTANTS red, blue, scan, spoof, i1, i2, i3, isolate

Attack(id, actor, techs) ==
  [id |-> id, actor |-> actor, techs |-> techs, playbook |-> NoPlaybook,
   mission |-> TRUE, reoccurred |-> FALSE, canary |-> FALSE, quiet |-> FALSE]

Touch(o) == [o EXCEPT !.canary = TRUE]

MCObservations ==
  { Attack(i1, red, <<scan>>),
    Touch(Attack(i2, red, <<spoof>>)),
    Touch([Attack(i3, red, <<scan, spoof>>) EXCEPT !.mission = FALSE]),
    Touch([Attack(i1, red, <<>>) EXCEPT !.playbook = isolate, !.reoccurred = TRUE]),
    Touch([Attack(NoId, blue, <<scan>>) EXCEPT !.playbook = isolate]),
    [Attack(i2, red, <<spoof>>) EXCEPT !.playbook = isolate, !.mission = FALSE],
    [Attack(i1, blue, <<scan>>) EXCEPT !.playbook = isolate, !.mission = FALSE, !.quiet = TRUE],
    Attack(i1, NoActor, <<scan>>) }
=============================================================================
