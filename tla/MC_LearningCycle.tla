-------------------------- MODULE MC_LearningCycle --------------------------
(***************************************************************************)
(* Two feeds and two techniques, of which one may come at a time: what a   *)
(* feed brings goes in or is held back, and the feeds share techniques or  *)
(* not.  The catalogue is a list, which the patch tool expects, or a       *)
(* mapping, as shipped.  The model's draft passes the validator or not.    *)
(***************************************************************************)
EXTENDS LearningCycle

MCFeeds == <<"attack", "atlas">>

Answer(blocked) ==
  [block |-> TRUE, empty |-> FALSE, too_long |-> FALSE, piped |-> TRUE,
   command |-> FALSE, blocked |-> blocked]

MCAnswers == {Answer({}), Answer({"externaldata"})}
=============================================================================
