--------------------------- MODULE MC_SocPipeline ---------------------------
(***************************************************************************)
(* The shipped policy, and two runs: the first alert is one of four, the   *)
(* second is the same with signals added.  The playbook of "supply" has    *)
(* two gates in a row, that of "flood" a loop, "noise" has no playbook,    *)
(* and "jam" only a runbook that requires approval.                        *)
(***************************************************************************)
EXTENDS SocPipeline

CONSTANTS first, second

MCScenarios == {"supply", "flood", "noise", "jam"}
MCAssets == {"GCS", "C2_LINK", "TELEMETRY"}
MCTiers == {"T1", "T3"}
MCPhases == {"ingress", "on-station", "recovery"}

MCTierModifier == [t \in MCTiers |-> IF t = "T3" THEN -1 ELSE 0]
MCPhaseModifier ==
  [p \in MCPhases |-> IF p = "ingress" THEN 1 ELSE IF p = "recovery" THEN -1 ELSE 0]
MCPostureModifier == [p \in 0..2 |-> IF p = 0 THEN 0 ELSE 1]
MCEscalateBy == [r \in {"dwelling", "prediction_match", "kill_chain_advanced",
                        "decoy_hit", "key_terrain"} |-> 1]
MCTierWeight == [t \in MCTiers |-> IF t = "T1" THEN 4 ELSE 1]
MCKeyPhases ==
  [x \in MCAssets |-> IF x = "TELEMETRY" THEN {}
                      ELSE IF x = "GCS" THEN MCPhases ELSE {"ingress"}]
MCDependents == [x \in MCAssets |-> IF x = "C2_LINK" THEN 4 ELSE 0]
MCContinuity ==
  [x \in MCAssets |-> IF x = "GCS" THEN "ABORT" ELSE IF x = "C2_LINK" THEN "MINIMAL" ELSE ""]

NoGate == [score |-> 0, key |-> FALSE, geo |-> FALSE]
Step(type, next) == [type |-> type, next |-> next, yes |-> "", no |-> "", gate |-> NoGate]
Branch(score, key, geo, yes, no) ==
  [type |-> "if-condition", next |-> "", yes |-> yes, no |-> no,
   gate |-> [score |-> score, key |-> key, geo |-> geo]]

MCPlaybooks ==
  LET Book(gate, act) == [start |-> "start", workflow |->
        [s \in {"start", "gate", "act", "end"} |->
           CASE s = "start" -> Step("start", "gate")
             [] s = "gate" -> gate
             [] s = "act" -> act
             [] s = "end" -> Step("end", "")]]
  IN [s \in MCScenarios |->
        CASE s = "supply" -> Book(Branch(5, FALSE, FALSE, "act", "end"),
                                  Branch(6, TRUE, FALSE, "end", "end"))
          [] s = "flood" -> Book(Branch(9, TRUE, FALSE, "end", "act"), Step("action", "start"))
          [] OTHER -> None]

Plain(scenario, asset, tier, phase, baseline) ==
  [scenario |-> scenario, asset |-> asset, tier |-> tier, phase |-> phase,
   baseline |-> baseline, posture |-> 0, dwelling |-> 0, lateral |-> FALSE,
   flags |-> {}, no_effect |-> FALSE, geo |-> FALSE, actor_active |-> FALSE,
   signals |-> TRUE, rule |-> TRUE, ground_truth |-> None, remediation |-> TRUE]

Bases ==
  { Plain("supply", "TELEMETRY", "T3", "on-station", 1),
    Plain("flood", "GCS", "T1", "ingress", 3),
    [Plain("noise", "C2_LINK", "T1", "on-station", 3) EXCEPT !.no_effect = TRUE],
    [Plain("jam", "TELEMETRY", "T3", "recovery", 0) EXCEPT
       !.ground_truth = "tp", !.remediation = FALSE, !.rule = FALSE] }

Worse(x) ==
  { [x EXCEPT !.lateral = TRUE],
    [x EXCEPT !.flags = {"kill_chain_advanced", "decoy_hit"}, !.dwelling = 45,
              !.geo = TRUE, !.posture = 1, !.actor_active = TRUE] }

MCWorkloads ==
  UNION { {[a \in {first, second} |-> IF a = first THEN x ELSE y] : y \in Worse(x)} : x \in Bases }

Graph(hitl, judge, floor, terrain, publisher, surroundings) ==
  [hitl |-> hitl, judge |-> judge, floor |-> floor, terrain |-> terrain,
   publisher |-> publisher, surroundings |-> surroundings]

MCBuilds ==
  { Graph(TRUE, "default", 0, TRUE, FALSE, FALSE), Graph(TRUE, "ensemble", 2, FALSE, TRUE, FALSE),
    Graph(FALSE, "signal", 1, TRUE, FALSE, TRUE) }
=============================================================================
