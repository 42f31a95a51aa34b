----------------------------- MODULE SocPipeline -----------------------------
(***************************************************************************)
(* The graph an alert runs through (agents/graph.py), its nodes, and the   *)
(* operator who answers at the approval gate:                              *)
(*                                                                         *)
(*   triage -> investigation -> validation -> [approval ->] response       *)
(*                                        \-> rule_update     \-> report   *)
(*                                                                         *)
(* One step is one node of one alert's run; runs interleave, and a run     *)
(* that waits for its operator is kept by an in-memory checkpointer only,  *)
(* so a restart of the process drops it.  The severity, the mission risk   *)
(* and the playbooks are those of Severity.                                *)
(*                                                                         *)
(* The read-only active_hunt node, the summary, the confidence and the     *)
(* texts of response and report are left out; what report does to the      *)
(* incident case is IncidentCase, what the enrichers remember is           *)
(* DynamicsTracker, where the recalled experience comes from is            *)
(* ExperienceMemory.                                                       *)
(***************************************************************************)
EXTENDS Severity

CONSTANTS
  Alerts,            \* alert ids, one run each
  Workloads,         \* the alerts the runs may start with
  Builds,            \* the graphs build_soc_graph may have compiled
  RunbookRequired,   \* scenarios whose runbook has approval.required
  Continuity,        \* degradation matrix: the level of each damaged asset
  MinAlertsPriority, \* mett_tc.priority_delta_min
  PriorityCap,       \* mett_tc.priority_delta_cap, clamped to at least 0
  HitlThreshold,     \* mett_tc.hitl_force_threshold
  MaxRestarts        \* bound: restarts of the process

Judges == {"default", "signal", "ensemble"}

\* hitl: with the approval node; floor: the posture of the global CPCON level;
\* terrain: the terrain file was readable; publisher: one was injected;
\* surroundings: the services for jamming or for the airspace are wired.
Build == [hitl : BOOLEAN, judge : Judges, floor : Postures, terrain : BOOLEAN,
          publisher : BOOLEAN, surroundings : BOOLEAN]

\* No caller of the graph sets key_terrain (core/alert.py keeps it off the
\* wire): the graph drops a cleared flag when nothing else of the alert changed.
Submitted == {x \in Alert : "key_terrain" \notin x.flags}

ASSUME PipelineAssumption ==
  /\ Workloads \subseteq [Alerts -> Submitted]
  /\ Builds \subseteq Build
  /\ RunbookRequired \subseteq Scenarios
  /\ MinAlertsPriority \in Nat /\ PriorityCap \in Nat
  /\ HitlThreshold \in Int
  /\ MaxRestarts \in Nat

Approval == [required : BOOLEAN, approved : BOOLEAN]

ASSUME NoneIsNoApproval == None \notin Approval

\* None is no mission risk either.
ASSUME NoneIsNoRisk == None \notin [score : Nat, key : BOOLEAN, geo : 0..1]

VARIABLES
  build,     \* the compiled graph
  node,      \* the node each run executes next
  alert,     \* SOCState, one variable for each key that decides something
  severity, priority, risk, inv, verdict, approval, response, pr,
  restarts,
  (* history, which no action reads *)
  answer     \* what the operator of a run replied

triaged == <<severity, priority, risk>>
judged == <<inv, verdict>>
vars == <<build, node, alert, triaged, judged, approval, response, pr, restarts, answer>>

Nodes == {"triage", "investigation", "validation", "approval", "response",
          "rule_update", "report"}

Underway(a) == node[a] \in Nodes

\* What a caller may pass to Command(resume=...), bare or as the "approved" of
\* a dict: True; False, an empty value or a dict without the field; or words,
\* a number and the like.  agrees is what the operator meant by it.
Answers ==
  {raw \in [value : {"true", "empty", "words"}, agrees : BOOLEAN] :
     raw.value # "words" => (raw.agrees <=> raw.value = "true")}

ASSUME NoneIsNoAnswer == None \notin Answers

\* What the lookups come to, for the judges: similar cases or experience
\* recalled, else a jammer or a hostile aircraft nearby.  A suppression
\* outweighs them all.
Findings == {"nothing", "surroundings", "recalled", "suppressed"}

-----------------------------------------------------------------------------
(* Triage. *)

Enriched(x) ==
  LET stamped == StampPosture(x, build.floor)
  IN IF build.terrain THEN StampTerrain(stamped) ELSE stamped

RiskOf(x) == IF build.terrain THEN MissionRisk(x) ELSE None

Raise(p, bands) == IF p - bands < 1 THEN 1 ELSE p - bands

\* Priority 1 is the most urgent; an active actor and the weight of the
\* mission can only move it towards 1.
PriorityOf(x) ==
  LET base == 4 - SeverityOf(x)
      acted == IF x.actor_active THEN Raise(base, 1) ELSE base
      delta == TerrainDependents(x) + CivilGeo(x)
  IN IF build.terrain /\ delta >= MinAlertsPriority THEN Raise(acted, PriorityCap) ELSE acted

Submit(a) ==
  /\ node[a] = "START"
  /\ node' = [node EXCEPT ![a] = "triage"]
  /\ UNCHANGED <<build, alert, triaged, judged, approval, response, pr, restarts, answer>>

\* Mutant: the severity is computed of the alert as it arrived.
TriageBeforeEnrich(a) ==
  /\ node[a] = "triage"
  /\ \E x \in {Enriched(alert[a])} :
        /\ alert' = [alert EXCEPT ![a] = x]
        /\ severity' = [severity EXCEPT ![a] = SeverityOf(alert[a])]
        /\ priority' = [priority EXCEPT ![a] = PriorityOf(alert[a])]
        /\ risk' = [risk EXCEPT ![a] = RiskOf(x)]
  /\ node' = [node EXCEPT ![a] = "investigation"]
  /\ UNCHANGED <<build, judged, approval, response, pr, restarts, answer>>

Triage(a) ==
  /\ node[a] = "triage"
  /\ \E x \in {Enriched(alert[a])} :
        /\ alert' = [alert EXCEPT ![a] = x]
        /\ severity' = [severity EXCEPT ![a] = SeverityOf(x)]
        /\ priority' = [priority EXCEPT ![a] = PriorityOf(x)]
        /\ risk' = [risk EXCEPT ![a] = RiskOf(x)]
  /\ node' = [node EXCEPT ![a] = "investigation"]
  /\ UNCHANGED <<build, judged, approval, response, pr, restarts, answer>>

-----------------------------------------------------------------------------
(* Investigation and validation. *)

\* A lookup may fail or run into its deadline, and then finds nothing; an
\* answer about the surroundings that is no JSON raises through the graph.
Investigate(a) ==
  /\ node[a] = "investigation"
  /\ \/ /\ \E found \in Findings :
             /\ found = "surroundings" => build.surroundings
             /\ inv' = [inv EXCEPT ![a] = found]
        /\ node' = [node EXCEPT ![a] = "validation"]
     \/ /\ build.surroundings
        /\ node' = [node EXCEPT ![a] = "raised"]
        /\ UNCHANGED inv
  /\ UNCHANGED <<build, alert, triaged, verdict, approval, response, pr, restarts, answer>>

Detected(a) == alert[a].signals /\ alert[a].rule

\* The scores of the ensemble in hundredths.  Similar cases leave the score of
\* the experience judge where it was; the language model may say anything,
\* and counts as neutral when it fails.
SignalScore(found) == IF found = "recalled" THEN 100 ELSE 50

ExperienceScores(found) == IF found = "recalled" THEN {50, 75} ELSE {50}

LlmScores == {0, 49, 50, 100}

\* The weighted mean, in thousandths.
Composite(signal, llm, experience) == 4 * signal + 3 * llm + 3 * experience

Threshold == 500

Vetoed(a) == ~Detected(a) \/ inv[a] = "suppressed"

EnsembleVerdicts(a) ==
  IF Vetoed(a) THEN {"fp"}
  ELSE {IF Composite(SignalScore(inv[a]), llm, experience) >= Threshold THEN "tp" ELSE "fp" :
          llm \in LlmScores, experience \in ExperienceScores(inv[a])}

\* The verdicts the judge of the build may come to.
Verdicts(a) ==
  CASE build.judge = "default" ->
         IF alert[a].ground_truth # None THEN {alert[a].ground_truth}
         ELSE IF Detected(a) THEN {"tp"} ELSE {"fp"}
    [] build.judge = "signal" ->
         IF Detected(a) /\ inv[a] \in {"surroundings", "recalled"} THEN {"tp"} ELSE {"fp"}
    [] build.judge = "ensemble" -> EnsembleVerdicts(a)

AfterValidation(v) ==
  IF v = "fp" THEN "rule_update" ELSE IF build.hitl THEN "approval" ELSE "response"

Validate(a) ==
  /\ node[a] = "validation"
  /\ \E v \in Verdicts(a) :
        /\ verdict' = [verdict EXCEPT ![a] = v]
        /\ node' = [node EXCEPT ![a] = AfterValidation(v)]
  /\ UNCHANGED <<build, alert, triaged, inv, approval, response, pr, restarts, answer>>

-----------------------------------------------------------------------------
(* The approval gate. *)

PlaybookOf(a) == Playbooks[alert[a].scenario]

MissionForces(a) == risk[a] # None /\ risk[a].score >= HitlThreshold

CacaoForces(a) == PlaybookOf(a) # None /\ RequiresHitl(PlaybookOf(a), risk[a])

RunbookForces(a) == alert[a].scenario \in RunbookRequired

Gated(a) == severity[a] = High \/ MissionForces(a) \/ CacaoForces(a) \/ RunbookForces(a)

\* Whatever is not a bool counts by its truth.
CoerceApproved(raw) == raw.value # "empty"

\* The first execution of the node: it passes, or stops at interrupt().
Approve(a) ==
  /\ node[a] = "approval"
  /\ IF Gated(a)
     THEN /\ node' = [node EXCEPT ![a] = "interrupted"]
          /\ UNCHANGED approval
     ELSE /\ node' = [node EXCEPT ![a] = "response"]
          /\ approval' = [approval EXCEPT ![a] = [required |-> FALSE, approved |-> TRUE]]
  /\ UNCHANGED <<build, alert, triaged, judged, response, pr, restarts, answer>>

\* The operator's answer executes the node once more from its first line.
Resume(a) ==
  /\ node[a] = "interrupted"
  /\ \E raw \in Answers :
        /\ answer' = [answer EXCEPT ![a] = raw]
        /\ approval' = [approval EXCEPT ![a] =
             IF Gated(a) THEN [required |-> TRUE, approved |-> CoerceApproved(raw)]
             ELSE [required |-> FALSE, approved |-> TRUE]]
  /\ node' = [node EXCEPT ![a] = "response"]
  /\ UNCHANGED <<build, alert, triaged, judged, response, pr, restarts>>

-----------------------------------------------------------------------------
(* Response, rule update and report. *)

\* Mutant: any answer counts, once the operator was asked.
WithheldUnlessAsked(a) == approval[a] # None /\ ~approval[a].required /\ ~approval[a].approved

Withheld(a) == approval[a] # None /\ approval[a].required /\ ~approval[a].approved

\* The branch shown to the operator; a playbook that cannot be walked falls
\* back to the one the alert carries.
BranchOf(a) ==
  IF PlaybookOf(a) # None /\ ~Malformed(PlaybookOf(a), risk[a])
  THEN MissionBranch(PlaybookOf(a), risk[a]) ELSE None

OperatorPostures == {"ABORT_SAFE_LAND", "HITL_REQUIRED", "CONTINUE_DEGRADED", "MONITOR_CONTINUE"}

OperatorPosture(a, branch) ==
  LET level == Continuity[alert[a].asset]
  IN IF level = "ABORT" THEN "ABORT_SAFE_LAND"
     ELSE IF MissionForces(a) \/ branch = "conservative" THEN "HITL_REQUIRED"
     ELSE IF level \in {"MINIMAL", "SUSTAINED"} THEN "CONTINUE_DEGRADED"
     ELSE "MONITOR_CONTINUE"

\* auto is the automatic response that the severity allows, or "withheld".
Respond(a) ==
  /\ node[a] = "response"
  /\ response' = [response EXCEPT ![a] =
       [auto |-> IF Withheld(a) THEN "withheld" ELSE "active",
        posture |-> OperatorPosture(a, BranchOf(a))]]
  /\ node' = [node EXCEPT ![a] = "report"]
  /\ UNCHANGED <<build, alert, triaged, judged, approval, pr, restarts, answer>>

Statuses == {"no_remediation", "proposed", "opened", "unchanged", "failed"}

\* Mutant: a publisher that fails leaves the run where it is.
RuleUpdateOrRaise(a) ==
  /\ node[a] = "rule_update"
  /\ pr[a] = None
  /\ \E ok \in BOOLEAN :
        /\ pr' = [pr EXCEPT ![a] = IF ok THEN "opened" ELSE "failed"]
        /\ node' = [node EXCEPT ![a] = IF ok THEN "report" ELSE @]
  /\ UNCHANGED <<build, alert, triaged, judged, approval, response, restarts, answer>>

\* What the publisher raises as its own error does not stop the run; an answer
\* of GitHub that cannot be decoded does, whatever it has published by then.
RuleUpdate(a) ==
  /\ node[a] = "rule_update"
  /\ \/ /\ \E status \in CASE ~alert[a].remediation -> {"no_remediation"}
                           [] alert[a].remediation /\ ~build.publisher -> {"proposed"}
                           [] OTHER -> {"opened", "unchanged", "failed"} :
              pr' = [pr EXCEPT ![a] = status]
        /\ node' = [node EXCEPT ![a] = "report"]
     \/ /\ alert[a].remediation /\ build.publisher
        /\ node' = [node EXCEPT ![a] = "raised"]
        /\ UNCHANGED pr
  /\ UNCHANGED <<build, alert, triaged, judged, approval, response, restarts, answer>>

Report(a) ==
  /\ node[a] = "report"
  /\ node' = [node EXCEPT ![a] = "END"]
  /\ UNCHANGED <<build, alert, triaged, judged, approval, response, pr, restarts, answer>>

\* MemorySaver lives in the process: runs that have not ended are gone, those
\* that wait for an operator included.
Restart ==
  /\ restarts < MaxRestarts
  /\ restarts' = restarts + 1
  /\ node' = [a \in Alerts |-> IF Underway(a) \/ node[a] = "interrupted" THEN "lost" ELSE node[a]]
  /\ UNCHANGED <<build, alert, triaged, judged, approval, response, pr, answer>>

-----------------------------------------------------------------------------
Init ==
  /\ build \in Builds
  /\ node = [a \in Alerts |-> "START"]
  /\ alert \in Workloads
  /\ severity = [a \in Alerts |-> None]
  /\ priority = [a \in Alerts |-> None]
  /\ risk = [a \in Alerts |-> None]
  /\ inv = [a \in Alerts |-> None]
  /\ verdict = [a \in Alerts |-> None]
  /\ approval = [a \in Alerts |-> None]
  /\ response = [a \in Alerts |-> None]
  /\ pr = [a \in Alerts |-> None]
  /\ restarts = 0
  /\ answer = [a \in Alerts |-> None]

RunNode(a) ==
  Triage(a) \/ Investigate(a) \/ Validate(a) \/ Approve(a)
    \/ Respond(a) \/ RuleUpdate(a) \/ Report(a)

Next ==
  \/ \E a \in Alerts : Submit(a) \/ RunNode(a) \/ Resume(a)
  \/ Restart

Spec == Init /\ [][Next]_vars

\* The event loop executes the nodes of a run that is not interrupted.
\* Nothing makes an operator answer, an alert arrive or a process restart.
Fairness == \A a \in Alerts : WF_vars(RunNode(a))

FairSpec == Spec /\ Fairness

-----------------------------------------------------------------------------
(* Properties. *)

\* Types: a level, a priority and a verdict exist only where the graph has
\* come by, and a level is one the policy names.
TypeOK ==
  /\ build \in Builds
  /\ node \in [Alerts -> Nodes \cup {"START", "interrupted", "END", "lost", "raised"}]
  /\ alert \in [Alerts -> Alert]
  /\ severity \in [Alerts -> Levels \cup {None}]
  /\ priority \in [Alerts -> 1..4 \cup {None}]
  /\ risk \in [Alerts -> [score : Nat, key : BOOLEAN, geo : 0..1] \cup {None}]
  /\ inv \in [Alerts -> Findings \cup {None}]
  /\ verdict \in [Alerts -> {"tp", "fp", None}]
  /\ approval \in [Alerts -> Approval \cup {None}]
  /\ response \in [Alerts -> [auto : {"active", "withheld"}, posture : OperatorPostures] \cup {None}]
  /\ pr \in [Alerts -> Statuses \cup {None}]
  /\ restarts \in 0..MaxRestarts
  /\ answer \in [Alerts -> Answers \cup {None}]

\* Words count as consent, whatever they say.
Consented(a) == answer[a] # None /\ (answer[a].agrees \/ answer[a].value = "words")

HighStakes(a) ==
  \/ severity[a] = High
  \/ risk[a] # None /\ risk[a].score >= HitlThreshold
  \/ alert[a].scenario \in RunbookRequired
  \/ response[a].posture = "HITL_REQUIRED"

\* With the gate in the graph, no automatic response of a high severity, a
\* high mission risk or a runbook that requires approval is left active
\* unless the operator of that very run agreed, or answered in words, which
\* are never read; nor is one that the response itself, walking the playbook
\* anew, shows the operator as HITL_REQUIRED.
\* (ApprovalAgent.run, _coerce_approved, ResponseAgent.run)
NoUnapprovedResponse ==
  \A a \in Alerts :
    build.hitl /\ response[a] # None /\ response[a].auto = "active" /\ HighStakes(a)
      => Consented(a)

\* y is the alert x with some signals of danger added.
Raises(x, y) ==
  /\ \A field \in {"scenario", "asset", "tier", "phase"} : x[field] = y[field]
  /\ x.baseline <= y.baseline /\ x.posture <= y.posture /\ x.dwelling <= y.dwelling
  /\ x.flags \subseteq y.flags
  /\ \A field \in {"lateral", "geo", "actor_active"} : x[field] => y[field]
  /\ y.no_effect => x.no_effect

\* Signals only ever escalate: of two alerts of one graph, the one that
\* carries all the signals of the other and more has no lower severity and
\* no less urgent priority, and if the other needs an operator, it does, too.
\* (severity.py, terrain.py and approval_agent.py together)
EscalateOnly ==
  \A a, b \in Alerts :
    severity[a] # None /\ severity[b] # None /\ Raises(alert[a], alert[b]) =>
      /\ severity[a] <= severity[b]
      /\ priority[b] <= priority[a]
      /\ approval[a] # None /\ approval[b] # None /\ approval[a].required => approval[b].required

\* While the global posture is at or above the lock, no alert is rated below
\* its baseline, however small the asset, whatever the phase and however
\* long it has had no effect.  (PostureProvider.enrich before
\* SeverityEngine.compute)
NoDowngradeUnderLock ==
  \A a \in Alerts :
    build.floor >= LockAt /\ severity[a] # None => severity[a] >= alert[a].baseline

\* Every run that was started comes to its report or waits for its operator,
\* unless the process restarts: no verdict, refusal, failing lookup or
\* failing publisher leaves it stuck between two nodes.  It ends with an
\* exception only in a graph with one of the services whose answers are
\* decoded out of reach of the handlers.
EveryRunSettles ==
  \A a \in Alerts :
    Underway(a) ~> (\/ node[a] \in {"END", "interrupted", "lost"}
                    \/ node[a] = "raised" /\ (build.surroundings \/ build.publisher))
=============================================================================
