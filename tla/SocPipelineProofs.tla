-------------------------- MODULE SocPipelineProofs --------------------------
(***************************************************************************)
(* What the graph promises for every policy, every set of alerts and every *)
(* graph.  First the operators of Severity: levels are levels, the lock    *)
(* holds, signals only raise.  Then the invariant of the gate: what a run  *)
(* has decided so far is a function of the alert that triage wrote, and    *)
(* past the gate an approval says what the operator answered.              *)
(***************************************************************************)
EXTENDS SocPipeline, FiniteSetTheorems, WellFoundedInduction, TLAPS

-----------------------------------------------------------------------------
(* The operators. *)

\* Neither enricher takes an alert out of its type, and both keep the rest.
LEMMA EnrichedType ==
  ASSUME NEW x \in Alert, build \in Build
  PROVE  /\ Enriched(x) \in Alert
         /\ Enriched(x).posture >= build.floor
         /\ Enriched(x).baseline = x.baseline
<1>1. build.floor \in Postures  BY DEF Build
<1> DEFINE y == StampPosture(x, build.floor)
<1>2. y \in Alert /\ y.posture >= build.floor /\ y.baseline = x.baseline
  BY <1>1 DEF StampPosture, Alert, Postures
<1>3. ASSUME NEW z \in Alert
      PROVE  StampTerrain(z) \in Alert /\ StampTerrain(z).posture = z.posture
               /\ StampTerrain(z).baseline = z.baseline
  BY DEF StampTerrain, Alert, Flags
<1>4. Enriched(x) \in {y, StampTerrain(y)}  BY DEF Enriched
<1> QED  BY <1>2, <1>3, <1>4

\* The sums behind a severity are integers.
LEMMA SumTypes ==
  ASSUME NEW x \in Alert
  PROVE  /\ Dwelt(x) \in Int /\ Correlated(x) \in Int /\ Escalated(x) \in Int
         /\ Held(x) \in Int /\ x.baseline \in Levels
<1>1. Base(x) \in Int /\ x.baseline \in Levels
  BY PolicyAssumption DEF Base, Alert, Levels, Postures
<1>2. \A r \in EscalationRules : By(x, r) \in Nat
  BY PolicyAssumption DEF By
<1>3. EscalateBy["dwelling"] \in Nat
  BY PolicyAssumption DEF EscalationRules
<1>4. Dwelt(x) \in Int  BY <1>1, <1>3 DEF Dwelt
<1>5. Correlated(x) \in Int  BY <1>4, PolicyAssumption DEF Correlated, Levels
<1>6. Escalated(x) \in Int  BY <1>2, <1>5 DEF Escalated, EscalationRules
<1>7. Held(x) \in Int  BY <1>1, <1>6, PolicyAssumption DEF Held, Eased, Levels
<1> QED  BY <1>1, <1>4, <1>5, <1>6, <1>7

\* Whatever the policy adds up to, the level is one of the four.
LEMMA SeverityType ==
  ASSUME NEW x \in Alert
  PROVE  SeverityOf(x) \in Levels
BY SumTypes DEF SeverityOf, Clamp, High, Levels

\* The no-downgrade lock of the posture.
LEMMA LockKeepsBaseline ==
  ASSUME NEW x \in Alert, Locked(x)
  PROVE  SeverityOf(x) >= x.baseline
<1>1. Held(x) \in Int /\ Eased(x) \in Int /\ x.baseline \in Levels
  BY SumTypes, PolicyAssumption DEF Eased
<1>2. Held(x) >= x.baseline  BY <1>1 DEF Held, Levels
<1> QED  BY <1>1, <1>2 DEF SeverityOf, Clamp, High, Levels

\* No signal of danger, added to an alert, lowers its severity: neither the
\* order of the rules nor the lock nor the clamp can turn a rise around.
THEOREM SeverityMonotone ==
  ASSUME NEW x \in Alert, NEW y \in Alert, Raises(x, y)
  PROVE  SeverityOf(x) <= SeverityOf(y)
<1>1. /\ x.tier = y.tier /\ x.phase = y.phase
      /\ x.baseline <= y.baseline /\ x.posture <= y.posture /\ x.dwelling <= y.dwelling
      /\ x.flags \subseteq y.flags /\ (x.lateral => y.lateral) /\ (y.no_effect => x.no_effect)
  BY DEF Raises
<1>2. /\ x.tier \in Tiers /\ x.phase \in Phases /\ x.posture \in 0..2 /\ y.posture \in 0..2
      /\ x.baseline \in 0..3 /\ y.baseline \in 0..3 /\ x.dwelling \in Nat /\ y.dwelling \in Nat
  BY DEF Alert, Levels, Postures
<1>3. PostureModifier[x.posture] \in Nat /\ PostureModifier[y.posture] \in Nat
        /\ PostureModifier[x.posture] <= PostureModifier[y.posture]
  <2>1. \A p \in 0..2 : PostureModifier[p] \in Nat  BY PolicyAssumption DEF Postures
  <2>2. \A p, q \in 0..2 : p <= q => PostureModifier[p] <= PostureModifier[q]
    <3>1. \A p \in 0..2 : p = 0 \/ p = 1 \/ p = 2  OBVIOUS
    <3> QED  BY <2>1, <3>1, PolicyAssumption
  <2> QED  BY <1>1, <1>2, <2>1, <2>2
<1>4. Base(x) \in Int /\ Base(y) \in Int /\ Base(x) <= Base(y)
  <2>1. TierModifier[x.tier] \in Int /\ PhaseModifier[x.phase] \in Int
    BY <1>2, PolicyAssumption
  <2> QED  BY <1>1, <1>2, <1>3, <2>1 DEF Base
<1>5. EscalateBy["dwelling"] \in Nat /\ DwellAt \in Nat
  BY PolicyAssumption DEF EscalationRules
<1>6. Dwelt(x) \in Int /\ Dwelt(y) \in Int /\ Dwelt(x) <= Dwelt(y)
  BY <1>1, <1>2, <1>4, <1>5 DEF Dwelt
<1>7. Correlated(x) \in Int /\ Correlated(y) \in Int /\ Correlated(x) <= Correlated(y)
  BY <1>1, <1>6, PolicyAssumption DEF Correlated, Levels
<1>8. \A r \in EscalationRules : By(x, r) \in Nat /\ By(y, r) \in Nat /\ By(x, r) <= By(y, r)
  BY <1>1, PolicyAssumption DEF By
<1>9. Escalated(x) \in Int /\ Escalated(y) \in Int /\ Escalated(x) <= Escalated(y)
  BY <1>7, <1>8 DEF Escalated, EscalationRules
<1>10. EaseBy \in Nat /\ LockAt \in 0..2  BY PolicyAssumption DEF Postures
<1>11. Held(x) \in Int /\ Held(y) \in Int /\ Held(x) <= Held(y)
  <2>1. (Locked(x) => Locked(y)) /\ Locked(x) \in BOOLEAN /\ Locked(y) \in BOOLEAN
    BY <1>1, <1>2, <1>10 DEF Locked
  <2>2. Eased(x) \in Int /\ Eased(y) \in Int /\ Eased(x) <= Eased(y)
    BY <1>1, <1>9, <1>10, <2>1 DEF Eased
  <2> QED  BY <1>1, <1>2, <2>1, <2>2 DEF Held
<1> QED  BY <1>11 DEF SeverityOf, Clamp, High

\* A conservative branch that the response shows is one the gate has seen.
LEMMA ShownIsRequired ==
  ASSUME NEW pb, NEW r, MissionBranch(pb, r) = "conservative"
  PROVE  RequiresHitl(pb, r)
BY DEF MissionBranch, RequiresHitl

-----------------------------------------------------------------------------
(* Types. *)

\* The mission risk and the priority are in range, whatever the graph.
LEMMA TriageTypes ==
  ASSUME NEW x \in Alert, build \in Build
  PROVE  /\ RiskOf(x) \in [score : Nat, key : BOOLEAN, geo : 0..1] \cup {None}
         /\ PriorityOf(x) \in 1..4
<1>1. x.asset \in Assets /\ x.tier \in Tiers
  BY DEF Alert
<1>2. CivilGeo(x) \in 0..1 /\ TerrainDependents(x) \in Nat /\ TierWeight[x.tier] \in Nat
  BY <1>1, TerrainAssumption DEF CivilGeo, TerrainDependents, AtMost
<1>3. Score(x) \in Nat
  BY <1>2 DEF Score
<1>4. IsKeyTerrain(x) \in BOOLEAN
  BY DEF IsKeyTerrain
<1>5. MissionRisk(x) \in [score : Nat, key : BOOLEAN, geo : 0..1]
  BY <1>2, <1>3, <1>4 DEF MissionRisk
<1>6. 4 - SeverityOf(x) \in 1..4
  BY SeverityType DEF Levels
<1>7. ASSUME NEW p \in 1..4, NEW bands \in Nat
      PROVE  Raise(p, bands) \in 1..4
  BY DEF Raise
<1> DEFINE acted == IF x.actor_active THEN Raise(4 - SeverityOf(x), 1) ELSE 4 - SeverityOf(x)
<1>8. acted \in 1..4
  BY <1>6, <1>7
<1>9. Raise(acted, PriorityCap) \in 1..4
  BY <1>7, <1>8, PipelineAssumption
<1>10. PriorityOf(x) \in {acted, Raise(acted, PriorityCap)}
  BY DEF PriorityOf
<1> QED  BY <1>5, <1>8, <1>9, <1>10 DEF RiskOf

\* The type invariant: every level, priority, verdict and answer that a run
\* holds is one the code has, in every graph and for every policy.
THEOREM TypeCorrect == Spec => []TypeOK
<1>1. Init => TypeOK
  BY PipelineAssumption DEF Init, TypeOK, Submitted
<1>2. TypeOK /\ [Next]_vars => TypeOK'
  <2> SUFFICES ASSUME TypeOK, [Next]_vars
               PROVE  TypeOK'
    OBVIOUS
  <2> USE DEF TypeOK, triaged, judged
  <2>1. ASSUME NEW a \in Alerts, Submit(a)  PROVE TypeOK'
    BY <2>1 DEF Submit, Nodes
  <2>2. ASSUME NEW a \in Alerts, Triage(a)  PROVE TypeOK'
    <3> DEFINE x == Enriched(alert[a])
    <3>1. build \in Build  BY PipelineAssumption
    <3>2. x \in Alert  BY <3>1, EnrichedType
    <3>3. /\ alert' = [alert EXCEPT ![a] = x]
          /\ severity' = [severity EXCEPT ![a] = SeverityOf(x)]
          /\ priority' = [priority EXCEPT ![a] = PriorityOf(x)]
          /\ risk' = [risk EXCEPT ![a] = RiskOf(x)]
      BY <2>2 DEF Triage
    <3>4. SeverityOf(x) \in Levels  BY <3>2, SeverityType
    <3>5. /\ RiskOf(x) \in [score : Nat, key : BOOLEAN, geo : 0..1] \cup {None}
          /\ PriorityOf(x) \in 1..4
      BY <3>1, <3>2, TriageTypes
    <3> HIDE DEF x
    <3>6. alert' \in [Alerts -> Alert]  BY <3>2, <3>3
    <3>7. severity' \in [Alerts -> Levels \cup {None}]  BY <3>3, <3>4
    <3>8. priority' \in [Alerts -> 1..4 \cup {None}]  BY <3>3, <3>5
    <3>9. risk' \in [Alerts -> [score : Nat, key : BOOLEAN, geo : 0..1] \cup {None}]
      BY <3>3, <3>5
    <3> QED  BY <2>2, <3>6, <3>7, <3>8, <3>9 DEF Triage, Nodes
  <2>3. ASSUME NEW a \in Alerts, Investigate(a)  PROVE TypeOK'
    BY <2>3 DEF Investigate, Nodes, triaged
  <2>4. ASSUME NEW a \in Alerts, Validate(a)  PROVE TypeOK'
    <3>1. PICK v \in Verdicts(a) : /\ verdict' = [verdict EXCEPT ![a] = v]
                                   /\ node' = [node EXCEPT ![a] = AfterValidation(v)]
      BY <2>4 DEF Validate
    <3>2. v \in {"tp", "fp"}
      <4>1. build.judge \in Judges /\ alert[a] \in Alert
        BY PipelineAssumption DEF Build
      <4>2. \A u \in EnsembleVerdicts(a) : u \in {"tp", "fp"}
        BY DEF EnsembleVerdicts
      <4> QED  BY <3>1, <4>1, <4>2 DEF Verdicts, Judges, Alert
    <3>3. AfterValidation(v) \in Nodes  BY DEF AfterValidation, Nodes
    <3> QED  BY <2>4, <3>1, <3>2, <3>3 DEF Validate
  <2>5. ASSUME NEW a \in Alerts, Approve(a)  PROVE TypeOK'
    <3> DEFINE passed == [required |-> FALSE, approved |-> TRUE]
    <3>1. node'[a] \in {"interrupted", "response"} /\ node' = [node EXCEPT ![a] = node'[a]]
      BY <2>5 DEF Approve, Nodes
    <3>2. passed \in Approval  BY DEF Approval
    <3>3. approval' = approval \/ approval' = [approval EXCEPT ![a] = passed]
      BY <2>5 DEF Approve
    <3> HIDE DEF passed
    <3>4. approval' \in [Alerts -> Approval \cup {None}]
      BY <3>2, <3>3
    <3>5. node' \in [Alerts -> Nodes \cup {"START", "interrupted", "END", "lost", "raised"}]
      BY <3>1 DEF Nodes
    <3> QED  BY <2>5, <3>4, <3>5 DEF Approve
  <2>6. ASSUME NEW a \in Alerts, Resume(a)  PROVE TypeOK'
    <3>1. answer' \in [Alerts -> Answers \cup {None}]
      BY <2>6 DEF Resume
    <3>2. approval' \in [Alerts -> Approval \cup {None}]
      BY <2>6 DEF Resume, Approval, CoerceApproved
    <3> QED  BY <2>6, <3>1, <3>2 DEF Resume, Nodes
  <2>7. ASSUME NEW a \in Alerts, Respond(a)  PROVE TypeOK'
    <3> DEFINE r == [auto |-> IF Withheld(a) THEN "withheld" ELSE "active",
                     posture |-> OperatorPosture(a, BranchOf(a))]
    <3>1. OperatorPosture(a, BranchOf(a)) \in OperatorPostures
      BY DEF OperatorPosture, OperatorPostures
    <3>2. r \in [auto : {"active", "withheld"}, posture : OperatorPostures]
      BY <3>1
    <3>3. response' = [response EXCEPT ![a] = r]
      BY <2>7 DEF Respond
    <3> HIDE DEF r
    <3>4. response' \in [Alerts -> [auto : {"active", "withheld"}, posture : OperatorPostures] \cup {None}]
      BY <3>2, <3>3
    <3> QED  BY <2>7, <3>4 DEF Respond, Nodes
  <2>8. ASSUME NEW a \in Alerts, RuleUpdate(a)  PROVE TypeOK'
    <3>1. pr' \in [Alerts -> Statuses \cup {None}]
      <4>1. CASE UNCHANGED pr
        BY <4>1
      <4>2. ASSUME NEW status \in Statuses, pr' = [pr EXCEPT ![a] = status]
            PROVE  pr' \in [Alerts -> Statuses \cup {None}]
        BY <4>2
      <4> QED  BY <2>8, <4>1, <4>2 DEF RuleUpdate, Statuses
    <3> QED  BY <2>8, <3>1 DEF RuleUpdate, Nodes
  <2>9. ASSUME NEW a \in Alerts, Report(a)  PROVE TypeOK'
    BY <2>9 DEF Report
  <2>10. CASE Restart
    BY <2>10, PipelineAssumption DEF Restart
  <2>11. CASE UNCHANGED vars
    BY <2>11 DEF vars
  <2> QED
    BY <2>1, <2>2, <2>3, <2>4, <2>5, <2>6, <2>7, <2>8, <2>9, <2>10, <2>11 DEF Next, RunNode
<1> QED  BY <1>1, <1>2, PTL DEF Spec

-----------------------------------------------------------------------------
(* The lock. *)

\* What triage wrote: the level, the priority and the mission risk are those
\* of the alert it left behind, whose posture is at or above the global one.
Rated ==
  \A a \in Alerts :
    /\ node[a] \in {"START", "triage"} => severity[a] = None
    /\ severity[a] # None =>
         /\ severity[a] = SeverityOf(alert[a])
         /\ priority[a] = PriorityOf(alert[a])
         /\ risk[a] = RiskOf(alert[a])
         /\ alert[a].posture >= build.floor

\* Only triage writes an alert or a level; every other node moves its run on.
LEMMA RatedStep ==
  ASSUME TypeOK, Rated, UNCHANGED <<build, alert, triaged>>, NEW a \in Alerts,
         node' = [node EXCEPT ![a] = node'[a]],
         node'[a] \in {"START", "triage"} => node[a] = "START"
  PROVE  Rated'
BY DEF Rated, TypeOK, triaged, PriorityOf, RiskOf

LEMMA RatedInvariant == Spec => []Rated
<1>1. Init => Rated
  BY DEF Init, Rated
<1>2. TypeOK /\ Rated /\ [Next]_vars => Rated'
  <2> SUFFICES ASSUME TypeOK, Rated, [Next]_vars
               PROVE  Rated'
    OBVIOUS
  <2>1. ASSUME NEW a \in Alerts, Triage(a)  PROVE Rated'
    <3> DEFINE x == Enriched(alert[a])
    <3>1. build \in Build /\ alert[a] \in Alert
      BY PipelineAssumption DEF TypeOK
    <3>2. x.posture >= build.floor  BY <3>1, EnrichedType
    <3>3. /\ alert' = [alert EXCEPT ![a] = x]
          /\ severity' = [severity EXCEPT ![a] = SeverityOf(x)]
          /\ priority' = [priority EXCEPT ![a] = PriorityOf(x)]
          /\ risk' = [risk EXCEPT ![a] = RiskOf(x)]
          /\ node' = [node EXCEPT ![a] = "investigation"]
          /\ build' = build
      BY <2>1 DEF Triage
    <3> HIDE DEF x
    <3>4. /\ alert'[a] = x /\ severity'[a] = SeverityOf(x)
          /\ priority'[a] = PriorityOf(x) /\ risk'[a] = RiskOf(x)
          /\ node'[a] = "investigation"
      BY <3>3 DEF TypeOK
    <3>5. \A b \in Alerts \ {a} :
            /\ alert'[b] = alert[b] /\ node'[b] = node[b]
            /\ severity'[b] = severity[b] /\ priority'[b] = priority[b] /\ risk'[b] = risk[b]
      BY <3>3 DEF TypeOK
    <3>6. \A b \in Alerts :
            /\ PriorityOf(alert[b])' = PriorityOf(alert'[b])
            /\ RiskOf(alert[b])' = RiskOf(alert'[b])
      BY <3>3 DEF PriorityOf, RiskOf
    <3> QED  BY <3>2, <3>3, <3>4, <3>5, <3>6 DEF Rated
  <2>2. ASSUME NEW a \in Alerts, Submit(a)  PROVE Rated'
    BY <2>2, RatedStep DEF Submit, triaged, TypeOK
  <2>3. ASSUME NEW a \in Alerts, Investigate(a)  PROVE Rated'
    BY <2>3, RatedStep DEF Investigate, triaged, TypeOK
  <2>4. ASSUME NEW a \in Alerts, Validate(a)  PROVE Rated'
    <3>1. PICK v : node' = [node EXCEPT ![a] = AfterValidation(v)]
      BY <2>4 DEF Validate
    <3>2. AfterValidation(v) \notin {"START", "triage"}  BY DEF AfterValidation
    <3> QED  BY <2>4, <3>1, <3>2, RatedStep DEF Validate, triaged, TypeOK
  <2>5. ASSUME NEW a \in Alerts, Approve(a)  PROVE Rated'
    BY <2>5, RatedStep DEF Approve, triaged, TypeOK
  <2>6. ASSUME NEW a \in Alerts, Resume(a)  PROVE Rated'
    BY <2>6, RatedStep DEF Resume, triaged, TypeOK
  <2>7. ASSUME NEW a \in Alerts, Respond(a)  PROVE Rated'
    BY <2>7, RatedStep DEF Respond, triaged, TypeOK
  <2>8. ASSUME NEW a \in Alerts, RuleUpdate(a)  PROVE Rated'
    BY <2>8, RatedStep DEF RuleUpdate, triaged, TypeOK
  <2>9. ASSUME NEW a \in Alerts, Report(a)  PROVE Rated'
    BY <2>9, RatedStep DEF Report, triaged, TypeOK
  <2>10. CASE Restart
    BY <2>10 DEF Restart, triaged, Rated, Underway, Nodes, PriorityOf, RiskOf
  <2>11. CASE UNCHANGED vars
    BY <2>11 DEF vars, triaged, Rated, PriorityOf, RiskOf
  <2> QED
    BY <2>1, <2>2, <2>3, <2>4, <2>5, <2>6, <2>7, <2>8, <2>9, <2>10, <2>11 DEF Next, RunNode
<1> QED  BY <1>1, <1>2, TypeCorrect, PTL DEF Spec

\* Under a global posture at or above the lock no alert is rated below its
\* baseline, for every policy table and whatever the alert carries.
THEOREM LockHolds == Spec => []NoDowngradeUnderLock
<1>1. TypeOK /\ Rated => NoDowngradeUnderLock
  <2> SUFFICES ASSUME TypeOK, Rated, NEW a \in Alerts,
                      build.floor >= LockAt, severity[a] # None
               PROVE  severity[a] >= alert[a].baseline
    BY DEF NoDowngradeUnderLock
  <2>1. alert[a] \in Alert /\ build.floor \in 0..2 /\ LockAt \in 0..2
    BY PipelineAssumption, PolicyAssumption DEF TypeOK, Build, Postures
  <2>2. alert[a].posture \in 0..2  BY <2>1 DEF Alert, Postures
  <2>3. Locked(alert[a])  BY <2>1, <2>2 DEF Rated, Locked
  <2> QED  BY <2>1, <2>3, LockKeepsBaseline DEF Rated
<1> QED  BY <1>1, TypeCorrect, RatedInvariant, PTL

-----------------------------------------------------------------------------
(* The gate. *)

\* Before the gate there is no approval, before the response no response;
\* past the gate of a graph that has one there is an approval; it is required
\* just when the run was gated, and then says what the operator answered; a response carries out
\* that approval and shows what the playbook says.
GateAt(a) ==
  /\ node[a] \in {"START", "triage"} => approval[a] = None
  /\ node[a] \in {"START", "triage", "investigation", "validation", "approval",
                  "interrupted", "response"} => response[a] = None
  /\ build.hitl /\ node[a] = "response" => approval[a] # None
  /\ approval[a] # None /\ Gated(a) =>
       approval[a].required /\ (approval[a].approved => Consented(a))
  /\ approval[a] # None /\ approval[a].required => Gated(a)
  /\ build.hitl /\ response[a] # None =>
       /\ approval[a] # None
       /\ response[a].auto = "active" => ~Withheld(a)
       /\ response[a].posture = OperatorPosture(a, BranchOf(a))

Gate == \A a \in Alerts : GateAt(a)

\* What an alert is at the gate depends on what triage wrote only.
LEMMA GateFrame ==
  ASSUME NEW a \in Alerts, alert'[a] = alert[a], severity'[a] = severity[a], risk'[a] = risk[a]
  PROVE  /\ Gated(a)' <=> Gated(a)
         /\ OperatorPosture(a, BranchOf(a))' = OperatorPosture(a, BranchOf(a))
BY DEF Gated, MissionForces, CacaoForces, RunbookForces, PlaybookOf, BranchOf, OperatorPosture

\* A step that touches nothing of a run leaves its gate as it was.
LEMMA GateUntouched ==
  ASSUME NEW a \in Alerts, GateAt(a), build' = build,
         node'[a] = node[a], alert'[a] = alert[a], severity'[a] = severity[a],
         risk'[a] = risk[a], approval'[a] = approval[a], response'[a] = response[a],
         answer'[a] = answer[a]
  PROVE  GateAt(a)'
<1>1. /\ Gated(a)' <=> Gated(a)
      /\ OperatorPosture(a, BranchOf(a))' = OperatorPosture(a, BranchOf(a))
  BY GateFrame
<1>2. Withheld(a)' <=> Withheld(a)
  BY DEF Withheld
<1> QED  BY <1>1, <1>2 DEF GateAt, Consented

LEMMA GateInvariant == Spec => []Gate
<1>1. Init => Gate
  BY DEF Init, Gate, GateAt, Consented
<1>2. TypeOK /\ Gate /\ [Next]_vars => Gate'
  <2> SUFFICES ASSUME TypeOK, Gate, [Next]_vars
               PROVE  Gate'
    OBVIOUS
  <2>1. ASSUME NEW a \in Alerts, Submit(a) \/ RunNode(a) \/ Resume(a)
        PROVE  Gate'
    <3>1. build' = build /\ \A b \in Alerts \ {a} :
            /\ node'[b] = node[b] /\ alert'[b] = alert[b] /\ severity'[b] = severity[b]
            /\ risk'[b] = risk[b] /\ approval'[b] = approval[b]
            /\ response'[b] = response[b] /\ answer'[b] = answer[b]
      <4>1. CASE Submit(a)  BY <4>1 DEF Submit, TypeOK, triaged
      <4>2. CASE Triage(a)
        <5>1. PICK x :
                /\ alert' = [alert EXCEPT ![a] = x]
                /\ severity' = [severity EXCEPT ![a] = SeverityOf(x)]
                /\ risk' = [risk EXCEPT ![a] = RiskOf(x)]
          BY <4>2 DEF Triage
        <5>2. /\ build' = build
              /\ node' = [node EXCEPT ![a] = "investigation"]
              /\ UNCHANGED <<approval, response, answer>>
          BY <4>2 DEF Triage
        <5> QED  BY <5>1, <5>2 DEF TypeOK
      <4>3. CASE Investigate(a)  BY <4>3 DEF Investigate, TypeOK, triaged
      <4>4. CASE Validate(a)
        <5>1. PICK v : node' = [node EXCEPT ![a] = AfterValidation(v)]
          BY <4>4 DEF Validate
        <5> QED  BY <4>4, <5>1 DEF Validate, TypeOK, triaged
      <4>5. CASE Approve(a)
        <5>1. \E n, r : /\ node' = [node EXCEPT ![a] = n]
                       /\ \/ approval' = [approval EXCEPT ![a] = r]
                          \/ approval' = approval
          BY <4>5 DEF Approve
        <5> QED  BY <4>5, <5>1 DEF Approve, TypeOK, triaged
      <4>6. CASE Resume(a)
        <5>1. \E raw, r : /\ answer' = [answer EXCEPT ![a] = raw]
                         /\ approval' = [approval EXCEPT ![a] = r]
          BY <4>6 DEF Resume
        <5> QED  BY <4>6, <5>1 DEF Resume, TypeOK, triaged
      <4>7. CASE Respond(a)
        <5>1. \E r : response' = [response EXCEPT ![a] = r]
          BY <4>7 DEF Respond
        <5> QED  BY <4>7, <5>1 DEF Respond, TypeOK, triaged
      <4>8. CASE RuleUpdate(a)  BY <4>8 DEF RuleUpdate, TypeOK, triaged
      <4>9. CASE Report(a)  BY <4>9 DEF Report, TypeOK, triaged
      <4> QED  BY <2>1, <4>1, <4>2, <4>3, <4>4, <4>5, <4>6, <4>7, <4>8, <4>9 DEF RunNode
    <3>2. \A b \in Alerts \ {a} : GateAt(b)'
      BY <3>1, GateUntouched DEF Gate
    <3>3. GateAt(a)  BY DEF Gate
    <3>4. GateAt(a)'
      <4>1. CASE Submit(a)
        <5>1. node[a] = "START" /\ node'[a] = "triage"  BY <4>1 DEF Submit, TypeOK
        <5> QED  BY <3>3, <4>1, <5>1 DEF Submit, GateAt, Consented
      <4>2. CASE Triage(a)
        <5>1. node[a] = "triage" /\ node'[a] = "investigation"
                /\ UNCHANGED <<approval, response>>
          BY <4>2 DEF Triage, TypeOK
        <5> QED  BY <3>3, <5>1 DEF GateAt, Consented
      <4>3. CASE Investigate(a) \/ Validate(a)
        <5>1. /\ node[a] \in {"investigation", "validation"}
              /\ UNCHANGED <<build, alert, severity, risk, approval, response, answer>>
          BY <4>3 DEF Investigate, Validate, triaged
        <5>2. /\ node'[a] \in {"validation", "approval", "response", "rule_update", "raised"}
              /\ build.hitl => node'[a] # "response"
          <6>1. CASE Investigate(a)  BY <6>1 DEF Investigate, TypeOK
          <6>2. CASE Validate(a)
            <7>1. PICK v : node' = [node EXCEPT ![a] = AfterValidation(v)]
              BY <6>2 DEF Validate
            <7> QED  BY <7>1 DEF AfterValidation, TypeOK
          <6> QED  BY <4>3, <6>1, <6>2
        <5>3. Gated(a)' <=> Gated(a)  BY <5>1, GateFrame
        <5> QED  BY <3>3, <5>1, <5>2, <5>3 DEF GateAt, Consented
      <4>4. CASE Approve(a)
        <5>1. /\ node[a] = "approval"
              /\ UNCHANGED <<build, alert, severity, risk, response, answer>>
          BY <4>4 DEF Approve, triaged
        <5>2. response'[a] = None  BY <3>3, <5>1 DEF GateAt, Consented
        <5>3. Gated(a)' <=> Gated(a)  BY <5>1, GateFrame
        <5>4. CASE Gated(a)
          <6>1. node'[a] = "interrupted" /\ approval' = approval
            BY <4>4, <5>4 DEF Approve, TypeOK
          <6> QED  BY <3>3, <5>1, <5>2, <5>3, <6>1 DEF GateAt, Consented
        <5>5. CASE ~Gated(a)
          <6> DEFINE passed == [required |-> FALSE, approved |-> TRUE]
          <6>1. node'[a] = "response" /\ approval'[a] = passed
            BY <4>4, <5>5 DEF Approve, TypeOK
          <6>2. passed \in Approval  BY DEF Approval
          <6>3. passed # None  BY <6>2, NoneIsNoApproval
          <6> QED  BY <5>2, <5>3, <5>5, <6>1, <6>3 DEF GateAt, Consented
        <5> QED  BY <5>4, <5>5
      <4>5. CASE Resume(a)
        <5>1. /\ node[a] = "interrupted" /\ node'[a] = "response"
              /\ UNCHANGED <<build, alert, severity, risk, response>>
          BY <4>5 DEF Resume, triaged, TypeOK
        <5>2. response'[a] = None  BY <3>3, <5>1 DEF GateAt, Consented
        <5>3. Gated(a)' <=> Gated(a)  BY <5>1, GateFrame
        <5>4. PICK raw \in Answers :
                /\ answer' = [answer EXCEPT ![a] = raw]
                /\ approval' = [approval EXCEPT ![a] =
                     IF Gated(a) THEN [required |-> TRUE, approved |-> CoerceApproved(raw)]
                     ELSE [required |-> FALSE, approved |-> TRUE]]
          BY <4>5 DEF Resume
        <5>5. answer'[a] = raw /\ approval'[a] =
                (IF Gated(a) THEN [required |-> TRUE, approved |-> CoerceApproved(raw)]
                 ELSE [required |-> FALSE, approved |-> TRUE])
          BY <5>4 DEF TypeOK
        <5>6. CoerceApproved(raw) \in BOOLEAN /\ (CoerceApproved(raw) => Consented(a)')
          BY <5>5, NoneIsNoAnswer DEF CoerceApproved, Consented, Answers
        <5>7. CASE Gated(a)
          <6> DEFINE given == [required |-> TRUE, approved |-> CoerceApproved(raw)]
          <6>1. given \in Approval  BY <5>6 DEF Approval
          <6>2. given # None  BY <6>1, NoneIsNoApproval
          <6>3. approval'[a] = given  BY <5>5, <5>7
          <6>4. given.required /\ (given.approved => Consented(a)')
            BY <5>5, <5>6
          <6> HIDE DEF given
          <6> QED  BY <5>1, <5>2, <5>3, <5>7, <6>2, <6>3, <6>4 DEF GateAt, Consented
        <5>8. CASE ~Gated(a)
          <6> DEFINE passed == [required |-> FALSE, approved |-> TRUE]
          <6>1. passed \in Approval  BY DEF Approval
          <6>2. passed # None  BY <6>1, NoneIsNoApproval
          <6>3. approval'[a] = passed  BY <5>5, <5>8
          <6> QED  BY <5>1, <5>2, <5>3, <5>8, <6>2, <6>3 DEF GateAt, Consented
        <5> QED  BY <5>7, <5>8
      <4>6. CASE Respond(a)
        <5>1. /\ node[a] = "response" /\ node'[a] = "report"
              /\ UNCHANGED <<build, alert, severity, risk, approval, answer>>
          BY <4>6 DEF Respond, triaged, TypeOK
        <5>2. /\ Gated(a)' <=> Gated(a)
              /\ OperatorPosture(a, BranchOf(a))' = OperatorPosture(a, BranchOf(a))
          BY <5>1, GateFrame
        <5>3. Withheld(a)' <=> Withheld(a)  BY <5>1 DEF Withheld
        <5>4. response'[a] = [auto |-> IF Withheld(a) THEN "withheld" ELSE "active",
                              posture |-> OperatorPosture(a, BranchOf(a))]
          BY <4>6 DEF Respond, TypeOK
        <5>5. /\ response'[a].posture = OperatorPosture(a, BranchOf(a))
              /\ response'[a].auto = "active" => ~Withheld(a)
          BY <5>4
        <5> QED  BY <3>3, <5>1, <5>2, <5>3, <5>5 DEF GateAt, Consented
      <4>7. CASE RuleUpdate(a) \/ Report(a)
        <5>1. /\ node'[a] \in {"report", "END", "raised"}
              /\ UNCHANGED <<build, alert, severity, risk, approval, response, answer>>
          BY <4>7 DEF RuleUpdate, Report, triaged, TypeOK
        <5>2. /\ Gated(a)' <=> Gated(a)
              /\ OperatorPosture(a, BranchOf(a))' = OperatorPosture(a, BranchOf(a))
          BY <5>1, GateFrame
        <5>3. Withheld(a)' <=> Withheld(a)  BY <5>1 DEF Withheld
        <5> QED  BY <3>3, <5>1, <5>2, <5>3 DEF GateAt, Consented
      <4> QED  BY <2>1, <4>1, <4>2, <4>3, <4>4, <4>5, <4>6, <4>7 DEF RunNode
    <3> QED  BY <3>2, <3>4 DEF Gate
  <2>2. CASE Restart
    <3> SUFFICES ASSUME NEW a \in Alerts  PROVE GateAt(a)'
      BY DEF Gate
    <3>1. /\ node'[a] = node[a] \/ node'[a] = "lost"
          /\ UNCHANGED <<build, alert, severity, risk, approval, response, answer>>
      BY <2>2 DEF Restart, triaged
    <3>2. /\ Gated(a)' <=> Gated(a)
          /\ OperatorPosture(a, BranchOf(a))' = OperatorPosture(a, BranchOf(a))
      BY <3>1, GateFrame
    <3>3. Withheld(a)' <=> Withheld(a)  BY <3>1 DEF Withheld
    <3>4. GateAt(a)  BY DEF Gate
    <3> QED  BY <3>1, <3>2, <3>3, <3>4 DEF GateAt, Consented
  <2>3. CASE UNCHANGED vars
    BY <2>3, GateUntouched DEF vars, triaged, Gate
  <2> QED  BY <2>1, <2>2, <2>3 DEF Next
<1> QED  BY <1>1, <1>2, TypeCorrect, PTL DEF Spec

\* With the approval node in the graph, an automatic response of high stakes
\* is active only when the operator of that run has agreed or has answered
\* in words, which are never read: whatever the policy, the playbooks and the
\* interleaving of the runs, and across restarts.
THEOREM ApprovalHolds == Spec => []NoUnapprovedResponse
<1>1. Gate => NoUnapprovedResponse
  <2> SUFFICES ASSUME Gate, NEW a \in Alerts, build.hitl, response[a] # None,
                      response[a].auto = "active", HighStakes(a)
               PROVE  Consented(a)
    BY DEF NoUnapprovedResponse
  <2>1. /\ approval[a] # None /\ ~Withheld(a)
        /\ response[a].posture = OperatorPosture(a, BranchOf(a))
    BY DEF Gate, GateAt
  <2>2. Gated(a)
    <3>1. CASE response[a].posture = "HITL_REQUIRED"
      <4>1. MissionForces(a) \/ BranchOf(a) = "conservative"
        BY <2>1, <3>1 DEF OperatorPosture
      <4>2. ASSUME BranchOf(a) = "conservative"  PROVE CacaoForces(a)
        BY <4>2, ShownIsRequired, NoneAssumption DEF BranchOf, CacaoForces
      <4> QED  BY <4>1, <4>2 DEF Gated
    <3>2. CASE response[a].posture # "HITL_REQUIRED"
      BY <3>2 DEF HighStakes, Gated, MissionForces, RunbookForces
    <3> QED  BY <3>1, <3>2
  <2>3. approval[a].required /\ (approval[a].approved => Consented(a))
    BY <2>1, <2>2 DEF Gate, GateAt
  <2> QED  BY <2>1, <2>3 DEF Withheld
<1> QED  BY <1>1, GateInvariant, PTL

-----------------------------------------------------------------------------
(* The walk through a playbook. *)

\* A non-empty set of naturals has a least element.
LEMMA LeastOf ==
  ASSUME NEW S \in SUBSET Nat, S # {}
  PROVE  \E i \in S : \A j \in S : i <= j
<1>1. \E i \in S : \A j \in S : <<j, i>> \notin OpToRel(<, Nat)
  BY NatLessThanWellFounded, WFMin
<1>2. \A i, j \in Nat : j < i => <<j, i>> \in OpToRel(<, Nat)
  BY Zenon DEF OpToRel
<1>3. \E i \in S : \A j \in S : ~(j < i)
  BY <1>1, <1>2
<1> QED  BY <1>3

\* Wherever a step of the playbook leads has a name.
LEMMA SuccessorNamed ==
  ASSUME NEW pb, NEW r, NEW s \in Names(pb)
  PROVE  Successor(pb, r, s) \in Names(pb)
<1>1. CASE ~Active(pb, s)
  BY <1>1 DEF Successor
<1>2. CASE Active(pb, s)
  <2>1. s \in DOMAIN pb.workflow  BY <1>2 DEF Active
  <2>2. {pb.workflow[s].next, pb.workflow[s].yes, pb.workflow[s].no} \subseteq Names(pb)
    BY <2>1 DEF Names
  <2>3. Successor(pb, r, s) \in {pb.workflow[s].next, pb.workflow[s].yes, pb.workflow[s].no}
    BY <1>2 DEF Successor
  <2> QED  BY <2>2, <2>3
<1> QED  BY <1>1, <1>2

\* The walk is what its definition says: it starts at the start and goes
\* from a step to the one after it.
LEMMA WalkUnfolds ==
  ASSUME NEW pb, NEW r, Length(pb) \in Nat
  PROVE  /\ Walk(pb, r)[0] = pb.start
         /\ \A i \in 1..Length(pb) :
              /\ Walk(pb, r)[i - 1] \in Names(pb)
              /\ Walk(pb, r)[i] = Successor(pb, r, Walk(pb, r)[i - 1])
<1> DEFINE follow == [s \in Names(pb) |-> Successor(pb, r, s)]
           Next_(f, n) == [i \in 0..n |-> IF i = 0 THEN pb.start ELSE follow[f[i - 1]]]
           Unwalked == {n \in Nat : ~ \E f : f = Next_(f, n)}
<1>1. Unwalked = {}
  <2> SUFFICES ASSUME Unwalked # {}  PROVE FALSE
    OBVIOUS
  <2>1. PICK n \in Unwalked : \A m \in Unwalked : n <= m
    BY LeastOf
  <2>2. n # 0
    <3> DEFINE f == [i \in 0..0 |-> pb.start]
    <3>1. f = Next_(f, 0)  OBVIOUS
    <3> QED  BY <3>1
  <2>3. n - 1 \in Nat /\ n - 1 \notin Unwalked
    BY <2>1, <2>2
  <2>4. PICK f : f = Next_(f, n - 1)
    BY <2>3
  <2> DEFINE g == Next_(f, n)
  <2>5. ASSUME NEW i \in 0..n  PROVE g[i] = Next_(g, n)[i]
    <3>1. CASE i = 0  BY <3>1
    <3>2. CASE i # 0
      <4>1. i - 1 \in 0..(n - 1) /\ i - 1 \in 0..n  BY <3>2
      <4> DEFINE back == IF i - 1 = 0 THEN pb.start ELSE follow[f[(i - 1) - 1]]
      <4>2. f[i - 1] = Next_(f, n - 1)[i - 1]  BY <2>4
      <4>3. Next_(f, n - 1)[i - 1] = back  BY <4>1
      <4>4. g[i - 1] = back  BY <4>1
      <4>5. g[i] = follow[f[i - 1]]  BY <3>2
      <4>6. Next_(g, n)[i] = follow[g[i - 1]]  BY <3>2
      <4> QED  BY <4>2, <4>3, <4>4, <4>5, <4>6
    <3> QED  BY <3>1, <3>2
  <2>6. g = Next_(g, n)
    BY <2>5
  <2> QED  BY <2>1, <2>6
<1> DEFINE w == Walk(pb, r)
           N == Length(pb)
<1>2. w = Next_(w, N)
  <2>1. \E f : f = [i \in 0..N |-> IF i = 0 THEN pb.start ELSE follow[f[i - 1]]]
    BY <1>1
  <2> QED  BY <2>1 DEF Walk
<1> HIDE DEF w, N
<1>0. N \in Nat  BY DEF N
<1>3. w[0] = pb.start /\ \A i \in 1..N : w[i] = follow[w[i - 1]]
  <2>1. \A i \in 0..N : w[i] = IF i = 0 THEN pb.start ELSE follow[w[i - 1]]
    BY <1>2
  <2>2. 0 \in 0..N /\ \A i \in 1..N : i \in 0..N /\ i # 0
    BY <1>0
  <2> QED  BY <2>1, <2>2
<1>4. \A i \in 0..N : w[i] \in Names(pb)
  <2> DEFINE Astray == {i \in 0..N : w[i] \notin Names(pb)}
  <2> SUFFICES ASSUME Astray # {}  PROVE FALSE
    OBVIOUS
  <2>0. Astray \in SUBSET Nat  BY <1>0
  <2>1. PICK n \in Astray : \A m \in Astray : n <= m
    BY <2>0, LeastOf
  <2>2. n # 0  BY <1>3, <2>1 DEF Names
  <2>3. n \in 1..N /\ n - 1 \in 0..N /\ n - 1 \notin Astray
    BY <1>0, <2>1, <2>2
  <2>4. w[n - 1] \in Names(pb)  BY <2>3
  <2>5. w[n] = Successor(pb, r, w[n - 1])  BY <1>3, <2>3, <2>4
  <2> QED  BY <2>1, <2>4, <2>5, SuccessorNamed
<1>5. ASSUME NEW i \in 1..N
      PROVE  w[i - 1] \in Names(pb) /\ w[i] = Successor(pb, r, w[i - 1])
  <2>1. i - 1 \in 0..N  BY DEF N
  <2>2. w[i - 1] \in Names(pb)  BY <1>4, <2>1
  <2> QED  BY <1>3, <2>2
<1> QED  BY <1>3, <1>5 DEF w, N

\* r2 is a mission risk no smaller than r1.
NoLess(r1, r2) ==
  \/ r1 = None /\ r2 = None
  \/ /\ r1 # None /\ r2 # None
     /\ r1.score \in Int /\ r2.score \in Int /\ r1.score <= r2.score
     /\ r1.key => r2.key
     /\ r1.geo \in Int /\ r2.geo \in Int /\ r1.geo <= r2.geo

\* A gate that holds for a mission risk holds for every one above it.
LEMMA HoldsMonotone ==
  ASSUME NEW gate, gate.score \in Int, NEW r1, NEW r2, NoLess(r1, r2), Holds(gate, r1)
  PROVE  Holds(gate, r2)
BY DEF NoLess, Holds

\* If a playbook asks for a human at a mission risk, it asks at every one
\* above it.  A higher risk may take other branches and reach other steps,
\* but a walk that meets no gate that holds meets the same gates, none of
\* which held at the lower risk either.
LEMMA HitlMonotone ==
  ASSUME NEW pb, IsFiniteSet(DOMAIN pb.workflow),
         \A s \in DOMAIN pb.workflow : pb.workflow[s].gate.score \in Int,
         NEW r1, NEW r2, NoLess(r1, r2), RequiresHitl(pb, r1)
  PROVE  RequiresHitl(pb, r2)
<1> SUFFICES ASSUME ~RequiresHitl(pb, r2)  PROVE FALSE
  OBVIOUS
<1> DEFINE N == Length(pb)
           v == Walk(pb, r1)
           w == Walk(pb, r2)
<1>1. N \in Nat
  BY FS_CardinalityType DEF Length
<1>2. /\ v[0] = pb.start /\ w[0] = pb.start
      /\ \A i \in 1..N : v[i] = Successor(pb, r1, v[i - 1]) /\ w[i] = Successor(pb, r2, w[i - 1])
  BY <1>1, WalkUnfolds
<1>3. ASSUME NEW i \in 0..N, Active(pb, w[i]), pb.workflow[w[i]].type = "if-condition"
      PROVE  ~Holds(pb.workflow[w[i]].gate, r2) /\ ~Holds(pb.workflow[w[i]].gate, r1)
  <2>1. i \in Branchings(pb, r2)  BY <1>3 DEF Branchings
  <2>2. ~Holds(pb.workflow[w[i]].gate, r2)  BY <2>1 DEF RequiresHitl, Conservative
  <2>3. pb.workflow[w[i]].gate.score \in Int  BY <1>3 DEF Active
  <2> QED  BY <2>2, <2>3, HoldsMonotone
<1>4. \A i \in 0..N : v[i] = w[i]
  <2> DEFINE Parted == {i \in 0..N : v[i] # w[i]}
  <2> HIDE DEF N, v, w
  <2> SUFFICES ASSUME Parted # {}  PROVE FALSE
    OBVIOUS
  <2>0. Parted \in SUBSET Nat  BY <1>1
  <2>1. PICK n \in Parted : \A m \in Parted : n <= m
    BY <2>0, LeastOf
  <2>2. n # 0  BY <1>2, <2>1
  <2>3. n \in 1..N /\ n - 1 \in 0..N /\ n - 1 \notin Parted
    BY <1>1, <2>1, <2>2
  <2>4. v[n - 1] = w[n - 1]  BY <2>3
  <2> DEFINE s == w[n - 1]
  <2>5. Active(pb, s) /\ pb.workflow[s].type = "if-condition" =>
          ~Holds(pb.workflow[s].gate, r2) /\ ~Holds(pb.workflow[s].gate, r1)
    BY <1>3, <2>3
  <2>6. Successor(pb, r1, s) = Successor(pb, r2, s)
    BY <2>5 DEF Successor
  <2> QED  BY <1>2, <2>1, <2>3, <2>4, <2>6
<1>5. N \in 0..N  BY <1>1
<1>6. ~Malformed(pb, r1)
  <2>1. v[N] = w[N]  BY <1>4, <1>5
  <2> QED  BY <2>1 DEF Malformed, RequiresHitl
<1>7. PICK i \in Branchings(pb, r1) : Conservative(pb, r1, i)
  BY <1>6 DEF RequiresHitl
<1>8. i \in 0..N /\ Active(pb, v[i]) /\ pb.workflow[v[i]].type = "if-condition"
        /\ Holds(pb.workflow[v[i]].gate, r1)
  BY <1>7 DEF Branchings, Conservative
<1>9. v[i] = w[i]  BY <1>4, <1>8
<1> QED  BY <1>3, <1>8, <1>9

-----------------------------------------------------------------------------
(* Signals of danger only escalate. *)

\* More bands, or a priority that is more urgent already, give a priority no
\* less urgent.
LEMMA RaiseMonotone ==
  ASSUME NEW p \in 1..4, NEW q \in 1..4, q <= p, NEW m \in Nat, NEW n \in Nat, m <= n
  PROVE  Raise(q, n) <= Raise(p, m)
BY DEF Raise

\* Signals added to an alert leave its asset and its phase, hence its terrain,
\* and make no part of the mission risk smaller.
LEMMA RiskMonotone ==
  ASSUME NEW x \in Alert, NEW y \in Alert, build \in Build, Raises(x, y)
  PROVE  /\ NoLess(RiskOf(x), RiskOf(y))
         /\ TerrainDependents(x) = TerrainDependents(y)
         /\ CivilGeo(x) <= CivilGeo(y)
         /\ TerrainDependents(x) \in Nat /\ CivilGeo(x) \in 0..1 /\ CivilGeo(y) \in 0..1
<1>1. /\ x.asset = y.asset /\ x.phase = y.phase /\ x.tier = y.tier
      /\ x.flags \subseteq y.flags /\ x.dwelling <= y.dwelling /\ (x.geo => y.geo)
  BY DEF Raises
<1>2. /\ x.asset \in Assets /\ x.tier \in Tiers
      /\ x.dwelling \in Nat /\ y.dwelling \in Nat
  BY DEF Alert
<1>3. /\ TerrainDependents(x) = TerrainDependents(y)
      /\ TerrainDependents(x) \in Nat /\ TierWeight[x.tier] \in Nat
  BY <1>1, <1>2, TerrainAssumption DEF TerrainDependents, AtMost
<1>4. CivilGeo(x) <= CivilGeo(y) /\ CivilGeo(x) \in 0..1 /\ CivilGeo(y) \in 0..1
  BY <1>1 DEF CivilGeo
<1>5. IsKeyTerrain(x) = IsKeyTerrain(y)
  BY <1>1 DEF IsKeyTerrain
<1>6. Score(x) \in Nat /\ Score(y) \in Nat /\ Score(x) <= Score(y)
  <2> DEFINE key == IF IsKeyTerrain(x) THEN 2 ELSE 0
             late(z) == IF "kill_chain_advanced" \in z.flags THEN 2 ELSE 0
             long(z) == IF z.dwelling >= 30 THEN 1 ELSE 0
  <2>1. key \in Nat /\ late(x) \in Nat /\ late(y) \in Nat /\ long(x) \in Nat /\ long(y) \in Nat
    OBVIOUS
  <2>2. late(x) <= late(y)  BY <1>1
  <2>3. long(x) <= long(y)  BY <1>1, <1>2
  <2>4. /\ Score(x) = key + TerrainDependents(x) + TierWeight[x.tier] + late(x) + long(x) + CivilGeo(x)
        /\ Score(y) = key + TerrainDependents(y) + TierWeight[y.tier] + late(y) + long(y) + CivilGeo(y)
    BY <1>5 DEF Score
  <2> HIDE DEF key, late, long
  <2> QED  BY <1>1, <1>3, <1>4, <2>1, <2>2, <2>3, <2>4
<1>7. NoLess(RiskOf(x), RiskOf(y))
  <2>1. CASE ~build.terrain
    BY <2>1 DEF RiskOf, NoLess
  <2>2. CASE build.terrain
    <3>1. RiskOf(x) = MissionRisk(x) /\ RiskOf(y) = MissionRisk(y)
      BY <2>2 DEF RiskOf
    <3>2. RiskOf(x) # None /\ RiskOf(y) # None
      <4>1. ASSUME None \in [score : Nat, key : BOOLEAN, geo : 0..1]  PROVE FALSE
        BY <4>1, NoneIsNoRisk
      <4>2. IsKeyTerrain(x) \in BOOLEAN  BY DEF IsKeyTerrain
      <4>3. /\ MissionRisk(x) \in [score : Nat, key : BOOLEAN, geo : 0..1]
            /\ MissionRisk(y) \in [score : Nat, key : BOOLEAN, geo : 0..1]
        BY <1>4, <1>5, <1>6, <4>2 DEF MissionRisk
      <4> QED  BY <3>1, <4>1, <4>3
    <3>3. /\ MissionRisk(x).score = Score(x) /\ MissionRisk(y).score = Score(y)
          /\ MissionRisk(x).key = MissionRisk(y).key
          /\ MissionRisk(x).geo = CivilGeo(x) /\ MissionRisk(y).geo = CivilGeo(y)
      BY <1>5 DEF MissionRisk
    <3> QED  BY <1>4, <1>6, <3>1, <3>2, <3>3 DEF NoLess
  <2> QED  BY <2>1, <2>2
<1> QED  BY <1>3, <1>4, <1>7

\* Signals added to an alert make it no less urgent.
LEMMA PriorityMonotone ==
  ASSUME NEW x \in Alert, NEW y \in Alert, build \in Build, Raises(x, y)
  PROVE  PriorityOf(y) <= PriorityOf(x)
<1>1. SeverityOf(x) <= SeverityOf(y) /\ SeverityOf(x) \in 0..3 /\ SeverityOf(y) \in 0..3
  BY SeverityMonotone, SeverityType DEF Levels
<1>2. x.actor_active => y.actor_active
  BY DEF Raises
<1> DEFINE base(z) == 4 - SeverityOf(z)
           acted(z) == IF z.actor_active THEN Raise(base(z), 1) ELSE base(z)
           delta(z) == TerrainDependents(z) + CivilGeo(z)
           heavy(z) == build.terrain /\ delta(z) >= MinAlertsPriority
<1>3. ASSUME NEW p \in 1..4, NEW bands \in Nat
      PROVE  Raise(p, bands) \in 1..4 /\ Raise(p, bands) <= p
  BY DEF Raise
<1>4. base(x) \in 1..4 /\ base(y) \in 1..4 /\ base(y) <= base(x)
  BY <1>1
<1> HIDE DEF base
<1>5. acted(x) \in 1..4 /\ acted(y) \in 1..4 /\ acted(y) <= acted(x)
  <2>1. /\ Raise(base(x), 1) \in 1..4 /\ Raise(base(y), 1) \in 1..4
        /\ Raise(base(y), 1) <= base(y) /\ Raise(base(y), 1) <= Raise(base(x), 1)
    BY <1>3, <1>4, RaiseMonotone
  <2> QED  BY <1>2, <1>4, <2>1
<1>6. heavy(x) => heavy(y)
  <2>1. delta(x) \in Nat /\ delta(y) \in Nat /\ delta(x) <= delta(y)
    BY RiskMonotone
  <2> HIDE DEF delta
  <2> QED  BY <2>1, PipelineAssumption
<1>7. /\ PriorityOf(x) = IF heavy(x) THEN Raise(acted(x), PriorityCap) ELSE acted(x)
      /\ PriorityOf(y) = IF heavy(y) THEN Raise(acted(y), PriorityCap) ELSE acted(y)
  BY DEF PriorityOf, base
<1> HIDE DEF acted, heavy
<1>8. /\ Raise(acted(x), PriorityCap) \in 1..4 /\ Raise(acted(y), PriorityCap) \in 1..4
      /\ Raise(acted(y), PriorityCap) <= acted(y)
      /\ Raise(acted(y), PriorityCap) <= Raise(acted(x), PriorityCap)
  BY <1>3, <1>5, RaiseMonotone, PipelineAssumption
<1> QED  BY <1>5, <1>6, <1>7, <1>8

\* Of two alerts that triage has rated in one graph, the one with more signals
\* is gated if the other is: by its level, its mission risk, its playbook or
\* its runbook.
LEMMA GatedMonotone ==
  ASSUME TypeOK, Rated, NEW a \in Alerts, NEW b \in Alerts,
         severity[a] # None, severity[b] # None, Raises(alert[a], alert[b]), Gated(a)
  PROVE  Gated(b)
<1>1. /\ build \in Build /\ alert[a] \in Alert /\ alert[b] \in Alert
      /\ alert[a].scenario = alert[b].scenario /\ alert[a].scenario \in Scenarios
  BY PipelineAssumption DEF TypeOK, Raises, Alert
<1>2. NoLess(risk[a], risk[b])
  BY <1>1, RiskMonotone DEF Rated
<1>3. CASE severity[a] = High
  <2>1. SeverityOf(alert[a]) <= SeverityOf(alert[b]) /\ SeverityOf(alert[b]) \in 0..3
    BY <1>1, SeverityMonotone, SeverityType DEF Levels
  <2>2. severity[b] = High
    BY <1>3, <2>1 DEF Rated, High
  <2> QED  BY <2>2 DEF Gated
<1>4. CASE MissionForces(a)
  BY <1>2, <1>4, PipelineAssumption DEF MissionForces, NoLess, Gated
<1>5. CASE CacaoForces(a)
  <2> DEFINE pb == PlaybookOf(a)
  <2>1. pb # None /\ RequiresHitl(pb, risk[a]) /\ PlaybookOf(b) = pb
    BY <1>1, <1>5 DEF CacaoForces, PlaybookOf
  <2>2. /\ IsFiniteSet(DOMAIN pb.workflow)
        /\ \A s \in DOMAIN pb.workflow : pb.workflow[s].gate.score \in Int
    BY <1>1, <2>1, PlaybookAssumption DEF PlaybookOf
  <2> HIDE DEF pb
  <2>3. RequiresHitl(pb, risk[b])
    BY <1>2, <2>1, <2>2, HitlMonotone
  <2> QED  BY <2>1, <2>3 DEF CacaoForces, Gated
<1>6. CASE RunbookForces(a)
  BY <1>1, <1>6 DEF RunbookForces, Gated
<1> QED  BY <1>3, <1>4, <1>5, <1>6 DEF Gated

\* Signals only ever escalate, for every policy, every playbook (with loops,
\* missing steps and gates in any order) and every graph: the alert that
\* carries more is rated no lower, is no less urgent, and asks the operator
\* if the other does.
THEOREM SignalsEscalate == Spec => []EscalateOnly
<1>1. TypeOK /\ Rated /\ Gate => EscalateOnly
  <2> SUFFICES ASSUME TypeOK, Rated, Gate, NEW a \in Alerts, NEW b \in Alerts,
                      severity[a] # None, severity[b] # None, Raises(alert[a], alert[b])
               PROVE  /\ severity[a] <= severity[b]
                      /\ priority[b] <= priority[a]
                      /\ approval[a] # None /\ approval[b] # None /\ approval[a].required
                           => approval[b].required
    BY DEF EscalateOnly
  <2>1. build \in Build /\ alert[a] \in Alert /\ alert[b] \in Alert
    BY PipelineAssumption DEF TypeOK
  <2>2. severity[a] <= severity[b]
    BY <2>1, SeverityMonotone DEF Rated
  <2>3. priority[b] <= priority[a]
    BY <2>1, PriorityMonotone DEF Rated
  <2>4. ASSUME approval[a] # None, approval[b] # None, approval[a].required
        PROVE  approval[b].required
    <3>1. Gated(a)  BY <2>4 DEF Gate, GateAt
    <3>2. Gated(b)  BY <3>1, GatedMonotone
    <3> QED  BY <2>4, <3>2 DEF Gate, GateAt
  <2> QED  BY <2>2, <2>3, <2>4
<1> QED  BY <1>1, TypeCorrect, RatedInvariant, GateInvariant, PTL
=============================================================================
