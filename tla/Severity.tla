------------------------------ MODULE Severity ------------------------------
(***************************************************************************)
(* What is computed of an alert without any state: the floor of the global *)
(* posture (core/posture.py), the severity (core/severity.py), the mission *)
(* risk and the key terrain (core/terrain.py), and whether its playbook    *)
(* asks for a human (core/cacao.py).  The policy files are the constants.  *)
(*                                                                         *)
(* A level is its ordinal: i, l, m, h are 0..3, and so are the postures    *)
(* normal, elevated, high 0..2.  A rationale, a flag or a log line is left *)
(* out.                                                                    *)
(***************************************************************************)
EXTENDS Integers, FiniteSets

CONSTANTS
  None,            \* Python's None
  Scenarios, Assets, Tiers, Phases,
  TierModifier,    \* severity-policy.yaml: asset_tier_modifier
  PhaseModifier,   \* mission_phase_modifier
  PostureModifier, \* posture_modifier
  LockAt,          \* lock_no_downgrade_at
  EscalateBy,      \* dynamics.escalation: the action of each rule
  DwellAt,         \* threshold_min of dwelling_time_exceeds
  LateralFloor,    \* value of lateral_correlation
  EaseBy,          \* dynamics.de_escalation: the action of no_effect_sustained
  TierWeight,      \* asset-tiers.yaml: the weight of each tier
  KeyPhases,       \* the phases in which an asset is key terrain
  Dependents,      \* how many assets depend on it
  Playbooks        \* the CACAO playbook of a scenario's tactic, or None

Levels == 0..3
High == 3
Postures == 0..2

EscalationRules ==
  {"dwelling", "prediction_match", "kill_chain_advanced", "decoy_hit", "key_terrain"}

ASSUME PolicyAssumption ==
  /\ TierModifier \in [Tiers -> Int]
  /\ PhaseModifier \in [Phases -> Int]
  /\ PostureModifier \in [Postures -> Nat]
  /\ PostureModifier[0] <= PostureModifier[1] /\ PostureModifier[1] <= PostureModifier[2]
  /\ LockAt \in Postures
  /\ EscalateBy \in [EscalationRules -> Nat]
  /\ DwellAt \in Nat
  /\ LateralFloor \in Levels
  /\ EaseBy \in Nat

ASSUME TerrainAssumption ==
  /\ TierWeight \in [Tiers -> Nat]
  /\ KeyPhases \in [Assets -> SUBSET Phases]
  /\ Dependents \in [Assets -> Nat]

ASSUME NoneAssumption == None \notin Nat /\ None # "conservative"

\* A workflow step: [type, next, yes, no, gate].  A gate is the shape of the
\* shipped conditions: a least score, or key terrain, or a known position.
\* "" is the missing successor.
ASSUME PlaybookAssumption ==
  /\ DOMAIN Playbooks = Scenarios
  /\ \A c \in Scenarios : Playbooks[c] # None =>
       /\ IsFiniteSet(DOMAIN Playbooks[c].workflow)
       /\ \A s \in DOMAIN Playbooks[c].workflow : Playbooks[c].workflow[s].gate.score \in Int

\* The alert as the read-only enrichers report it.  The flags stand for the
\* matcher, the progressor and the decoy and terrain detectors.
Flags == {"prediction_match", "kill_chain_advanced", "decoy_hit", "key_terrain"}

Alert ==
  [scenario : Scenarios, asset : Assets, tier : Tiers, phase : Phases,
   baseline : Levels, posture : Postures, dwelling : Nat, lateral : BOOLEAN,
   flags : SUBSET Flags, no_effect : BOOLEAN, geo : BOOLEAN, actor_active : BOOLEAN,
   signals : BOOLEAN, rule : BOOLEAN, ground_truth : {None, "tp", "fp"},
   remediation : BOOLEAN]

-----------------------------------------------------------------------------
(* Enrichment at the entry of triage. *)

IsKeyTerrain(x) == x.phase \in KeyPhases[x.asset]

\* PostureProvider.enrich: the global posture is a floor.
StampPosture(x, floor) == IF floor > x.posture THEN [x EXCEPT !.posture = floor] ELSE x

\* KeyTerrainDetector.enrich: the policy overrides the flag on the wire.
StampTerrain(x) ==
  [x EXCEPT !.flags = IF IsKeyTerrain(x) THEN @ \cup {"key_terrain"}
                                         ELSE @ \ {"key_terrain"}]

-----------------------------------------------------------------------------
(* The severity. *)

Locked(x) == x.posture >= LockAt

Base(x) ==
  x.baseline + TierModifier[x.tier] + PhaseModifier[x.phase] + PostureModifier[x.posture]

By(x, rule) == IF rule \in x.flags THEN EscalateBy[rule] ELSE 0

\* The rules in the order of the policy file: the floor of a lateral
\* correlation applies after the dwell and before the rest.
Dwelt(x) == IF x.dwelling >= DwellAt THEN Base(x) + EscalateBy["dwelling"] ELSE Base(x)

\* Mutant: the floor replaces the level.
CorrelatedSets(x) == IF x.lateral THEN LateralFloor ELSE Dwelt(x)

Correlated(x) == IF x.lateral /\ Dwelt(x) < LateralFloor THEN LateralFloor ELSE Dwelt(x)

Escalated(x) ==
  Correlated(x) + By(x, "prediction_match") + By(x, "kill_chain_advanced")
                + By(x, "decoy_hit") + By(x, "key_terrain")

Eased(x) == IF x.no_effect /\ ~Locked(x) THEN Escalated(x) - EaseBy ELSE Escalated(x)

Held(x) == IF Locked(x) /\ Eased(x) < x.baseline THEN x.baseline ELSE Eased(x)

Clamp(n) == IF n < 0 THEN 0 ELSE IF n > High THEN High ELSE n

SeverityOf(x) == Clamp(Held(x))

-----------------------------------------------------------------------------
(* The mission risk. *)

AtMost(n, cap) == IF n > cap THEN cap ELSE n

CivilGeo(x) == IF x.geo THEN 1 ELSE 0
TerrainDependents(x) == AtMost(Dependents[x.asset], 3)

Score(x) ==
  (IF IsKeyTerrain(x) THEN 2 ELSE 0) + TerrainDependents(x) + TierWeight[x.tier]
    + (IF "kill_chain_advanced" \in x.flags THEN 2 ELSE 0)
    + (IF x.dwelling >= 30 THEN 1 ELSE 0) + CivilGeo(x)

MissionRisk(x) == [score |-> Score(x), key |-> IsKeyTerrain(x), geo |-> CivilGeo(x)]

-----------------------------------------------------------------------------
(* The walk through a playbook.  Without a mission risk a gate is taken to *)
(* hold.                                                                   *)

Holds(gate, risk) ==
  \/ risk = None
  \/ risk.score >= gate.score
  \/ gate.key /\ risk.key
  \/ gate.geo /\ risk.geo >= 1

Active(pb, s) == s \in DOMAIN pb.workflow /\ pb.workflow[s].type # "end"

\* The step after s; a walk that is over stays where it is.
Successor(pb, risk, s) ==
  IF ~Active(pb, s) THEN s
  ELSE LET step == pb.workflow[s]
       IN IF step.type = "if-condition"
          THEN IF Holds(step.gate, risk) THEN step.yes ELSE step.no
          ELSE step.next

Length(pb) == Cardinality(DOMAIN pb.workflow)

Names(pb) ==
  DOMAIN pb.workflow \cup {pb.start}
    \cup UNION {{pb.workflow[s].next, pb.workflow[s].yes, pb.workflow[s].no} : s \in DOMAIN pb.workflow}

Walk(pb, risk) ==
  LET follow == [s \in Names(pb) |-> Successor(pb, risk, s)]
      at[i \in 0..Length(pb)] == IF i = 0 THEN pb.start ELSE follow[at[i - 1]]
  IN at

\* PlaybookError: a loop, or a step that is not there.
Malformed(pb, risk) ==
  LET last == Walk(pb, risk)[Length(pb)]
  IN Active(pb, last) \/ last \notin (DOMAIN pb.workflow) \cup {""}

\* The branches taken: for each if-condition of the walk whether it held.
Branchings(pb, risk) ==
  LET at == Walk(pb, risk)
  IN  {i \in 0..Length(pb) : Active(pb, at[i]) /\ pb.workflow[at[i]].type = "if-condition"}

Conservative(pb, risk, i) == Holds(pb.workflow[Walk(pb, risk)[i]].gate, risk)

\* resolve_playbook's mission_branch: that of the last if-condition.
MissionBranch(pb, risk) ==
  LET branchings == Branchings(pb, risk)
  IN  IF \E i \in branchings :
           Conservative(pb, risk, i) /\ \A j \in branchings : j <= i
      THEN "conservative" ELSE "auto"

\* playbook_requires_hitl: one conservative branch is enough, and a playbook
\* that cannot be walked asks for a human as well.
RequiresHitl(pb, risk) ==
  \/ Malformed(pb, risk)
  \/ \E i \in Branchings(pb, risk) : Conservative(pb, risk, i)
=============================================================================
