---------------------------- MODULE ReportLenses ----------------------------
(***************************************************************************)
(* The analyses that agents/report_agent.py lays over an alert, each one a *)
(* function of the alert, of what is on file about its actor, of the       *)
(* forecast of the investigation and of policies read once: courses of     *)
(* action, recovery, campaigns, hunts, the pace of the attack, staged      *)
(* defences, decoys, threat classes, the diamond, the causal chain, the    *)
(* damage to the mission.                                                  *)
(*                                                                         *)
(* Words, scores of playbooks, the note on the engagement in the Deceive   *)
(* cells and the explanations of the language model are left out: nothing  *)
(* here depends on them.  A probability is in twentieths.                  *)
(***************************************************************************)
EXTENDS CoverageMatrix, TLC, SequencesExt

CONSTANTS
  Defenses, Cells,   \* coa-matrix.yaml: the seven axes, <<tactic, defence>> filled
  Plans,             \* recovery-matrix.yaml: tactics with a plan
  Chains,            \* campaign-chains.yaml: sequences of scenarios
  MinMatch,          \* _MIN_MATCH
  TopK,              \* _DEFAULT_TOP_K of the hunt planner
  Alphabet,          \* the focuses of hunts, by tactic and name
  Lures,             \* TECHNIQUE_DECOY_MAP: techniques with a decoy
  Threats,           \* stride-model.yaml: code -> its tactics
  CausalRules,       \* the rules in order: [id, signals, steps]
  Degradations,      \* degradation-matrix.yaml: asset -> level of continuity
  None               \* Python's None

(* A chain names a scenario once: the file's chains do.                    *)
ASSUME ChainsAssumption == \A c \in Chains : c \in Seq(Range(c)) /\ IsInjective(c)

-----------------------------------------------------------------------------
(* Courses of action: one menu for the stage reached, one for each tactic  *)
(* a predicted technique belongs to.                                       *)

CoaOption(tactic, stage, defense) ==
  [tactic |-> tactic, stage |-> stage, defense |-> defense,
   status |-> IF <<tactic, defense>> \in Cells THEN "available" ELSE "gap"]

Menu(tactic, stage) == {CoaOption(tactic, stage, d) : d \in Defenses}

(* None when no tactic is in the matrix.                                   *)
Reached(tactics) ==
  IF MaxTacticOrder(tactics) = 0 THEN None ELSE Furthest(tactics)

CoursesOfAction(tactics, predicted) ==
  LET current == Reached(tactics)
  IN  (IF current = None THEN {} ELSE Menu(current, "current"))
      \cup UNION {Menu(t, "predicted") :
                    t \in {TacticOf(p) : p \in predicted} \ {NoTactic, current}}

(* A tactic outside the matrix counts as 0 and may still have a plan.      *)
Recovery(tactics) ==
  IF tactics \cap Plans = {} THEN None ELSE Furthest(tactics \cap Plans)

-----------------------------------------------------------------------------
(* Campaigns: how much of each chain the scenarios went through in order.  *)

(* Faulty variant: in any order. *)
PrefixMatchUnordered(sequence, history) ==
  Max({n \in 0..Len(sequence) : \A i \in 1..n : sequence[i] \in Range(history)})

(* How far into the chain each part of the history has come.               *)
Met(sequence, history) ==
  LET met[i \in 0..Len(history)] ==
        IF i = 0 THEN 0
        ELSE IF met[i - 1] < Len(sequence) /\ history[i] = sequence[met[i - 1] + 1]
             THEN met[i - 1] + 1 ELSE met[i - 1]
  IN  met

PrefixMatch(sequence, history) == Met(sequence, history)[Len(history)]

(* What comes next is kept back when it has been seen already.             *)
NextExpected(sequence, n, history) ==
  IF n = Len(sequence) \/ sequence[n + 1] \in Range(history) THEN None
  ELSE sequence[n + 1]

CampaignMatch(chain, n, history) ==
  [chain |-> chain, matched |-> n, next |-> NextExpected(chain, n, history)]

Campaigns(history) ==
  {CampaignMatch(c, PrefixMatch(c, history), history) :
     c \in {c \in Chains : PrefixMatch(c, history) >= MinMatch}}

-----------------------------------------------------------------------------
(* Hunts: three sources, the best hypothesis for each focus, the first K.  *)

Rank == [prediction |-> 0, campaign |-> 1, coverage_gap |-> 2]

Hypothesis(focus, source, priority) ==
  [focus |-> focus, source |-> source, priority |-> priority]

Before(g, h) ==
  \/ g.priority > h.priority
  \/ g.priority = h.priority /\ Rank[g.source] < Rank[h.source]
  \/ /\ g.priority = h.priority /\ g.source = h.source
     /\ \E i, j \in DOMAIN Alphabet : i < j /\ Alphabet[i] = g.focus /\ Alphabet[j] = h.focus

Hypotheses(forecast, campaigns, tactics) ==
  {Hypothesis(p.technique, "prediction", 100 + p.probability) : p \in forecast}
  \cup {Hypothesis(m.next, "campaign", 80 + m.matched) :
          m \in {m \in campaigns : m.next # None}}
  \cup {Hypothesis(g.focus, "coverage_gap", 50 + g.order) : g \in GapsAround(tactics)}

Hunts(forecast, campaigns, tactics) ==
  LET all  == Hypotheses(forecast, campaigns, tactics)
      best == {h \in all : ~ \E g \in all : g.focus = h.focus /\ Before(g, h)}
      sort == SetToSortSeq(best, Before)
  IN  SubSeq(sort, 1, Min({TopK, Len(sort)}))

-----------------------------------------------------------------------------
(* The pace of the attack, from the times of the steps on file.            *)

(* Steps of one alert share their time and give no pace: what the others  *)
(* took to the next one.                                                   *)
Paces(steps) ==
  LET pace(i) == steps[i + 1].time - steps[i].time
  IN  [i \in {i \in 1..(Len(steps) - 1) : pace(i) > 0} |-> pace(i)]

(* The k-th smallest of the values of f. *)
Smallest(f, k) ==
  CHOOSE v \in Range(f) : /\ Cardinality({i \in DOMAIN f : f[i] < v}) < k
                          /\ k <= Cardinality({i \in DOMAIN f : f[i] <= v})

TwiceMedian(f) ==
  LET n == Cardinality(DOMAIN f)
  IN  Smallest(f, (n + 1) \div 2) + Smallest(f, (n + 2) \div 2)

DecisionAdvantage(latency, steps) ==
  IF Len(steps) < 2 \/ DOMAIN Paces(steps) = {} THEN "unknown"
  ELSE IF 2 * latency < TwiceMedian(Paces(steps)) THEN "margin" ELSE "contested"

-----------------------------------------------------------------------------
(* What the forecast, and the alert alone, say. *)

StatusOf(technique) ==
  CASE Mapped(technique) /\ technique \in RowOf(technique).covered -> "staged"
    [] /\ Mapped(technique) /\ technique \notin RowOf(technique).covered
       /\ technique \in RowOf(technique).planned                   -> "accelerate"
    [] OTHER                                                        -> "gap"

StagedDefense(p) ==
  [technique |-> p.technique, status |-> StatusOf(p.technique), probability |-> p.probability]

Staged(forecast) == {StagedDefense(p) : p \in forecast}

(* A placement is known by its technique and its target.                   *)
DecoyPlacement(p, asset) ==
  [technique |-> p.technique, asset |-> asset, probability |-> p.probability]

Placements(forecast, asset) ==
  {DecoyPlacement(p, asset) : p \in {p \in forecast : p.technique \in Lures}}

(* Tags on the alert win over what its tactics suggest.                    *)
ThreatClasses(tags, tactics) ==
  IF tags # {} THEN tags \cap DOMAIN Threats
  ELSE {code \in DOMAIN Threats : Threats[code] \cap tactics # {}}

(* The first rule a signal of the alert triggers.                          *)
CausalChain(signals) ==
  LET hits == {i \in DOMAIN CausalRules : CausalRules[i].signals \cap signals # {}}
  IN  IF hits = {} THEN <<>> ELSE CausalRules[Min(hits)].steps

-----------------------------------------------------------------------------
(* The graph of indicators of attack.  A node is known by its kind and     *)
(* name, an edge by its ends; attributes are left out.                     *)

Technique(t) == <<"technique", t>>
Tactic(t)    == <<"tactic", t>>

(* The actor, its techniques and the tactics they are filed under.         *)
ActorPart(actor, p) ==
  LET filed == {x \in p.stats : x[1] # NoTactic}
  IN  [nodes |-> {<<"actor", actor>>} \cup {Technique(x[2]) : x \in p.stats}
                   \cup {Tactic(x[1]) : x \in filed},
       edges |-> ({<<"actor", actor>>} \X {Technique(x[2]) : x \in p.stats})
                   \cup {<<Technique(x[2]), Tactic(x[1])>> : x \in filed}]

(* The steps on file, a technique after the other.                         *)
ChainPart(p) ==
  LET step(i) == Technique(p.steps[i].technique)
      moves   == 1..(Len(p.steps) - 1)
  IN  [nodes |-> UNION {{step(i), step(i + 1)} : i \in moves},
       edges |-> {<<step(i), step(i + 1)>> : i \in moves}]

(* What is predicted hangs from the last step, or else from the actor;     *)
(* without a profile there is neither.                                     *)
PredictedPart(actor, p, forecast) ==
  LET nodes  == {<<"prediction", f.technique>> : f \in forecast}
      anchor == IF p.steps # <<>> THEN {Technique(Last(p.steps).technique)}
                ELSE IF actor # None THEN {<<"actor", actor>>} ELSE {}
  IN  [nodes |-> nodes, edges |-> anchor \X nodes]

(* Each effect after the other, and the techniques that explain them.      *)
CausalPart(causal) ==
  LET effect(i) == <<"effect", causal[i].effect>>
      explained == {i \in DOMAIN causal : causal[i].technique # None}
  IN  [nodes |-> {effect(i) : i \in DOMAIN causal}
                   \cup {Technique(causal[i].technique) : i \in explained},
       edges |-> {<<Technique(causal[i].technique), effect(i)>> : i \in explained}
                   \cup {<<effect(i), effect(i + 1)>> : i \in 1..(Len(causal) - 1)}]

AttackGraph(actor, p, forecast, causal) ==
  LET parts == (IF actor = None THEN {} ELSE {ActorPart(actor, p), ChainPart(p)})
                 \cup {PredictedPart(actor, p, forecast), CausalPart(causal)}
  IN  [nodes |-> UNION {g.nodes : g \in parts}, edges |-> UNION {g.edges : g \in parts}]

-----------------------------------------------------------------------------
(* What the diamond and the damage to the mission say. *)

DiamondEvent(actor, capabilities, asset) ==
  [adversary |-> actor, capabilities |-> capabilities, victim |-> asset]

Continuity(asset, verdict) ==
  IF verdict = "TRUE_POSITIVE" /\ asset \in DOMAIN Degradations
  THEN Degradations[asset] ELSE None
=============================================================================
