----------------------------- MODULE ActiveHunt -----------------------------
(***************************************************************************)
(* The active hunt (core/active_hunt.py, agents/active_hunt_agent.py): for *)
(* an alert it queries the log workspace ahead, for the techniques that    *)
(* are predicted, and, when the stage and the posture call for it, back in *)
(* time, for those of the stages before.  A template is a query a human    *)
(* wrote; a technique without one leaves a note instead.                   *)
(*                                                                         *)
(* What the workspace holds is a set of rows, each a technique and its age *)
(* in hours before the alert: negative ages are still to come.  The text   *)
(* of queries, their samples and the rows a template overlooks are left    *)
(* out.                                                                    *)
(***************************************************************************)
EXTENDS CoverageMatrix, SequencesExt

CONSTANTS
  Templates,      \* the queries in order: [id, technique, direction]
  ForceTactics,   \* tactics that are always traced back
  CpconThresholds,\* level of posture -> the tactic from which alerts are traced back
  Cpcon,          \* the level
  TerrainDelta, RiskDelta, \* how much earlier for key terrain, for a high mission risk
  MaxQueries,     \* max_queries_per_alert
  ForwardSpan, BackwardSpan, ForceSpan, MaxLookback,  \* windows, in hours
  HuntEnabled     \* active_hunt_enabled, with a workspace

ASSUME SpansAssumption ==
  /\ {ForwardSpan, BackwardSpan, ForceSpan, MaxLookback, TerrainDelta, RiskDelta} \subseteq Nat
  /\ MaxQueries \in Nat \ {0}
  /\ Templates \in Seq(Range(Templates))
  /\ \A t \in Range(Templates) : t.direction \in {"forward", "backward", "both"}
  /\ HuntEnabled \in BOOLEAN

-----------------------------------------------------------------------------
(* The plan. *)

Forced(tactics) == tactics \cap ForceTactics # {}

CurrentOrder(tactics) == MaxTacticOrder(tactics)

(* A level without a tactic sets it just past the alert's own stage.       *)
Threshold(s) ==
  LET named == IF Cpcon \in DOMAIN CpconThresholds THEN TacticOrder(CpconThresholds[Cpcon]) ELSE 0
      base  == IF named # 0 THEN named ELSE CurrentOrder(Range(s.tactics)) + 1
      lower == (IF s.terrain THEN TerrainDelta ELSE 0) + (IF s.risky THEN RiskDelta ELSE 0)
      last  == MaxTacticOrder({r.tactic : r \in Matrix})
  IN  Max({1, Min({last, base - lower})})

ShouldBackwardHunt(s) ==
  \/ Forced(Range(s.tactics))
  \/ CurrentOrder(Range(s.tactics)) >= Threshold(s)

Lookback(tactics) == Min({IF Forced(tactics) THEN ForceSpan ELSE BackwardSpan, MaxLookback})

(* Faulty variant: the stage just before is left out.                      *)
PreviousTacticsShort(order) == {r \in Matrix : r.order < order - 1}

(* Where an alert is traced back to: the rows of the matrix before it.     *)
PreviousTactics(order) == {r \in Matrix : r.order < order}

(* The techniques of a row have no order that matters but for the cap.     *)
TechniquesOf(row) ==
  SetToSeq(row.covered) \o SetToSeq(row.planned \ row.covered)
    \o SetToSeq(row.uncovered \ (row.covered \cup row.planned))

(* A lead: a technique, a direction and a window of ages.  Its place among *)
(* the leads has two coordinates: predictions come before any row.         *)
Lead(place, direction, technique, oldest, newest) ==
  [place |-> place, direction |-> direction, technique |-> technique,
   oldest |-> oldest, newest |-> newest]

ForwardLeads(predictions) ==
  {Lead(<<0, i>>, "forward", predictions[i], 0, -ForwardSpan) : i \in DOMAIN predictions}

TracedTo(row, s) ==
  {Lead(<<row.order, i>>, "backward", TechniquesOf(row)[i], Lookback(Range(s.tactics)), 0) :
     i \in DOMAIN TechniquesOf(row)}

BackwardLeads(s) ==
  IF ShouldBackwardHunt(s)
  THEN UNION {TracedTo(r, s) : r \in PreviousTactics(CurrentOrder(Range(s.tactics)))}
  ELSE {}

(* _queries_for                                                            *)
QueriesFor(lead) ==
  {[id |-> Templates[i].id, lead |-> lead, nth |-> i] :
     i \in {i \in DOMAIN Templates : /\ Templates[i].technique = lead.technique
                                     /\ Templates[i].direction \in {lead.direction, "both"}}}

Earlier(p, q) ==
  LET a == p.lead.place
      b == q.lead.place
  IN  \/ a[1] < b[1]
      \/ a[1] = b[1] /\ a[2] < b[2]
      \/ a = b /\ p.nth < q.nth

(* ActiveHuntPlanner.plan: the cap takes the queries ahead first.          *)
Plan(s, predictions) ==
  LET leads   == ForwardLeads(predictions) \cup BackwardLeads(s)
      queries == UNION {QueriesFor(l) : l \in leads}
  IN  [queries     |-> {q \in queries :
                          Cardinality({p \in queries : Earlier(p, q)}) < MaxQueries},
       cut         |-> Cardinality(queries) > MaxQueries,
       unavailable |-> {l \in leads : QueriesFor(l) = {}}]

-----------------------------------------------------------------------------
(* The queries, one after the other; one that fails is a finding as well.  *)

Finding(lead, matched, error) ==
  [direction |-> lead.direction, technique |-> lead.technique,
   matched |-> matched, error |-> error]

(* The client's answer in a workspace ws: it may break off, with an error  *)
(* and the rows that came by then.                                         *)
PartialError(q, ws) == q.id \in DOMAIN ws.partial

ResponseRows(q, ws) ==
  {r \in IF PartialError(q, ws) THEN ws.partial[q.id] ELSE ws.rows :
     r.technique = q.lead.technique /\ q.lead.newest <= r.age /\ r.age <= q.lead.oldest}

QueryResult(q, ws) ==
  [row_count |-> Cardinality(ResponseRows(q, ws)), error |-> PartialError(q, ws)]

(* _run_query: the rows of a partial answer count.                         *)
RunQuery(q, ws) ==
  IF q.id \in ws.failing THEN Finding(q.lead, FALSE, TRUE)
  ELSE LET result == QueryResult(q, ws)
       IN  Finding(q.lead, result.row_count > 0, result.error)

(* ActiveHuntAgent.run                                                     *)
ActiveFindings(s, predictions, ws) ==
  IF ~HuntEnabled THEN {}
  ELSE LET plan == Plan(s, predictions)
       IN  {Finding(l, FALSE, TRUE) : l \in plan.unavailable}
           \cup {RunQuery(q, ws) : q \in plan.queries}
=============================================================================
