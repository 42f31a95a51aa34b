---------------------------- MODULE IncidentCase ----------------------------
(***************************************************************************)
(* The Incident Case lifecycle of core/incident.py, together with its      *)
(* trusted writer agents/outcome_probe_agent.py.                           *)
(*                                                                         *)
(* Two writers share one in-process LRU store of cases, keyed by actor.    *)
(* The report node of the SOC graph (observe_alert) acts on alerts nobody  *)
(* has vouched for; the outcome probe (_submit_case, observe_outcome) acts *)
(* on trusted observations of what really happened.  An alert that came    *)
(* through the hot path carries no actor id, so its case is keyed by the   *)
(* alert's fingerprint until an observation of the same alert id names the *)
(* actor; then the fingerprint case is folded into the actor's case.       *)
(*                                                                         *)
(* Both handlers run to completion without an await, so each is one        *)
(* action.  Left out: timestamps, severity_peak and the SLA minutes, which *)
(* are computed from the fields below and steer none of them.              *)
(***************************************************************************)
EXTENDS Naturals, Sequences, FiniteSets

CONSTANTS
  Actors,        \* explicit actor ids (already stripped)
  Fingerprints,  \* non-empty alert fingerprints
  AlertIds,      \* non-empty alert ids
  Alerts,        \* the alerts that may be reported or observed
  NoActor,       \* alert.actor_id is None
  Blank,         \* alert.actor_id is whitespace: it strips to ""
  EmptyFp,       \* fingerprint of an alert with no threat attribute
  NoId,          \* alert.id is ""
  NoCase,        \* no case is stored under a key
  StoreCap,      \* _CASE_CAP of the store: open cases
  MemberCap,     \* _CASE_CAP of member_alert_ids: the sliding window
  MaxReopen      \* _MAX_REOPEN

CaseKeys == Actors \cup Fingerprints

Alert == [id    : AlertIds \cup {NoId},
          actor : Actors \cup {NoActor, Blank},
          fp    : Fingerprints \cup {EmptyFp},
          stage : Nat,
          dos   : BOOLEAN]

ASSUME CapsAssumption ==
  /\ StoreCap \in Nat \ {0}
  /\ MemberCap \in Nat \ {0}
  /\ MaxReopen \in Nat

(* The identity provider's actor ids do not look like fingerprint hashes.  *)
ASSUME KeysAssumption ==
  /\ Actors \cap Fingerprints = {}
  /\ NoActor \notin Actors \cup {Blank}
  /\ {Blank, EmptyFp} \cap CaseKeys = {}
  /\ NoId \notin AlertIds

ASSUME AlertsAssumption == Alerts \subseteq Alert

VARIABLES
  cases,       \* the store: case key -> case or NoCase
  older,       \* LRU order of the store: <<k, l>> when k was used before l
  cisaCounted  \* keys already counted as CISA reportable by the probe

vars == <<cases, older, cisaCounted>>

-----------------------------------------------------------------------------
(* The case record and its vocabulary. *)

Early  == {"NEW", "ANALYSIS"}
States == Early \cup {"CONTAINMENT", "ERADICATION", "RECOVERY", "CLOSED"}

Order == [NEW |-> 0, ANALYSIS |-> 1, CONTAINMENT |-> 2,
          ERADICATION |-> 3, RECOVERY |-> 4, CLOSED |-> 5]

Cats == {"CAT1", "CAT2", "CAT3", "CAT4", "CAT6", "CAT7", "CAT8"}

ReconMaxOrder == 2
RootOrder     == 11

Case == [state       : States,
         cat         : Cats,
         stage       : Nat,
         members     : Seq(AlertIds),
         provisional : BOOLEAN,
         reopens     : 0..MaxReopen]

ASSUME NoCaseAssumption == NoCase \notin Case

FreshCase == [state |-> "NEW", cat |-> "CAT8", stage |-> 0,
              members |-> <<>>, provisional |-> TRUE, reopens |-> 0]

(* A trusted observation, with the probe engine's verdict on it.  The      *)
(* engine calls a false positive only what had no effect for a while.      *)
Observation ==
  {o \in [verdict    : {"CONFIRMED_TP", "CONFIRMED_FP", "INCONCLUSIVE"},
          recovery   : BOOLEAN,
          reoccurred : BOOLEAN,
          noEffect   : BOOLEAN,
          tampered   : BOOLEAN] : o.verdict = "CONFIRMED_FP" => o.noEffect}

Open == {k \in CaseKeys : cases[k] # NoCase}

Larger(m, n) == IF m >= n THEN m ELSE n

(* resolve_actor_id: an explicit id wins over the fingerprint. *)
KeyOf(a) == IF a.actor = NoActor THEN a.fp ELSE a.actor

(* No case is opened for a blank actor id or an empty fingerprint. *)
Bindable(a) == KeyOf(a) \notin {Blank, EmptyFp}

(* Faulty variant: the report path may give the root-intrusion category. *)
ProvisionalCatUngated(stage) == IF stage >= RootOrder THEN "CAT1" ELSE "CAT8"

ProvisionalCat(stage) == IF stage \in 1..ReconMaxOrder THEN "CAT6" ELSE "CAT8"

AuthoritativeCat(o, stage, dos) ==
  CASE o.verdict # "CONFIRMED_TP"                            -> "CAT3"
    [] o.verdict = "CONFIRMED_TP" /\ o.tampered              -> "CAT7"
    [] o.verdict = "CONFIRMED_TP" /\ ~o.tampered /\ dos      -> "CAT4"
    [] OTHER -> IF stage >= RootOrder THEN "CAT1"
                ELSE IF stage \in 1..ReconMaxOrder THEN "CAT6" ELSE "CAT2"

(* is_cisa_reportable: only a confirmed case can trigger a federal report. *)
CisaReportable(c) ==
  /\ ~c.provisional
  /\ \/ c.cat \in {"CAT1", "CAT4", "CAT7"}
     \/ c.cat = "CAT2" /\ c.reopens > 0

-----------------------------------------------------------------------------
(* member_alert_ids: insertion order, no duplicates, a sliding window. *)

Ids(m) == {m[i] : i \in DOMAIN m}

Newest(m) == IF Len(m) > MemberCap
             THEN SubSeq(m, Len(m) - MemberCap + 1, Len(m))
             ELSE m

IsNew(id, m) == id # NoId /\ id \notin Ids(m)

AddMember(id, m) == IF IsNew(id, m) THEN Newest(Append(m, id)) ELSE m

(* The members of n that m lacks, in the order n has them: the set holds   *)
(* exactly one sequence.                                                   *)
Missing(m, n) ==
  {t \in UNION {[1..j -> Ids(n) \ Ids(m)] : j \in 0..Len(n)} :
     /\ Ids(t) = Ids(n) \ Ids(m)
     /\ \A i, j \in DOMAIN t : i < j =>
          \E p, q \in DOMAIN n : p < q /\ n[p] = t[i] /\ n[q] = t[j]}

-----------------------------------------------------------------------------
(* InMemoryIncidentStore. *)

Forget(r, K)    == {p \in r : p[1] \notin K /\ p[2] \notin K}
Touch(r, k, S)  == Forget(r, {k}) \cup {<<l, k>> : l \in S \ {k}}

(* load: a hit becomes the most recently used case. *)
Loaded(r, k) == IF k \in Open THEN Touch(r, k, Open) ELSE r

Stored(k) == IF k \in Open THEN cases[k] ELSE FreshCase

(* save, after the cases in Gone were deleted: the saved case becomes the  *)
(* most recent one and, past the cap, the least recent one is evicted.     *)
(* One eviction is enough: the store never exceeded the cap before.        *)
Save(k, c, Gone, r) ==
  LET kept    == (Open \ Gone) \cup {k}
      recency == Touch(Forget(r, Gone), k, kept)
      evicted == IF Cardinality(kept) > StoreCap
                 THEN {v \in kept : \A l \in kept \ {v} : <<v, l>> \in recency}
                 ELSE {}
  IN  /\ cases' = [l \in CaseKeys |->
                     IF l \in (Open \cup {k}) \ (Gone \cup evicted)
                     THEN IF l = k THEN c ELSE cases[l]
                     ELSE NoCase]
      /\ older' = Forget(recency, evicted)

-----------------------------------------------------------------------------
(* observe_alert: the report node folds an unvouched alert into its case.  *)
(* The only edge it may take is NEW -> ANALYSIS, and it always rewrites    *)
(* the category from the provisional table.                                *)

(* Faulty variant: reports also take the edge out of ANALYSIS. *)
ReportEdgeToContainment(s) ==
  CASE s = "NEW" -> "ANALYSIS" [] s = "ANALYSIS" -> "CONTAINMENT" [] OTHER -> s

ReportEdge(s) == IF s = "NEW" THEN "ANALYSIS" ELSE s

Reported(c, a) ==
  LET stage == Larger(c.stage, a.stage)
  IN  [c EXCEPT !.state   = ReportEdge(c.state),
                !.members = AddMember(a.id, c.members),
                !.stage   = stage,
                !.cat     = ProvisionalCat(stage)]

ObserveAlert(a) ==
  /\ Bindable(a)
  /\ Save(KeyOf(a), Reported(Stored(KeyOf(a)), a), {}, Loaded(older, KeyOf(a)))
  /\ UNCHANGED cisaCounted

-----------------------------------------------------------------------------
(* observe_outcome: a trusted observation moves the case along.            *)

(* _resolve_case folds in the fingerprint case only if it already holds    *)
(* this very alert: equal fingerprints alone may be another actor's.       *)
Absorbs(a) ==
  /\ a.actor # NoActor
  /\ a.id # NoId
  /\ a.fp # KeyOf(a)
  /\ a.fp \in Open
  /\ a.id \in Ids(cases[a.fp].members)

(* The later of two states. *)
Later(s, t) == IF Order[t] > Order[s] THEN t ELSE s

(* Faulty variant: the folded case is deleted, its alerts are not taken over. *)
ResolvedWithoutMembers(a) ==
  LET c == Stored(KeyOf(a))
  IN  IF Absorbs(a)
      THEN {[c EXCEPT !.state = Later(c.state, cases[a.fp].state),
                      !.stage = Larger(c.stage, cases[a.fp].stage)]}
      ELSE {c}

Resolved(a) ==
  LET c == Stored(KeyOf(a))
  IN  IF Absorbs(a)
      THEN LET f == cases[a.fp]
           IN  {[c EXCEPT !.members = c.members \o t,
                          !.state   = Later(c.state, f.state),
                          !.stage   = Larger(c.stage, f.stage)] :
                  t \in Missing(c.members, f.members)}
      ELSE {c}

(* Faulty variant of Reopens: an alert seen before reopens. *)
ReopensOnAnyTp(c, a, o) ==
  c.state = "CLOSED" /\ o.verdict = "CONFIRMED_TP" /\ c.reopens < MaxReopen

Reopens(c, a, o) ==
  /\ c.state = "CLOSED"
  /\ o.verdict = "CONFIRMED_TP"
  /\ IsNew(a.id, c.members)
  /\ c.reopens < MaxReopen

(* Faulty variant: recovery is declared without eradication. *)
OutcomeTargetSkipping(s, o) ==
  CASE o.verdict = "CONFIRMED_TP" /\ s \in Early       -> "CONTAINMENT"
    [] o.verdict = "CONFIRMED_TP" /\ s = "CONTAINMENT"
         /\ o.recovery                                -> "RECOVERY"
    [] OTHER                                          -> s

(* _outcome_target: at most one state further, never back. *)
OutcomeTarget(s, o) ==
  LET tp == o.verdict = "CONFIRMED_TP"
  IN  CASE tp /\ s \in Early                            -> "CONTAINMENT"
        [] tp /\ s = "CONTAINMENT" /\ o.recovery        -> "ERADICATION"
        [] tp /\ s = "ERADICATION" /\ o.recovery
              /\ ~o.reoccurred                          -> "RECOVERY"
        [] s = "RECOVERY" /\ (o.verdict = "CONFIRMED_FP" \/ o.noEffect)
                                                        -> "CLOSED"
        [] OTHER                                        -> s

Advanced(c, a, o) ==
  LET stage       == Larger(c.stage, a.stage)
      provisional == c.provisional /\ o.verdict # "CONFIRMED_TP"
  IN  [state       |-> IF Reopens(c, a, o) THEN "CONTAINMENT"
                       ELSE OutcomeTarget(c.state, o),
       cat         |-> IF provisional THEN c.cat
                       ELSE AuthoritativeCat(o, stage, a.dos),
       stage       |-> stage,
       members     |-> AddMember(a.id, c.members),
       provisional |-> provisional,
       reopens     |-> IF Reopens(c, a, o) THEN c.reopens + 1 ELSE c.reopens]

(* The store's order after the loads of observe_outcome: the actor's case, *)
(* then the fingerprint case, found to hold the alert or not.              *)
OutcomeLoads(a) ==
  LET r == Loaded(older, KeyOf(a))
  IN  IF a.actor # NoActor /\ a.id # NoId /\ a.fp # KeyOf(a) /\ a.fp \in Open
      THEN Loaded(r, a.fp)
      ELSE r

(* _submit_case: the probe drops an observation without an actor, advances *)
(* the case and counts it once if it has become CISA reportable.           *)
SubmitCase(a, o) ==
  /\ a.actor # NoActor
  /\ o.verdict # "INCONCLUSIVE"
  /\ Bindable(a)
  /\ \E c \in Resolved(a) :
       LET k   == KeyOf(a)
           adv == Advanced(c, a, o)
       IN  /\ Save(k, adv, IF Absorbs(a) THEN {a.fp} ELSE {}, OutcomeLoads(a))
           /\ cisaCounted' = IF CisaReportable(adv) THEN cisaCounted \cup {k}
                                                    ELSE cisaCounted

-----------------------------------------------------------------------------
Init ==
  /\ cases = [k \in CaseKeys |-> NoCase]
  /\ older = {}
  /\ cisaCounted = {}

Next ==
  \/ \E a \in Alerts : ObserveAlert(a)
  \/ \E a \in Alerts, o \in Observation : SubmitCase(a, o)

Spec == Init /\ [][Next]_vars

-----------------------------------------------------------------------------
(* Properties. *)

(* Every variable has its type; in particular no case is reopened more     *)
(* than MaxReopen times (core/incident.py:402).                            *)
TypeOK ==
  /\ cases \in [CaseKeys -> Case \cup {NoCase}]
  /\ older \in SUBSET (CaseKeys \X CaseKeys)
  /\ cisaCounted \in SUBSET CaseKeys

(* Trust boundary (core/incident.py:8-10): a case is past ANALYSIS exactly *)
(* when a trusted CONFIRMED_TP has reached it, whatever mix of reports,    *)
(* merges, false-positive observations and reopenings brought it there.    *)
ContainedIffConfirmed ==
  \A k \in Open : cases[k].provisional <=> cases[k].state \in Early

(* Observations name actors, so a case filed under a bare fingerprint is   *)
(* never confirmed and never reopened (core/incident.py:8-11).             *)
FingerprintStaysProvisional ==
  \A k \in Open \ Actors : cases[k].provisional /\ cases[k].reopens = 0

(* Federal reporting posture: no confirmed case is CISA reportable without *)
(* the probe having counted it (agents/outcome_probe_agent.py:129-137),    *)
(* even if reports or other observations touched it in between.            *)
ReportableIsCounted ==
  \A k \in Open : CisaReportable(cases[k]) => k \in cisaCounted

(* A case leaves the store in one of two ways only: evicted from a full    *)
(* store, every other case having been used later (before this step or by  *)
(* it), or folded into a case that then holds every one of its alerts and  *)
(* is at least as far along (core/incident.py:219, 454-463).               *)
NothingLostSilently ==
  [][\A k \in CaseKeys :
       cases[k] # NoCase /\ cases'[k] = NoCase =>
         \/ /\ Cardinality(Open) = StoreCap
            /\ Cardinality(Open') = StoreCap
            /\ \A l \in Open \ {k} :
                 <<k, l>> \in older \/ \A m \in Open : <<l, m>> \notin older'
         \/ \E l \in CaseKeys \ {k} :
              /\ cases'[l] # NoCase
              /\ Ids(cases[k].members) \subseteq Ids(cases'[l].members)
              /\ Order[cases'[l].state] >= Order[cases[k].state]
              /\ cases'[l].stage >= cases[k].stage]_vars

(* A closed case is reopened only by an alert that is not one of its       *)
(* members just then (core/incident.py:396-402): one that is cannot cycle  *)
(* it between CLOSED and CONTAINMENT.  An alert that has slid out of the   *)
(* window of members counts as new.                                        *)
ReopenNeedsNewAlert ==
  [][\A k \in CaseKeys :
       cases[k] # NoCase /\ cases'[k] # NoCase
         /\ cases'[k].reopens # cases[k].reopens =>
         /\ cases[k].state = "CLOSED"
         /\ cases'[k].state = "CONTAINMENT"
         /\ ~(Ids(cases'[k].members) \subseteq Ids(cases[k].members))]_vars

(* The code implements the abstract lifecycle: stage by stage, forward,    *)
(* reopening apart, with the report path confined to ANALYSIS.             *)
Lifecycle ==
  INSTANCE CaseLifecycle WITH
    Keys    <- CaseKeys,
    Trusted <- Actors,
    phase   <- [k \in CaseKeys |->
                  IF cases[k] = NoCase THEN "ABSENT" ELSE cases[k].state],
    reopens <- [k \in CaseKeys |->
                  IF cases[k] = NoCase THEN 0 ELSE cases[k].reopens]

ImplementsLifecycle == Lifecycle!Spec

=============================================================================
