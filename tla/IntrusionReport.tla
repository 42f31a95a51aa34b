-------------------------- MODULE IntrusionReport --------------------------
(***************************************************************************)
(* The report stage of the SOC graph (agents/report_agent.py), composed    *)
(* with the incident cases (IncidentCase), the analyses (ReportLenses) and *)
(* the hunt in the log workspace (ActiveHunt): what a commander is told    *)
(* about an alert, while the outcome worker goes on confirming attacks.    *)
(*                                                                         *)
(* An alert is first enriched from the profile of its actor (killchain.py, *)
(* deception.py), then judged, then reported; the worker may learn of      *)
(* other attacks in between.  The worker itself writes the profile first   *)
(* and the case afterwards, and a report may come between the two.         *)
(*                                                                         *)
(* The verdict, the forecast, the time the pipeline took and what the log  *)
(* workspace holds are inputs.  The hunt reads nothing the worker writes   *)
(* and is part of the report's step.                                       *)
(* The report recalls the profile in one step and opens the case in the    *)
(* next: in between it waits for the check of the software components, and *)
(* the worker may write profile and case meanwhile.                        *)
(* Of a profile only the steps and the statistics of techniques are kept.  *)
(* Left out: the static postures a report quotes, the level and the wording *)
(* of a directive, and its deadlines, which the report asks for without    *)
(* the time and never gets.                                                *)
(***************************************************************************)
EXTENDS IncidentCase, ReportLenses, ActiveHunt, Hypotheses

CONSTANTS
  Says,          \* what an alert says: id -> its fields
  Outcomes,      \* observations of the outcome worker
  Runs,          \* how a pipeline may end: verdict, forecast, latency, found, rows, failing, partial
  ChainCap,      \* _KILL_CHAIN_CAP
  AdvancedOrder, \* _DEFAULT_ADVANCED_ORDER
  DecoyAssets,   \* decoy-assets.yaml
  MainEffort,    \* assets, scenarios and phases of commander-intent.yaml
  Surface, Delegate,      \* its categories
  Unreadable,    \* TRUE: a recall of a profile may fail
  MaxTime, MaxConfirms    \* bounds

ASSUME OutcomesAssumption == Outcomes \subseteq Observation

(* The case manager computes the stage from the matrix.                    *)
ASSUME StagesAssumption ==
  \A a \in Alerts : a.id \in DOMAIN Says /\ a.stage = MaxTacticOrder(Range(Says[a.id].tactics))

(* The policies have the shape the loaders demand, and None is no string.   *)
ASSUME PoliciesAssumption ==
  /\ AdvancedOrder \in Nat
  /\ ChainCap \in Nat
  /\ Defenses # {}
  /\ \A i \in DOMAIN CausalRules :
       CausalRules[i].steps \in Seq(Range(CausalRules[i].steps))
  /\ DOMAIN CausalRules \in SUBSET Nat
  /\ None \notin Case \cup Actors \cup Plans \cup {r.tactic : r \in Matrix}

(* An alert names its tactics and techniques in an order.                  *)
ASSUME SaysAssumption ==
  \A id \in DOMAIN Says :
    /\ Says[id].tactics \in Seq(Range(Says[id].tactics))
    /\ Says[id].techniques \in Seq(Range(Says[id].techniques))

(* A pipeline takes a time, predicts so many techniques and counts finds.  *)
ASSUME RunsAssumption ==
  \A r \in Runs :
    /\ r.latency \in Nat
    /\ IsFiniteSet(r.forecast) /\ \A p \in r.forecast : p.probability \in Nat
    /\ r.found \in [DOMAIN r.found -> Nat]
    /\ IsFiniteSet(r.rows) /\ \A i \in DOMAIN r.partial : IsFiniteSet(r.partial[i])

VARIABLES
  profiles,  \* actor -> its profile, of the actors that have one
  now,       \* the clock of the worker
  alert,     \* the alert in the pipeline, with its flags, or None
  memory,    \* the profile the report has recalled, and, as history, what was
             \* told of its actor by then; None before the recall
  filing,    \* the observation whose case the worker has not filed yet, or None
  report,    \* the report this step has made, or None
  (* history, which no action reads *)
  told,      \* actor -> the confirmed alerts that reached its profile
  vouched    \* keys of cases a trusted observation has confirmed

reportVars == <<profiles, now, alert, memory, filing, report, told, vouched>>
allVars    == <<vars, reportVars>>

-----------------------------------------------------------------------------
(* Profiles. *)

NoProfile == [steps |-> <<>>, stats |-> {}]

Kept(steps) == IF Len(steps) > ChainCap
               THEN SubSeq(steps, Len(steps) - ChainCap + 1, Len(steps)) ELSE steps

(* Every technique is filed under the first tactic of its alert.           *)
FiledUnder(s) == IF s.tactics = <<>> THEN NoTactic ELSE s.tactics[1]

(* Faulty variant: the statistics go with the steps that leave the window. *)
LearnedWindowed(p, s) ==
  LET steps == Kept(p.steps \o [i \in DOMAIN s.techniques |->
                   [time |-> now, scenario |-> s.scenario, technique |-> s.techniques[i]]])
  IN  [steps |-> steps,
       stats |-> {x \in p.stats : x[2] \in {steps[i].technique : i \in DOMAIN steps}}
                   \cup {<<FiledUnder(s), t>> : t \in Range(s.techniques)}]

(* _merge_profile                                                          *)
Learned(p, s) ==
  [steps |-> Kept(p.steps \o [i \in DOMAIN s.techniques |->
                   [time |-> now, scenario |-> s.scenario, technique |-> s.techniques[i]]]),
   stats |-> p.stats \cup {<<FiledUnder(s), t>> : t \in Range(s.techniques)}]

TacticsOnFile(p) == {x[1] : x \in p.stats}

(* A profile that is missing, fails its signature or cannot be read is None. *)
Recalls(k) ==
  (IF k \in DOMAIN profiles THEN {profiles[k]} ELSE {None})
  \cup (IF Unreadable THEN {None} ELSE {})

-----------------------------------------------------------------------------
(* The commander's intent, the directive and the brief.                    *)

(* CommanderIntent refuses a policy that could hide a critical category.   *)
IntentLoaded ==
  /\ Surface \cup Delegate \subseteq Cats
  /\ Surface \cap Delegate = {}
  /\ {"CAT1", "CAT4", "CAT7"} \subseteq Surface

Concerns(s) == {s.asset, s.scenario, s.phase} \cap MainEffort # {}

(* Faulty variant: a case nobody has confirmed may be delegated.           *)
DecisionClassUngated(s, c) ==
  CASE ~IntentLoaded                                    -> "surfaced"
    [] IntentLoaded /\ Concerns(s)                      -> "commander_decision"
    [] OTHER -> IF c = None THEN "surfaced"
                ELSE IF c.cat \in Surface THEN "commander_decision"
                ELSE IF c.cat \in Delegate THEN "routine_soc" ELSE "surfaced"

DecisionClass(s, c) ==
  CASE ~IntentLoaded                                    -> "surfaced"
    [] IntentLoaded /\ Concerns(s)                      -> "commander_decision"
    [] OTHER -> IF c = None THEN "surfaced"
                ELSE IF c.cat \in Surface THEN "commander_decision"
                ELSE IF c.cat \in Delegate /\ ~c.provisional THEN "routine_soc"
                ELSE "surfaced"

HighCats == {"CAT1", "CAT4", "CAT7"}

(* Approval is asked for on authority, never for a provisional category.   *)
HitlRequired(c) ==
  /\ c # None
  /\ ~c.provisional \/ c.reopens > 0
  /\ c.cat \in HighCats \/ c.reopens > 0

Confidence(c) ==
  IF c = None THEN "unknown" ELSE IF c.provisional THEN "provisional" ELSE "authoritative"

(* What the brief leaves to routine needs a policy that was read.          *)
Routine(s, c) == IntentLoaded /\ DecisionClass(s, c) = "routine_soc"

-----------------------------------------------------------------------------
(* The pipeline. *)

IsLate(order) == order >= AdvancedOrder

(* Enrichment, before triage: the stage its actor has reached, and decoys. *)
Take(a) ==
  /\ alert = None
  /\ \E p \in Recalls(KeyOf(a)) :
       LET s       == Says[a.id]
           tactics == Range(s.tactics) \cup (IF p = None THEN {} ELSE TacticsOnFile(p))
       IN  alert' = [of       |-> a,
                     advanced |-> IsLate(MaxTacticOrder(tactics)),
                     decoy    |-> s.asset \in DecoyAssets]
  /\ report' = None
  /\ UNCHANGED <<vars, profiles, now, memory, filing, told, vouched>>

(* The alert as the case manager sees it: flagged, it is late in the chain. *)
AtStage(al) ==
  [al.of EXCEPT !.stage = Larger(@, IF al.advanced THEN AdvancedOrder ELSE 0)]

(* The scenarios on file, oldest first, and the one at hand.               *)
History(p, s) == [i \in DOMAIN p.steps |-> p.steps[i].scenario] \o <<s.scenario>>

(* The capability vertex of the diamond.                                   *)
Capabilities(p, s) == Range(s.techniques) \cup {x[2] : x \in p.stats}

(* The predictions, the likeliest first.                                   *)
Likeliest(forecast) ==
  SetToSortSeq(forecast, LAMBDA p, q : p.probability > q.probability)

Predictions(run) ==
  [i \in 1..Cardinality(run.forecast) |-> Likeliest(run.forecast)[i].technique]

(* What the investigation found, the forecast and the flags of the alert;  *)
(* every strength in tenths, where a flag is 10.                           *)
ExtractEvidence(al, s, run) ==
  LET flag(b) == IF b THEN 10 ELSE 0
      known   == [decoy_hit |-> flag(al.decoy), kill_chain_advanced |-> flag(al.advanced),
                  key_terrain |-> flag(s.terrain),
                  prediction_probability |->
                    Max({0} \cup {p.probability \div 2 : p \in run.forecast})]
  IN  [key \in DOMAIN known \cup DOMAIN run.found |->
         IF key \in DOMAIN known THEN known[key] ELSE run.found[key]]

(* What the analyses say of an alert that says s, its profile recalled or  *)
(* not.                                                                    *)
Analyses(al, s, recalled, run) ==
  LET p         == IF recalled = None THEN NoProfile ELSE recalled
      actor     == IF recalled = None THEN None ELSE al.of.actor
      tactics   == Range(s.tactics) \cup TacticsOnFile(p)
      campaigns == Campaigns(History(p, s))
      hunted    == IF p.stats # {} THEN TacticsOnFile(p) ELSE Range(s.tactics)
  IN  [coas       |-> CoursesOfAction(tactics, {x.technique : x \in run.forecast}),
       recovery   |-> IF run.verdict = "TRUE_POSITIVE" THEN Recovery(tactics) ELSE None,
       continuity |-> Continuity(s.asset, run.verdict),
       campaigns  |-> campaigns,
       hunts      |-> Hunts(run.forecast, campaigns, hunted),
       staged     |-> Staged(run.forecast),
       decoys     |-> Placements(run.forecast, s.asset),
       threats    |-> ThreatClasses(s.tags, Range(s.tactics)),
       causal     |-> CausalChain(s.signals),
       graph      |-> AttackGraph(actor, p, run.forecast, CausalChain(s.signals)),
       hypotheses |-> Ranked(ExtractEvidence(al, s, run)),
       diamond    |-> DiamondEvent(al.of.actor, Capabilities(p, s), s.asset),
       pace       |-> DecisionAdvantage(run.latency, p.steps)]

(* What the commander reads. *)
SocReport(al, s, c, recalled, run) ==
  [says       |-> Analyses(al, s, recalled, run),
   hunted     |-> ActiveFindings(s, Predictions(run), run),
   confidence |-> Confidence(c),
   hitl       |-> HitlRequired(c),
   routine    |-> Routine(s, c)]

(* ReportAgent.run, as far as the one recall that all analyses share.  An  *)
(* alert without an actor has no profile here, though its case may have a  *)
(* fingerprint for a key.                                                  *)
Recall ==
  /\ alert # None /\ memory = None
  /\ LET k == alert.of.actor IN
     \E p \in (IF k \in {NoActor, Blank} THEN {None} ELSE Recalls(k)) :
       memory' = [profile |-> p, told |-> IF p = None THEN <<>> ELSE told[k]]
  /\ report' = None
  /\ UNCHANGED <<vars, profiles, now, alert, filing, told, vouched>>

(* The rest of it: the case is opened, and the report made from the case   *)
(* of now and the profile of then.                                         *)
Report(run) ==
  /\ alert # None /\ memory # None
  /\ LET a == AtStage(alert)
         s == Says[a.id]
         p == memory.profile
         c == IF Bindable(a) THEN Reported(Stored(KeyOf(a)), a) ELSE None
     IN  /\ IF Bindable(a) THEN ObserveAlert(a) ELSE UNCHANGED vars
         /\ report' = [of |-> a, flagged |-> alert.advanced \/ alert.decoy,
                       recalled |-> p # None, run |-> run,
                       asOf |-> [told |-> memory.told, vouched |-> KeyOf(a) \in vouched],
                       soc |-> SocReport(alert, s, c, p, run)]
  /\ alert' = None /\ memory' = None
  /\ UNCHANGED <<profiles, now, filing, told, vouched>>

-----------------------------------------------------------------------------
(* The outcome worker. *)

Confirmations == LET told_(k) == Len(told[k]) IN MapThenSumSet(told_, Actors)

(* The actor gate takes confirmed attacks only.                            *)
Learn(a, o) ==
  /\ filing = None
  /\ a.actor \in Actors
  /\ Confirmations < MaxConfirms
  /\ LET s == Says[a.id]
         p == IF a.actor \in DOMAIN profiles THEN profiles[a.actor] ELSE NoProfile
     IN  IF o.verdict = "CONFIRMED_TP"
         THEN /\ profiles' = [k \in DOMAIN profiles \cup {a.actor} |->
                             IF k = a.actor THEN Learned(p, s) ELSE profiles[k]]
              /\ told' = [told EXCEPT ![a.actor] = Append(@, [id |-> a.id, time |-> now])]
         ELSE UNCHANGED <<profiles, told>>
  /\ filing' = [of |-> a, outcome |-> o]
  /\ report' = None
  /\ UNCHANGED <<vars, now, alert, memory, vouched>>

File ==
  /\ filing # None
  /\ LET a == filing.of
         o == filing.outcome
         k == KeyOf(a)
     IN  /\ IF o.verdict # "INCONCLUSIVE" THEN SubmitCase(a, o) ELSE UNCHANGED vars
         /\ vouched' = IF o.verdict = "CONFIRMED_TP" THEN vouched \cup {k} ELSE vouched
  /\ filing' = None
  /\ report' = None
  /\ UNCHANGED <<profiles, now, alert, memory, told>>

Tick ==
  /\ now < MaxTime
  /\ now' = now + 1
  /\ report' = None
  /\ UNCHANGED <<vars, profiles, alert, memory, filing, told, vouched>>

-----------------------------------------------------------------------------
ReportInit ==
  /\ Init
  /\ profiles = <<>>
  /\ now = 0
  /\ alert = None /\ memory = None /\ filing = None /\ report = None
  /\ told = [k \in Actors |-> <<>>]
  /\ vouched = {}

ReportNext ==
  \/ \E a \in Alerts : Take(a)
  \/ Recall
  \/ \E r \in Runs : Report(r)
  \/ \E a \in Alerts, o \in Outcomes : Learn(a, o)
  \/ File
  \/ Tick

ReportSpec == ReportInit /\ [][ReportNext]_allVars

-----------------------------------------------------------------------------
(* Properties. *)

(* A campaign that is reported really went on: as many of its scenarios as *)
(* the report counts were met in its order, every one but the last in an   *)
(* attack that was confirmed before, of this very actor.                   *)
CampaignIsGrounded ==
  report # None =>
    \A m \in report.soc.says.campaigns :
      LET told_ == report.asOf.told
          seen  == [i \in DOMAIN told_ |-> Says[told_[i].id].scenario]
                     \o <<Says[report.of.id].scenario>>
      IN  \E at \in [1..m.matched -> DOMAIN seen] :
            /\ \A i, j \in 1..m.matched : i < j => at[i] < at[j]
            /\ \A i \in 1..m.matched : seen[at[i]] = m.chain[i]

(* Nothing the actor was confirmed to have done is forgotten by the answer *)
(* to its next alert, though the steps on file are a window: the menu is   *)
(* for the furthest stage filed, the recovery starts at the furthest one   *)
(* with a plan, the diamond and the graph name every technique, and no     *)
(* edge of the graph hangs loose.                                          *)
AnswersCoverReach ==
  report # None /\ report.recalled =>
    LET said   == {Says[x.id] : x \in Range(report.asOf.told)}
        filed  == {FiledUnder(s) : s \in {s \in said : s.techniques # <<>>}}
                    \cup Range(Says[report.of.id].tactics)
        says   == report.soc.says
    IN  /\ MaxTacticOrder(filed) > 0 =>
             \E m \in says.coas : /\ m.stage = "current"
                                  /\ TacticOrder(m.tactic) = MaxTacticOrder(filed)
        /\ report.run.verdict = "TRUE_POSITIVE" /\ filed \cap Plans # {} =>
             /\ says.recovery # None
             /\ TacticOrder(says.recovery) = MaxTacticOrder(filed \cap Plans)
        /\ \A s \in said : /\ Range(s.techniques) \subseteq says.diamond.capabilities
                            /\ {"technique"} \X Range(s.techniques) \subseteq says.graph.nodes
        /\ \A e \in says.graph.edges : {e[1], e[2]} \subseteq says.graph.nodes

(* Only a trusted confirmation of the case gives a report authority: to    *)
(* hold back an alert as routine, to demand an approval, or to speak of a  *)
(* confirmed case.  No number of alerts does.                              *)
AuthorityIsEarned ==
  report # None /\ (report.soc.routine \/ report.soc.hitl \/ report.soc.confidence = "authoritative") =>
    report.asOf.vouched

(* The commander is told there is time left only when the attack was timed: *)
(* among the last attacks confirmed, at least half of the pauses between   *)
(* two of them outlast the pipeline.                                       *)
MarginIsMeasured ==
  report # None /\ report.soc.says.pace = "margin" =>
    LET told_ == report.asOf.told
        timed == {i \in DOMAIN told_ : Says[told_[i].id].techniques # <<>>}
        pause(p) == told_[p[2]].time - told_[p[1]].time
    IN  \E first \in timed :
          LET last   == {i \in timed : i >= first}
              pauses == {p \in last \X last : /\ p[1] < p[2] /\ pause(p) > 0
                                              /\ ~ \E i \in last : p[1] < i /\ i < p[2]}
          IN  /\ pauses # {}
              /\ 2 * Cardinality({p \in pauses : pause(p) > report.run.latency})
                   >= Cardinality(pauses)

(* An alert on a decoy, or of an actor late in the kill chain, is not put  *)
(* down to the environment, however much memory speaks for that.           *)
FlaggedIsNotBenign ==
  report # None /\ report.flagged =>
    LET ranked == report.soc.says.hypotheses
    IN  ranked # <<>> /\ ranked[1].id # NullHypothesis

(* While the hunt is on, an alert late enough for the posture, or with a   *)
(* tactic that is always traced, leads back to its entry: whatever an      *)
(* earlier stage left in the logs within the window is found when a        *)
(* template looks for it, its query is answered, at least as far as that   *)
(* row, and the cap cut nothing.                                           *)
TracedBack(s) ==
  LET tactics == Range(s.tactics)
  IN  /\ HuntEnabled
      /\ \/ tactics \cap ForceTactics # {}
         \/ /\ Cpcon \in DOMAIN CpconThresholds
            /\ TacticOrder(CpconThresholds[Cpcon]) > 0
            /\ MaxTacticOrder(tactics) >= TacticOrder(CpconThresholds[Cpcon])

EntryIsTraced ==
  report # None =>
    LET s       == Says[report.of.id]
        run     == report.run
        looksFor(t) == {x \in Range(Templates) : x.technique = t /\ x.direction # "forward"}
    IN  TracedBack(s) /\ ~Plan(s, Predictions(run)).cut =>
          \A r \in run.rows :
            /\ Mapped(r.technique)
            /\ RowOf(r.technique).order < MaxTacticOrder(Range(s.tactics))
            /\ 0 <= r.age /\ r.age <= Lookback(Range(s.tactics))
            /\ \E x \in looksFor(r.technique) :
                 /\ x.id \notin run.failing
                 /\ x.id \in DOMAIN run.partial => r \in run.partial[x.id]
            => \E f \in report.soc.hunted :
                 f.technique = r.technique /\ f.direction = "backward" /\ f.matched
=============================================================================
