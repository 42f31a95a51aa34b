---------------------------- MODULE ActorProfile ----------------------------
(***************************************************************************)
(* What the SOC learns about an attacker: the write gate of the actor      *)
(* profiles with its loop of predictions (core/actors.py,                  *)
(* core/predictor.py), the count of engagements with decoys                *)
(* (core/engage.py), the scores of playbooks (core/playbook_outcome.py),   *)
(* and the worker that feeds both gates with observations                  *)
(* (agents/outcome_probe_agent.py, core/outcome.py).                       *)
(*                                                                         *)
(* The worker takes one observation after the other and is the only writer *)
(* of the store.  Between its two gates the hot path may read a profile.   *)
(* A store returns a copy here and its calls may fail; the in-memory store *)
(* shares its objects but never fails, and a gate does not give up control *)
(* between its first assignment and its write, so it behaves as this one   *)
(* without faults.                                                         *)
(*                                                                         *)
(* A profile that is not in the store is one with no alerts.  The worker   *)
(* skips observations without an actor id, so every profile is explicit.   *)
(* Counts by technique and by address, the cost of an engagement and all   *)
(* times are left out: nothing here depends on them.  A mean effect is its *)
(* sum over its count, in tenths.                                          *)
(***************************************************************************)
EXTENDS Integers, Sequences, FiniteSets, FiniteSetsExt

CONSTANTS
  Actors, NoActor,        \* obs.actor_id, and None or ""
  Ids, NoId,              \* obs.alert_id, and ""
  Techniques,
  Playbooks, NoPlaybook,  \* obs.playbook_id, and None or ""
  Observations,           \* what the source may deliver, any number of times
  ChainCap,               \* _KILL_CHAIN_CAP
  SeenCap,                \* _SEEN_CAP
  TTL,                    \* prediction_ttl_alerts
  MinSupport,             \* min_support of the predictor
  Faults,                 \* the calls to the store that may fail
  MaxPolls                \* bound on the observations of a behaviour

ASSUME CapsAssumption ==
  /\ ChainCap \in Nat \ {0} /\ SeenCap \in Nat \ {0}
  /\ TTL \in Nat \ {0} /\ MinSupport \in Nat \ {0} /\ MaxPolls \in Nat

ASSUME ObservationsAssumption ==
  /\ NoActor \notin Actors /\ NoId \notin Ids /\ NoPlaybook \notin Playbooks
  /\ Observations \subseteq
       [id : Ids \cup {NoId}, actor : Actors \cup {NoActor},
        techs : Seq(Techniques), playbook : Playbooks \cup {NoPlaybook},
        mission : BOOLEAN, reoccurred : BOOLEAN, canary : BOOLEAN, quiet : BOOLEAN]

ASSUME FaultsAssumption == Faults \subseteq {"load", "write"}

ASSUME TechniquesAssumption == IsFiniteSet(Techniques)

VARIABLES
  profiles,  \* the store
  metered,   \* app/metrics: predictions that came true, and that did not
  obs,       \* the observation in hand
  pc,        \* the gate it goes to next
  polls,     \* observations taken so far
  (* history, which no action reads *)
  steps,     \* techniques of the confirmed attacks of each actor
  touched,   \* ids of the confirmed alerts in which an actor touched a decoy
  issued     \* predictions made about each actor

vars == <<profiles, metered, obs, pc, polls, steps, touched, issued>>

-----------------------------------------------------------------------------
(* ProbeEngine.decide.                                                     *)

Decision(env, effect, engagement) ==
  [env |-> env, effect |-> effect, engagement |-> engagement]

(* quiet: no_effect_sustained over a window of five minutes or more.       *)
Decide(o) ==
  IF o.mission \/ o.canary
  THEN Decision("tp", IF o.mission /\ o.reoccurred THEN 0 ELSE 3, o.canary)
  ELSE IF o.quiet THEN Decision("fp", 10, FALSE) ELSE Decision("inconclusive", 5, FALSE)

-----------------------------------------------------------------------------
(* Profiles. *)

LastN(seq, n) == IF Len(seq) <= n THEN seq ELSE SubSeq(seq, Len(seq) - n + 1, Len(seq))

TechsOf(o) == {o.techs[i] : i \in DOMAIN o.techs}

NoScores == [b \in Playbooks |-> [count |-> 0, sum |-> 0]]

Fresh == [alerts |-> 0, chain |-> <<>>, pending |-> {}, hits |-> 0, misses |-> 0,
          rounds |-> 0, seen |-> <<>>, scores |-> NoScores, sig |-> <<>>]

(* fingerprint(): all that the signature covers.                           *)
Content(p) ==
  [alerts |-> p.alerts, chain |-> p.chain, pending |-> p.pending, hits |-> p.hits,
   misses |-> p.misses, rounds |-> p.rounds, seen |-> p.seen, scores |-> p.scores]

Sign(p) == [p EXCEPT !.sig = Content(p)]

Known(a) == profiles[a].alerts > 0

(* ActorReadGate.recall returns it. *)
Recalled(a) == Known(a) /\ profiles[a].sig = Content(profiles[a])

(* PredictionMatcher.enrich, for an alert with these techniques.           *)
PredictionMatch(a, techs) ==
  Recalled(a) /\ \E x \in profiles[a].pending : x.technique \in techs

-----------------------------------------------------------------------------
(* What one confirmed attack does to a profile. *)

(* _merge_profile *)
Merge(p, o) == [p EXCEPT !.alerts = @ + 1, !.chain = LastN(@ \o o.techs, ChainCap)]

(* How often the pair was followed by something, and how often by t.       *)
Pairs(chain, prev, curr) ==
  {i \in 1..(Len(chain) - 2) : chain[i] = prev /\ chain[i + 1] = curr}

Followed(chain, prev, curr, t) == {i \in Pairs(chain, prev, curr) : chain[i + 2] = t}

(* SequencePredictor.predict with its default min_probability of one half, *)
(* which at most two techniques can have: top_k, three, does not cut.      *)
Predict(chain, curr) ==
  IF Len(chain) < 3 THEN {}
  ELSE LET prev == chain[Len(chain)]
           count(t) == Cardinality(Followed(chain, prev, curr, t))
       IN {t \in Techniques :
             count(t) >= MinSupport /\ 2 * count(t) >= Cardinality(Pairs(chain, prev, curr))}

(* Faulty variant: the profile has been merged already.                    *)
CandidatesAfterMerge(p, o) ==
  IF o.techs = <<>> THEN {} ELSE Predict(Merge(p, o).chain, o.techs[Len(o.techs)])

(* _predict_candidates: from the profile before the merge.                 *)
Candidates(p, o) ==
  IF o.techs = <<>> THEN {} ELSE Predict(p.chain, o.techs[Len(o.techs)])

Hit(p, o) == {x \in p.pending : x.technique \in TechsOf(o)}

Aged(p, o) == {[x EXCEPT !.age = @ + 1] : x \in p.pending \ Hit(p, o)}

Missed(p, o) == {x \in Aged(p, o) : x.age >= TTL}

(* _settle_predictions *)
Settle(p, o) ==
  [p EXCEPT !.pending = Aged(p, o) \ Missed(p, o),
            !.hits = @ + Cardinality(Hit(p, o)),
            !.misses = @ + Cardinality(Missed(p, o))]

(* since is history: the alerts of the actor when the prediction was made. *)
Prediction(p, t) == [technique |-> t, age |-> 0, since |-> p.alerts]

(* Faulty variant of Issue: a technique can be pending twice.              *)
IssueAll(p, candidates) ==
  [p EXCEPT !.pending = @ \cup {Prediction(p, t) : t \in candidates}]

(* _issue_predictions *)
Issue(p, candidates) ==
  [p EXCEPT !.pending = @ \cup
     {Prediction(p, t) : t \in candidates \ {x.technique : x \in @}}]

(* EngageAdvancer.advance, for a decision that is an engagement.  The      *)
(* engagement goal is a function of the rounds.                            *)
Engage(p, o) ==
  IF Decide(o).engagement /\ o.id # NoId /\ o.id \notin {p.seen[i] : i \in DOMAIN p.seen}
  THEN [p EXCEPT !.rounds = @ + 1, !.seen = LastN(Append(@, o.id), SeenCap)]
  ELSE p

(* Faulty variant of After: predictions are made before they are settled.  *)
IssueFirst(p, o) == Sign(Engage(Settle(Issue(Merge(p, o), Candidates(p, o)), o), o))

(* ActorWriteGate.submit, between its load and its write.                  *)
After(p, o) == Sign(Engage(Issue(Settle(Merge(p, o), o), Candidates(p, o)), o))

(* The score of the playbook. *)
Score(p, o) ==
  [p EXCEPT !.scores[o.playbook].count = @ + 1,
            !.scores[o.playbook].sum = @ + Decide(o).effect]

(* ActorPlaybookOutcomeGate.submit, between its load and its write.        *)
Scored(p, o) == Sign(Score(p, o))

-----------------------------------------------------------------------------
Nothing == [id |-> NoId, actor |-> NoActor, techs |-> <<>>, playbook |-> NoPlaybook,
            mission |-> FALSE, reoccurred |-> FALSE, canary |-> FALSE, quiet |-> FALSE]

Init ==
  /\ profiles = [a \in Actors |-> Fresh]
  /\ metered = [hit |-> 0, miss |-> 0]
  /\ obs = Nothing
  /\ pc = "idle"
  /\ polls = 0
  /\ steps = [a \in Actors |-> <<>>]
  /\ touched = [a \in Actors |-> {}]
  /\ issued = [a \in Actors |-> 0]

(* A cycle in which the source has nothing, or raises. *)
EmptyPoll == pc = "idle" /\ UNCHANGED vars

(* An observation may come again, early or late. *)
Poll(o) ==
  /\ pc = "idle" /\ polls < MaxPolls
  /\ obs' = o
  /\ pc' = "actor"
  /\ polls' = polls + 1
  /\ UNCHANGED <<profiles, metered, steps, touched, issued>>

Confirmed(o) == o.actor # NoActor /\ Decide(o).env = "tp"

(* The on_settle hook, called as the predictions are settled. *)
Meter(p, o) ==
  metered' = [hit  |-> metered.hit + Cardinality(Hit(p, o)),
              miss |-> metered.miss + Cardinality(Missed(p, o))]

Fails(call) == call \in Faults /\ UNCHANGED <<profiles, steps, touched, issued>>

(* _submit_actor and the gate it calls.  The experience gate before it and *)
(* the review of cold cases after it are the subject of ExperienceMemory;  *)
(* they change nothing here.                                               *)
Reject == ~Confirmed(obs) /\ UNCHANGED <<profiles, metered, steps, touched, issued>>

Unreadable == Confirmed(obs) /\ Fails("load") /\ UNCHANGED metered

Unwritable ==
  /\ Confirmed(obs)
  /\ Meter(profiles[obs.actor], obs)
  /\ Fails("write")

Accumulate ==
  LET a == obs.actor
      p == After(profiles[a], obs)
  IN /\ Confirmed(obs)
     /\ Meter(profiles[a], obs)
     /\ profiles' = [profiles EXCEPT ![a] = p]
     /\ steps' = [steps EXCEPT ![a] = @ \o obs.techs]
     /\ touched' = [touched EXCEPT ![a] = IF obs.canary THEN @ \cup ({obs.id} \ {NoId}) ELSE @]
     /\ issued' = [issued EXCEPT ![a] = @ + Cardinality({x \in p.pending : x.age = 0})]

SubmitActor ==
  /\ pc = "actor" /\ pc' = "playbook"
  /\ Reject \/ Unreadable \/ Unwritable \/ Accumulate
  /\ UNCHANGED <<obs, polls>>

(* _submit_pb.  A failed write leaves no trace, so it needs no flag.       *)
Scorable(o) == o.actor # NoActor /\ o.playbook # NoPlaybook /\ Known(o.actor)

SubmitPlaybook ==
  /\ pc = "playbook" /\ pc' = "idle"
  /\ \/ Scorable(obs) /\ profiles' = [profiles EXCEPT ![obs.actor] = Scored(@, obs)]
     \/ (~Scorable(obs) \/ Faults # {}) /\ UNCHANGED profiles
  /\ UNCHANGED <<metered, obs, polls, steps, touched, issued>>

Next == EmptyPoll \/ (\E o \in Observations : Poll(o)) \/ SubmitActor \/ SubmitPlaybook

Spec == Init /\ [][Next]_vars

-----------------------------------------------------------------------------
(* Properties. *)

Predictions == [technique : Techniques, age : Nat, since : Nat]

Scores == [Playbooks -> [count : Nat, sum : Nat]]

Contents ==
  [alerts : Nat, chain : Seq(Techniques), pending : SUBSET Predictions, hits : Nat,
   misses : Nat, rounds : Nat, seen : Seq(Ids), scores : Scores]

Profile ==
  [alerts : Nat, chain : Seq(Techniques), pending : SUBSET Predictions, hits : Nat,
   misses : Nat, rounds : Nat, seen : Seq(Ids), scores : Scores, sig : Contents \cup {<<>>}]

(* Every profile has the shape of its class, and its lists keep their caps. *)
TypeOK ==
  /\ profiles \in [Actors -> Profile]
  /\ \A a \in Actors : Len(profiles[a].chain) <= ChainCap /\ Len(profiles[a].seen) <= SeenCap
  /\ metered \in [hit : Nat, miss : Nat]
  /\ obs \in Observations \cup {Nothing}
  /\ pc \in {"idle", "actor", "playbook"}
  /\ polls \in Nat
  /\ steps \in [Actors -> Seq(Techniques)]
  /\ touched \in [Actors -> SUBSET Ids]
  /\ issued \in [Actors -> Nat]

(* The predictor grades itself: every prediction it made is a hit, a miss  *)
(* or pending, and no technique is pending twice, whatever is delivered    *)
(* twice and whichever call fails.                                         *)
PredictionsConserved ==
  \A a \in Actors :
    LET p == profiles[a]
    IN /\ issued[a] = p.hits + p.misses + Cardinality(p.pending)
       /\ \A x, y \in p.pending : x.technique = y.technique => x = y

(* A prediction is settled within TTL alerts of its actor: its age counts  *)
(* the alerts merged since it was made, and never reaches the TTL.         *)
SettledInTime ==
  \A a \in Actors : \A x \in profiles[a].pending :
    x.age = profiles[a].alerts - x.since /\ x.age < TTL

(* However often a sensor reports it, a confirmed alert in which a decoy   *)
(* was touched is one round, while the actor has no more of them than the  *)
(* list of seen ids holds; and no round comes from anything else.          *)
EngagedOncePerAlert ==
  \A a \in Actors :
    /\ profiles[a].rounds >= Cardinality(touched[a])
    /\ Cardinality(touched[a]) <= SeenCap => profiles[a].rounds = Cardinality(touched[a])

(* Two gates write the profile and both leave it signed: the hot path can  *)
(* recall every profile in the store, also between the two.                *)
StoredVerifies == \A a \in Actors : Known(a) => Recalled(a)

(* What the hot path flags as predicted is scored as predicted once it is  *)
(* confirmed, and nothing else is: an alert never confirms a prediction    *)
(* that it gave rise to itself.                                            *)
FlaggedThenHit ==
  [][\A a \in Actors :
       profiles'[a].alerts > profiles[a].alerts =>
         (profiles'[a].hits > profiles[a].hits <=> PredictionMatch(a, TechsOf(obs)))]_vars

(* A technique is predicted only if, in all that the actor has done so far, *)
(* it came MinSupport times after the last two steps, of which the alert in *)
(* hand is the second.  Said of alerts with one technique: of several the  *)
(* code pairs the last one with the step before the alert.                 *)
PredictedFromLastSteps ==
  [][\A a \in Actors :
       profiles'[a].alerts > profiles[a].alerts /\ Len(obs.techs) = 1 =>
         \A x \in profiles'[a].pending :
           x.age = 0 =>
             /\ steps[a] # <<>>
             /\ Cardinality(Followed(steps[a], steps[a][Len(steps[a])], obs.techs[1],
                                     x.technique)) >= MinSupport]_vars

(* All that steers a decision: the attack chain, predictions, engagement.  *)
Learned(p) == <<p.alerts, p.chain, p.pending, p.hits, p.misses, p.rounds, p.seen>>

(* Only a confirmed attack of an actor teaches anything about it.  Any     *)
(* other observation can score a playbook, and that only on an actor with  *)
(* a confirmed attack.                                                     *)
UnconfirmedTeachesNothing ==
  [][\A a \in Actors :
       ~(obs.actor = a /\ (obs.mission \/ obs.canary)) =>
         /\ Learned(profiles'[a]) = Learned(profiles[a])
         /\ ~Known(a) => profiles'[a] = profiles[a]]_vars
=============================================================================
