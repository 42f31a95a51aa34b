-------------------------- MODULE ExperienceMemory --------------------------
(***************************************************************************)
(* What the SOC learns from confirmed outcomes: the write gate of the      *)
(* experience memory (core/experience.py), the cold-case review that       *)
(* undoes learned suppressions (core/coldcase.py), the RAGFlow store under *)
(* both (tools/ragflow_experience.py), and the worker that drives them,    *)
(* one observation after the other (agents/outcome_probe_agent.py).        *)
(*                                                                         *)
(* One step is one call to the store, so calls can fail, before or after   *)
(* they took effect, and the worker can stop between any two of them.  The *)
(* worker is the store's only writer; the hot path only reads it.  The     *)
(* in-memory store behaves as this one without faults and without a cap.   *)
(*                                                                         *)
(* A record stands for its fingerprint: actor, signals and verdict (the    *)
(* scenario, asset and judge features add nothing to the logic).  The      *)
(* worker's provenance is always ENV_VERIFIED.                             *)
(***************************************************************************)
EXTENDS Naturals, FiniteSets

CONSTANTS
  Actors,        \* actor ids
  NoActor,       \* obs.actor_id is None or ""
  Signals,       \* alert signals
  Observations,  \* what the source may deliver
  TopK,          \* ragflow_top_k: a retrieval ranks so many documents
  PageSize,      \* 100, the least page a scan asks for
  Faults,        \* the faults to consider, of those below
  MaxMisread     \* bound on the records of which a refused call is misread

ASSUME ObservationsAssumption ==
  /\ NoActor \notin Actors
  /\ Observations \subseteq
       [actor : Actors \cup {NoActor}, signals : SUBSET Signals,
        env : {"tp", "fp", "inconclusive"}, judged : BOOLEAN]

ASSUME MisreadAssumption == MaxMisread \in Nat

ASSUME ScanAssumption == TopK \in Nat /\ PageSize \in Nat

ASSUME FaultsAssumption ==
  Faults \subseteq {"failed_call",     \* a call raises
                    "refused_call",    \* HTTP 200 with a code other than 0
                    "crash"}           \* the worker process restarts

RecordOf(o) == [actor |-> o.actor, signals |-> o.signals, env |-> o.env]

Records == {RecordOf(o) : o \in {x \in Observations : x.env # "inconclusive"}}

VARIABLES
  docs,      \* the documents of each record: "active" ones, "revoked" ones
  misread,   \* records of which a refused call was taken for "no document":
             \* from then on several documents may bear their name
  ledger,    \* ReopenLedger: the records queued for the operators
  obs,       \* the observation in hand
  pc,        \* the call the worker makes next
  trigger,   \* the review under way: "actor" or "signature"
  todo,      \* suppressions of the last scan still to be revoked
  target,    \* the suppression whose document is deleted, not yet uploaded
  (* history, which no action reads *)
  whole,     \* last_scan_complete after each scan of this review
  matching,  \* the suppressions this review is to find
  cleared    \* suppressions that a whole review has gone through

vars == <<docs, misread, ledger, obs, pc, trigger, todo, target, whole, matching, cleared>>

Nobody == [actor |-> NoActor, signals |-> {}, env |-> "inconclusive", judged |-> FALSE]

review == <<trigger, todo, target, whole, matching>>

(* What a review keeps ends with it. *)
EndReview ==
  /\ trigger' = "actor"
  /\ todo' = {}
  /\ target' = RecordOf(Nobody)
  /\ whole' = TRUE
  /\ matching' = {}

Active == {r \in Records : r.env = "fp" /\ "active" \in docs[r]}

-----------------------------------------------------------------------------
(* The write gate. *)

Poll(o) ==
  /\ pc = "idle"
  /\ obs' = o
  /\ pc' = IF o.judged /\ o.env # "inconclusive" THEN "exists" ELSE "actor"
  /\ UNCHANGED <<docs, misread, ledger, cleared, review>>

(* Faulty variant: a revoked document does not count as a duplicate. *)
DuplicateActiveOnly(r) == "active" \in docs[r]

Duplicate(r) == docs[r] # {}

(* A refused call of the store is taken for "no document".                 *)
Misreads(r) ==
  /\ "refused_call" \in Faults
  /\ Cardinality(misread \cup {r}) <= MaxMisread
  /\ misread' = misread \cup {r}

(* aexists: the code of the answer's body is not read, so a refused call   *)
(* has no documents in it.                                                 *)
Exists ==
  /\ pc = "exists"
  /\ \/ pc' = (IF Duplicate(RecordOf(obs)) THEN "actor" ELSE "write") /\ UNCHANGED misread
     \/ "failed_call" \in Faults /\ pc' = "actor" /\ UNCHANGED misread
     \/ pc' = "write" /\ Misreads(RecordOf(obs))
  /\ UNCHANGED <<docs, obs, ledger, cleared, review>>

Write ==
  /\ pc = "write"
  /\ pc' = "actor"
  /\ \/ docs' = [docs EXCEPT ![RecordOf(obs)] = @ \cup {"active"}]
     \/ Faults \cap {"failed_call", "refused_call"} # {} /\ UNCHANGED docs
  /\ UNCHANGED <<misread, obs, ledger, cleared, review>>

-----------------------------------------------------------------------------
(* The review. *)

SameActor(r)     == r.actor = obs.actor
SharesSignal(r)  == r.signals \cap obs.signals # {}

Matches(r) == IF trigger = "actor" THEN SameActor(r) ELSE SharesSignal(r)

(* Faulty variant of Confirms: any verdict updates the profile.            *)
ConfirmsAny == obs.actor # NoActor

(* The actor gate takes confirmed true positives of an actor only.         *)
Confirms == obs.actor # NoActor /\ obs.env = "tp"

(* The actor gate: after it has written the profile it starts the review.  *)
Actor ==
  /\ pc = "actor"
  /\ \/ /\ Confirms
        /\ pc' = "scan"
        /\ trigger' = "actor"
        /\ whole' = TRUE
        /\ matching' = {r \in Active : SameActor(r) \/ SharesSignal(r)}
     \/ /\ ~Confirms \/ "failed_call" \in Faults
        /\ pc' = "idle"
        /\ UNCHANGED <<trigger, whole, matching>>
  /\ UNCHANGED <<docs, misread, obs, ledger, todo, target, cleared>>

Documents == {x \in Records \X {"active", "revoked"} : x[2] \in docs[x[1]]}

(* ascan_suppressions: the retrieval returns n documents, the TopK best if *)
(* there are more.  The scan takes itself for cut off when a page is full. *)
ScanCap == IF TopK < PageSize THEN PageSize ELSE TopK

Scans ==
  {scan \in [seen : SUBSET Documents, n : 0..TopK] :
     /\ scan.seen = Documents \/ scan.n = TopK
     /\ scan.n >= Cardinality(scan.seen)
     /\ misread = {} => scan.n = Cardinality(scan.seen)}

Scan ==
  /\ pc = "scan"
  /\ \E scan \in Scans :
       /\ todo' = {r \in Active : <<r, "active">> \in scan.seen /\ Matches(r)}
       /\ whole' = (whole /\ scan.n < ScanCap)
  /\ pc' = "revoke"
  /\ UNCHANGED <<docs, misread, ledger, obs, trigger, target, matching, cleared>>

(* The call that deletes r's document, as the store carries it out: it     *)
(* deletes one of them, and another one may bear its name.                 *)
Deleted(r) ==
  {[docs EXCEPT ![r] = @ \ {d}] : d \in docs[r]} \cup (IF r \in misread THEN {docs} ELSE {})

(* A call of the review raises: the actor gate logs it and goes on.        *)
Abort ==
  /\ Faults \cap {"failed_call", "refused_call"} # {}
  /\ pc \in {"scan", "revoke", "upload"}
  /\ pc = "revoke" => "failed_call" \in Faults /\ todo # {}
  /\ pc' = "idle"
  /\ \/ UNCHANGED docs
     \/ pc = "revoke" /\ \E r \in todo : docs' \in Deleted(r)
     \/ /\ pc = "upload" /\ "failed_call" \in Faults
        /\ docs' = [docs EXCEPT ![target] = @ \cup {"revoked"}]
  /\ EndReview
  /\ UNCHANGED <<misread, obs, ledger, cleared>>

(* Faulty variant of Delete: it queues the case.                           *)
DeleteAndQueue ==
  /\ pc = "revoke"
  /\ \E r \in todo :
       /\ target' = r
       /\ ledger' = ledger \cup {r}
       /\ docs' \in Deleted(r)
  /\ pc' = "upload"
  /\ UNCHANGED <<misread, obs, trigger, todo, whole, matching, cleared>>

(* arevoke, first half: find the document by its name and delete it.  A    *)
(* refused lookup finds none, a refused delete leaves it where it is, and  *)
(* neither is noticed.                                                     *)
Delete ==
  /\ pc = "revoke"
  /\ \E r \in todo :
       /\ target' = r
       /\ \/ docs' \in Deleted(r) /\ UNCHANGED misread
          \/ Misreads(r) /\ UNCHANGED docs
  /\ pc' = "upload"
  /\ UNCHANGED <<ledger, obs, trigger, todo, whole, matching, cleared>>

(* arevoke, second half: upload the revoked record, and queue the case.    *)
Upload ==
  /\ pc = "upload"
  /\ docs' = [docs EXCEPT ![target] = @ \cup {"revoked"}]
  /\ ledger' = ledger \cup {target}
  /\ todo' = todo \ {target}
  /\ pc' = "revoke"
  /\ UNCHANGED <<misread, obs, trigger, target, whole, matching, cleared>>

(* After the review of the actor the one of the signals, if there are any. *)
Reviewed ==
  /\ pc = "revoke" /\ todo = {}
  /\ \/ /\ trigger = "actor" /\ obs.signals # {}
        /\ trigger' = "signature"
        /\ pc' = "scan"
        /\ UNCHANGED <<cleared, todo, target, whole, matching>>
     \/ /\ trigger = "signature" \/ obs.signals = {}
        /\ pc' = "idle"
        /\ cleared' = IF whole THEN cleared \cup matching ELSE cleared
        /\ EndReview
  /\ UNCHANGED <<docs, misread, ledger, obs>>

(* The ledger lives in the worker's process. *)
Restart ==
  /\ "crash" \in Faults
  /\ pc' = "idle"
  /\ ledger' = {}
  /\ EndReview
  /\ UNCHANGED <<docs, misread, obs, cleared>>

Init ==
  /\ docs = [r \in Records |-> {}]
  /\ misread = {}
  /\ ledger = {}
  /\ obs = Nobody
  /\ pc = "idle"
  /\ trigger = "actor"
  /\ todo = {}
  /\ target = RecordOf(Nobody)
  /\ whole = TRUE
  /\ matching = {}
  /\ cleared = {}

Next ==
  \/ \E o \in Observations : Poll(o)
  \/ Exists \/ Write \/ Actor \/ Scan \/ Abort
  \/ Delete \/ Upload \/ Reviewed \/ Restart

Spec == Init /\ [][Next]_vars

-----------------------------------------------------------------------------
(* What the hot path reads: the suppressions of an alert with signals S    *)
(* (core/experience.py:285-322, agents/investigation_agent.py:571-589).    *)
Suppressing(S) == {r \in Active : r.signals # {} /\ r.signals \subseteq S}

-----------------------------------------------------------------------------
(* Properties. *)

(* Every variable has its type; a record never has two documents, whatever *)
(* calls fail in between (core/experience.py:212-226), unless a refused    *)
(* call was taken for its absence (tools/ragflow_experience.py:82-92).     *)
TypeOK ==
  /\ docs \in [Records -> SUBSET {"active", "revoked"}]
  /\ \A r \in Records : docs[r] = {"active", "revoked"} => r \in misread
  /\ misread \in SUBSET Records
  /\ ledger \in SUBSET Records
  /\ obs \in Observations \cup {Nobody}
  /\ pc \in {"idle", "exists", "write", "actor", "scan", "revoke", "upload"}
  /\ trigger \in {"actor", "signature"}
  /\ todo \in SUBSET Records
  /\ target \in Records \cup {RecordOf(Nobody)}
  /\ whole \in BOOLEAN
  /\ matching \in SUBSET Records
  /\ cleared \in SUBSET Records

(* A suppression that a whole review has found to match a confirmed attack *)
(* never suppresses an alert again, however often the same false positive  *)
(* is observed and whatever calls fail (core/coldcase.py:3-11,             *)
(* core/experience.py:212-218).  What breaks it is a lookup or a delete of *)
(* that very record which the store refused behind an HTTP 200.            *)
ClearedStaysClosed == \A S \in SUBSET Signals : Suppressing(S) \cap cleared \subseteq misread

(* A case in the operators' queue has been revoked: it no longer           *)
(* suppresses, and its record is still there (core/coldcase.py:148-158),   *)
(* unless a refused call of that very record left its document in place.   *)
QueuedIsRevoked == \A r \in ledger \ misread : docs[r] = {"revoked"}

(* Only a confirmed attack of an actor takes a suppression away, and only  *)
(* one of that actor or with a signal of that attack: neither a false      *)
(* positive nor an inconclusive observation does                           *)
(* (core/coldcase.py:9-11, core/actors.py:278-282).                        *)
OnlyConfirmationUndoes ==
  [][\A r \in Active \ Active' :
       obs.env = "tp" /\ obs.actor # NoActor /\ (SameActor(r) \/ SharesSignal(r))]_vars

=============================================================================
