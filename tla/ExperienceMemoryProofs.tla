----------------------- MODULE ExperienceMemoryProofs -----------------------
(***************************************************************************)
(* What holds of the experience memory and its cold-case review for every  *)
(* set of observations, with calls that fail or are refused behind an HTTP *)
(* 200 and a worker that stops at any point, as long as ragflow_top_k is   *)
(* not below the page of a scan.                                           *)
(*                                                                         *)
(* Then of the lookups of an investigation, for every set of alerts, every *)
(* wiring of services and every answer: what leaves, what is fetched, and  *)
(* what counts of what the services say.                                   *)
(***************************************************************************)
EXTENDS ExperienceMemory, Investigation, FiniteSetTheorems, WellFoundedInduction, TLAPS

Reviewing == pc \in {"scan", "revoke", "upload"}

(* The calls of the write gate and of a review, as the worker makes them.  *)
(* Nothing is known of the documents of a record that has been misread.    *)
Calls ==
  /\ pc \in {"exists", "write"} => RecordOf(obs) \in Records
  /\ pc = "write" => docs[RecordOf(obs)] = {} \/ RecordOf(obs) \in misread
  /\ Reviewing => Confirms
  /\ pc \in {"idle", "exists", "write", "actor", "scan"} => todo = {}
  /\ \A r \in todo : r.env = "fp" /\ Matches(r)
  /\ \A r \in todo \ misread : docs[r] = {"active"} \/ (pc = "upload" /\ r = target)
  /\ pc = "upload" => target \in todo /\ (docs[target] = {} \/ target \in misread)

(* How far a review has come: what it is to find is revoked or waits in    *)
(* todo, for the trigger under way and for the one before it.              *)
Progress ==
  /\ ~Reviewing => matching = {}
  /\ \A r \in matching : r.env = "fp" /\ (SameActor(r) \/ SharesSignal(r))
  /\ Reviewing =>
       \A r \in matching \ misread : r \in todo \/ docs[r] \in {{"active"}, {"revoked"}}
  /\ Reviewing /\ whole =>
       \A r \in matching \ misread :
         /\ trigger = "signature" /\ SameActor(r) => docs[r] = {"revoked"}
         /\ pc # "scan" /\ Matches(r) => r \in todo \/ docs[r] = {"revoked"}

Inv ==
  /\ TypeOK
  /\ Calls
  /\ Progress
  /\ \A r \in ledger \ misread : docs[r] = {"revoked"}
  /\ \A r \in cleared \ misread : docs[r] = {"revoked"}

-----------------------------------------------------------------------------

LEMMA OneDocument ==
  ASSUME TypeOK, NEW r \in Records \ misread
  PROVE  docs[r] \in {{}, {"active"}, {"revoked"}}
BY DEF TypeOK

LEMMA MisreadStays ==
  ASSUME Next
  PROVE  misread \subseteq misread'
BY DEF Next, Poll, Exists, Write, Actor, Scan, Abort, Delete, Upload, Reviewed, Restart, Misreads

(* What a delete does to a record with one document, and to the others.    *)
LEMMA DeletedDocuments ==
  ASSUME TypeOK, NEW r \in Records, docs' \in Deleted(r)
  PROVE  /\ docs' \in [Records -> SUBSET {"active", "revoked"}]
         /\ \A q \in Records : docs'[q] \subseteq docs[q] /\ (q # r => docs'[q] = docs[q])
         /\ r \notin misread /\ docs[r] = {"active"} => docs'[r] = {}
<1>1. CASE r \in misread /\ docs' = docs
  BY <1>1 DEF TypeOK
<1>2. ASSUME NEW d \in docs[r], docs' = [docs EXCEPT ![r] = @ \ {d}]
      PROVE  /\ docs' \in [Records -> SUBSET {"active", "revoked"}]
             /\ \A q \in Records : docs'[q] \subseteq docs[q] /\ (q # r => docs'[q] = docs[q])
             /\ docs[r] = {"active"} => docs'[r] = {}
  <2>1. docs'[r] = docs[r] \ {d} /\ \A q \in Records : q # r => docs'[q] = docs[q]
    BY <1>2 DEF TypeOK
  <2>. QED  BY <1>2, <2>1 DEF TypeOK
<1>. QED  BY <1>1, <1>2 DEF Deleted

(* A revoked record stays revoked, whatever the worker does, as long as it *)
(* is not misread: only records without a document are written, only       *)
(* active ones are deleted.                                                *)
LEMMA RevokedStays ==
  ASSUME Inv, Next, NEW r \in Records \ misread, docs[r] = {"revoked"}
  PROVE  docs'[r] = {"revoked"}
<1>1. ASSUME NEW o \in Observations, Poll(o)
      PROVE  docs'[r] = {"revoked"}
  BY <1>1 DEF Poll
<1>2. CASE Write
  BY <1>2 DEF Write, Inv, Calls, TypeOK
<1>3. ASSUME NEW q \in todo, docs' \in Deleted(q), pc = "revoke"
      PROVE  docs'[r] = {"revoked"}
  <2>1. q # r /\ q \in Records
    BY <1>3 DEF Inv, Calls, TypeOK
  <2>. QED  BY <1>3, <2>1, DeletedDocuments DEF Inv
<1>4. CASE Delete
  BY <1>3, <1>4 DEF Delete
<1>5. ASSUME docs' = [docs EXCEPT ![target] = @ \cup {"revoked"}]
      PROVE  docs'[r] = {"revoked"}
  BY <1>5 DEF Inv, TypeOK
<1>6. CASE Abort
  BY <1>3, <1>5, <1>6 DEF Abort
<1>7. CASE Upload
  BY <1>5, <1>7 DEF Upload
<1>8. CASE Exists \/ Actor \/ Scan \/ Reviewed \/ Restart
  BY <1>8 DEF Exists, Actor, Scan, Reviewed, Restart
<1>. QED  BY <1>1, <1>2, <1>4, <1>6, <1>7, <1>8 DEF Next

LEMMA Initially == Init => Inv
<1>. SUFFICES ASSUME Init PROVE Inv
  OBVIOUS
<1>1. TypeOK
  BY DEF Init, TypeOK
<1>2. Calls
  BY DEF Init, Calls, Reviewing
<1>. QED  BY <1>1, <1>2 DEF Init, Inv, Progress, Reviewing

(* A scan that is not cut off returns every document. *)
LEMMA WholeScan ==
  ASSUME NEW scan \in Scans, scan.n < ScanCap, PageSize <= TopK
  PROVE  scan.seen = Documents
BY ScanAssumption DEF Scans, ScanCap

-----------------------------------------------------------------------------
(* One lemma for each action. *)

LEMMA PollStep ==
  ASSUME Inv, NEW o \in Observations, Poll(o)
  PROVE  Inv'
<1>1. TypeOK'
  BY DEF Poll, Inv, TypeOK, review
<1>2. o.env \in {"tp", "fp", "inconclusive"}
  BY ObservationsAssumption
<1>3. o.env # "inconclusive" => RecordOf(o) \in Records
  BY DEF Records
<1>4. /\ todo = {} /\ matching = {}
      /\ UNCHANGED <<docs, misread, todo, matching, ledger, cleared>>
  BY DEF Poll, review, Inv, Calls, Progress, Reviewing
<1>5. Calls'
  BY <1>3, <1>4 DEF Poll, Calls, Reviewing
<1>6. Progress'
  BY <1>4 DEF Poll, Progress, Reviewing
<1>. QED  BY <1>1, <1>4, <1>5, <1>6 DEF Inv

LEMMA GateStep ==
  ASSUME Inv, Exists \/ Write
  PROVE  Inv'
<1>1. misread \subseteq misread'
  BY MisreadStays DEF Next
<1>2. CASE Exists
  <2>1. RecordOf(obs)' = RecordOf(obs) /\ RecordOf(obs) \in Records
    BY <1>2 DEF Exists, RecordOf, Inv, Calls
  <2>2. misread' \in SUBSET Records
    BY <1>2, <2>1 DEF Exists, Misreads, Inv, TypeOK
  <2>3. TypeOK'
    BY <1>1, <1>2, <2>2 DEF Exists, Inv, TypeOK, review
  <2>4. Calls'
    BY <1>1, <1>2, <2>1 DEF Exists, Duplicate, Misreads, Inv, Calls, Reviewing, review
  <2>5. Progress'
    BY <1>1, <1>2 DEF Exists, Inv, Progress, Reviewing, review
  <2>. QED  BY <1>1, <1>2, <2>3, <2>4, <2>5 DEF Exists, Inv
<1>3. CASE Write
  <2>. DEFINE R == RecordOf(obs)
  <2>1. R \in Records /\ (docs[R] = {} \/ R \in misread)
    BY <1>3 DEF Write, Inv, Calls
  <2>2. docs' = docs \/ docs' = [docs EXCEPT ![R] = @ \cup {"active"}]
    BY <1>3 DEF Write
  <2>3. TypeOK'
    BY <1>3, <2>1, <2>2 DEF Write, Inv, TypeOK, review
  <2>4. \A r \in Records \ misread : docs[r] = {"revoked"} => docs'[r] = {"revoked"}
    BY <2>1, <2>2 DEF Inv, TypeOK
  <2>5. Calls'
    BY <1>3 DEF Write, Inv, Calls, Reviewing, review
  <2>6. Progress'
    BY <1>3 DEF Write, Inv, Progress, Reviewing, review
  <2>. QED  BY <1>3, <2>3, <2>4, <2>5, <2>6 DEF Write, Inv, TypeOK
<1>. QED  BY <1>2, <1>3

LEMMA ActorStep ==
  ASSUME Inv, Actor
  PROVE  Inv'
<1>1. TypeOK'
  BY DEF Actor, Inv, TypeOK, Active
<1>2. todo = {} /\ UNCHANGED <<docs, misread, obs, todo, ledger, cleared>>
  BY DEF Actor, Inv, Calls
<1>3. Calls'
  BY <1>2 DEF Actor, Calls, Reviewing, Confirms
<1>4. \A r \in Active : r.env = "fp" /\ (docs[r] = {"active"} \/ r \in misread)
  BY OneDocument DEF Active, Inv
<1>5. Progress'
  BY <1>2, <1>4 DEF Actor, Inv, Progress, Reviewing, SameActor, SharesSignal
<1>. QED  BY <1>1, <1>2, <1>3, <1>5 DEF Inv

LEMMA ScanStep ==
  ASSUME Inv, Scan, PageSize <= TopK
  PROVE  Inv'
<1>. PICK scan \in Scans :
       /\ todo' = {r \in Active : <<r, "active">> \in scan.seen /\ Matches(r)}
       /\ whole' = (whole /\ scan.n < ScanCap)
  BY DEF Scan
<1>1. /\ pc = "scan" /\ pc' = "revoke" /\ todo = {}
      /\ UNCHANGED <<docs, misread, ledger, obs, trigger, target, matching, cleared>>
  BY DEF Scan, Inv, Calls
<1>2. \A r \in Active : /\ r \in Records /\ r.env = "fp"
                        /\ docs[r] = {"active"} \/ r \in misread
  BY OneDocument DEF Active, Inv
<1>3. \A r : Matches(r)' <=> Matches(r)
  BY <1>1 DEF Matches, SameActor, SharesSignal
<1>4. TypeOK'
  BY <1>1, <1>2 DEF Inv, TypeOK
<1>5. Calls'
  <2>1. \A r \in todo' : r.env = "fp" /\ Matches(r)' /\ (docs'[r] = {"active"} \/ r \in misread)
    BY <1>1, <1>2, <1>3
  <2>. QED  BY <1>1, <2>1 DEF Inv, Calls, Reviewing, Confirms
<1>6. ASSUME whole', NEW r \in matching \ misread, Matches(r), docs[r] # {"revoked"}
      PROVE  r \in todo'
  <2>1. scan.seen = Documents
    BY <1>6, WholeScan
  <2>2. r \in Records /\ r.env = "fp" /\ docs[r] = {"active"}
    BY <1>1, <1>6 DEF Inv, TypeOK, Progress, Reviewing
  <2>3. <<r, "active">> \in Documents
    BY <2>2 DEF Documents
  <2>. QED  BY <1>6, <2>1, <2>2, <2>3 DEF Active
<1>7. Progress'
  <2>1. \A r \in matching \ misread : docs[r] \in {{"active"}, {"revoked"}}
    BY <1>1 DEF Inv, Progress, Reviewing
  <2>2. \A r \in matching \ misread : whole' /\ Matches(r) => r \in todo' \/ docs[r] = {"revoked"}
    BY <1>6
  <2>3. \A r \in matching : /\ r.env = "fp" /\ (SameActor(r) \/ SharesSignal(r))
                            /\ r \notin misread /\ whole' /\ trigger = "signature" /\ SameActor(r) => docs[r] = {"revoked"}
    BY <1>1 DEF Inv, Progress, Reviewing
  <2>4. \A r : (SameActor(r)' <=> SameActor(r)) /\ (SharesSignal(r)' <=> SharesSignal(r))
    BY <1>1 DEF SameActor, SharesSignal
  <2>. QED  BY <1>1, <1>3, <2>1, <2>2, <2>3, <2>4 DEF Progress, Reviewing
<1>. QED  BY <1>1, <1>4, <1>5, <1>7 DEF Inv

(* The revocation of one suppression: without a document between the two   *)
(* calls, revoked after them, unless it is misread.                        *)
LEMMA DeleteStep ==
  ASSUME Inv, Delete
  PROVE  Inv'
<1>. PICK r \in todo : /\ target' = r
                       /\ \/ docs' \in Deleted(r) /\ UNCHANGED misread
                          \/ Misreads(r) /\ UNCHANGED docs
  BY DEF Delete
<1>1. /\ pc = "revoke" /\ pc' = "upload"
      /\ UNCHANGED <<ledger, obs, trigger, todo, whole, matching, cleared>>
  BY DEF Delete
<1>2. r \in Records /\ (docs[r] = {"active"} \/ r \in misread)
  BY <1>1 DEF Inv, Calls, TypeOK
<1>3. misread \subseteq misread' /\ misread' \in SUBSET Records
  BY <1>2 DEF Misreads, Inv, TypeOK
<1>4. /\ docs' \in [Records -> SUBSET {"active", "revoked"}]
      /\ \A q \in Records : docs'[q] \subseteq docs[q] /\ (q # r => docs'[q] = docs[q])
      /\ docs'[r] = {} \/ r \in misread'
  <2>1. CASE docs' \in Deleted(r) /\ UNCHANGED misread
    BY <1>2, <2>1, DeletedDocuments DEF Inv
  <2>2. CASE Misreads(r) /\ UNCHANGED docs
    BY <2>2 DEF Misreads, Inv, TypeOK
  <2>. QED  BY <2>1, <2>2
<1>5. TypeOK'
  BY <1>1, <1>2, <1>3, <1>4 DEF Inv, TypeOK
<1>6. \A q : (SameActor(q)' <=> SameActor(q)) /\ (SharesSignal(q)' <=> SharesSignal(q))
  BY <1>1 DEF SameActor, SharesSignal
<1>7. \A q : Matches(q)' <=> Matches(q)
  BY <1>1, <1>6 DEF Matches
<1>8. Calls'
  BY <1>1, <1>3, <1>4, <1>5, <1>7 DEF Inv, Calls, Reviewing, Confirms, TypeOK
<1>9. Progress'
  BY <1>1, <1>2, <1>3, <1>4, <1>6, <1>7 DEF Inv, Progress, Reviewing, TypeOK
<1>10. \A q \in (ledger \cup cleared) \ misread' : docs'[q] = {"revoked"}
  BY <1>2, <1>3, <1>4 DEF Inv, TypeOK
<1>. QED  BY <1>1, <1>5, <1>8, <1>9, <1>10 DEF Inv

LEMMA UploadStep ==
  ASSUME Inv, Upload
  PROVE  Inv'
<1>1. /\ pc = "upload" /\ pc' = "revoke"
      /\ todo' = todo \ {target} /\ ledger' = ledger \cup {target}
      /\ UNCHANGED <<misread, obs, trigger, target, whole, matching, cleared>>
  BY DEF Upload
<1>2. target \in todo /\ target \in Records /\ (docs[target] = {} \/ target \in misread)
  BY <1>1 DEF Inv, Calls, TypeOK
<1>3. /\ docs' = [docs EXCEPT ![target] = @ \cup {"revoked"}]
      /\ docs'[target] = {"revoked"} \/ target \in misread
  BY <1>2 DEF Upload, Inv, TypeOK
<1>4. TypeOK'
  BY <1>1, <1>2, <1>3 DEF Inv, TypeOK
<1>5. \A q \in Records : q # target => docs'[q] = docs[q]
  BY <1>3 DEF Inv, TypeOK
<1>6. \A q : (SameActor(q)' <=> SameActor(q)) /\ (SharesSignal(q)' <=> SharesSignal(q))
  BY <1>1 DEF SameActor, SharesSignal
<1>7. \A q : Matches(q)' <=> Matches(q)
  BY <1>1, <1>6 DEF Matches
<1>8. Calls'
  BY <1>1, <1>4, <1>5, <1>7 DEF Inv, Calls, Reviewing, Confirms, TypeOK
<1>9. Progress'
  BY <1>1, <1>2, <1>3, <1>5, <1>6, <1>7 DEF Inv, Progress, Reviewing, TypeOK
<1>. QED  BY <1>1, <1>2, <1>3, <1>4, <1>5, <1>8, <1>9 DEF Inv, TypeOK

(* A review that breaks off, at any call, leaves nothing behind it but a   *)
(* record without a document.                                              *)
LEMMA AbortStep ==
  ASSUME Inv, Abort
  PROVE  Inv'
<1>1. /\ pc' = "idle" /\ EndReview
      /\ UNCHANGED <<misread, obs, ledger, cleared>>
  BY DEF Abort
<1>2. \A r \in Records \ misread : docs[r] = {"revoked"} => docs'[r] = {"revoked"}
  BY RevokedStays DEF Next
<1>3. /\ docs' \in [Records -> SUBSET {"active", "revoked"}]
      /\ \A r \in Records : docs'[r] = {"active", "revoked"} => r \in misread
  <2>1. CASE UNCHANGED docs
    BY <2>1 DEF Inv, TypeOK
  <2>2. CASE pc = "revoke" /\ \E r \in todo : docs' \in Deleted(r)
    <3>. PICK r \in todo : docs' \in Deleted(r)
      BY <2>2
    <3>1. /\ docs' \in [Records -> SUBSET {"active", "revoked"}]
          /\ \A q \in Records : docs'[q] \subseteq docs[q]
      BY DeletedDocuments DEF Inv, TypeOK
    <3>. QED  BY <3>1 DEF Inv, TypeOK
  <2>3. CASE pc = "upload" /\ docs' = [docs EXCEPT ![target] = @ \cup {"revoked"}]
    <3>1. target \in Records /\ (docs[target] = {} \/ target \in misread)
      BY <2>3 DEF Inv, Calls, TypeOK
    <3>. QED  BY <2>3, <3>1 DEF Inv, TypeOK
  <2>. QED  BY <2>1, <2>2, <2>3 DEF Abort
<1>4. TypeOK'
  BY <1>1, <1>3 DEF Inv, TypeOK, EndReview
<1>5. Calls' /\ Progress'
  BY <1>1 DEF Calls, Progress, Reviewing, EndReview
<1>. QED  BY <1>1, <1>2, <1>4, <1>5 DEF Inv, TypeOK

(* At the end of a whole review everything it was to find is revoked: what *)
(* is of the actor by the first trigger, what shares a signal by the       *)
(* second, which is left out only for an attack without signals.           *)
LEMMA ReviewedStep ==
  ASSUME Inv, Reviewed
  PROVE  Inv'
<1>1. /\ pc = "revoke" /\ todo = {}
      /\ UNCHANGED <<docs, misread, ledger, obs>>
  BY DEF Reviewed
<1>2. CASE /\ trigger = "actor" /\ trigger' = "signature" /\ pc' = "scan"
           /\ UNCHANGED <<cleared, todo, target, whole, matching>>
  <2>1. TypeOK'
    BY <1>1, <1>2 DEF Inv, TypeOK
  <2>2. Calls'
    BY <1>1, <1>2 DEF Inv, Calls, Reviewing, Confirms
  <2>3. \A r \in matching \ misread : whole /\ SameActor(r) => docs[r] = {"revoked"}
    BY <1>1, <1>2 DEF Inv, Progress, Reviewing, Matches
  <2>4. Progress'
    BY <1>1, <1>2, <2>3 DEF Inv, Progress, Reviewing, SameActor, SharesSignal
  <2>. QED  BY <1>1, <1>2, <2>1, <2>2, <2>4 DEF Inv
<1>3. CASE /\ trigger = "signature" \/ obs.signals = {}
           /\ pc' = "idle"
           /\ cleared' = IF whole THEN cleared \cup matching ELSE cleared
           /\ EndReview
  <2>1. TypeOK'
    BY <1>1, <1>3 DEF Inv, TypeOK, EndReview
  <2>2. Calls' /\ Progress'
    BY <1>1, <1>3 DEF Calls, Progress, Reviewing, EndReview
  <2>3. ASSUME whole, NEW r \in matching \ misread
        PROVE  docs[r] = {"revoked"}
    <3>1. trigger = "actor" \/ trigger = "signature"
      BY DEF Inv, TypeOK
    <3>2. SameActor(r) \/ SharesSignal(r)
      BY DEF Inv, Progress
    <3>3. /\ trigger = "signature" /\ SameActor(r) => docs[r] = {"revoked"}
          /\ Matches(r) => docs[r] = {"revoked"}
      BY <1>1, <2>3 DEF Inv, Progress, Reviewing
    <3>. QED  BY <1>3, <3>1, <3>2, <3>3 DEF Matches, SharesSignal
  <2>. QED  BY <1>1, <1>3, <2>1, <2>2, <2>3 DEF Inv
<1>. QED  BY <1>2, <1>3 DEF Reviewed

LEMMA RestartStep ==
  ASSUME Inv, Restart
  PROVE  Inv'
BY DEF Restart, EndReview, Inv, TypeOK, Calls, Progress, Reviewing

LEMMA Inductive ==
  ASSUME Inv, [Next]_vars, PageSize <= TopK
  PROVE  Inv'
<1>1. CASE UNCHANGED vars
  BY <1>1 DEF vars, review, Inv, TypeOK, Calls, Progress, Reviewing, Confirms,
              Matches, SameActor, SharesSignal
<1>2. CASE Next
  BY <1>2, PollStep, GateStep, ActorStep, ScanStep, AbortStep, DeleteStep, UploadStep,
     ReviewedStep, RestartStep DEF Next
<1>. QED  BY <1>1, <1>2

LEMMA Invariant ==
  ASSUME PageSize <= TopK
  PROVE  Spec => []Inv
<1>1. Inv /\ [Next]_vars => Inv'
  BY Inductive
<1>. QED  BY <1>1, Initially, PTL DEF Spec

-----------------------------------------------------------------------------

(* Every variable has its type, and no record has two documents, whatever  *)
(* calls fail in between (core/experience.py:212-226), unless a refused    *)
(* call was taken for its absence (tools/ragflow_experience.py:82-92).     *)
THEOREM TypeCorrect ==
  ASSUME PageSize <= TopK
  PROVE  Spec => []TypeOK
<1>1. Inv => TypeOK
  BY DEF Inv
<1>. QED  BY <1>1, Invariant, PTL

(* A suppression that a whole review has undone never suppresses again     *)
(* (core/coldcase.py:3-11, core/experience.py:212-218), unless the store   *)
(* refused a lookup or a delete of that very record and was misread.       *)
THEOREM ClearedStays ==
  ASSUME PageSize <= TopK
  PROVE  Spec => []ClearedStaysClosed
<1>1. Inv => ClearedStaysClosed
  BY DEF Inv, ClearedStaysClosed, Suppressing, Active
<1>. QED  BY <1>1, Invariant, PTL

(* A case in the operators' queue is in the store, revoked                 *)
(* (core/coldcase.py:148-158), and in no other form unless it is misread.  *)
THEOREM QueueIsRevoked ==
  ASSUME PageSize <= TopK
  PROVE  Spec => []QueuedIsRevoked
<1>1. Inv => QueuedIsRevoked
  BY DEF Inv, QueuedIsRevoked
<1>. QED  BY <1>1, Invariant, PTL

(* Only a confirmed attack takes a suppression away, and only one of the   *)
(* same actor or with a signal of that attack (core/coldcase.py:9-11,      *)
(* core/actors.py:278-282).                                                *)
THEOREM ConfirmationUndoes ==
  ASSUME PageSize <= TopK
  PROVE  Spec => OnlyConfirmationUndoes
<1>. DEFINE Undone == \A r \in Active \ Active' :
       obs.env = "tp" /\ obs.actor # NoActor /\ (SameActor(r) \/ SharesSignal(r))
<1>1. ASSUME Inv, Next, NEW r \in Active, r \notin Active'
      PROVE  obs.env = "tp" /\ obs.actor # NoActor /\ (SameActor(r) \/ SharesSignal(r))
  <2>1. r \in Records /\ r.env = "fp" /\ "active" \in docs[r] /\ "active" \notin docs'[r]
    BY <1>1 DEF Active
  <2>2. ASSUME NEW o \in Observations, Poll(o)
        PROVE  FALSE
    BY <2>1, <2>2 DEF Poll
  <2>3. CASE Exists \/ Actor \/ Scan \/ Reviewed \/ Restart
    BY <2>1, <2>3 DEF Exists, Actor, Scan, Reviewed, Restart
  <2>4. ASSUME NEW q, docs' = [docs EXCEPT ![q] = @ \cup {"active"}]
                   \/ docs' = [docs EXCEPT ![q] = @ \cup {"revoked"}]
        PROVE  FALSE
    BY <1>1, <2>1, <2>4 DEF Inv, TypeOK
  <2>5. CASE Write
    BY <2>1, <2>4, <2>5 DEF Write
  <2>6. CASE Upload
    BY <2>4, <2>6 DEF Upload
  <2>7. CASE Delete \/ Abort
    <3>1. PICK q \in todo : docs' \in Deleted(q)
      BY <2>1, <2>4, <2>7 DEF Delete, Abort
    <3>2. r = q
      BY <1>1, <2>1, <3>1, DeletedDocuments DEF Inv, TypeOK
    <3>3. Reviewing
      BY <2>7 DEF Delete, Abort, Reviewing
    <3>. QED  BY <1>1, <3>2, <3>3 DEF Inv, Calls, Confirms, Matches, SameActor, SharesSignal
  <2>. QED  BY <1>1, <2>2, <2>3, <2>5, <2>6, <2>7 DEF Next
<1>2. Inv /\ [Next]_vars => [Undone]_vars
  BY <1>1
<1>. QED  BY <1>2, Invariant, PTL DEF Spec, OnlyConfirmationUndoes

-----------------------------------------------------------------------------
(* The airspace cache.  Who fetches holds the lock, and the key it fetches *)
(* has no entry: an entry has the key of the time it was asked for, and is *)
(* fresh as long as the time has that key.                                 *)

SkyInv ==
  /\ stage = [a \in Alerts |-> stage[a]]
  /\ asked \in [Alerts -> Nat] /\ clock \in Nat
  /\ waiting \in Seq(Alerts)
  /\ \A k \in DOMAIN skies : skies[k].at \in Nat /\ k[2] = skies[k].at \div TTL
  /\ fetched \in [Keys -> Nat]
  /\ \A k \in Keys : fetched[k] = 0 \/ (fetched[k] = 1 /\ k \in DOMAIN skies)
  /\ \A a \in Alerts : stage[a] = "fetching" =>
       /\ waiting # <<>> /\ waiting[1] = a
       /\ Key(Input[a].place, asked[a]) \notin DOMAIN skies

LEMMA SameHalfMinute ==
  ASSUME NEW m \in Nat, NEW n \in Nat, m \div TTL = n \div TTL
  PROVE  m - n < TTL
BY InvestigationAssumption

LEMMA MinOfTwo == Min({2, 1}) = 1
BY DEF Min

(* Steps that fetch nothing and leave the lock to its holder. *)
LEMMA Aside ==
  ASSUME SkyInv, NEW a \in Alerts, NEW b, b # "fetching", stage[a] # "fetching",
         stage' = [stage EXCEPT ![a] = b],
         asked' = asked \/ asked' = [asked EXCEPT ![a] = clock],
         waiting' = waiting \/ waiting' = Append(waiting, a),
         UNCHANGED <<clock, skies, fetched>>
  PROVE  SkyInv'
<1>1. asked' \in [Alerts -> Nat] /\ \A c \in Alerts : c # a => asked'[c] = asked[c]
  BY DEF SkyInv
<1>2. /\ waiting' \in Seq(Alerts)
      /\ waiting # <<>> => waiting' # <<>> /\ waiting'[1] = waiting[1]
  <2>1. waiting \in Seq(Alerts)
    BY DEF SkyInv
  <2>2. CASE waiting' = waiting
    BY <2>1, <2>2
  <2>3. CASE waiting' = Append(waiting, a)
    BY <2>1, <2>3
  <2>. QED  BY <2>2, <2>3
<1>3. /\ stage' = [c \in Alerts |-> stage'[c]]
      /\ \A c \in Alerts : stage'[c] = "fetching" => c # a /\ stage[c] = "fetching"
  BY DEF SkyInv
<1>4. ASSUME NEW c \in Alerts, stage'[c] = "fetching"
      PROVE  /\ waiting' # <<>> /\ waiting'[1] = c
             /\ Key(Input[c].place, asked'[c]) \notin DOMAIN skies
  <2>1. c # a /\ stage[c] = "fetching"
    BY <1>3, <1>4
  <2>. QED  BY <1>1, <1>2, <2>1 DEF SkyInv
<1>. QED  BY <1>1, <1>2, <1>3, <1>4 DEF SkyInv

LEMMA InitSky == InvestigationInit => SkyInv
BY DEF InvestigationInit, SkyInv

LEMMA NextSky == SkyInv /\ [InvestigationNext]_investigation => SkyInv'
<1> SUFFICES ASSUME SkyInv, [InvestigationNext]_investigation PROVE SkyInv'
  OBVIOUS
<1>1. ASSUME UNCHANGED <<stage, asked, waiting, skies, fetched>>, clock' \in Nat
      PROVE  SkyInv'
  BY <1>1 DEF SkyInv
<1>2. CASE Tick
  BY <1>1, <1>2 DEF Tick, caches, history, SkyInv
<1>3. CASE Done
  BY <1>1, <1>3 DEF Done, investigation, caches, history, SkyInv
<1>4. CASE UNCHANGED investigation
  BY <1>1, <1>4 DEF investigation, caches, history, SkyInv
<1>5. ASSUME NEW a \in Alerts, Step(a) PROVE SkyInv'
  <2>1. CASE Begin(a)
    BY <2>1, Aside DEF Begin, Enter, caches, history
  <2>2. CASE Answer(a)
    BY <1>1, <2>2 DEF Answer, caches, SkyInv
  <2>3. ASSUME NEW got, End(a, got), UNCHANGED <<clock, asked, caches, fetched>>
        PROVE  SkyInv'
    <3>1. \E b \in {"ti", "vuln", "malware", "jam", "done"} : stage' = [stage EXCEPT ![a] = b]
      BY <2>3 DEF End, Enter
    <3>2. stage[a] # "fetching"
      BY <2>3 DEF End
    <3>. QED  BY <2>3, <3>1, <3>2, Aside DEF caches
  <2>4. CASE Ended(a)
    BY <2>3, <2>4 DEF Ended
  <2>5. CASE Deadline(a)
    BY <2>3, <2>5 DEF Deadline
  <2>6. CASE Jam(a)
    <3>1. \E b \in {"air", "jamming"} : stage' = [stage EXCEPT ![a] = b]
      BY <2>6 DEF Jam, Enter
    <3>. QED  BY <2>6, <3>1, Aside DEF Jam, caches, history
  <2>7. CASE JamAnswers(a)
    BY <2>7, Aside DEF JamAnswers, Enter, history
  <2>8. CASE Air(a)
    <3>1. \E b \in {"done", "locked"} : stage' = [stage EXCEPT ![a] = b]
      BY <2>8 DEF Air, Enter
    <3>2. waiting' = waiting \/ waiting' = Append(waiting, a)
      BY <2>8 DEF Air
    <3>. QED  BY <2>8, <3>1, <3>2, Aside DEF Air, history
  <2>9. ASSUME NEW b \in Over, waiting # <<>>, waiting[1] = a, waiting' = Tail(waiting),
               stage' = [stage EXCEPT ![a] = b], UNCHANGED <<clock, asked>>
        PROVE  /\ stage' = [c \in Alerts |-> stage'[c]]
               /\ asked' \in [Alerts -> Nat] /\ clock' \in Nat /\ waiting' \in Seq(Alerts)
               /\ \A c \in Alerts : stage'[c] # "fetching"
    <3>1. b # "fetching"
      BY DEF Over
    <3>2. /\ stage' = [c \in Alerts |-> stage'[c]]
          /\ \A c \in Alerts : stage'[c] = IF c = a THEN b ELSE stage[c]
      BY <2>9 DEF SkyInv
    <3>3. \A c \in Alerts : stage'[c] # "fetching"
      BY <2>9, <3>1, <3>2 DEF SkyInv
    <3>4. asked' \in [Alerts -> Nat] /\ clock' \in Nat /\ waiting' \in Seq(Alerts)
      BY <2>9 DEF SkyInv
    <3>. QED  BY <3>2, <3>3, <3>4
  <2>10. CASE Locked(a)
    <3> DEFINE key == Key(Input[a].place, asked[a])
    <3>1. /\ stage[a] = "locked" /\ waiting # <<>> /\ waiting[1] = a
          /\ UNCHANGED <<clock, asked, skies, fetched>>
      BY <2>10 DEF Locked, history
    <3>2. CASE FreshSky(key, asked[a])
      <4>1. waiting' = Tail(waiting) /\ stage' = [stage EXCEPT ![a] = "done"]
        BY <2>10, <3>2 DEF Locked, Enter
      <4>. QED  BY <2>9, <3>1, <4>1 DEF SkyInv, Over
    <3>3. CASE ~FreshSky(key, asked[a])
      <4>1. waiting' = waiting /\ stage' = [stage EXCEPT ![a] = "fetching"]
        BY <2>10, <3>3 DEF Locked, Enter
      <4>2. key \notin DOMAIN skies
        <5>1. asked[a] \in Nat /\ key[2] = asked[a] \div TTL
          BY DEF SkyInv, Key
        <5>2. ASSUME key \in DOMAIN skies PROVE FALSE
          <6>1. skies[key].at \in Nat /\ asked[a] \div TTL = skies[key].at \div TTL
            BY <5>1, <5>2 DEF SkyInv
          <6>2. asked[a] - skies[key].at < TTL
            BY <5>1, <6>1, SameHalfMinute
          <6>. QED  BY <3>3, <5>2, <6>2 DEF FreshSky
        <5>. QED  BY <5>2
      <4>3. \A c \in Alerts : stage'[c] = "fetching" => c = a
        BY <3>1, <4>1 DEF SkyInv
      <4> HIDE DEF key
      <4>. QED  BY <3>1, <4>1, <4>2, <4>3 DEF SkyInv, key
    <3>. QED  BY <3>2, <3>3
  <2>11. CASE Fails(a)
    <3>1. /\ stage[a] = "fetching" /\ waiting' = Tail(waiting)
          /\ stage' = [stage EXCEPT ![a] = "done"]
          /\ UNCHANGED <<clock, asked, skies, fetched>>
      BY <2>11 DEF Fails, Enter, history
    <3>2. waiting # <<>> /\ waiting[1] = a
      BY <3>1 DEF SkyInv
    <3>. QED  BY <2>9, <3>1, <3>2 DEF SkyInv, Over
  <2>12. CASE Fetches(a)
    <3> DEFINE key == Key(Input[a].place, asked[a])
    <3>1. /\ stage[a] = "fetching" /\ waiting' = Tail(waiting)
          /\ stage' = [stage EXCEPT ![a] = "done"]
          /\ UNCHANGED <<clock, asked>>
          /\ fetched' = [fetched EXCEPT ![key] = Min({2, fetched[key] + 1})]
          /\ \E sky : sky.at = asked[a] /\ skies' = Put(skies, key, sky)
      BY <2>12 DEF Fetches, Enter
    <3>2. /\ waiting # <<>> /\ waiting[1] = a /\ key \notin DOMAIN skies
          /\ asked[a] \in Nat /\ key[2] = asked[a] \div TTL
      BY <3>1 DEF SkyInv, Key
    <3> HIDE DEF key
    <3>3. /\ DOMAIN skies' = DOMAIN skies \cup {key}
          /\ \A k \in DOMAIN skies' : skies'[k].at \in Nat /\ k[2] = skies'[k].at \div TTL
      BY <3>1, <3>2 DEF Put, SkyInv
    <3>4. /\ fetched' \in [Keys -> Nat]
          /\ \A k \in Keys : fetched'[k] = 0 \/ (fetched'[k] = 1 /\ k \in DOMAIN skies')
      <4>1. key \in Keys => fetched[key] + 1 = 1
        BY <3>2 DEF SkyInv
      <4>2. \A k \in Keys : fetched'[k] = IF k = key THEN 1 ELSE fetched[k]
        BY <3>1, <4>1, MinOfTwo DEF SkyInv
      <4>3. fetched' = [k \in Keys |-> fetched'[k]]
        BY <3>1 DEF SkyInv
      <4>. QED  BY <3>3, <4>2, <4>3 DEF SkyInv
    <3>. QED  BY <2>9, <3>1, <3>2, <3>3, <3>4 DEF SkyInv, Over
  <2>13. CASE Garbled(a)
    <3>1. stage' = [stage EXCEPT ![a] = "raised"] /\ UNCHANGED <<clock, asked, skies, fetched>>
      BY <2>13 DEF Garbled, Enter, history
    <3>2. CASE stage[a] = "jamming"
      BY <2>13, <3>1, <3>2, Aside DEF Garbled
    <3>3. CASE stage[a] = "fetching"
      <4>1. waiting # <<>> /\ waiting[1] = a /\ waiting' = Tail(waiting)
        BY <2>13, <3>3 DEF Garbled, SkyInv
      <4>. QED  BY <2>9, <3>1, <4>1 DEF SkyInv, Over
    <3>. QED  BY <2>13, <3>2, <3>3 DEF Garbled
  <2>. QED
    BY <1>5, <2>1, <2>2, <2>4, <2>5, <2>6, <2>7, <2>8, <2>10, <2>11, <2>12, <2>13 DEF Step
<1>. QED  BY <1>2, <1>3, <1>4, <1>5 DEF InvestigationNext

(* For every cell and half minute at most one request is answered, however *)
(* investigations meet at the lock, and whatever requests fail             *)
(* (tools/airspace_tool.py).                                               *)
THEOREM OneFetchPerKey == InvestigationSpec => []FetchedOnce
<1>1. SkyInv => FetchedOnce
  BY DEF SkyInv, FetchedOnce
<1>. QED  BY <1>1, InitSky, NextSky, PTL DEF InvestigationSpec

-----------------------------------------------------------------------------
(* What leaves.  An alert's indicators are a list of at most Cap different *)
(* normal forms; what was sent is of that list, and the list that joins    *)
(* what a sandbox extracted to it keeps all of it.                         *)

(* Lists of indicators as they are written. *)
Written(lists) ==
  /\ DOMAIN lists \subseteq Nat
  /\ \A n \in DOMAIN lists : lists[n] \in Seq(Indicators)

(* A list that was sanitized. *)
Kept(s) ==
  /\ s \in Seq(Indicators) /\ Len(s) <= Cap
  /\ \A i \in DOMAIN s : Normal[s[i]] = s[i]
  /\ \A i, j \in DOMAIN s : i # j => s[i] # s[j]

LEMMA PlaceOf ==
  ASSUME NEW lists, NEW x, NEW p
  PROVE  p \in Places(lists, x) <=>
           \E n \in DOMAIN lists :
             \E k \in DOMAIN lists[n] : p = <<n, k>> /\ Normal[lists[n][k]] = x
BY DEF Places

LEMMA PrecedesStrict ==
  ASSUME NEW lists, Written(lists), NEW x
  PROVE  ~Precedes(lists, x, x)
<1> SUFFICES ASSUME NEW p \in Places(lists, x), Before(p, p) PROVE FALSE
  BY DEF Precedes
<1>1. PICK n \in DOMAIN lists : \E k \in DOMAIN lists[n] : p = <<n, k>>
  BY PlaceOf
<1>2. PICK k \in DOMAIN lists[n] : p = <<n, k>>
  BY <1>1
<1>3. n \in Nat /\ k \in Nat
  BY DEF Written
<1>. QED  BY <1>2, <1>3 DEF Before

LEMMA SanitizeKeeps ==
  ASSUME NEW lists, Written(lists), NEW s \in Sanitize(lists, Cap)
  PROVE  Kept(s)
<1> DEFINE normal == {x \in Indicators : Places(lists, x) # {}}
<1>1. PICK n \in 0..Cap : s \in [1..n -> normal]
  BY DEF Sanitize
<1>2. \A i, j \in DOMAIN s : i < j => Precedes(lists, s[i], s[j])
  BY DEF Sanitize
<1>3. ASSUME NEW x \in normal PROVE x \in Indicators /\ Normal[x] = x
  <2>1. PICK p \in Places(lists, x) : TRUE
    BY <1>3
  <2>2. PICK m \in DOMAIN lists : \E k \in DOMAIN lists[m] : Normal[lists[m][k]] = x
    BY PlaceOf
  <2>3. PICK k \in DOMAIN lists[m] : Normal[lists[m][k]] = x
    BY <2>2
  <2>4. lists[m][k] \in Indicators
    BY <2>3 DEF Written
  <2>. QED  BY <1>3, <2>3, <2>4, LookupsAssumption
<1> HIDE DEF normal
<1>4. n \in Nat /\ n <= Cap /\ Cap \in Nat
  BY InvestigationAssumption
<1>5. s \in Seq(Indicators) /\ Len(s) = n /\ DOMAIN s = 1..n
  BY <1>1, <1>3, <1>4
<1>6. \A i \in DOMAIN s : Normal[s[i]] = s[i]
  BY <1>1, <1>3, <1>5
<1>7. ASSUME NEW i \in DOMAIN s, NEW j \in DOMAIN s, i # j PROVE s[i] # s[j]
  <2>1. i < j \/ j < i
    BY <1>5, <1>7
  <2>. QED  BY <1>2, <2>1, PrecedesStrict
<1>. QED  BY <1>4, <1>5, <1>6, <1>7 DEF Kept

(* What is first in the lists and was sanitized is kept. *)
LEMMA SanitizeCovers ==
  ASSUME NEW lists, Written(lists), 0 \in DOMAIN lists, Kept(lists[0]),
         NEW s \in Sanitize(lists, Cap)
  PROVE  ToSet(lists[0]) \subseteq ToSet(s)
<1> DEFINE q == lists[0]
<1>1. SUFFICES ASSUME NEW k \in DOMAIN q, q[k] \notin ToSet(s) PROVE FALSE
  BY DEF ToSet
<1>2. /\ q \in Seq(Indicators) /\ Len(q) <= Cap
      /\ \A i \in DOMAIN q : Normal[q[i]] = q[i]
      /\ \A i, j \in DOMAIN q : i # j => q[i] # q[j]
  BY DEF Kept
<1>3. <<0, k>> \in Places(lists, q[k]) /\ q[k] \in Indicators
  BY <1>2, PlaceOf
<1>4. Len(s) = Cap /\ \A i \in DOMAIN s : Precedes(lists, s[i], q[k])
  BY <1>1, <1>3 DEF Sanitize
<1>5. Kept(s)
  BY SanitizeKeeps
<1>6. ASSUME NEW i \in DOMAIN s
      PROVE  \E m \in 1..(k - 1) : q[m] = s[i]
  <2>1. PICK p \in Places(lists, s[i]) : Before(p, <<0, k>>)
    BY <1>3, <1>4 DEF Precedes
  <2>2. PICK n \in DOMAIN lists :
          \E m \in DOMAIN lists[n] : p = <<n, m>> /\ Normal[lists[n][m]] = s[i]
    BY PlaceOf
  <2>. PICK m \in DOMAIN lists[n] : p = <<n, m>> /\ Normal[lists[n][m]] = s[i]
    BY <2>2
  <2>3. n \in Nat /\ m \in Nat \ {0} /\ k \in Nat
    BY <1>2 DEF Written
  <2>4. n = 0 /\ m < k
    BY <2>1, <2>2, <2>3 DEF Before
  <2>. QED  BY <1>2, <2>2, <2>3, <2>4
<1> DEFINE f == [i \in 1..Cap |-> CHOOSE m \in 1..(k - 1) : q[m] = s[i]]
<1>7. DOMAIN s = 1..Cap /\ Cap \in Nat /\ k \in 1..Len(q) /\ Len(q) \in Nat
  BY <1>2, <1>4, <1>5 DEF Kept
<1>8. \A i \in 1..Cap : f[i] \in 1..(k - 1) /\ q[f[i]] = s[i]
  BY <1>6, <1>7
<1>9. f \in [1..Cap -> 1..(k - 1)]
  <2>1. f = [i \in 1..Cap |-> f[i]]
    OBVIOUS
  <2> HIDE DEF f
  <2>. QED  BY <1>8, <2>1
<1> HIDE DEF f
<1>10. /\ IsFiniteSet(1..Cap) /\ Cardinality(1..Cap) = Cap
       /\ IsFiniteSet(1..(k - 1)) /\ Cardinality(1..(k - 1)) = k - 1
  <2>1. k - 1 \in Nat
    BY <1>7
  <2>2. \A n \in Nat : IsFiniteSet(1..n) /\ Cardinality(1..n) = n
    BY FS_Interval
  <2>. QED  BY <1>7, <2>1, <2>2
<1>11. k - 1 < Cap
  BY <1>2, <1>7
<1>12. \E i, j \in 1..Cap : i # j /\ f[i] = f[j]
  BY <1>9, <1>10, <1>11, FS_PigeonHole
<1>13. \A i, j \in 1..Cap : i # j => s[i] # s[j]
  BY <1>5, <1>7 DEF Kept
<1>. QED  BY <1>8, <1>12, <1>13

(* Counting up to each of its members numbers a finite set of numbers. *)
LEMMA NthOf ==
  ASSUME NEW K \in SUBSET Nat, IsFiniteSet(K), NEW n \in 1..Cardinality(K)
  PROVE  Nth(K, n) \in K
<1> DEFINE upTo(k) == {j \in K : j <= k}
           f == [k \in K |-> Cardinality(upTo(k))]
           m == Cardinality(K)
<1>1. m \in Nat
  BY FS_CardinalityType
<1>2. ASSUME NEW k \in K
      PROVE  /\ IsFiniteSet(upTo(k)) /\ Cardinality(upTo(k)) \in 1..m
  <2>1. upTo(k) \subseteq K /\ k \in upTo(k)
    BY <1>2
  <2> HIDE DEF upTo
  <2>2. IsFiniteSet(upTo(k)) /\ Cardinality(upTo(k)) <= m
    BY <2>1, FS_Subset
  <2>3. Cardinality(upTo(k)) \in Nat /\ Cardinality(upTo(k)) # 0
    BY <2>1, <2>2, FS_CardinalityType, FS_EmptySet
  <2>. QED  BY <1>1, <2>2, <2>3
<1>3. ASSUME NEW k \in K, NEW l \in K, k < l
      PROVE  Cardinality(upTo(k)) < Cardinality(upTo(l))
  <2>1. upTo(k) \subseteq upTo(l) /\ l \in upTo(l) /\ l \notin upTo(k)
    <3>1. \A j \in K : j \in Nat
      OBVIOUS
    <3>2. \A j \in K : j <= k => j <= l
      BY <1>3, <3>1
    <3>3. l <= l /\ ~(l <= k)
      BY <1>3, <3>1
    <3>. QED  BY <3>2, <3>3
  <2>2. IsFiniteSet(upTo(l))
    BY <1>2
  <2>3. Cardinality(upTo(k)) <= Cardinality(upTo(l))
        /\ (Cardinality(upTo(k)) = Cardinality(upTo(l)) => upTo(k) = upTo(l))
    <3> HIDE DEF upTo
    <3>. QED  BY <2>1, <2>2, FS_Subset
  <2>4. Cardinality(upTo(k)) \in Nat /\ Cardinality(upTo(l)) \in Nat
    BY <1>2
  <2> HIDE DEF upTo
  <2>. QED  BY <2>1, <2>3, <2>4
<1>4. f \in [K -> 1..m] /\ \A k, l \in K : f[k] = f[l] => k = l
  <2> HIDE DEF upTo, m
  <2>1. f \in [K -> 1..m]
    BY <1>2
  <2>2. ASSUME NEW k \in K, NEW l \in K, f[k] = f[l] PROVE k = l
    <3>1. Cardinality(upTo(k)) = Cardinality(upTo(l))
      BY <2>2
    <3>2. k \in Nat /\ l \in Nat /\ Cardinality(upTo(k)) \in Nat
      BY <1>1, <1>2
    <3>3. ~(k < l) /\ ~(l < k)
      BY <1>1, <1>2, <1>3, <3>1, <3>2
    <3>. QED  BY <3>2, <3>3
  <2>. QED  BY <2>1, <2>2
<1> HIDE DEF f, m
<1>5. \E k \in K : f[k] = n
  <2>1. IsFiniteSet(1..m) /\ Cardinality(1..m) = m
    BY <1>1, FS_Interval
  <2>2. f \in Injection(K, 1..m)
    BY <1>4 DEF Injection, IsInjective
  <2>3. f \in Surjection(K, 1..m)
    BY <2>1, <2>2, FS_Injection DEF m
  <2>4. n \in 1..m
    BY DEF m
  <2>. QED  BY <2>3, <2>4 DEF Surjection
<1>6. \E k \in K : Cardinality({j \in K : j <= k}) = n
  BY <1>5 DEF f
<1>. QED  BY <1>6 DEF Nth

(* What holds of an alert at stage b with the indicators i, the answers n  *)
(* and q sent.                                                             *)
Bounds(b, i, n, q) ==
  /\ Kept(i)
  /\ IF b \in {"sandbox", "ti"} THEN q \subseteq ToSet(i) ELSE q = {}
  /\ b = "sandbox" => n \in [{"sandbox"} -> Seq(Reports \cup {None})]
  /\ b = "ti" => n \in [ToSet(Services) -> Seq(Verdicts)]

EgressInv ==
  /\ stage = [a \in Alerts |-> stage[a]]
  /\ iocs = [a \in Alerts |-> iocs[a]]
  /\ answers = [a \in Alerts |-> answers[a]]
  /\ sent = [a \in Alerts |-> sent[a]]
  /\ \A a \in Alerts : Bounds(stage[a], iocs[a], answers[a], sent[a])

(* A list that was sanitized has at most Cap members, of normal form. *)
LEMMA KeptBounded ==
  ASSUME NEW s, Kept(s), NEW q, q \subseteq ToSet(s)
  PROVE  Cardinality(q) <= Cap /\ \A i \in q : Normal[i] = i
<1>1. \A i \in q : Normal[i] = i
  BY DEF Kept, ToSet
<1>2. Len(s) \in Nat /\ Len(s) <= Cap /\ DOMAIN s = 1..Len(s) /\ Cap \in Nat
  BY InvestigationAssumption DEF Kept
<1>3. IsFiniteSet(1..Len(s)) /\ Cardinality(1..Len(s)) = Len(s)
  <2>1. \A n \in Nat : IsFiniteSet(1..n) /\ Cardinality(1..n) = n
    BY FS_Interval
  <2>. QED  BY <1>2, <2>1
<1> DEFINE f == [k \in 1..Len(s) |-> s[k]]
<1>4. f \in Surjection(1..Len(s), ToSet(s))
  BY <1>2 DEF Surjection, ToSet
<1>5. IsFiniteSet(ToSet(s)) /\ Cardinality(ToSet(s)) <= Len(s)
  <2> HIDE DEF f
  <2>. QED  BY <1>3, <1>4, FS_Surjection
<1>6. Cardinality(q) <= Cardinality(ToSet(s))
  BY <1>5, FS_Subset
<1>7. Cardinality(q) \in Nat /\ Cardinality(ToSet(s)) \in Nat
  BY <1>5, FS_Subset, FS_CardinalityType
<1>. QED  BY <1>1, <1>2, <1>5, <1>6, <1>7

LEMMA EmptyKept == Kept(<<>>)
BY InvestigationAssumption DEF Kept

(* A step of one alert. *)
LEMMA OneAlert ==
  ASSUME EgressInv, NEW a \in Alerts, NEW b, NEW i, NEW n, NEW q,
         Bounds(b, i, n, q),
         stage' = [stage EXCEPT ![a] = b],
         iocs' = [iocs EXCEPT ![a] = i],
         answers' = [answers EXCEPT ![a] = n],
         sent' = [sent EXCEPT ![a] = q]
  PROVE  EgressInv'
<1>1. /\ stage' = [c \in Alerts |-> IF c = a THEN b ELSE stage[c]]
      /\ iocs' = [c \in Alerts |-> IF c = a THEN i ELSE iocs[c]]
      /\ answers' = [c \in Alerts |-> IF c = a THEN n ELSE answers[c]]
      /\ sent' = [c \in Alerts |-> IF c = a THEN q ELSE sent[c]]
  BY DEF EgressInv
<1>2. \A c \in Alerts : Bounds(stage'[c], iocs'[c], answers'[c], sent'[c])
  BY <1>1 DEF EgressInv
<1>. QED  BY <1>1, <1>2 DEF EgressInv

(* Steps after the lookups that send anything. *)
LEMMA Later ==
  ASSUME EgressInv, NEW a \in Alerts, NEW b, Enter(a, b), UNCHANGED <<iocs, sent>>,
         {stage[a], b} \cap {"sandbox", "ti"} = {}
  PROVE  EgressInv'
<1>1. Bounds(stage[a], iocs[a], answers[a], sent[a])
  BY DEF EgressInv
<1>2. PICK n : answers' = [answers EXCEPT ![a] = n]
  BY DEF Enter
<1>3. Bounds(b, iocs[a], n, sent[a])
  BY <1>1 DEF Bounds
<1>4. /\ stage' = [stage EXCEPT ![a] = b]
      /\ iocs' = [iocs EXCEPT ![a] = iocs[a]]
      /\ sent' = [sent EXCEPT ![a] = sent[a]]
  BY DEF Enter, EgressInv
<1>. QED  BY <1>2, <1>3, <1>4, OneAlert

(* The sandbox is asked about indicators of the list. *)
LEMMA HashesOf ==
  ASSUME NEW s, s \in Seq(Indicators)
  PROVE  Len(Hashes(s)) \in Nat /\ \A n \in 1..Len(Hashes(s)) : Hashes(s)[n] \in ToSet(s)
<1> DEFINE K == {k \in DOMAIN s : Kind[s[k]] = "hash"}
<1>1. K \in SUBSET Nat /\ K \subseteq 1..Len(s) /\ Len(s) \in Nat /\ K \subseteq DOMAIN s
  OBVIOUS
<1>2. Hashes(s) = [n \in 1..Cardinality(K) |-> s[Nth(K, n)]]
  BY DEF Hashes, At
<1> HIDE DEF K
<1>3. IsFiniteSet(K)
  <2>1. \A n \in Nat : IsFiniteSet(1..n)
    BY FS_Interval
  <2>2. IsFiniteSet(1..Len(s))
    BY <1>1, <2>1
  <2>. QED  BY <1>1, <2>2, FS_Subset
<1>4. Cardinality(K) \in Nat
  BY <1>3, FS_CardinalityType
<1>5. Len(Hashes(s)) = Cardinality(K)
  BY <1>2, <1>4
<1>6. \A n \in 1..Cardinality(K) : Nth(K, n) \in K
  BY <1>1, <1>3, NthOf
<1>. QED  BY <1>1, <1>2, <1>4, <1>5, <1>6 DEF ToSet

LEMMA ReadingType ==
  ASSUME NEW s, NEW q, NEW body
  PROVE  Reading(s, q, body) \in Verdicts
BY DEF Reading, VirusTotal, GreyNoise, AbuseIpdb, ThreatFox, Honeypot, Verdicts

LEMMA InitEgress == InvestigationInit => EgressInv
BY EmptyKept DEF InvestigationInit, EgressInv, Bounds

(* The lists a stage sanitizes are written ones. *)
LEMMA InputWritten ==
  ASSUME NEW a \in Alerts
  PROVE  Written(<<Input[a].iocs>>)
BY InvestigationAssumption DEF Written

LEMMA GatheredWritten ==
  ASSUME NEW a \in Alerts, iocs[a] \in Seq(Indicators),
         NEW reports, reports \in Seq(Reports \cup {None})
  PROVE  /\ Written(Gathered(a, reports))
         /\ 0 \in DOMAIN Gathered(a, reports) /\ Gathered(a, reports)[0] = iocs[a]
<1>1. Len(reports) \in Nat
  OBVIOUS
<1>2. ASSUME NEW n \in 0..Len(reports) PROVE Gathered(a, reports)[n] \in Seq(Indicators)
  <2>1. CASE n = 0
    BY <2>1 DEF Gathered
  <2>2. CASE n # 0 /\ ~Malicious(reports[n])
    BY <2>2 DEF Gathered
  <2>3. CASE n # 0 /\ Malicious(reports[n])
    <3>1. reports[n] \in Reports
      BY <1>1, <2>3 DEF Malicious
    <3>. QED  BY <2>3, <3>1, InvestigationAssumption DEF Gathered
  <2>. QED  BY <2>1, <2>2, <2>3
<1>3. DOMAIN Gathered(a, reports) = 0..Len(reports) /\ Gathered(a, reports)[0] = iocs[a]
  BY <1>1 DEF Gathered
<1>. QED  BY <1>1, <1>2, <1>3 DEF Written

LEMMA BeginEgress ==
  ASSUME EgressInv, NEW a \in Alerts, Begin(a)
  PROVE  EgressInv'
<1>1. PICK kept \in Sanitize(<<Input[a].iocs>>, Cap) : iocs' = [iocs EXCEPT ![a] = kept]
  BY DEF Begin
<1>2. Kept(kept)
  BY InputWritten, SanitizeKeeps
<1>3. sent[a] = {}
  BY DEF Begin, EgressInv, Bounds
<1> DEFINE n == NoAnswers("sandbox")
<1>4. n \in [{"sandbox"} -> Seq(Reports \cup {None})]
  BY DEF NoAnswers, Sources, ToSet
<1>5. /\ stage' = [stage EXCEPT ![a] = "sandbox"]
      /\ answers' = [answers EXCEPT ![a] = n]
  BY DEF Begin, Enter, Bounded
<1>6. sent' = [sent EXCEPT ![a] = {}]
  BY <1>3 DEF Begin, history, EgressInv
<1> HIDE DEF n
<1>7. Bounds("sandbox", kept, n, {})
  BY <1>2, <1>4 DEF Bounds
<1>. QED  BY <1>1, <1>5, <1>6, <1>7, OneAlert

LEMMA ServicesAside ==
  ASSUME NEW s \in ToSet(Services)
  PROVE  s \notin {"sandbox", "kev", "nvd", "router"}
BY InvestigationAssumption

LEMMA AnswerEgress ==
  ASSUME EgressInv, NEW a \in Alerts, Answer(a)
  PROVE  EgressInv'
<1>1. PICK s \in ToSet(Sources(stage[a])) :
         /\ Unanswered(a, s)
         /\ \E r \in Answers(s, Questions(a, s)[Len(answers[a][s]) + 1]) :
              /\ answers' = [answers EXCEPT ![a][s] = Append(answers[a][s], r)]
              /\ sent' = IF s = "sandbox"
                            \/ (stage[a] = "ti"
                                /\ Kind[Questions(a, s)[Len(answers[a][s]) + 1]] \in Takes(s))
                         THEN [sent EXCEPT ![a] =
                                 sent[a] \cup {Questions(a, s)[Len(answers[a][s]) + 1]}]
                         ELSE sent
  BY DEF Answer
<1> DEFINE q == Questions(a, s)[Len(answers[a][s]) + 1]
<1>2. PICK r \in Answers(s, q) :
         /\ answers' = [answers EXCEPT ![a][s] = Append(answers[a][s], r)]
         /\ sent' = IF s = "sandbox" \/ (stage[a] = "ti" /\ Kind[q] \in Takes(s))
                    THEN [sent EXCEPT ![a] = sent[a] \cup {q}] ELSE sent
  BY <1>1
<1>3. Bounds(stage[a], iocs[a], answers[a], sent[a])
  BY DEF EgressInv
<1>4. stage[a] \in Bounded /\ UNCHANGED <<stage, iocs>>
  BY DEF Answer
<1> DEFINE n == [answers[a] EXCEPT ![s] = Append(answers[a][s], r)]
<1>5. /\ stage' = [stage EXCEPT ![a] = stage[a]]
      /\ iocs' = [iocs EXCEPT ![a] = iocs[a]]
      /\ answers' = [answers EXCEPT ![a] = n]
  BY <1>2, <1>4 DEF EgressInv
<1>6. CASE stage[a] = "sandbox"
  <2>1. s = "sandbox" /\ answers[a] \in [{"sandbox"} -> Seq(Reports \cup {None})]
    BY <1>1, <1>3, <1>6 DEF Sources, ToSet, Bounds
  <2>2. r \in Reports \cup {None}
    BY <1>2, <2>1 DEF Answers
  <2>3. n \in [{"sandbox"} -> Seq(Reports \cup {None})]
    <3>1. answers[a][s] \in Seq(Reports \cup {None})
      BY <2>1
    <3>2. Append(answers[a][s], r) \in Seq(Reports \cup {None})
      BY <2>2, <3>1
    <3>. QED  BY <2>1, <3>2
  <2>4. q \in ToSet(iocs[a])
    <3>1. iocs[a] \in Seq(Indicators)
      BY <1>3 DEF Bounds, Kept
    <3>2. Len(answers[a][s]) \in Nat
      BY <2>1
    <3>3. Questions(a, s) = Hashes(iocs[a])
      BY <2>1 DEF Questions
    <3>4. Len(answers[a][s]) < Len(Hashes(iocs[a]))
      BY <1>1, <3>3 DEF Unanswered
    <3>5. /\ Len(Hashes(iocs[a])) \in Nat
          /\ \A k \in 1..Len(Hashes(iocs[a])) : Hashes(iocs[a])[k] \in ToSet(iocs[a])
      BY <3>1, HashesOf
    <3>6. Len(answers[a][s]) + 1 \in 1..Len(Hashes(iocs[a]))
      BY <3>2, <3>4, <3>5
    <3>. QED  BY <3>3, <3>5, <3>6
  <2> HIDE DEF q, n
  <2>5. sent' = [sent EXCEPT ![a] = sent[a] \cup {q}]
    BY <1>2, <2>1
  <2>6. Bounds(stage[a], iocs[a], n, sent[a] \cup {q})
    BY <1>3, <1>6, <2>3, <2>4 DEF Bounds
  <2>. QED  BY <1>5, <2>5, <2>6, OneAlert
<1>7. CASE stage[a] = "ti"
  <2>1. s \in ToSet(Services) /\ answers[a] \in [ToSet(Services) -> Seq(Verdicts)]
    BY <1>1, <1>3, <1>7 DEF Sources, Bounds
  <2>2. s \notin {"sandbox", "kev", "nvd", "router"}
    BY <2>1, ServicesAside
  <2>3. r \in Verdicts
    BY <1>2, <2>2, ReadingType DEF Answers
  <2>4. n \in [ToSet(Services) -> Seq(Verdicts)]
    <3>1. answers[a][s] \in Seq(Verdicts)
      BY <2>1
    <3>2. Append(answers[a][s], r) \in Seq(Verdicts)
      BY <2>3, <3>1
    <3>. QED  BY <2>1, <3>2
  <2>5. q \in ToSet(iocs[a])
    <3>1. iocs[a] \in Seq(Indicators)
      BY <1>3 DEF Bounds, Kept
    <3>2. Len(answers[a][s]) \in Nat
      BY <2>1
    <3>3. Questions(a, s) = iocs[a]
      BY <2>2 DEF Questions
    <3>4. Len(answers[a][s]) < Len(iocs[a])
      BY <1>1, <3>3 DEF Unanswered
    <3>. QED  BY <3>1, <3>2, <3>3, <3>4 DEF ToSet
  <2> HIDE DEF q, n
  <2>6. \/ sent' = [sent EXCEPT ![a] = sent[a] \cup {q}]
        \/ sent' = [sent EXCEPT ![a] = sent[a]]
    BY <1>2 DEF EgressInv
  <2>7. /\ Bounds(stage[a], iocs[a], n, sent[a] \cup {q})
        /\ Bounds(stage[a], iocs[a], n, sent[a])
    BY <1>3, <1>7, <2>4, <2>5 DEF Bounds
  <2>8. CASE sent' = [sent EXCEPT ![a] = sent[a] \cup {q}]
    BY <1>5, <2>7, <2>8, OneAlert
  <2>9. CASE sent' = [sent EXCEPT ![a] = sent[a]]
    BY <1>5, <2>7, <2>9, OneAlert
  <2>. QED  BY <2>6, <2>8, <2>9
<1>8. CASE stage[a] \in {"vuln", "malware"}
  <2>1. s # "sandbox"
    BY <1>1, <1>8 DEF Sources, ToSet
  <2> HIDE DEF q, n
  <2>2. sent' = [sent EXCEPT ![a] = sent[a]]
    BY <1>2, <1>8, <2>1 DEF EgressInv
  <2>3. Bounds(stage[a], iocs[a], n, sent[a])
    BY <1>3, <1>8 DEF Bounds
  <2>. QED  BY <1>5, <2>2, <2>3, OneAlert
<1>. QED  BY <1>4, <1>6, <1>7, <1>8 DEF Bounded

LEMMA EndEgress ==
  ASSUME EgressInv, NEW a \in Alerts, NEW got, End(a, got),
         stage[a] = "sandbox" => got["sandbox"] \in Seq(Reports \cup {None})
  PROVE  EgressInv'
<1>1. Bounds(stage[a], iocs[a], answers[a], sent[a])
  BY DEF EgressInv
<1>2. CASE stage[a] = "sandbox"
  <2> DEFINE lists == Gathered(a, got["sandbox"])
             n == NoAnswers("ti")
  <2>1. EndSandbox(a, got) /\ Enter(a, "ti")
    BY <1>2 DEF End
  <2>2. PICK kept \in Sanitize(lists, Cap) : iocs' = [iocs EXCEPT ![a] = kept]
    BY <2>1 DEF EndSandbox
  <2>3. Written(lists) /\ 0 \in DOMAIN lists /\ lists[0] = iocs[a]
    BY <1>1, <1>2, GatheredWritten DEF Bounds, Kept
  <2>4. n \in [ToSet(Services) -> Seq(Verdicts)]
    BY DEF NoAnswers, Sources
  <2>5. /\ stage' = [stage EXCEPT ![a] = "ti"]
        /\ answers' = [answers EXCEPT ![a] = n]
        /\ sent' = [sent EXCEPT ![a] = sent[a]]
    BY <2>1 DEF Enter, Bounded, EndSandbox, EgressInv
  <2> HIDE DEF lists, n
  <2>6. Kept(kept) /\ ToSet(iocs[a]) \subseteq ToSet(kept)
    <3>1. Kept(lists[0])
      BY <1>1, <2>3 DEF Bounds
    <3>. QED  BY <2>3, <3>1, SanitizeKeeps, SanitizeCovers
  <2>7. Bounds("ti", kept, n, sent[a])
    BY <1>1, <1>2, <2>4, <2>6 DEF Bounds
  <2>. QED  BY <2>2, <2>5, <2>7, OneAlert
<1>3. CASE stage[a] = "ti"
  <2>1. EndTi(a, got) /\ Enter(a, "vuln")
    BY <1>3 DEF End
  <2>2. PICK n : answers' = [answers EXCEPT ![a] = n]
    BY <2>1 DEF Enter
  <2>3. /\ stage' = [stage EXCEPT ![a] = "vuln"]
        /\ iocs' = [iocs EXCEPT ![a] = <<>>]
        /\ sent' = [sent EXCEPT ![a] = {}]
    BY <2>1 DEF Enter, EndTi
  <2>4. Bounds("vuln", <<>>, n, {})
    BY EmptyKept DEF Bounds
  <2>. QED  BY <2>2, <2>3, <2>4, OneAlert
<1>4. CASE stage[a] = "vuln"
  BY <1>4, Later DEF End, EndVuln
<1>5. CASE stage[a] = "malware"
  <2>1. \E b \in {"jam", "done"} : Enter(a, b)
    BY <1>5 DEF End
  <2>2. UNCHANGED <<iocs, sent>>
    BY <1>5 DEF End, EndMalware
  <2>. QED  BY <1>5, <2>1, <2>2, Later
<1>. QED  BY <1>2, <1>3, <1>4, <1>5 DEF End

LEMMA NextEgress == EgressInv /\ [InvestigationNext]_investigation => EgressInv'
<1> SUFFICES ASSUME EgressInv, [InvestigationNext]_investigation PROVE EgressInv'
  OBVIOUS
<1>1. ASSUME UNCHANGED <<stage, iocs, answers, sent>> PROVE EgressInv'
  BY <1>1 DEF EgressInv
<1>2. CASE Tick
  BY <1>1, <1>2 DEF Tick, bounded, history
<1>3. CASE Done
  BY <1>1, <1>3 DEF Done, investigation, bounded, history
<1>4. CASE UNCHANGED investigation
  BY <1>1, <1>4 DEF investigation, bounded, history
<1>5. ASSUME NEW a \in Alerts, Step(a) PROVE EgressInv'
  <2>1. CASE Begin(a)
    BY <2>1, BeginEgress
  <2>2. CASE Answer(a)
    BY <2>2, AnswerEgress
  <2>3. CASE Ended(a)
    <3>1. stage[a] = "sandbox" => answers[a]["sandbox"] \in Seq(Reports \cup {None})
      BY DEF EgressInv, Bounds
    <3>. QED  BY <2>3, <3>1, EndEgress DEF Ended
  <2>4. CASE Deadline(a)
    <3> DEFINE got == NoAnswers(stage[a])
    <3>1. stage[a] = "sandbox" => got["sandbox"] \in Seq(Reports \cup {None})
      BY DEF NoAnswers, Sources, ToSet
    <3>2. End(a, got)
      BY <2>4 DEF Deadline
    <3> HIDE DEF got
    <3>. QED  BY <3>1, <3>2, EndEgress
  <2>5. ASSUME stage[a] \notin {"sandbox", "ti"}, NEW b, b \notin {"sandbox", "ti"},
               Enter(a, b), UNCHANGED <<iocs, sent>>
        PROVE  EgressInv'
    BY <2>5, Later
  <2>6. CASE Jam(a)
    BY <2>5, <2>6 DEF Jam, history
  <2>7. CASE JamAnswers(a)
    BY <2>5, <2>7 DEF JamAnswers, history
  <2>8. CASE Air(a)
    BY <2>5, <2>8 DEF Air, history
  <2>9. CASE Locked(a)
    BY <2>5, <2>9 DEF Locked, history
  <2>10. CASE Fails(a)
    BY <2>5, <2>10 DEF Fails, history
  <2>11. CASE Fetches(a)
    BY <2>5, <2>11 DEF Fetches
  <2>12. CASE Garbled(a)
    BY <2>5, <2>12 DEF Garbled, history
  <2>. QED
    BY <1>5, <2>1, <2>2, <2>3, <2>4, <2>6, <2>7, <2>8, <2>9, <2>10, <2>11, <2>12 DEF Step
<1>. QED  BY <1>2, <1>3, <1>4, <1>5 DEF InvestigationNext

(* Whatever a sandbox extracts, no more than ioc_egress_max_per_alert of   *)
(* an alert's indicators are sent to the outside, and none of the inside   *)
(* (agents/investigation_agent.py, core/egress.py).                        *)
THEOREM WhatLeavesIsBounded == InvestigationSpec => []EgressIsBounded
<1>1. EgressInv => EgressIsBounded
  <2> SUFFICES ASSUME EgressInv, NEW a \in Alerts
               PROVE  Cardinality(sent[a]) <= Cap /\ \A i \in sent[a] : Normal[i] = i
    BY DEF EgressIsBounded
  <2>1. Kept(iocs[a]) /\ sent[a] \subseteq ToSet(iocs[a])
    BY DEF EgressInv, Bounds
  <2>. QED  BY <2>1, KeptBounded
<1>. QED  BY <1>1, InitEgress, NextEgress, PTL DEF InvestigationSpec

-----------------------------------------------------------------------------
(* What the services say counts.  A confidence is at most 1000 and findings *)
(* have their four parts.                                                   *)

LEMMA Least ==
  ASSUME NEW S \in SUBSET Nat, S # {}
  PROVE  \E i \in S : \A j \in S : i <= j
<1>1. \E i \in S : \A j \in S : <<j, i>> \notin OpToRel(<, Nat)
  BY NatLessThanWellFounded, WFMin
<1>2. \A i, j \in Nat : j < i => <<j, i>> \in OpToRel(<, Nat)
  BY Zenon DEF OpToRel
<1>3. \E i \in S : \A j \in S : ~(j < i)
  BY <1>1, <1>2
<1>. QED  BY <1>3

LEMMA MinOf ==
  ASSUME NEW m \in Nat, NEW n \in Nat
  PROVE  /\ Min({m, n}) \in {m, n}
         /\ Min({m, n}) <= m /\ Min({m, n}) <= n
<1>1. \E x \in {m, n} : \A y \in {m, n} : x <= y
  <2>1. m <= n \/ n <= m
    OBVIOUS
  <2>. QED  BY <2>1
<1>2. Min({m, n}) \in {m, n} /\ \A y \in {m, n} : Min({m, n}) <= y
  BY <1>1 DEF Min
<1>. QED  BY <1>2

(* Of a set of places there is one with the greatest score. *)
LEMMA Greatest ==
  ASSUME NEW c, c # {}, NEW f \in [c -> 0..1000]
  PROVE  \E i \in c : \A j \in c : f[j] <= f[i]
<1> DEFINE S == {1000 - f[i] : i \in c}
<1>1. S \in SUBSET Nat /\ S # {}
  OBVIOUS
<1>2. \A i \in c : 1000 - f[i] \in S
  OBVIOUS
<1>3. \A x \in S : \E i \in c : x = 1000 - f[i]
  OBVIOUS
<1> HIDE DEF S
<1>4. PICK x \in S : \A y \in S : x <= y
  BY <1>1, Least
<1>5. PICK i \in c : x = 1000 - f[i]
  BY <1>3
<1>6. ASSUME NEW j \in c PROVE f[j] <= f[i]
  <2> DEFINE m == f[i]
             n == f[j]
  <2>1. 1000 - m <= 1000 - n
    BY <1>2, <1>4, <1>5
  <2>2. m \in 0..1000 /\ n \in 0..1000
    OBVIOUS
  <2> HIDE DEF m, n
  <2>3. n <= m
    BY <2>1, <2>2
  <2>. QED  BY <2>3 DEF m, n
<1>. QED  BY <1>6

LEMMA Mean ==
  ASSUME NEW k \in 1..3, NEW sum \in Nat
  PROVE  400 + (2 * (6 * sum + 1000 * k * k) + 15 * k) \div (30 * k) \in Nat
<1>1. CASE k = 1
  <2>1. (2 * (6 * sum + 1000) + 15) \div 30 \in Nat
    OBVIOUS
  <2>. QED  BY <1>1, <2>1
<1>2. CASE k = 2
  <2>1. (2 * (6 * sum + 4000) + 30) \div 60 \in Nat
    OBVIOUS
  <2>. QED  BY <1>2, <2>1
<1>3. CASE k = 3
  <2>1. (2 * (6 * sum + 9000) + 45) \div 90 \in Nat
    OBVIOUS
  <2>. QED  BY <1>3, <2>1
<1>. QED  BY <1>1, <1>2, <1>3

(* The best of some places is one of them. *)
LEMMA BestOf ==
  ASSUME NEW chunks, NEW c, \A i \in c : chunks[i].score \in 0..1000
  PROVE  /\ Score(chunks, c) \in Nat
         /\ Rest(chunks, c) \subseteq c
<1>1. CASE c = {}
  BY <1>1 DEF Score, Rest
<1>2. CASE c # {}
  <2> DEFINE f == [i \in c |-> chunks[i].score]
  <2>1. f \in [c -> 0..1000]
    OBVIOUS
  <2>2. \A i \in c : f[i] = chunks[i].score
    OBVIOUS
  <2> HIDE DEF f
  <2>3. \E i \in c : \A j \in c : f[j] <= f[i]
    BY <1>2, <2>1, Greatest
  <2>4. \E i \in c : \A j \in c : chunks[j].score <= chunks[i].score
    BY <2>2, <2>3
  <2>5. Best(chunks, c) \in c
    BY <2>4 DEF Best
  <2>6. chunks[Best(chunks, c)].score \in 0..1000
    BY <2>5
  <2>7. Score(chunks, c) \in 0..1000
    BY <1>2, <2>6 DEF Score
  <2>8. Rest(chunks, c) \subseteq c
    BY DEF Rest
  <2>9. \A n \in 0..1000 : n \in Nat
    OBVIOUS
  <2>. QED  BY <2>7, <2>8, <2>9, Zenon
<1>. QED  BY <1>1, <1>2

LEMMA ConfidenceIn ==
  ASSUME NEW a \in Alerts, NEW chunks \in Retrievals[a]
  PROVE  Confidence(chunks) \in 0..1000
<1>1. CASE chunks = None
  BY <1>1 DEF Confidence
<1>2. CASE chunks # None
  <2> DEFINE trusted == {i \in DOMAIN chunks : chunks[i].curated}
             others  == Rest(chunks, trusted)
             k       == Min({3, Cardinality(trusted)})
             sum     == Score(chunks, trusted) + Score(chunks, others)
                        + Score(chunks, Rest(chunks, others))
             C       == [curated : BOOLEAN, score : 0..1000]
             m       == 400 + (2 * (6 * sum + 1000 * k * k) + 15 * k) \div (30 * k)
  <2>1. /\ Len(chunks) \in Nat /\ DOMAIN chunks = 1..Len(chunks)
        /\ \A i \in DOMAIN chunks : chunks[i] \in C
    <3>1. chunks \in Seq(C)
      BY <1>2, InvestigationAssumption
    <3> HIDE DEF C
    <3>. QED  BY <3>1
  <2>2. \A i \in DOMAIN chunks : chunks[i].score \in 0..1000
    <3>1. \A c \in C : c.score \in 0..1000
      OBVIOUS
    <3> HIDE DEF C
    <3>. QED  BY <2>1, <3>1
  <2>3. /\ trusted = {} => Confidence(chunks) = 300
        /\ trusted # {} => Confidence(chunks) = Min({1000, m})
    BY <1>2 DEF Confidence
  <2>4. trusted \subseteq DOMAIN chunks
    OBVIOUS
  <2> HIDE DEF trusted, C
  <2>5. sum \in Nat
    <3>1. \A i \in trusted : chunks[i].score \in 0..1000
      BY <2>2, <2>4
    <3>2. Score(chunks, trusted) \in Nat /\ others \subseteq trusted
      BY <3>1, BestOf
    <3>3. \A i \in others : chunks[i].score \in 0..1000
      BY <3>1, <3>2
    <3> HIDE DEF others
    <3>4. Score(chunks, others) \in Nat /\ Rest(chunks, others) \subseteq others
      BY <3>3, BestOf
    <3>5. \A i \in Rest(chunks, others) : chunks[i].score \in 0..1000
      BY <3>3, <3>4
    <3>6. Score(chunks, Rest(chunks, others)) \in Nat
      BY <3>5, BestOf
    <3>. QED  BY <3>2, <3>4, <3>6
  <2>6. CASE trusted # {}
    <3>1. IsFiniteSet(trusted)
      <4>1. \A n \in Nat : IsFiniteSet(1..n)
        BY FS_Interval
      <4>2. IsFiniteSet(1..Len(chunks))
        BY <2>1, <4>1
      <4>. QED  BY <2>1, <2>4, <4>2, FS_Subset
    <3>2. Cardinality(trusted) \in Nat /\ Cardinality(trusted) # 0
      BY <2>6, <3>1, FS_CardinalityType, FS_EmptySet
    <3>3. k \in 1..3
      <4>1. k \in {3, Cardinality(trusted)} /\ k <= 3
        BY <3>2, MinOf
      <4> HIDE DEF k
      <4>. QED  BY <3>2, <4>1
    <3> HIDE DEF k, sum
    <3>4. m \in Nat
      BY <2>5, <3>3, Mean
    <3> HIDE DEF m
    <3>5. Min({1000, m}) \in {1000, m} /\ Min({1000, m}) <= 1000
      BY <3>4, MinOf
    <3>6. Confidence(chunks) = Min({1000, m})
      BY <2>3, <2>6
    <3>. QED  BY <3>4, <3>5, <3>6
  <2>7. CASE trusted = {}
    BY <2>3, <2>7
  <2>. QED  BY <2>6, <2>7
<1>. QED  BY <1>1, <1>2

ConfInv ==
  /\ conf \in [Alerts -> 0..1000]
  /\ DOMAIN findings = Alerts
  /\ \A a \in Alerts : "ti" \in DOMAIN findings[a]

Up(a) == Min({1000, conf[a] + 200})

LEMMA RaisedIn ==
  ASSUME ConfInv, NEW a \in Alerts
  PROVE  /\ conf[a] \in 0..1000 /\ Up(a) \in 0..1000
         /\ Up(a) > conf[a] \/ conf[a] = 1000
<1>1. conf[a] \in 0..1000 /\ conf[a] + 200 \in Nat
  BY DEF ConfInv
<1> DEFINE c == conf[a]
           u == Up(a)
<1>2. u \in {1000, c + 200} /\ u <= 1000
  BY <1>1, MinOf DEF Up
<1> HIDE DEF c, u
<1>3. c \in 0..1000
  BY <1>1 DEF c
<1>4. u \in 0..1000 /\ (u > c \/ c = 1000)
  BY <1>2, <1>3
<1>. QED  BY <1>3, <1>4 DEF c, u

(* One part of the findings is set. *)
LEMMA PartSet ==
  ASSUME ConfInv, NEW a \in Alerts, NEW v,
         \/ findings' = [findings EXCEPT ![a].ti = v]
         \/ findings' = [findings EXCEPT ![a].vuln = v]
         \/ findings' = [findings EXCEPT ![a].jam = v]
         \/ findings' = [findings EXCEPT ![a].air = v]
  PROVE  DOMAIN findings' = Alerts /\ \A b \in Alerts : "ti" \in DOMAIN findings'[b]
<1>1. DOMAIN findings = Alerts /\ \A b \in Alerts : "ti" \in DOMAIN findings[b]
  BY DEF ConfInv
<1>2. PICK w : findings' = [findings EXCEPT ![a] = w] /\ DOMAIN w = DOMAIN findings[a]
  OBVIOUS
<1>. QED  BY <1>1, <1>2

LEMMA InitConf == InvestigationInit => ConfInv
BY DEF InvestigationInit, ConfInv, Nothing

LEMMA NextConf == ConfInv /\ [InvestigationNext]_investigation => ConfInv'
<1> SUFFICES ASSUME ConfInv, [InvestigationNext]_investigation PROVE ConfInv'
  OBVIOUS
<1>1. CASE UNCHANGED <<conf, findings>>
  BY <1>1 DEF ConfInv
<1>2. CASE Tick \/ Done \/ UNCHANGED investigation
  BY <1>1, <1>2 DEF Tick, Done, investigation
<1>3. ASSUME NEW a \in Alerts, Step(a) PROVE ConfInv'
  <2>1. CASE Begin(a)
    <3>1. PICK chunks \in Retrievals[a] : conf' = [conf EXCEPT ![a] = Confidence(chunks)]
      BY <2>1 DEF Begin
    <3>2. Confidence(chunks) \in 0..1000
      BY ConfidenceIn
    <3>3. UNCHANGED findings
      BY <2>1 DEF Begin
    <3>. QED  BY <3>1, <3>2, <3>3 DEF ConfInv
  <2>2. CASE Answer(a)
    BY <1>1, <2>2 DEF Answer
  <2>3. ASSUME NEW got, End(a, got) PROVE ConfInv'
    <3>1. ASSUME EndSandbox(a, got) PROVE conf' \in [Alerts -> 0..1000]
      <4> DEFINE f == \E n \in DOMAIN got["sandbox"] : Malicious(got["sandbox"][n])
      <4>1. conf' = [conf EXCEPT ![a] = Raised(a, f)]
        BY <3>1 DEF EndSandbox
      <4>2. Raised(a, f) \in {Up(a), conf[a]}
        <5> HIDE DEF f
        <5>. QED  BY DEF Raised, Up
      <4> DEFINE v == Raised(a, f)
      <4> HIDE DEF v, f
      <4>3. v \in {Up(a), conf[a]} /\ conf' = [conf EXCEPT ![a] = v]
        BY <4>1, <4>2 DEF v
      <4>4. v \in 0..1000
        BY <4>3, RaisedIn
      <4>. QED  BY <4>3, <4>4 DEF ConfInv
    <3>2. ASSUME EndTi(a, got) PROVE conf' \in [Alerts -> 0..1000]
      <4> DEFINE f == \E i \in DOMAIN Merge(Findings(a, got)) : Merge(Findings(a, got))[i] = "malicious"
      <4>1. conf' = [conf EXCEPT ![a] = Raised(a, f)]
        BY <3>2 DEF EndTi
      <4>2. Raised(a, f) \in {Up(a), conf[a]}
        <5> HIDE DEF f
        <5>. QED  BY DEF Raised, Up
      <4> DEFINE v == Raised(a, f)
      <4> HIDE DEF v, f
      <4>3. v \in {Up(a), conf[a]} /\ conf' = [conf EXCEPT ![a] = v]
        BY <4>1, <4>2 DEF v
      <4>4. v \in 0..1000
        BY <4>3, RaisedIn
      <4>. QED  BY <4>3, <4>4 DEF ConfInv
    <3>3. ASSUME EndVuln(a, got) PROVE conf' \in [Alerts -> 0..1000]
      <4> DEFINE f == LET kev == IF got["kev"] \in {<<>>, <<None>>} THEN <<>>
                              ELSE [k \in DOMAIN Input[a].cves |-> Kev(Input[a].cves[k], got["kev"][1])]
                       vuln == MergeVulns(kev \o got["nvd"])
                   IN  \E c \in DOMAIN vuln : vuln[c].exploited
      <4>1. conf' = [conf EXCEPT ![a] = Raised(a, f)]
        BY <3>3 DEF EndVuln
      <4>2. Raised(a, f) \in {Up(a), conf[a]}
        <5> HIDE DEF f
        <5>. QED  BY DEF Raised, Up
      <4> DEFINE v == Raised(a, f)
      <4> HIDE DEF v, f
      <4>3. v \in {Up(a), conf[a]} /\ conf' = [conf EXCEPT ![a] = v]
        BY <4>1, <4>2 DEF v
      <4>4. v \in 0..1000
        BY <4>3, RaisedIn
      <4>. QED  BY <4>3, <4>4 DEF ConfInv
    <3>4. ASSUME EndMalware(a, got) PROVE conf' \in [Alerts -> 0..1000]
      <4> DEFINE f == "malicious" \in ToSet(got["router"])
      <4>1. conf' = [conf EXCEPT ![a] = Raised(a, f)]
        BY <3>4 DEF EndMalware
      <4>2. Raised(a, f) \in {Up(a), conf[a]}
        <5> HIDE DEF f
        <5>. QED  BY DEF Raised, Up
      <4> DEFINE v == Raised(a, f)
      <4> HIDE DEF v, f
      <4>3. v \in {Up(a), conf[a]} /\ conf' = [conf EXCEPT ![a] = v]
        BY <4>1, <4>2 DEF v
      <4>4. v \in 0..1000
        BY <4>3, RaisedIn
      <4>. QED  BY <4>3, <4>4 DEF ConfInv
    <3>5. conf' \in [Alerts -> 0..1000]
      BY <2>3, <3>1, <3>2, <3>3, <3>4 DEF End
    <3>6. CASE \E v : \/ findings' = [findings EXCEPT ![a].ti = v]
                      \/ findings' = [findings EXCEPT ![a].vuln = v]
      BY <3>5, <3>6, PartSet DEF ConfInv
    <3>7. CASE findings' = findings
      BY <3>5, <3>7 DEF ConfInv
    <3>. QED  BY <2>3, <3>6, <3>7 DEF End, EndSandbox, EndTi, EndVuln, EndMalware
  <2>4. CASE Ended(a)
    BY <2>3, <2>4 DEF Ended
  <2>5. CASE Deadline(a)
    BY <2>3, <2>5 DEF Deadline
  <2>6. ASSUME NEW level, JamFound(a, level) PROVE ConfInv'
    <3>2. findings' = [findings EXCEPT ![a].jam = level]
      BY <2>6 DEF JamFound
    <3>3. conf' \in [Alerts -> 0..1000]
      <4> DEFINE f == Input[a].gnss /\ level # None /\ level >= 2
      <4>1. conf' = [conf EXCEPT ![a] = Raised(a, f)]
        BY <2>6 DEF JamFound
      <4>2. Raised(a, f) \in {Up(a), conf[a]}
        <5> HIDE DEF f
        <5>. QED  BY DEF Raised, Up
      <4> DEFINE v == Raised(a, f)
      <4> HIDE DEF v, f
      <4>3. v \in {Up(a), conf[a]} /\ conf' = [conf EXCEPT ![a] = v]
        BY <4>1, <4>2 DEF v
      <4>4. v \in 0..1000
        BY <4>3, RaisedIn
      <4>. QED  BY <4>3, <4>4 DEF ConfInv
    <3>4. DOMAIN findings' = Alerts /\ \A b \in Alerts : "ti" \in DOMAIN findings'[b]
      BY <3>2, PartSet
    <3>. QED  BY <3>3, <3>4 DEF ConfInv
  <2>7. CASE Jam(a)
    BY <1>1, <2>6, <2>7 DEF Jam
  <2>8. CASE JamAnswers(a)
    BY <2>6, <2>8 DEF JamAnswers
  <2>9. ASSUME NEW air, AirFound(a, air) PROVE ConfInv'
    <3>2. findings' = [findings EXCEPT ![a].air = air]
      BY <2>9 DEF AirFound
    <3>3. conf' \in [Alerts -> 0..1000]
      <4> DEFINE f == air # None /\ air.hostile \cap Near[air.from] # {}
      <4>1. conf' = [conf EXCEPT ![a] = Raised(a, f)]
        BY <2>9 DEF AirFound
      <4>2. Raised(a, f) \in {Up(a), conf[a]}
        <5> HIDE DEF f
        <5>. QED  BY DEF Raised, Up
      <4> DEFINE v == Raised(a, f)
      <4> HIDE DEF v, f
      <4>3. v \in {Up(a), conf[a]} /\ conf' = [conf EXCEPT ![a] = v]
        BY <4>1, <4>2 DEF v
      <4>4. v \in 0..1000
        BY <4>3, RaisedIn
      <4>. QED  BY <4>3, <4>4 DEF ConfInv
    <3>4. DOMAIN findings' = Alerts /\ \A b \in Alerts : "ti" \in DOMAIN findings'[b]
      BY <3>2, PartSet
    <3>. QED  BY <3>3, <3>4 DEF ConfInv
  <2>10. CASE Air(a)
    BY <1>1, <2>9, <2>10 DEF Air
  <2>11. CASE Locked(a)
    BY <1>1, <2>9, <2>11 DEF Locked
  <2>12. CASE Fails(a)
    BY <2>9, <2>12 DEF Fails
  <2>13. CASE Fetches(a)
    BY <2>9, <2>13 DEF Fetches
  <2>14. CASE Garbled(a)
    <3>1. findings' = [findings EXCEPT ![a] = Nothing] /\ conf' = [conf EXCEPT ![a] = 0]
      BY <2>14 DEF Garbled
    <3>. QED  BY <3>1 DEF ConfInv, Nothing
  <2>. QED
    BY <1>3, <2>1, <2>2, <2>4, <2>5, <2>7, <2>8, <2>10, <2>11, <2>12, <2>13, <2>14 DEF Step
<1>. QED  BY <1>2, <1>3 DEF InvestigationNext

(* What is put together for an indicator was said of it, and nothing worse *)
(* was.                                                                    *)
LEMMA MergeWorst ==
  ASSUME NEW F, NEW h \in F
  PROVE  /\ h.indicator \in DOMAIN Merge(F)
         /\ Merge(F)[h.indicator] \in VerdictsOn(F, h.indicator)
         /\ \A w \in VerdictsOn(F, h.indicator) : Rank(w) <= Rank(Merge(F)[h.indicator])
<1> DEFINE i == h.indicator
           V == VerdictsOn(F, i)
           D == {f.indicator : f \in F}
<1>1. h.verdict \in V /\ i \in D
  BY DEF VerdictsOn
<1>2. \A v : Rank(v) \in 0..1000
  BY DEF Rank
<1>3. \E v \in V : \A w \in V : Rank(w) <= Rank(v)
  <2> HIDE DEF V
  <2> DEFINE f == [v \in V |-> Rank(v)]
  <2>1. V # {} /\ f \in [V -> 0..1000] /\ \A v \in V : f[v] = Rank(v)
    BY <1>1, <1>2
  <2> HIDE DEF f
  <2>2. \E v \in V : \A w \in V : f[w] <= f[v]
    BY <2>1, Greatest
  <2>. QED  BY <2>1, <2>2
<1>4. /\ DOMAIN Merge(F) = D
      /\ Merge(F)[i] = CHOOSE v \in V : \A w \in V : Rank(w) <= Rank(v)
  BY <1>1 DEF Merge
<1> HIDE DEF V, D
<1>5. Merge(F)[i] \in V /\ \A w \in V : Rank(w) <= Rank(Merge(F)[i])
  BY <1>3, <1>4
<1>. QED  BY <1>1, <1>4, <1>5 DEF V

(* The findings of the services, as the property reads them. *)
Heard(a) ==
  UNION {ToSet([k \in DOMAIN answers[a][s] |->
           [indicator |-> iocs[a][k], verdict |-> answers[a][s][k]]]) : s \in ToSet(Services)}

LEMMA HeardFindings ==
  ASSUME NEW a \in Alerts
  PROVE  Findings(a, answers[a]) = Heard(a)
<1>1. \A s \in ToSet(Services) : Questions(a, s) = iocs[a]
  BY ServicesAside DEF Questions
<1> DEFINE item(s, k) == [indicator |-> iocs[a][k], verdict |-> answers[a][s][k]]
           found(s) == {[indicator |-> Questions(a, s)[k], verdict |-> answers[a][s][k]]
                        : k \in DOMAIN answers[a][s]}
           read(s)  == ToSet([k \in DOMAIN answers[a][s] |-> item(s, k)])
<1>2. ASSUME NEW s \in ToSet(Services) PROVE found(s) = read(s)
  <2>1. found(s) = {item(s, k) : k \in DOMAIN answers[a][s]}
    BY <1>1
  <2>2. read(s) = {item(s, k) : k \in DOMAIN answers[a][s]}
    <3> HIDE DEF item
    <3>. QED  BY DEF ToSet
  <2>. QED  BY <2>1, <2>2
<1>3. /\ Findings(a, answers[a]) = UNION {found(s) : s \in ToSet(Services)}
      /\ Heard(a) = UNION {read(s) : s \in ToSet(Services)}
  BY Zenon DEF Findings, Heard
<1> HIDE DEF found, read
<1>4. UNION {found(s) : s \in ToSet(Services)} = UNION {read(s) : s \in ToSet(Services)}
  BY <1>2
<1>. QED  BY <1>3, <1>4

(* What the property asks of the end of a lookup. *)
Counted(a) ==
  LET found == findings'[a].ti IN
  IF \E s \in ToSet(Services) : Unanswered(a, s)
  THEN found = <<>> /\ conf'[a] = conf[a]
  ELSE /\ {i : i \in DOMAIN found} = {h.indicator : h \in Heard(a)}
       /\ \A h \in Heard(a) :
            /\ Rank(found[h.indicator]) >= Rank(h.verdict)
            /\ [indicator |-> h.indicator, verdict |-> found[h.indicator]] \in Heard(a)
            /\ h.verdict = "malicious" => conf'[a] > conf[a] \/ conf[a] = 1000

LEMMA CutCounts ==
  ASSUME ConfInv, NEW a \in Alerts, stage[a] = "ti", Deadline(a)
  PROVE  Counted(a)
<1>1. \E s \in ToSet(Services) : Unanswered(a, s)
  BY DEF Deadline, Sources
<1> DEFINE got == NoAnswers("ti")
<1>2. EndTi(a, got)
  BY DEF Deadline, End
<1>3. Findings(a, got) = {}
  BY DEF Findings, NoAnswers, Sources
<1> HIDE DEF got
<1>4. Merge(Findings(a, got)) = <<>>
  BY <1>3 DEF Merge
<1>5. /\ findings' = [findings EXCEPT ![a].ti = <<>>]
      /\ conf' = [conf EXCEPT ![a] = Raised(a, FALSE)]
  <2>1. ~(\E i \in DOMAIN <<>> : <<>>[i] = "malicious")
    OBVIOUS
  <2>2. conf' = [conf EXCEPT ![a] = Raised(a, \E i \in DOMAIN <<>> : <<>>[i] = "malicious")]
    BY <1>2, <1>4 DEF EndTi
  <2>3. Raised(a, \E i \in DOMAIN <<>> : <<>>[i] = "malicious") = conf[a]
    BY <2>1 DEF Raised
  <2>. QED  BY <1>2, <1>4, <2>2, <2>3 DEF EndTi, Raised
<1>6. findings'[a].ti = <<>> /\ conf'[a] = conf[a]
  BY <1>5 DEF ConfInv, Raised
<1>. QED  BY <1>1, <1>6 DEF Counted

LEMMA HeardOutCounts ==
  ASSUME ConfInv, NEW a \in Alerts, stage[a] = "ti", Ended(a)
  PROVE  Counted(a)
<1> DEFINE F == Findings(a, answers[a])
           ti == Merge(F)
           heard == Heard(a)
<1>1. \A s \in ToSet(Services) : ~Unanswered(a, s)
  BY DEF Ended, Sources
<1>2. EndTi(a, answers[a])
  BY DEF Ended, End
<1>3. F = heard
  BY HeardFindings
<1>4. /\ findings' = [findings EXCEPT ![a].ti = ti]
      /\ conf' = [conf EXCEPT ![a] = Raised(a, \E i \in DOMAIN ti : ti[i] = "malicious")]
  BY <1>2 DEF EndTi
<1>5. DOMAIN ti = {h.indicator : h \in heard}
  BY <1>3 DEF Merge
<1>6. ASSUME NEW h \in heard
      PROVE  /\ h.indicator \in DOMAIN ti
             /\ Rank(ti[h.indicator]) >= Rank(h.verdict)
             /\ [indicator |-> h.indicator, verdict |-> ti[h.indicator]] \in heard
             /\ h.verdict = "malicious" => \E i \in DOMAIN ti : ti[i] = "malicious"
  <2>1. /\ h.indicator \in DOMAIN ti
        /\ ti[h.indicator] \in VerdictsOn(F, h.indicator)
        /\ \A w \in VerdictsOn(F, h.indicator) : Rank(w) <= Rank(ti[h.indicator])
    BY <1>3, MergeWorst
  <2>2. h.verdict \in VerdictsOn(F, h.indicator)
    BY <1>3 DEF VerdictsOn
  <2>3. PICK g \in F : g.indicator = h.indicator /\ g.verdict = ti[h.indicator]
    BY <2>1 DEF VerdictsOn
  <2> HIDE DEF ti, F
  <2>4. \A v : Rank(v) \in 0..3 /\ (Rank(v) >= 3 <=> v = "malicious")
    BY DEF Rank
  <2>5. Rank(ti[h.indicator]) >= Rank(h.verdict)
    BY <2>1, <2>2, <2>4
  <2>6. h.verdict = "malicious" => ti[h.indicator] = "malicious"
    BY <2>4, <2>5
  <2>7. [indicator |-> g.indicator, verdict |-> g.verdict] \in heard
    <3>1. g = [indicator |-> g.indicator, verdict |-> g.verdict]
      <4>1. g \in Heard(a)
        BY <1>3
      <4>2. PICK s \in ToSet(Services) : g \in ToSet([k \in DOMAIN answers[a][s] |->
              [indicator |-> iocs[a][k], verdict |-> answers[a][s][k]]])
        BY <4>1 DEF Heard
      <4>3. \E k : g = [indicator |-> iocs[a][k], verdict |-> answers[a][s][k]]
        BY <4>2 DEF ToSet
      <4>. QED  BY <4>3
    <3>. QED  BY <1>3, <3>1
  <2>. QED  BY <2>1, <2>3, <2>5, <2>6, <2>7
<1>7. findings'[a].ti = ti
  <2> HIDE DEF ti
  <2>. QED  BY <1>4 DEF ConfInv
<1>8. conf'[a] = Raised(a, \E i \in DOMAIN ti : ti[i] = "malicious")
  BY <1>4 DEF ConfInv
<1>9. (\E i \in DOMAIN ti : ti[i] = "malicious") => conf'[a] > conf[a] \/ conf[a] = 1000
  <2> DEFINE f == \E i \in DOMAIN ti : ti[i] = "malicious"
  <2>1. f => Raised(a, f) = Up(a)
    BY DEF Raised, Up
  <2>2. Up(a) > conf[a] \/ conf[a] = 1000
    BY RaisedIn
  <2>3. conf'[a] = Raised(a, f)
    BY <1>8
  <2>4. f => conf'[a] = Up(a)
    BY <2>1, <2>3
  <2> HIDE DEF f
  <2>5. f => conf'[a] > conf[a] \/ conf[a] = 1000
    BY <2>2, <2>4
  <2>. QED  BY <2>5 DEF f
<1>10. {i : i \in DOMAIN ti} = {h.indicator : h \in heard}
  BY <1>5
<1> HIDE DEF ti, F, heard
<1>11. \A h \in heard :
         /\ Rank(ti[h.indicator]) >= Rank(h.verdict)
         /\ [indicator |-> h.indicator, verdict |-> ti[h.indicator]] \in heard
         /\ h.verdict = "malicious" => conf'[a] > conf[a] \/ conf[a] = 1000
  BY <1>6, <1>9
<1>. QED  BY <1>1, <1>7, <1>10, <1>11 DEF Counted, heard

(* Only the end of its own lookup takes an alert from "ti" to "vuln". *)
LEMMA StepCounts ==
  ASSUME EgressInv, ConfInv, InvestigationNext, NEW a \in Alerts,
         stage[a] = "ti", stage'[a] = "vuln"
  PROVE  Counted(a)
<1>1. PICK b \in Alerts : Step(b)
  BY DEF InvestigationNext, Tick, Done, investigation
<1>2. ASSUME Answer(b) PROVE FALSE
  BY <1>2 DEF Answer
<1>3. ASSUME NEW c \in Alerts, NEW n, c # a, Enter(c, n) PROVE FALSE
  BY <1>3 DEF Enter, EgressInv
<1>4. ~Answer(b) => \E n : Enter(b, n)
  BY <1>1 DEF Step, Begin, Ended, Deadline, End, Jam, JamAnswers, Air, Locked, Fails, Fetches,
              Garbled
<1>5. b = a
  BY <1>2, <1>3, <1>4
<1>6. Ended(a) \/ Deadline(a)
  BY <1>1, <1>2, <1>5 DEF Step, Begin, Jam, JamAnswers, Air, Locked, Fails, Fetches,
              Garbled
<1>. QED  BY <1>6, CutCounts, HeardOutCounts

(* When the lookup of threat intelligence ends, what a service said counts *)
(* unless another said worse, and "malicious" raises the confidence; a     *)
(* lookup that is cut leaves nothing (agents/investigation_agent.py,       *)
(* tools/ti_tool.py), whatever the services, their answers and their order. *)
THEOREM WorstCounts == InvestigationSpec => HeardCounts
<1>1. EgressInv /\ ConfInv /\ [InvestigationNext]_investigation =>
        [\A a \in Alerts : (stage[a] = "ti" /\ stage'[a] = "vuln") => Counted(a)]_investigation
  BY StepCounts
<1>2. HeardCounts <=>
        [][\A a \in Alerts : (stage[a] = "ti" /\ stage'[a] = "vuln") => Counted(a)]_investigation
  BY DEF HeardCounts, Counted, Heard
<1>. QED  BY <1>1, <1>2, InitEgress, NextEgress, InitConf, NextConf, PTL DEF InvestigationSpec

=============================================================================
