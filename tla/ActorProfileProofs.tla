------------------------- MODULE ActorProfileProofs -------------------------
(***************************************************************************)
(* What holds of actor profiles for every set of actors, techniques and    *)
(* observations, every cap and TTL, and with calls to the store that fail. *)
(*                                                                         *)
(* The observations are those of the worker: delivered any number of       *)
(* times, in any order.  The steps of a confirmed attack (Merge, Settle,   *)
(* Issue, Engage, Sign) have a lemma each about a profile on its own, and  *)
(* the invariant is the conjunction of what these lemmas preserve.         *)
(***************************************************************************)
EXTENDS ActorProfile, FiniteSetTheorems, SequenceTheorems, TLAPS

SeenIds(p) == {p.seen[i] : i \in DOMAIN p.seen}

(* The pending predictions are few enough to count, one per technique, and *)
(* as old as the alerts merged since each was made.                        *)
PendingOK(p) ==
  /\ IsFiniteSet(p.pending)
  /\ \A x, y \in p.pending : x.technique = y.technique => x = y
  /\ \A x \in p.pending : x.age = p.alerts - x.since /\ x.age < TTL /\ x.since > 0

(* The seen ids are those touched, as long as the list holds them all.     *)
EngagedOK(p, ids) ==
  /\ IsFiniteSet(ids)
  /\ SeenIds(p) \subseteq ids
  /\ p.rounds >= Cardinality(ids)
  /\ Cardinality(ids) <= SeenCap =>
       /\ p.rounds = Cardinality(ids)
       /\ Len(p.seen) = Cardinality(ids)
       /\ SeenIds(p) = ids

Sized(p) == Len(p.chain) <= ChainCap /\ Len(p.seen) <= SeenCap

Signed(p) == p.alerts > 0 => p.sig = Content(p)

Inv ==
  /\ TypeOK
  /\ \A a \in Actors :
       /\ PendingOK(profiles[a])
       /\ issued[a] = profiles[a].hits + profiles[a].misses + Cardinality(profiles[a].pending)
       /\ EngagedOK(profiles[a], touched[a])
       /\ Signed(profiles[a])

-----------------------------------------------------------------------------
(* Data. *)

LEMMA LastNType ==
  ASSUME NEW S, NEW seq \in Seq(S), NEW n \in Nat \ {0}
  PROVE  /\ LastN(seq, n) \in Seq(S)
         /\ Len(LastN(seq, n)) <= n
         /\ Len(seq) <= n => LastN(seq, n) = seq
         /\ \A i \in DOMAIN LastN(seq, n) : \E j \in DOMAIN seq : LastN(seq, n)[i] = seq[j]
<1>1. CASE Len(seq) <= n
  BY <1>1 DEF LastN
<1>2. CASE Len(seq) > n
  <2>. DEFINE m == Len(seq) - n + 1
  <2>1. m \in 1..Len(seq) /\ LastN(seq, n) = SubSeq(seq, m, Len(seq))
    BY <1>2 DEF LastN
  <2>2. /\ SubSeq(seq, m, Len(seq)) \in Seq(S)
        /\ Len(SubSeq(seq, m, Len(seq))) = n
        /\ \A i \in 1..n : SubSeq(seq, m, Len(seq))[i] = seq[m + i - 1]
    BY <1>2, <2>1
  <2>3. \A i \in 1..n : m + i - 1 \in DOMAIN seq
    BY <1>2
  <2>. QED  BY <1>2, <2>1, <2>2, <2>3
<1>. QED  BY <1>1, <1>2

LEMMA InitialProfile ==
  /\ Fresh \in Profile /\ Sized(Fresh) /\ PendingOK(Fresh) /\ Signed(Fresh)
  /\ EngagedOK(Fresh, {}) /\ Cardinality(Fresh.pending) = 0
<1>1. Fresh \in Profile /\ Sized(Fresh)
  BY CapsAssumption DEF Fresh, Profile, Sized, NoScores, Scores
<1>2. PendingOK(Fresh) /\ Signed(Fresh) /\ Cardinality(Fresh.pending) = 0
  BY FS_EmptySet DEF Fresh, PendingOK, Signed
<1>3. EngagedOK(Fresh, {})
  BY FS_EmptySet DEF Fresh, EngagedOK, SeenIds
<1>. QED  BY <1>1, <1>2, <1>3

LEMMA MergeType ==
  ASSUME NEW p \in Profile, Sized(p), NEW o \in Observations
  PROVE  /\ Merge(p, o) \in Profile /\ Sized(Merge(p, o))
         /\ Merge(p, o).alerts = p.alerts + 1 /\ Merge(p, o).pending = p.pending
         /\ Merge(p, o).hits = p.hits /\ Merge(p, o).misses = p.misses
         /\ Merge(p, o).rounds = p.rounds /\ Merge(p, o).seen = p.seen
<1>. DEFINE chain == LastN(p.chain \o o.techs, ChainCap)
<1>1. chain \in Seq(Techniques) /\ Len(chain) <= ChainCap
  <2>1. p.chain \o o.techs \in Seq(Techniques)
    BY ObservationsAssumption DEF Profile
  <2>. QED  BY <2>1, LastNType, CapsAssumption
<1>2. Merge(p, o) = [p EXCEPT !.alerts = @ + 1, !.chain = chain]
  BY DEF Merge
<1>. HIDE DEF chain
<1>3. p.alerts + 1 \in Nat
  BY DEF Profile
<1>4. [p EXCEPT !.alerts = @ + 1, !.chain = chain] \in Profile
  BY <1>1, <1>3 DEF Profile
<1>5. /\ Merge(p, o).chain = chain /\ Merge(p, o).alerts = p.alerts + 1
      /\ Merge(p, o).hits = p.hits /\ Merge(p, o).misses = p.misses
  BY <1>2 DEF Profile
<1>6. /\ Merge(p, o).rounds = p.rounds /\ Merge(p, o).seen = p.seen
      /\ Merge(p, o).pending = p.pending
  BY <1>2 DEF Profile
<1>. QED  BY <1>1, <1>2, <1>4, <1>5, <1>6 DEF Sized

-----------------------------------------------------------------------------
(* Predictions. *)

LEMMA AgedType ==
  ASSUME NEW p \in Profile, NEW o
  PROVE  /\ Aged(p, o) \subseteq Predictions
         /\ \A y \in Aged(p, o) : \E x \in p.pending \ Hit(p, o) :
              /\ y.technique = x.technique /\ y.since = x.since /\ y.age = x.age + 1
<1>1. p.pending \subseteq Predictions
  BY DEF Profile
<1>. QED  BY <1>1 DEF Aged, Predictions

LEMMA SamePrediction ==
  ASSUME NEW x \in Predictions, NEW y \in Predictions,
         x.technique = y.technique, x.since = y.since, x.age = y.age
  PROVE  x = y
  BY DEF Predictions

(* To grow older changes the number of predictions no more than it changes *)
(* their techniques.                                                       *)
LEMMA AgedCount ==
  ASSUME NEW p \in Profile, NEW o, IsFiniteSet(p.pending)
  PROVE  /\ IsFiniteSet(Aged(p, o))
         /\ Cardinality(Aged(p, o)) = Cardinality(p.pending \ Hit(p, o))
<1>. DEFINE S == p.pending \ Hit(p, o)
            f == [x \in S |-> [x EXCEPT !.age = @ + 1]]
<1>1. S \subseteq Predictions
  BY DEF Profile
<1>2. \A x, y \in S : f[x] = f[y] => x = y
  <2>. SUFFICES ASSUME NEW x \in S, NEW y \in S, f[x] = f[y]  PROVE x = y
    OBVIOUS
  <2>1. x \in Predictions /\ y \in Predictions
    BY <1>1
  <2>2. [x EXCEPT !.age = @ + 1] = [y EXCEPT !.age = @ + 1]
    OBVIOUS
  <2>3. \A z \in Predictions :
          LET older == [z EXCEPT !.age = @ + 1]
          IN older.technique = z.technique /\ older.since = z.since /\ older.age = z.age + 1
    BY DEF Predictions
  <2>4. x.technique = y.technique /\ x.since = y.since /\ x.age + 1 = y.age + 1
    BY <2>1, <2>2, <2>3
  <2>5. x.age \in Nat /\ y.age \in Nat
    BY <2>1 DEF Predictions
  <2>6. x.age = y.age
    BY <2>4, <2>5
  <2>. QED  BY <2>1, <2>4, <2>6, SamePrediction
<1>3. f \in Bijection(S, Aged(p, o))
  <2>1. f \in [S -> Aged(p, o)]
    BY DEF Aged
  <2>2. \A y \in Aged(p, o) : \E x \in S : f[x] = y
    BY DEF Aged
  <2>. QED  BY <1>2, <2>1, <2>2 DEF Bijection, Injection, Surjection, IsInjective
<1>4. IsFiniteSet(S)
  BY FS_Subset
<1>. QED  BY <1>3, <1>4, FS_Bijection DEF ExistsBijection

LEMMA SettleType ==
  ASSUME NEW p \in Profile, NEW o, IsFiniteSet(p.pending)
  PROVE  LET q == Settle(p, o)
         IN /\ q \in Profile /\ IsFiniteSet(q.pending)
            /\ q.pending = Aged(p, o) \ Missed(p, o)
            /\ q.hits = p.hits + Cardinality(Hit(p, o))
            /\ Cardinality(Hit(p, o)) \in Nat /\ Cardinality(Missed(p, o)) \in Nat
            /\ q.hits + q.misses + Cardinality(q.pending)
                 = p.hits + p.misses + Cardinality(p.pending)
            /\ q.alerts = p.alerts /\ q.chain = p.chain /\ q.rounds = p.rounds /\ q.seen = p.seen
<1>. DEFINE H == Hit(p, o)  A == Aged(p, o)  M == Missed(p, o)
<1>1. /\ H \subseteq p.pending /\ IsFiniteSet(H) /\ IsFiniteSet(p.pending \ H)
      /\ Cardinality(H) \in Nat /\ Cardinality(p.pending \ H) \in Nat
      /\ Cardinality(p.pending) \in Nat
  BY FS_Subset, FS_CardinalityType DEF Hit
<1>2. Cardinality(p.pending) = Cardinality(H) + Cardinality(p.pending \ H)
  <2>1. H \cup (p.pending \ H) = p.pending /\ H \cap (p.pending \ H) = {}
    BY <1>1
  <2>2. Cardinality(H \cup (p.pending \ H))
          = Cardinality(H) + Cardinality(p.pending \ H) - Cardinality(H \cap (p.pending \ H))
    BY <1>1, FS_Union
  <2>3. Cardinality(H \cup (p.pending \ H)) = Cardinality(p.pending) /\ Cardinality(H \cap (p.pending \ H)) = 0
    BY <2>1, FS_EmptySet, Zenon
  <2>. QED  BY <1>1, <2>2, <2>3
<1>3. /\ IsFiniteSet(A) /\ Cardinality(A) = Cardinality(p.pending \ H) /\ A \subseteq Predictions
  BY AgedCount, AgedType
<1>4. /\ M \subseteq A /\ IsFiniteSet(M) /\ IsFiniteSet(A \ M)
      /\ Cardinality(M) \in Nat /\ Cardinality(A \ M) \in Nat
  BY <1>3, FS_Subset, FS_CardinalityType DEF Missed
<1>5. Cardinality(A) = Cardinality(M) + Cardinality(A \ M)
  <2>1. M \cup (A \ M) = A /\ M \cap (A \ M) = {}
    BY <1>4
  <2>2. Cardinality(M \cup (A \ M))
          = Cardinality(M) + Cardinality(A \ M) - Cardinality(M \cap (A \ M))
    BY <1>4, FS_Union
  <2>3. Cardinality(M \cup (A \ M)) = Cardinality(A) /\ Cardinality(M \cap (A \ M)) = 0
    BY <2>1, FS_EmptySet, Zenon
  <2>. QED  BY <1>4, <2>2, <2>3
<1>6. /\ Settle(p, o) \in Profile
      /\ Settle(p, o).pending = A \ M
      /\ Settle(p, o).hits = p.hits + Cardinality(H)
      /\ Settle(p, o).misses = p.misses + Cardinality(M)
      /\ Settle(p, o).alerts = p.alerts /\ Settle(p, o).chain = p.chain
      /\ Settle(p, o).rounds = p.rounds /\ Settle(p, o).seen = p.seen
  <2>. DEFINE P == A \ M  h == Cardinality(H)  m == Cardinality(M)
  <2>1. P \in SUBSET Predictions /\ h \in Nat /\ m \in Nat
    BY <1>1, <1>3, <1>4
  <2>2. Settle(p, o) = [p EXCEPT !.pending = P, !.hits = @ + h, !.misses = @ + m]
    BY DEF Settle
  <2>. HIDE DEF P, h, m
  <2>3. p.hits + h \in Nat /\ p.misses + m \in Nat
    BY <2>1 DEF Profile
  <2>4. [p EXCEPT !.pending = P, !.hits = @ + h, !.misses = @ + m] \in Profile
    BY <2>1, <2>3 DEF Profile
  <2>5. Settle(p, o).pending = P
    BY <2>2 DEF Profile
  <2>6. Settle(p, o).hits = p.hits + h /\ Settle(p, o).misses = p.misses + m
    BY <2>2 DEF Profile
  <2>7. /\ Settle(p, o).alerts = p.alerts /\ Settle(p, o).chain = p.chain
        /\ Settle(p, o).rounds = p.rounds /\ Settle(p, o).seen = p.seen
    BY <2>2 DEF Profile
  <2>. QED  BY <2>2, <2>4, <2>5, <2>6, <2>7 DEF P, h, m
<1>7. p.hits \in Nat /\ p.misses \in Nat
  BY DEF Profile
<1>8. p.hits + Cardinality(H) + (p.misses + Cardinality(M)) + Cardinality(A \ M)
        = p.hits + p.misses + Cardinality(p.pending)
  BY <1>1, <1>2, <1>3, <1>4, <1>5, <1>7
<1>. QED  BY <1>1, <1>4, <1>6, <1>8

LEMMA SettleOK ==
  ASSUME NEW p \in Profile, NEW q \in Profile, NEW o, PendingOK(p),
         q.pending = p.pending, q.alerts = p.alerts + 1
  PROVE  PendingOK(Settle(q, o)) /\ \A x \in Settle(q, o).pending : x.age > 0
<1>. DEFINE r == Settle(q, o)
<1>1. IsFiniteSet(q.pending)
  BY DEF PendingOK
<1>2. /\ r \in Profile /\ IsFiniteSet(r.pending) /\ r.alerts = q.alerts
      /\ r.pending = Aged(q, o) \ Missed(q, o)
  BY <1>1, SettleType
<1>3. \A y \in r.pending :
        /\ y \in Predictions /\ ~(y.age >= TTL)
        /\ \E x \in p.pending : y.technique = x.technique /\ y.since = x.since /\ y.age = x.age + 1
  BY <1>2, AgedType DEF Missed
<1>4. p.pending \subseteq Predictions /\ p.alerts \in Nat
  BY DEF Profile
<1>5. \A y \in r.pending :
        y.age = r.alerts - y.since /\ y.age < TTL /\ y.age > 0 /\ y.since > 0
  <2>. SUFFICES ASSUME NEW y \in r.pending
                PROVE  y.age = r.alerts - y.since /\ y.age < TTL /\ y.age > 0 /\ y.since > 0
    OBVIOUS
  <2>1. PICK x \in p.pending : y.technique = x.technique /\ y.since = x.since /\ y.age = x.age + 1
    BY <1>3
  <2>2. x.age = p.alerts - x.since /\ x.since > 0
    BY DEF PendingOK
  <2>3. x.age \in Nat /\ x.since \in Nat /\ y.age \in Nat
    BY <1>3, <1>4 DEF Predictions
  <2>4. y.age < TTL
    BY <1>3, <2>3, CapsAssumption
  <2>. QED  BY <1>2, <1>4, <2>1, <2>2, <2>3, <2>4
<1>6. \A y, z \in r.pending : y.technique = z.technique => y = z
  <2>. SUFFICES ASSUME NEW y \in r.pending, NEW z \in r.pending, y.technique = z.technique
                PROVE  y = z
    OBVIOUS
  <2>1. PICK x \in p.pending : y.technique = x.technique /\ y.since = x.since /\ y.age = x.age + 1
    BY <1>3
  <2>2. PICK w \in p.pending : z.technique = w.technique /\ z.since = w.since /\ z.age = w.age + 1
    BY <1>3
  <2>3. x = w
    BY <2>1, <2>2 DEF PendingOK
  <2>4. y.since = z.since /\ y.age = z.age
    BY <2>1, <2>2, <2>3
  <2>. QED  BY <1>3, <2>4, SamePrediction
<1>. QED  BY <1>2, <1>5, <1>6 DEF PendingOK

LEMMA PredictedTechniques ==
  ASSUME NEW p, NEW o
  PROVE  Candidates(p, o) \subseteq Techniques
BY DEF Candidates, Predict

(* A new prediction has age 0 and a technique that is not pending, so that *)
(* issued counts exactly the new ones.                                     *)
LEMMA IssueOK ==
  ASSUME NEW p \in Profile, PendingOK(p), NEW C \in SUBSET Techniques,
         p.alerts > 0, \A x \in p.pending : x.age > 0
  PROVE  LET q == Issue(p, C)
             N == {x \in q.pending : x.age = 0}
         IN /\ q \in Profile /\ PendingOK(q)
            /\ Cardinality(N) \in Nat
            /\ Cardinality(q.pending) = Cardinality(p.pending) + Cardinality(N)
            /\ q.alerts = p.alerts /\ q.chain = p.chain /\ q.hits = p.hits
            /\ q.misses = p.misses /\ q.rounds = p.rounds /\ q.seen = p.seen
<1>. DEFINE D == C \ {x.technique : x \in p.pending}
            f == [t \in D |-> Prediction(p, t)]
            M == {Prediction(p, t) : t \in D}
            P == p.pending \cup M
            q == Issue(p, C)
<1>1. /\ p.alerts \in Nat /\ p.pending \subseteq Predictions
  BY DEF Profile
<1>2. \A t \in D : LET y == Prediction(p, t)
                   IN /\ y \in Predictions /\ y.technique = t /\ y.age = 0 /\ y.since = p.alerts
  BY <1>1 DEF Prediction, Predictions
<1>3. IsFiniteSet(M)
  <2>1. IsFiniteSet(D)
    BY TechniquesAssumption, FS_Subset
  <2>2. f \in Surjection(D, M)
    BY DEF Surjection
  <2>. QED  BY <2>1, <2>2, FS_Surjection
<1>4. P \in SUBSET Predictions
  BY <1>1, <1>2
<1>5. q = [p EXCEPT !.pending = P]
  BY DEF Issue
<1>6. {x \in P : x.age = 0} = M
  BY <1>2
<1>7. IsFiniteSet(P) /\ Cardinality(P) = Cardinality(p.pending) + Cardinality(M)
  <2>1. p.pending \cap M = {}
    BY <1>2
  <2>2. IsFiniteSet(p.pending)
    BY DEF PendingOK
  <2>3. /\ IsFiniteSet(P)
        /\ Cardinality(P) = Cardinality(p.pending) + Cardinality(M) - Cardinality(p.pending \cap M)
    BY <1>3, <2>2, FS_Union
  <2>4. Cardinality(p.pending \cap M) = 0
    BY <2>1, FS_EmptySet, Zenon
  <2>5. Cardinality(p.pending) \in Nat /\ Cardinality(M) \in Nat
    BY <1>3, <2>2, FS_CardinalityType
  <2>. QED  BY <2>3, <2>4, <2>5
<1>8. \A x, y \in P : x.technique = y.technique => x = y
  <2>. SUFFICES ASSUME NEW x \in P, NEW y \in P, x.technique = y.technique  PROVE x = y
    OBVIOUS
  <2>1. CASE x \in p.pending /\ y \in p.pending
    BY <2>1 DEF PendingOK
  <2>2. CASE x \in M /\ y \in M
    BY <1>2, <2>2
  <2>3. ~(x \in p.pending /\ y \in M) /\ ~(y \in p.pending /\ x \in M)
    BY <1>2
  <2>. QED  BY <2>1, <2>2, <2>3
<1>9. \A x \in P : x.age = p.alerts - x.since /\ x.age < TTL /\ x.since > 0
  BY <1>1, <1>2, CapsAssumption DEF PendingOK
<1>10. Cardinality({x \in P : x.age = 0}) = Cardinality(M) /\ Cardinality(M) \in Nat
  BY <1>3, <1>6, FS_CardinalityType, Zenon
<1>. HIDE DEF P
<1>11. q \in Profile
  <2>1. [p EXCEPT !.pending = P] \in Profile
    BY <1>4 DEF Profile
  <2>. QED  BY <1>5, <2>1
<1>12. q.pending = P
  BY <1>5 DEF Profile
<1>13. /\ q.alerts = p.alerts /\ q.chain = p.chain /\ q.hits = p.hits
  BY <1>5 DEF Profile
<1>14. /\ q.misses = p.misses /\ q.rounds = p.rounds /\ q.seen = p.seen
  BY <1>5 DEF Profile
<1>15. PendingOK(q)
  BY <1>7, <1>8, <1>9, <1>12, <1>13 DEF PendingOK
<1>. HIDE DEF q
<1>16. Cardinality({x \in q.pending : x.age = 0}) = Cardinality(M)
  BY <1>10, <1>12, Zenon
<1>. QED  BY <1>7, <1>10, <1>11, <1>12, <1>13, <1>14, <1>15, <1>16 DEF q

-----------------------------------------------------------------------------
(* Engagement. *)

(* The ids touched after a confirmed alert, as Accumulate records them.    *)
Touched(ids, o) == IF o.canary THEN ids \cup ({o.id} \ {NoId}) ELSE ids

LEMMA EngageShape ==
  ASSUME NEW p \in Profile, Sized(p), NEW o \in Observations
  PROVE  LET q == Engage(p, o)
         IN /\ q \in Profile /\ Sized(q) /\ q.rounds \in {p.rounds, p.rounds + 1}
            /\ q.alerts = p.alerts /\ q.chain = p.chain /\ q.hits = p.hits
            /\ q.misses = p.misses /\ q.pending = p.pending
<1>1. CASE ~(Decide(o).engagement /\ o.id # NoId /\ o.id \notin SeenIds(p))
  BY <1>1 DEF Engage, SeenIds
<1>2. CASE Decide(o).engagement /\ o.id # NoId /\ o.id \notin SeenIds(p)
  <2>. DEFINE seen == LastN(Append(p.seen, o.id), SeenCap)
              q == Engage(p, o)
  <2>1. seen \in Seq(Ids) /\ Len(seen) <= SeenCap
    <3>1. o.id \in Ids
      BY <1>2, ObservationsAssumption
    <3>2. Append(p.seen, o.id) \in Seq(Ids)
      BY <3>1 DEF Profile
    <3>. QED  BY <3>2, LastNType, CapsAssumption
  <2>2. q = [p EXCEPT !.rounds = @ + 1, !.seen = seen]
    BY <1>2 DEF Engage, SeenIds
  <2>. HIDE DEF seen
  <2>3. p.rounds + 1 \in Nat
    BY DEF Profile
  <2>4. [p EXCEPT !.rounds = @ + 1, !.seen = seen] \in Profile
    BY <2>1, <2>3 DEF Profile
  <2>5. q.seen = seen /\ q.rounds = p.rounds + 1 /\ q.alerts = p.alerts /\ q.chain = p.chain
    BY <2>2 DEF Profile
  <2>6. q.hits = p.hits /\ q.misses = p.misses /\ q.pending = p.pending
    BY <2>2 DEF Profile
  <2>. QED  BY <2>1, <2>2, <2>4, <2>5, <2>6 DEF Sized
<1>. QED  BY <1>1, <1>2

LEMMA ConfirmedEngagement ==
  ASSUME NEW o, Confirmed(o)
  PROVE  Decide(o).engagement = o.canary
BY DEF Confirmed, Decide, Decision

(* An alert that is in the list changes nothing; one that is not adds a    *)
(* round, and an id unless the list has lost it.                           *)
LEMMA EngageOK ==
  ASSUME NEW p \in Profile, Sized(p), NEW ids \in SUBSET Ids, EngagedOK(p, ids),
         NEW o \in Observations, Confirmed(o)
  PROVE  EngagedOK(Engage(p, o), Touched(ids, o)) /\ Touched(ids, o) \in SUBSET Ids
<1>. DEFINE new == Touched(ids, o)
            q == Engage(p, o)
<1>1. o.id \in Ids \cup {NoId} /\ o.canary \in BOOLEAN
  BY ObservationsAssumption
<1>2. new \in SUBSET Ids
  BY <1>1 DEF Touched
<1>3. CASE ~o.canary \/ o.id = NoId
  BY <1>3, ConfirmedEngagement DEF Engage, Touched
<1>4. CASE o.canary /\ o.id # NoId /\ o.id \in SeenIds(p)
  <2>1. o.id \in ids
    BY <1>4 DEF EngagedOK
  <2>2. new = ids
    BY <1>4, <2>1 DEF Touched
  <2>3. q = p
    BY <1>4 DEF Engage, SeenIds
  <2>. QED  BY <1>2, <2>2, <2>3
<1>5. CASE o.canary /\ o.id # NoId /\ o.id \notin SeenIds(p)
  <2>. DEFINE longer == Append(p.seen, o.id)
              seen == LastN(longer, SeenCap)
  <2>1. q = [p EXCEPT !.rounds = @ + 1, !.seen = seen]
    BY <1>5, ConfirmedEngagement DEF Engage, SeenIds
  <2>2. p.seen \in Seq(Ids) /\ p.rounds \in Nat /\ o.id \in Ids
    BY <1>1, <1>5 DEF Profile
  <2>3. /\ longer \in Seq(Ids) /\ Len(longer) = Len(p.seen) + 1
        /\ \A j \in DOMAIN longer : longer[j] \in SeenIds(p) \cup {o.id}
        /\ \A j \in DOMAIN p.seen : longer[j] = p.seen[j] /\ j \in DOMAIN longer
        /\ Len(p.seen) + 1 \in DOMAIN longer /\ longer[Len(p.seen) + 1] = o.id
    BY <2>2 DEF SeenIds
  <2>. HIDE DEF longer
  <2>4. /\ Len(longer) <= SeenCap => seen = longer
        /\ \A i \in DOMAIN seen : \E j \in DOMAIN longer : seen[i] = longer[j]
    BY <2>3, LastNType, CapsAssumption
  <2>5. new = ids \cup {o.id}
    BY <1>5 DEF Touched
  <2>6. IsFiniteSet(new) /\ Cardinality(ids) \in Nat
        /\ Cardinality(new) = IF o.id \in ids THEN Cardinality(ids) ELSE Cardinality(ids) + 1
    <3>1. IsFiniteSet(ids)
      BY DEF EngagedOK
    <3>2. /\ IsFiniteSet(ids \cup {o.id})
          /\ Cardinality(ids \cup {o.id})
               = IF o.id \in ids THEN Cardinality(ids) ELSE Cardinality(ids) + 1
      BY <3>1, FS_AddElement
    <3>3. Cardinality(ids) \in Nat
      BY <3>1, FS_CardinalityType
    <3>. QED  BY <2>5, <3>2, <3>3, Zenon
  <2>. HIDE DEF seen, new
  <2>7. q.rounds = p.rounds + 1 /\ q.seen = seen
    BY <2>1 DEF Profile
  <2>8. SeenIds(q) \subseteq new
    BY <2>3, <2>4, <2>5, <2>7 DEF SeenIds, EngagedOK
  <2>9. q.rounds >= Cardinality(new)
    BY <2>2, <2>6, <2>7 DEF EngagedOK
  <2>10. ASSUME Cardinality(new) <= SeenCap
         PROVE  q.rounds = Cardinality(new) /\ Len(q.seen) = Cardinality(new) /\ SeenIds(q) = new
    <3>1. Cardinality(ids) <= SeenCap
      BY <2>6, <2>10, CapsAssumption
    <3>2. p.rounds = Cardinality(ids) /\ Len(p.seen) = Cardinality(ids) /\ SeenIds(p) = ids
      BY <3>1 DEF EngagedOK
    <3>3. Cardinality(new) = Cardinality(ids) + 1
      BY <1>5, <2>6, <3>2
    <3>4. q.seen = longer
      BY <2>3, <2>4, <2>7, <2>10, <3>2, <3>3
    <3>5. SeenIds(q) = new
      <4>1. \A x \in new : \E j \in DOMAIN longer : longer[j] = x
        BY <2>3, <2>5, <3>2 DEF SeenIds
      <4>. QED  BY <2>8, <3>4, <4>1 DEF SeenIds
    <3>. QED  BY <2>3, <2>7, <3>2, <3>3, <3>4, <3>5
  <2>. QED  BY <1>2, <2>6, <2>8, <2>9, <2>10 DEF EngagedOK, new
<1>. QED  BY <1>1, <1>3, <1>4, <1>5, <1>2

-----------------------------------------------------------------------------
(* The two gates. *)

LEMMA SignOK ==
  ASSUME NEW p \in Profile
  PROVE  LET q == Sign(p)
         IN /\ q \in Profile /\ Signed(q) /\ Content(q) = Content(p)
            /\ q.alerts = p.alerts /\ q.chain = p.chain /\ q.hits = p.hits /\ q.misses = p.misses
            /\ q.pending = p.pending /\ q.rounds = p.rounds /\ q.seen = p.seen
<1>. DEFINE q == Sign(p)  c == Content(p)
<1>1. c \in Contents
  BY DEF Content, Contents, Profile
<1>2. q = [p EXCEPT !.sig = c]
  BY DEF Sign
<1>. HIDE DEF c
<1>3. q \in Profile
  <2>1. [p EXCEPT !.sig = c] \in Profile
    BY <1>1 DEF Profile
  <2>. QED  BY <1>2, <2>1
<1>4. q.sig = c /\ q.alerts = p.alerts /\ q.chain = p.chain
  BY <1>2 DEF Profile
<1>5. q.hits = p.hits /\ q.misses = p.misses /\ q.pending = p.pending
  BY <1>2 DEF Profile
<1>6. q.rounds = p.rounds /\ q.seen = p.seen /\ q.scores = p.scores
  BY <1>2 DEF Profile
<1>7. Content(q) = Content(p)
  BY <1>4, <1>5, <1>6 DEF Content
<1>. HIDE DEF q
<1>. QED  BY <1>3, <1>4, <1>5, <1>6, <1>7 DEF Signed, c, q

LEMMA PendingOKOf ==
  ASSUME NEW p, NEW q, PendingOK(p), q.pending = p.pending, q.alerts = p.alerts
  PROVE  PendingOK(q)
BY DEF PendingOK

LEMMA EngagedOKOf ==
  ASSUME NEW p, NEW q, NEW ids, EngagedOK(p, ids), q.rounds = p.rounds, q.seen = p.seen
  PROVE  EngagedOK(q, ids)
BY DEF EngagedOK, SeenIds

LEMMA AfterOK ==
  ASSUME NEW p \in Profile, Sized(p), PendingOK(p), NEW ids \in SUBSET Ids, EngagedOK(p, ids),
         NEW o \in Observations, Confirmed(o)
  PROVE  LET q == After(p, o)
             N == {x \in q.pending : x.age = 0}
         IN /\ q \in Profile /\ Sized(q) /\ PendingOK(q) /\ Signed(q)
            /\ EngagedOK(q, Touched(ids, o)) /\ Touched(ids, o) \in SUBSET Ids
            /\ q.alerts = p.alerts + 1
            /\ q.hits = p.hits + Cardinality(Hit(p, o))
            /\ Cardinality(Hit(p, o)) \in Nat /\ Cardinality(Missed(p, o)) \in Nat
            /\ Cardinality(N) \in Nat
            /\ q.hits + q.misses + Cardinality(q.pending)
                 = p.hits + p.misses + Cardinality(p.pending) + Cardinality(N)
<1>. DEFINE m == Merge(p, o)
            s == Settle(m, o)
            i == Issue(s, Candidates(p, o))
            e == Engage(i, o)
            q == After(p, o)
<1>1. /\ m \in Profile /\ Sized(m) /\ m.alerts = p.alerts + 1 /\ m.pending = p.pending
      /\ m.hits = p.hits /\ m.misses = p.misses /\ m.rounds = p.rounds /\ m.seen = p.seen
  BY MergeType
<1>2. IsFiniteSet(p.pending) /\ IsFiniteSet(m.pending)
  BY <1>1 DEF PendingOK
<1>3. Hit(m, o) = Hit(p, o)
  BY <1>1 DEF Hit
<1>4. Cardinality(Hit(p, o)) \in Nat /\ Cardinality(Missed(p, o)) \in Nat
  BY <1>2, SettleType
<1>5. /\ s \in Profile /\ s.hits = m.hits + Cardinality(Hit(m, o))
      /\ s.hits + s.misses + Cardinality(s.pending) = m.hits + m.misses + Cardinality(m.pending)
      /\ s.alerts = m.alerts /\ s.chain = m.chain /\ s.rounds = m.rounds /\ s.seen = m.seen
  BY <1>1, <1>2, SettleType
<1>6. PendingOK(s) /\ \A x \in s.pending : x.age > 0
  BY <1>1, SettleOK
<1>7. Candidates(p, o) \in SUBSET Techniques /\ s.alerts > 0
  BY <1>1, <1>5, PredictedTechniques DEF Profile
<1>8. LET N == {x \in i.pending : x.age = 0}
      IN /\ i \in Profile /\ PendingOK(i) /\ Cardinality(N) \in Nat
         /\ Cardinality(i.pending) = Cardinality(s.pending) + Cardinality(N)
         /\ i.alerts = s.alerts /\ i.chain = s.chain /\ i.hits = s.hits
         /\ i.misses = s.misses /\ i.rounds = s.rounds /\ i.seen = s.seen
  BY <1>5, <1>6, <1>7, IssueOK
<1>. HIDE DEF m, s, i
<1>9. Sized(i)
  BY <1>1, <1>5, <1>8 DEF Sized
<1>10. /\ e \in Profile /\ Sized(e)
       /\ e.alerts = i.alerts /\ e.hits = i.hits /\ e.misses = i.misses /\ e.pending = i.pending
  BY <1>8, <1>9, EngageShape
<1>11. i.rounds = p.rounds /\ i.seen = p.seen
  BY <1>1, <1>5, <1>8
<1>12. EngagedOK(i, ids)
  BY <1>11, EngagedOKOf
<1>13. EngagedOK(e, Touched(ids, o)) /\ Touched(ids, o) \in SUBSET Ids
  BY <1>8, <1>9, <1>12, EngageOK
<1>14. PendingOK(e)
  BY <1>8, <1>10, PendingOKOf
<1>15. q = Sign(e)
  BY DEF After, e, i, s, m
<1>. HIDE DEF e, q
<1>16. /\ q \in Profile /\ Signed(q) /\ q.alerts = e.alerts /\ q.chain = e.chain
       /\ q.hits = e.hits /\ q.misses = e.misses /\ q.pending = e.pending
       /\ q.rounds = e.rounds /\ q.seen = e.seen
  BY <1>10, <1>15, SignOK
<1>17. Sized(q) /\ PendingOK(q) /\ EngagedOK(q, Touched(ids, o))
  <2>1. PendingOK(q)
    BY <1>14, <1>16, PendingOKOf
  <2>2. EngagedOK(q, Touched(ids, o))
    BY <1>13, <1>16, EngagedOKOf
  <2>. QED  BY <1>10, <1>16, <2>1, <2>2 DEF Sized
<1>18. q.alerts = p.alerts + 1 /\ q.hits = p.hits + Cardinality(Hit(p, o))
  <2>1. q.hits = i.hits /\ i.hits = s.hits /\ s.hits = m.hits + Cardinality(Hit(m, o))
    BY <1>5, <1>8, <1>10, <1>16
  <2>2. Cardinality(Hit(m, o)) = Cardinality(Hit(p, o))
    BY <1>3, Zenon
  <2>3. q.alerts = m.alerts
    BY <1>5, <1>8, <1>10, <1>16
  <2>. QED  BY <1>1, <2>1, <2>2, <2>3
<1>19. LET N == {x \in q.pending : x.age = 0}
       IN /\ Cardinality(N) \in Nat
          /\ Cardinality(q.pending) = Cardinality(s.pending) + Cardinality(N)
  <2>1. q.pending = i.pending
    BY <1>10, <1>16, Zenon
  <2>. QED  BY <1>8, <2>1, Zenon
<1>20. q.hits + q.misses + Cardinality(q.pending)
         = p.hits + p.misses + Cardinality(p.pending) + Cardinality({x \in q.pending : x.age = 0})
  <2>. DEFINE n == Cardinality({x \in q.pending : x.age = 0})
              cq == Cardinality(q.pending)  cs == Cardinality(s.pending)
              cp == Cardinality(p.pending)
  <2>1. Cardinality(m.pending) = cp
    BY <1>1, Zenon
  <2>2. s.hits + s.misses + cs = p.hits + p.misses + cp
    BY <1>1, <1>5, <2>1
  <2>3. cq = cs + n /\ n \in Nat
    BY <1>19
  <2>4. q.hits = s.hits /\ q.misses = s.misses
    BY <1>8, <1>10, <1>16
  <2>5. cs \in Nat /\ cp \in Nat
    BY <1>2, <1>6, FS_CardinalityType DEF PendingOK
  <2>6. s.hits \in Nat /\ s.misses \in Nat /\ p.hits \in Nat /\ p.misses \in Nat
    BY <1>5 DEF Profile
  <2>. HIDE DEF n, cq, cs, cp
  <2>7. q.hits + q.misses + cq = p.hits + p.misses + cp + n
    BY <2>2, <2>3, <2>4, <2>5, <2>6
  <2>. QED  BY <2>7 DEF n, cq, cs, cp
<1>. QED  BY <1>4, <1>13, <1>16, <1>17, <1>18, <1>19, <1>20 DEF q

(* A score leaves all but itself and the signature.                        *)
LEMMA ScoredOK ==
  ASSUME NEW p \in Profile, NEW o \in Observations, o.playbook # NoPlaybook
  PROVE  LET q == Scored(p, o)
         IN /\ q \in Profile /\ Signed(q)
            /\ q.alerts = p.alerts /\ q.chain = p.chain /\ q.hits = p.hits /\ q.misses = p.misses
            /\ q.pending = p.pending /\ q.rounds = p.rounds /\ q.seen = p.seen
<1>. DEFINE b == o.playbook
            q == Score(p, o)
            scores == [p.scores EXCEPT ![b].count = @ + 1, ![b].sum = @ + Decide(o).effect]
<1>1. b \in Playbooks /\ Decide(o).effect \in Nat
  BY ObservationsAssumption DEF Decide, Decision
<1>2. scores \in Scores
  <2>. DEFINE counted == [p.scores EXCEPT ![b].count = @ + 1]
  <2>1. p.scores \in Scores
    BY DEF Profile
  <2>2. counted \in Scores
    BY <1>1, <2>1 DEF Scores
  <2>3. scores = [counted EXCEPT ![b].sum = @ + Decide(o).effect]
    OBVIOUS
  <2>. HIDE DEF counted, scores
  <2>. QED  BY <1>1, <2>2, <2>3 DEF Scores
<1>3. q = [p EXCEPT !.scores = scores]
  BY DEF Score, Profile
<1>. HIDE DEF scores
<1>4. q \in Profile
  <2>1. [p EXCEPT !.scores = scores] \in Profile
    BY <1>2 DEF Profile
  <2>. QED  BY <1>3, <2>1
<1>5. q.alerts = p.alerts /\ q.chain = p.chain /\ q.hits = p.hits /\ q.misses = p.misses
  BY <1>3 DEF Profile
<1>6. q.pending = p.pending /\ q.rounds = p.rounds /\ q.seen = p.seen
  BY <1>3 DEF Profile
<1>7. Scored(p, o) = Sign(q)
  BY DEF Scored
<1>. HIDE DEF q
<1>. QED  BY <1>4, <1>5, <1>6, <1>7, SignOK

-----------------------------------------------------------------------------
(* The invariant. *)

LEMMA InitInv == Init => Inv
<1>. SUFFICES ASSUME Init  PROVE Inv
  OBVIOUS
<1>1. TypeOK
  <2>1. profiles \in [Actors -> Profile]
    BY InitialProfile DEF Init
  <2>2. \A a \in Actors : Len(profiles[a].chain) <= ChainCap /\ Len(profiles[a].seen) <= SeenCap
    BY InitialProfile DEF Init, Sized
  <2>3. steps \in [Actors -> Seq(Techniques)] /\ touched \in [Actors -> SUBSET Ids]
    BY DEF Init
  <2>4. /\ metered \in [hit : Nat, miss : Nat] /\ obs \in Observations \cup {Nothing}
        /\ pc \in {"idle", "actor", "playbook"} /\ polls \in Nat
        /\ issued \in [Actors -> Nat]
    BY DEF Init
  <2>. QED  BY <2>1, <2>2, <2>3, <2>4 DEF TypeOK
<1>2. \A a \in Actors : profiles[a] = Fresh /\ touched[a] = {} /\ issued[a] = 0
  BY DEF Init
<1>3. Fresh.hits = 0 /\ Fresh.misses = 0 /\ Cardinality(Fresh.pending) = 0
  BY InitialProfile DEF Fresh
<1>4. \A a \in Actors :
        /\ PendingOK(profiles[a]) /\ Signed(profiles[a]) /\ EngagedOK(profiles[a], touched[a])
        /\ issued[a] = profiles[a].hits + profiles[a].misses + Cardinality(profiles[a].pending)
  BY <1>2, <1>3, InitialProfile
<1>. QED  BY <1>1, <1>4 DEF Inv

LEMMA PollInv ==
  ASSUME Inv, NEW o \in Observations, Poll(o)
  PROVE  Inv'
<1>1. TypeOK'
  BY DEF Inv, TypeOK, Poll
<1>. QED  BY <1>1 DEF Inv, Poll, PendingOK, EngagedOK, SeenIds, Signed, Content

LEMMA RealObservation ==
  ASSUME Inv, obs.actor # NoActor
  PROVE  obs \in Observations /\ obs.actor \in Actors
BY ObservationsAssumption DEF Inv, TypeOK, Nothing

LEMMA AccumulateInv ==
  ASSUME Inv, Accumulate, SubmitActor
  PROVE  Inv'
<1>. DEFINE a == obs.actor
            p == profiles[a]
            q == After(p, obs)
            n == Cardinality({x \in q.pending : x.age = 0})
<1>1. Confirmed(obs) /\ obs \in Observations /\ a \in Actors
  BY RealObservation DEF Accumulate, Confirmed
<1>2. /\ p \in Profile /\ Sized(p) /\ PendingOK(p) /\ touched[a] \in SUBSET Ids
      /\ EngagedOK(p, touched[a])
      /\ issued[a] = p.hits + p.misses + Cardinality(p.pending)
  BY <1>1 DEF Inv, TypeOK, Sized
<1>3. /\ q \in Profile /\ Sized(q) /\ PendingOK(q) /\ Signed(q)
      /\ EngagedOK(q, Touched(touched[a], obs)) /\ Touched(touched[a], obs) \in SUBSET Ids
      /\ Cardinality(Hit(p, obs)) \in Nat /\ Cardinality(Missed(p, obs)) \in Nat /\ n \in Nat
      /\ q.hits + q.misses + Cardinality(q.pending)
           = p.hits + p.misses + Cardinality(p.pending) + n
  BY <1>1, <1>2, AfterOK
<1>4. /\ profiles' = [profiles EXCEPT ![a] = q]
      /\ touched' = [touched EXCEPT ![a] = Touched(touched[a], obs)]
      /\ issued' = [issued EXCEPT ![a] = @ + n]
      /\ steps' = [steps EXCEPT ![a] = @ \o obs.techs]
      /\ metered' = [hit  |-> metered.hit + Cardinality(Hit(p, obs)),
                     miss |-> metered.miss + Cardinality(Missed(p, obs))]
      /\ pc' = "playbook" /\ obs' = obs /\ polls' = polls
  BY DEF Accumulate, SubmitActor, Meter, Touched
<1>. HIDE DEF q, n
<1>5. /\ profiles'[a] = q /\ touched'[a] = Touched(touched[a], obs) /\ issued'[a] = issued[a] + n
      /\ \A b \in Actors \ {a} :
           profiles'[b] = profiles[b] /\ touched'[b] = touched[b] /\ issued'[b] = issued[b]
  BY <1>1, <1>4 DEF Inv, TypeOK
<1>6. TypeOK'
  <2>1. steps' \in [Actors -> Seq(Techniques)]
    <3>1. obs.techs \in Seq(Techniques) /\ steps[a] \in Seq(Techniques)
      BY <1>1, ObservationsAssumption DEF Inv, TypeOK
    <3>2. steps[a] \o obs.techs \in Seq(Techniques)
      BY <3>1
    <3>. QED  BY <1>1, <1>4, <3>2 DEF Inv, TypeOK
  <2>2. metered' \in [hit : Nat, miss : Nat]
    BY <1>3, <1>4 DEF Inv, TypeOK
  <2>3. profiles' \in [Actors -> Profile] /\ touched' \in [Actors -> SUBSET Ids]
    BY <1>1, <1>3, <1>4 DEF Inv, TypeOK
  <2>4. issued' \in [Actors -> Nat]
    BY <1>1, <1>3, <1>4 DEF Inv, TypeOK
  <2>5. \A b \in Actors : Len(profiles'[b].chain) <= ChainCap /\ Len(profiles'[b].seen) <= SeenCap
    BY <1>3, <1>5 DEF Inv, TypeOK, Sized
  <2>. QED  BY <1>4, <2>1, <2>2, <2>3, <2>4, <2>5 DEF Inv, TypeOK
<1>7. \A b \in Actors :
        /\ PendingOK(profiles'[b]) /\ Signed(profiles'[b]) /\ EngagedOK(profiles'[b], touched'[b])
        /\ issued'[b] = profiles'[b].hits + profiles'[b].misses + Cardinality(profiles'[b].pending)
  <2>. SUFFICES ASSUME NEW b \in Actors
                PROVE  /\ PendingOK(profiles'[b]) /\ Signed(profiles'[b])
                       /\ EngagedOK(profiles'[b], touched'[b])
                       /\ issued'[b] = profiles'[b].hits + profiles'[b].misses
                                         + Cardinality(profiles'[b].pending)
    OBVIOUS
  <2>1. CASE b = a
    BY <1>2, <1>3, <1>5, <2>1
  <2>2. CASE b # a
    BY <1>5, <2>2 DEF Inv
  <2>. QED  BY <2>1, <2>2
<1>. QED  BY <1>6, <1>7 DEF Inv, PendingOK, Signed, EngagedOK, SeenIds, Content

LEMMA SubmitActorInv ==
  ASSUME Inv, SubmitActor
  PROVE  Inv'
<1>1. CASE Accumulate
  BY <1>1, AccumulateInv
<1>2. CASE Unwritable
  <2>1. obs \in Observations /\ obs.actor \in Actors
    BY <1>2, RealObservation DEF Unwritable, Confirmed
  <2>2. IsFiniteSet(profiles[obs.actor].pending) /\ profiles[obs.actor] \in Profile
    BY <2>1 DEF Inv, PendingOK, TypeOK
  <2>3. /\ Cardinality(Hit(profiles[obs.actor], obs)) \in Nat
        /\ Cardinality(Missed(profiles[obs.actor], obs)) \in Nat
    BY <2>2, SettleType
  <2>4. metered' \in [hit : Nat, miss : Nat]
    BY <1>2, <2>3 DEF Unwritable, Meter, Inv, TypeOK
  <2>5. /\ UNCHANGED <<profiles, steps, touched, issued>>
        /\ pc' = "playbook" /\ UNCHANGED <<obs, polls>>
    BY <1>2 DEF Unwritable, Fails, SubmitActor
  <2>6. TypeOK'
    BY <2>4, <2>5 DEF Inv, TypeOK
  <2>. QED  BY <2>5, <2>6 DEF Inv, PendingOK, EngagedOK, SeenIds, Signed, Content
<1>3. CASE Reject \/ Unreadable
  <2>1. /\ UNCHANGED <<profiles, metered, steps, touched, issued>>
        /\ pc' = "playbook" /\ UNCHANGED <<obs, polls>>
    BY <1>3 DEF Reject, Unreadable, Fails, SubmitActor
  <2>2. TypeOK'
    BY <2>1 DEF Inv, TypeOK
  <2>. QED  BY <2>1, <2>2 DEF Inv, PendingOK, EngagedOK, SeenIds, Signed, Content
<1>. QED  BY <1>1, <1>2, <1>3 DEF SubmitActor

LEMMA SubmitPlaybookInv ==
  ASSUME Inv, SubmitPlaybook
  PROVE  Inv'
<1>0. /\ pc' = "idle" /\ UNCHANGED <<metered, obs, polls, steps, touched, issued>>
  BY DEF SubmitPlaybook
<1>1. CASE UNCHANGED profiles
  <2>1. TypeOK'
    BY <1>0, <1>1 DEF Inv, TypeOK
  <2>. QED  BY <1>0, <1>1, <2>1 DEF Inv, PendingOK, EngagedOK, SeenIds, Signed, Content
<1>2. CASE Scorable(obs) /\ profiles' = [profiles EXCEPT ![obs.actor] = Scored(@, obs)]
  <2>. DEFINE a == obs.actor
              p == profiles[a]
              q == Scored(p, obs)
  <2>1. obs \in Observations /\ a \in Actors /\ obs.playbook # NoPlaybook
    BY <1>2, RealObservation DEF Scorable
  <2>2. /\ p \in Profile /\ Sized(p) /\ PendingOK(p) /\ EngagedOK(p, touched[a])
        /\ issued[a] = p.hits + p.misses + Cardinality(p.pending)
    BY <2>1 DEF Inv, TypeOK, Sized
  <2>3. /\ q \in Profile /\ Signed(q) /\ q.alerts = p.alerts /\ q.chain = p.chain
        /\ q.hits = p.hits /\ q.misses = p.misses /\ q.pending = p.pending
        /\ q.rounds = p.rounds /\ q.seen = p.seen
    BY <2>1, <2>2, ScoredOK
  <2>. HIDE DEF q
  <2>4. profiles' = [profiles EXCEPT ![a] = q]
    BY <1>2 DEF q
  <2>5. profiles'[a] = q /\ \A b \in Actors \ {a} : profiles'[b] = profiles[b]
    BY <2>1, <2>4 DEF Inv, TypeOK
  <2>6. PendingOK(q) /\ EngagedOK(q, touched[a]) /\ Sized(q)
    BY <2>2, <2>3, PendingOKOf, EngagedOKOf DEF Sized
  <2>7. issued[a] = q.hits + q.misses + Cardinality(q.pending)
    <3>1. Cardinality(q.pending) = Cardinality(p.pending)
      BY <2>3, Zenon
    <3>. QED  BY <2>2, <2>3, <3>1
  <2>8. TypeOK'
    <3>1. profiles' \in [Actors -> Profile]
      BY <2>1, <2>3, <2>4 DEF Inv, TypeOK
    <3>2. \A b \in Actors : Len(profiles'[b].chain) <= ChainCap /\ Len(profiles'[b].seen) <= SeenCap
      BY <2>5, <2>6 DEF Inv, TypeOK, Sized
    <3>. QED  BY <1>0, <3>1, <3>2 DEF Inv, TypeOK
  <2>9. \A b \in Actors :
          /\ PendingOK(profiles'[b]) /\ Signed(profiles'[b]) /\ EngagedOK(profiles'[b], touched'[b])
          /\ issued'[b] = profiles'[b].hits + profiles'[b].misses + Cardinality(profiles'[b].pending)
    <3>. SUFFICES ASSUME NEW b \in Actors
                  PROVE  /\ PendingOK(profiles'[b]) /\ Signed(profiles'[b])
                         /\ EngagedOK(profiles'[b], touched'[b])
                         /\ issued'[b] = profiles'[b].hits + profiles'[b].misses
                                           + Cardinality(profiles'[b].pending)
      OBVIOUS
    <3>1. CASE b = a
      BY <1>0, <2>3, <2>5, <2>6, <2>7, <3>1
    <3>2. CASE b # a
      BY <1>0, <2>5, <3>2 DEF Inv
    <3>. QED  BY <3>1, <3>2
  <2>. QED  BY <2>8, <2>9 DEF Inv, PendingOK, Signed, EngagedOK, SeenIds, Content
<1>. QED  BY <1>1, <1>2 DEF SubmitPlaybook

LEMMA StutterInv ==
  ASSUME Inv, UNCHANGED vars
  PROVE  Inv'
<1>1. TypeOK'
  BY DEF Inv, TypeOK, vars
<1>. QED  BY <1>1 DEF Inv, vars, PendingOK, EngagedOK, SeenIds, Signed, Content

THEOREM Invariance == Spec => []Inv
<1>1. Inv /\ [Next]_vars => Inv'
  BY PollInv, SubmitActorInv, SubmitPlaybookInv, StutterInv DEF Next, EmptyPoll
<1>. QED  BY InitInv, <1>1, PTL DEF Spec

-----------------------------------------------------------------------------
(* Every profile keeps the shape of its class and its lists their caps,    *)
(* for all actors, observations, caps and faults.                          *)
THEOREM TypeCorrect == Spec => []TypeOK
<1>1. Inv => TypeOK
  BY DEF Inv
<1>. QED  BY Invariance, <1>1, PTL

(* Every prediction is a hit, a miss or pending, and no technique is       *)
(* pending twice, whatever is delivered twice and whichever call fails.    *)
THEOREM ConservationHolds == Spec => []PredictionsConserved
<1>1. Inv => PredictionsConserved
  BY DEF Inv, PredictionsConserved, PendingOK
<1>. QED  BY Invariance, <1>1, PTL

(* Predictions are settled within the TTL, counted in alerts of the actor. *)
THEOREM SettlementHolds == Spec => []SettledInTime
<1>1. Inv => SettledInTime
  BY DEF Inv, SettledInTime, PendingOK
<1>. QED  BY Invariance, <1>1, PTL

(* A confirmed alert in which a decoy was touched is one round, however    *)
(* often it is reported, up to the cap of the list of seen ids.            *)
THEOREM EngagementHolds == Spec => []EngagedOncePerAlert
<1>1. Inv => EngagedOncePerAlert
  BY DEF Inv, EngagedOncePerAlert, EngagedOK
<1>. QED  BY Invariance, <1>1, PTL

(* Both gates leave the profile signed, so the hot path can recall every   *)
(* profile at any time.                                                    *)
THEOREM SignatureHolds == Spec => []StoredVerifies
<1>1. Inv => StoredVerifies
  BY DEF Inv, StoredVerifies, Signed, Known, Recalled
<1>. QED  BY Invariance, <1>1, PTL

LEMMA FlagStep ==
  ASSUME Inv, [Next]_vars, NEW a \in Actors, profiles'[a].alerts > profiles[a].alerts
  PROVE  profiles'[a].hits > profiles[a].hits <=> PredictionMatch(a, TechsOf(obs))
<1>1. profiles[a] \in Profile
  BY DEF Inv, TypeOK
<1>2. profiles' # profiles
  BY <1>1 DEF Profile
<1>3. CASE SubmitActor
  <2>1. Accumulate
    BY <1>2, <1>3 DEF SubmitActor, Reject, Unreadable, Unwritable, Fails
  <2>. DEFINE p == profiles[a]
  <2>2. obs \in Observations /\ obs.actor \in Actors /\ Confirmed(obs)
    BY <2>1, RealObservation DEF Accumulate, Confirmed
  <2>3. profiles' = [profiles EXCEPT ![obs.actor] = After(profiles[obs.actor], obs)]
    BY <2>1 DEF Accumulate
  <2>4. obs.actor = a
    <3>1. obs.actor # a => profiles'[a] = profiles[a]
      BY <2>2, <2>3 DEF Inv, TypeOK
    <3>2. profiles[a].alerts \in Nat
      BY <1>1 DEF Profile
    <3>3. ~(profiles[a].alerts > profiles[a].alerts)
      BY <3>2
    <3>. QED  BY <3>1, <3>3
  <2>5. profiles'[a] = After(p, obs)
    BY <2>2, <2>3, <2>4 DEF Inv, TypeOK
  <2>6. /\ Sized(p) /\ PendingOK(p) /\ EngagedOK(p, touched[a]) /\ touched[a] \in SUBSET Ids
        /\ Signed(p)
    BY DEF Inv, TypeOK, Sized
  <2>7. profiles'[a].hits = p.hits + Cardinality(Hit(p, obs)) /\ Cardinality(Hit(p, obs)) \in Nat
    BY <1>1, <2>2, <2>5, <2>6, AfterOK
  <2>8. IsFiniteSet(Hit(p, obs))
    BY <2>6, FS_Subset DEF PendingOK, Hit
  <2>9. profiles'[a].hits > p.hits <=> Hit(p, obs) # {}
    <3>1. Cardinality(Hit(p, obs)) = 0 <=> Hit(p, obs) = {}
      BY <2>8, FS_EmptySet
    <3>. QED  BY <1>1, <2>7, <3>1 DEF Profile
  <2>10. p.pending # {} => p.alerts > 0
    <3>. SUFFICES ASSUME NEW x \in p.pending  PROVE p.alerts > 0
      OBVIOUS
    <3>1. x.age = p.alerts - x.since /\ x.since > 0
      BY <2>6 DEF PendingOK
    <3>2. x.age \in Nat /\ x.since \in Nat /\ p.alerts \in Nat
      BY <1>1 DEF Profile, Predictions
    <3>. QED  BY <3>1, <3>2
  <2>. QED  BY <2>6, <2>9, <2>10 DEF PredictionMatch, Recalled, Known, Signed, Hit
<1>4. CASE SubmitPlaybook
  <2>1. Scorable(obs) /\ profiles' = [profiles EXCEPT ![obs.actor] = Scored(@, obs)]
    BY <1>2, <1>4 DEF SubmitPlaybook
  <2>2. obs \in Observations /\ obs.actor \in Actors /\ obs.playbook # NoPlaybook
    BY <2>1, RealObservation DEF Scorable
  <2>3. Scored(profiles[obs.actor], obs).alerts = profiles[obs.actor].alerts
    BY <2>2, ScoredOK DEF Inv, TypeOK
  <2>4. profiles'[a].alerts = profiles[a].alerts
    BY <2>1, <2>2, <2>3 DEF Inv, TypeOK
  <2>. QED  BY <1>1, <2>4 DEF Profile
<1>5. ASSUME NEW o \in Observations, Poll(o)
      PROVE  FALSE
  BY <1>2, <1>5 DEF Poll
<1>6. CASE UNCHANGED vars
  BY <1>2, <1>6 DEF vars
<1>. QED  BY <1>3, <1>4, <1>5, <1>6 DEF Next, EmptyPoll

(* An alert that the hot path would have flagged as predicted is scored as *)
(* predicted when it is confirmed, and no other alert is.                  *)
THEOREM FlagHolds == Spec => FlaggedThenHit
<1>1. Inv /\ [Next]_vars =>
        \/ UNCHANGED vars
        \/ \A a \in Actors :
              profiles'[a].alerts > profiles[a].alerts =>
                (profiles'[a].hits > profiles[a].hits <=> PredictionMatch(a, TechsOf(obs)))
  BY FlagStep
<1>. QED  BY Invariance, <1>1, PTL DEF Spec, FlaggedThenHit

(* An observation that confirms no attack of the actor leaves what was     *)
(* learned about it, and creates no profile.                               *)
LEMMA UnconfirmedStep ==
  ASSUME Inv, [Next]_vars, NEW a \in Actors, ~(obs.actor = a /\ (obs.mission \/ obs.canary))
  PROVE  /\ Learned(profiles'[a]) = Learned(profiles[a])
         /\ ~Known(a) => profiles'[a] = profiles[a]
<1>1. CASE profiles' = profiles
  BY <1>1
<1>2. CASE Accumulate
  <2>1. obs.actor \in Actors /\ Confirmed(obs)
    BY <1>2, RealObservation DEF Accumulate, Confirmed
  <2>2. obs.actor # a
    <3>1. obs.mission \/ obs.canary
      BY <2>1 DEF Confirmed, Decide, Decision
    <3>. QED  BY <3>1
  <2>3. profiles' = [profiles EXCEPT ![obs.actor] = After(profiles[obs.actor], obs)]
    BY <1>2 DEF Accumulate
  <2>4. profiles'[a] = profiles[a]
    BY <2>2, <2>3 DEF Inv, TypeOK
  <2>. QED  BY <2>4
<1>3. CASE Scorable(obs) /\ profiles' = [profiles EXCEPT ![obs.actor] = Scored(@, obs)]
  <2>1. obs \in Observations /\ obs.actor \in Actors /\ obs.playbook # NoPlaybook
    BY <1>3, RealObservation DEF Scorable
  <2>2. CASE obs.actor = a
    <3>. DEFINE p == profiles[a]
                q == Scored(p, obs)
    <3>1. p \in Profile /\ Known(a) /\ profiles'[a] = q
      <4>1. p \in Profile /\ profiles \in [Actors -> Profile]
        BY DEF Inv, TypeOK
      <4>2. Known(a)
        BY <1>3, <2>2 DEF Scorable
      <4>3. profiles' = [profiles EXCEPT ![a] = q]
        BY <1>3, <2>2
      <4>. HIDE DEF q
      <4>. QED  BY <4>1, <4>2, <4>3
    <3>2. /\ q.alerts = p.alerts /\ q.chain = p.chain /\ q.hits = p.hits /\ q.misses = p.misses
          /\ q.pending = p.pending /\ q.rounds = p.rounds /\ q.seen = p.seen
      BY <2>1, <3>1, ScoredOK
    <3>. HIDE DEF p, q
    <3>3. Learned(q) = Learned(p)
      BY <3>2 DEF Learned
    <3>. QED  BY <3>1, <3>3 DEF p
  <2>3. CASE obs.actor # a
    BY <1>3, <2>1, <2>3 DEF Inv, TypeOK
  <2>. QED  BY <2>2, <2>3
<1>4. profiles' = profiles \/ Accumulate
      \/ (Scorable(obs) /\ profiles' = [profiles EXCEPT ![obs.actor] = Scored(@, obs)])
  BY DEF Next, vars, EmptyPoll, Poll, SubmitActor, SubmitPlaybook, Reject, Unreadable,
         Unwritable, Fails
<1>. QED  BY <1>1, <1>2, <1>3, <1>4

(* Only a confirmed attack of an actor teaches anything about it.          *)
THEOREM UnconfirmedHolds == Spec => UnconfirmedTeachesNothing
<1>1. Inv /\ [Next]_vars =>
        \/ UNCHANGED vars
        \/ \A a \in Actors :
              ~(obs.actor = a /\ (obs.mission \/ obs.canary)) =>
                /\ Learned(profiles'[a]) = Learned(profiles[a])
                /\ ~Known(a) => profiles'[a] = profiles[a]
  BY UnconfirmedStep
<1>. QED  BY Invariance, <1>1, PTL DEF Spec, UnconfirmedTeachesNothing

-----------------------------------------------------------------------------
(* What the chain remembers, and what is predicted from it. *)

(* How many elements LastN drops, and where the others go.                 *)
Dropped(seq, n) == IF Len(seq) <= n THEN 0 ELSE Len(seq) - n

LEMMA LastNElements ==
  ASSUME NEW S, NEW seq \in Seq(S), NEW n \in Nat \ {0}
  PROVE  /\ Dropped(seq, n) \in 0..Len(seq)
         /\ LastN(seq, n) \in Seq(S)
         /\ Len(LastN(seq, n)) = Len(seq) - Dropped(seq, n)
         /\ \A i \in 1..(Len(seq) - Dropped(seq, n)) :
              LastN(seq, n)[i] = seq[i + Dropped(seq, n)]
<1>1. CASE Len(seq) <= n
  BY <1>1 DEF LastN, Dropped
<1>2. CASE Len(seq) > n
  <2>. DEFINE m == Len(seq) - n + 1
  <2>1. m \in 1..Len(seq) /\ LastN(seq, n) = SubSeq(seq, m, Len(seq)) /\ Dropped(seq, n) = Len(seq) - n
    BY <1>2 DEF LastN, Dropped
  <2>2. /\ SubSeq(seq, m, Len(seq)) \in Seq(S)
        /\ Len(SubSeq(seq, m, Len(seq))) = n
        /\ \A i \in 1..n : SubSeq(seq, m, Len(seq))[i] = seq[m + i - 1]
    BY <1>2, <2>1
  <2>. DEFINE d == Dropped(seq, n)
              q == SubSeq(seq, m, Len(seq))
  <2>. HIDE DEF d, m, q
  <2>3. Len(seq) - d = n /\ d \in 0..Len(seq) /\ \A i \in 1..n : m + i - 1 = i + d
    BY <1>2, <2>1 DEF m, d
  <2>4. \A i \in 1..(Len(seq) - d) : q[i] = seq[i + d]
    BY <2>2, <2>3 DEF q
  <2>5. q \in Seq(S) /\ Len(q) = Len(seq) - d /\ LastN(seq, n) = q
    BY <2>1, <2>2, <2>3 DEF q
  <2>. QED  BY <2>3, <2>4, <2>5 DEF d
<1>. QED  BY <1>1, <1>2

(* To cut a list after each of two extensions leaves what a single cut     *)
(* after both does.                                                        *)
LEMMA LastNTwice ==
  ASSUME NEW S, NEW s \in Seq(S), NEW t \in Seq(S), NEW n \in Nat \ {0}
  PROVE  LastN(LastN(s, n) \o t, n) = LastN(s \o t, n)
<1>. DEFINE l == LastN(s, n)
            u == l \o t
            v == s \o t
            k == Dropped(s, n)
            h == Dropped(u, n)
            j == Dropped(v, n)
<1>1. /\ k \in 0..Len(s) /\ l \in Seq(S) /\ Len(l) = Len(s) - k
      /\ \A i \in 1..(Len(s) - k) : l[i] = s[i + k]
  BY LastNElements
<1>. HIDE DEF l
<1>2. /\ u \in Seq(S) /\ Len(u) = Len(l) + Len(t)
      /\ \A i \in 1..Len(u) : u[i] = IF i <= Len(l) THEN l[i] ELSE t[i - Len(l)]
  BY <1>1, ConcatProperties
<1>3. /\ v \in Seq(S) /\ Len(v) = Len(s) + Len(t)
      /\ \A i \in 1..Len(v) : v[i] = IF i <= Len(s) THEN s[i] ELSE t[i - Len(s)]
  BY ConcatProperties
<1>4. Len(s) \in Nat /\ Len(t) \in Nat
  OBVIOUS
<1>. HIDE DEF u, v
<1>5. h + k = j
  <2>1. /\ k = IF Len(s) <= n THEN 0 ELSE Len(s) - n
        /\ h = IF Len(u) <= n THEN 0 ELSE Len(u) - n
        /\ j = IF Len(v) <= n THEN 0 ELSE Len(v) - n
    BY DEF Dropped
  <2>2. Len(u) = Len(s) - k + Len(t) /\ Len(v) = Len(s) + Len(t)
    BY <1>1, <1>2, <1>3
  <2>. HIDE DEF h, k, j
  <2>. DEFINE ls == Len(s)  lt == Len(t)
  <2>3. /\ ls \in Nat /\ lt \in Nat /\ n \in Nat /\ n > 0
        /\ Len(u) = ls - k + lt /\ Len(v) = ls + lt
    BY <1>4, <2>2
  <2>. HIDE DEF ls, lt
  <2>4. /\ k = IF ls <= n THEN 0 ELSE ls - n
        /\ h = IF ls - k + lt <= n THEN 0 ELSE ls - k + lt - n
        /\ j = IF ls + lt <= n THEN 0 ELSE ls + lt - n
    BY <2>1, <2>3 DEF ls
  <2>5. CASE ls <= n
    BY <2>3, <2>4, <2>5
  <2>6. CASE ~(ls <= n)
    BY <2>3, <2>4, <2>6
  <2>. QED  BY <2>5, <2>6
<1>6. /\ h \in 0..Len(u) /\ LastN(u, n) \in Seq(S) /\ Len(LastN(u, n)) = Len(u) - h
      /\ \A i \in 1..(Len(u) - h) : LastN(u, n)[i] = u[i + h]
  BY <1>2, LastNElements
<1>7. /\ j \in 0..Len(v) /\ LastN(v, n) \in Seq(S) /\ Len(LastN(v, n)) = Len(v) - j
      /\ \A i \in 1..(Len(v) - j) : LastN(v, n)[i] = v[i + j]
  BY <1>3, LastNElements
<1>. HIDE DEF k, h, j
<1>8. Len(LastN(u, n)) = Len(LastN(v, n))
  <2>1. Len(u) - h = Len(v) - j
    <3>1. /\ Len(u) = Len(l) + Len(t) /\ Len(l) = Len(s) - k /\ Len(v) = Len(s) + Len(t)
          /\ k \in Int /\ h \in Int /\ j \in Int /\ h + k = j
      BY <1>1, <1>2, <1>3, <1>5, <1>6, <1>7
    <3>. QED  BY <1>4, <3>1
  <2>. QED  BY <1>6, <1>7, <2>1
<1>9. ASSUME NEW i \in 1..Len(LastN(u, n))
      PROVE  LastN(u, n)[i] = LastN(v, n)[i]
  <2>1. i \in 1..(Len(u) - h) /\ i \in 1..(Len(v) - j)
    BY <1>6, <1>7, <1>8
  <2>2. i + h \in 1..Len(u) /\ i + j \in 1..Len(v) /\ i + j = (i + h) + k
    BY <1>1, <1>2, <1>3, <1>4, <1>5, <1>6, <1>7, <2>1
  <2>3. u[i + h] = v[i + j]
    <3>1. CASE i + h <= Len(l)
      <4>1. i + h \in 1..(Len(s) - k) /\ i + j <= Len(s)
        BY <1>1, <1>4, <2>2, <3>1
      <4>. QED  BY <1>1, <1>2, <1>3, <2>2, <3>1, <4>1
    <3>2. CASE ~(i + h <= Len(l))
      <4>1. ~(i + j <= Len(s)) /\ (i + j) - Len(s) = (i + h) - Len(l)
        BY <1>1, <1>4, <2>2, <3>2
      <4>. QED  BY <1>2, <1>3, <2>2, <3>2, <4>1
    <3>. QED  BY <3>1, <3>2
  <2>. QED  BY <1>6, <1>7, <2>1, <2>3
<1>10. LastN(u, n) = LastN(v, n)
  BY <1>6, <1>7, <1>8, <1>9, SeqEqual
<1>. QED  BY <1>10 DEF u, v, l

(* What followed a pair in the chain followed it in the whole history.     *)
LEMMA FollowedInHistory ==
  ASSUME NEW s \in Seq(Techniques), NEW n \in Nat \ {0}, NEW prev, NEW curr, NEW t
  PROVE  Cardinality(Followed(LastN(s, n), prev, curr, t)) <= Cardinality(Followed(s, prev, curr, t))
<1>. DEFINE c == LastN(s, n)
            k == Dropped(s, n)
            A == Followed(c, prev, curr, t)
            B == Followed(s, prev, curr, t)
            f == [i \in A |-> i + k]
<1>1. /\ k \in 0..Len(s) /\ c \in Seq(Techniques) /\ Len(c) = Len(s) - k
      /\ \A i \in 1..(Len(s) - k) : c[i] = s[i + k]
  BY LastNElements
<1>. HIDE DEF c, k
<1>2. A \subseteq 1..(Len(c) - 2) /\ B \subseteq 1..(Len(s) - 2)
  BY DEF Followed, Pairs
<1>3. ASSUME NEW i \in A  PROVE f[i] \in B
  <2>1. i \in 1..(Len(c) - 2) /\ c[i] = prev /\ c[i + 1] = curr /\ c[i + 2] = t
    BY DEF Followed, Pairs
  <2>2. /\ i \in 1..(Len(s) - k) /\ i + 1 \in 1..(Len(s) - k) /\ i + 2 \in 1..(Len(s) - k)
        /\ i + k \in 1..(Len(s) - 2)
    BY <1>1, <2>1
  <2>3. (i + 1) + k = (i + k) + 1 /\ (i + 2) + k = (i + k) + 2
    BY <1>1, <2>1
  <2>4. s[i + k] = prev /\ s[(i + k) + 1] = curr /\ s[(i + k) + 2] = t
    BY <1>1, <2>1, <2>2, <2>3
  <2>. QED  BY <2>2, <2>4 DEF Followed, Pairs
<1>4. f \in Injection(A, B)
  <2>1. f \in [A -> B]  BY <1>3
  <2>2. ASSUME NEW i \in A, NEW j \in A, f[i] = f[j]  PROVE i = j
    <3>1. i \in Int /\ j \in Int /\ k \in Int  BY <1>1, <1>2
    <3>2. i + k = j + k  BY <2>2
    <3>. QED  BY <3>1, <3>2
  <2>. HIDE DEF f
  <2>. QED  BY <2>1, <2>2 DEF Injection, IsInjective
<1>5. IsFiniteSet(B)
  <2>1. Len(s) - 2 \in Int  OBVIOUS
  <2>2. IsFiniteSet(1..(Len(s) - 2))  BY <2>1, FS_Interval
  <2>. QED  BY <1>2, <2>2, FS_Subset
<1>6. Cardinality(A) <= Cardinality(B)
  BY <1>4, <1>5, FS_Injection
<1>. QED  BY <1>6 DEF c

(* What a confirmed attack leaves of the chain, and where a prediction of  *)
(* age 0 comes from.                                                       *)
LEMMA AfterTeaches ==
  ASSUME NEW p \in Profile, Sized(p), PendingOK(p), NEW o \in Observations
  PROVE  LET q == After(p, o)
         IN /\ q.chain = LastN(p.chain \o o.techs, ChainCap)
            /\ \A x \in q.pending : x.age = 0 => x.technique \in Candidates(p, o)
<1>. DEFINE m == Merge(p, o)
            s == Settle(m, o)
            C == Candidates(p, o)
            i == Issue(s, C)
            e == Engage(i, o)
            q == After(p, o)
<1>1. /\ m \in Profile /\ Sized(m) /\ m.alerts = p.alerts + 1 /\ m.pending = p.pending
  BY MergeType
<1>2. m.chain = LastN(p.chain \o o.techs, ChainCap)
  BY DEF Merge, Profile
<1>3. IsFiniteSet(m.pending)
  BY <1>1 DEF PendingOK
<1>4. s \in Profile /\ s.chain = m.chain /\ s.alerts = m.alerts /\ s.seen = m.seen
  BY <1>1, <1>3, SettleType
<1>5. PendingOK(s) /\ \A x \in s.pending : x.age > 0
  BY <1>1, SettleOK
<1>6. C \in SUBSET Techniques /\ s.alerts > 0
  BY <1>1, <1>4, PredictedTechniques DEF Profile
<1>7. i \in Profile /\ i.chain = s.chain /\ i.seen = s.seen
  BY <1>4, <1>5, <1>6, IssueOK
<1>8. \A x \in i.pending : x \in s.pending \/ x.technique \in C
  <2>. DEFINE D == C \ {x.technique : x \in s.pending}
              M == {Prediction(s, t) : t \in D}
              P == s.pending \cup M
  <2>1. i = [s EXCEPT !.pending = P]
    BY DEF Issue
  <2>2. \A t \in D : Prediction(s, t).technique = t
    BY DEF Prediction
  <2>. HIDE DEF P
  <2>3. i.pending = P
    BY <1>4, <2>1 DEF Profile
  <2>. QED  BY <2>2, <2>3 DEF P
<1>. HIDE DEF m, s, i
<1>9. Sized(i)
  BY <1>1, <1>4, <1>7 DEF Sized
<1>10. e \in Profile /\ e.chain = i.chain /\ e.pending = i.pending
  BY <1>7, <1>9, EngageShape
<1>11. q = Sign(e)
  BY DEF After, e, i, s, m
<1>. HIDE DEF e, q
<1>12. q.chain = e.chain /\ q.pending = e.pending
  BY <1>10, <1>11, SignOK
<1>13. ASSUME NEW x \in s.pending  PROVE x.age # 0
  <2>1. x.age > 0 /\ x.age \in Nat
    BY <1>4, <1>5 DEF Profile, Predictions
  <2>. QED  BY <2>1
<1>14. \A x \in q.pending : x.age = 0 => x.technique \in C
  BY <1>8, <1>10, <1>12, <1>13
<1>. QED  BY <1>2, <1>4, <1>7, <1>10, <1>12, <1>14 DEF q

(* The chain of a profile is the end of its actor's history.               *)
ChainRemembers == \A a \in Actors : profiles[a].chain = LastN(steps[a], ChainCap)

(* How a step may change profiles and histories.                           *)
LEMMA ProfileSteps ==
  ASSUME Inv, [Next]_vars
  PROVE  \/ UNCHANGED <<profiles, steps>>
         \/ /\ obs \in Observations /\ obs.actor \in Actors
            /\ profiles' = [profiles EXCEPT ![obs.actor] = After(profiles[obs.actor], obs)]
            /\ steps' = [steps EXCEPT ![obs.actor] = @ \o obs.techs]
         \/ /\ obs \in Observations /\ obs.actor \in Actors /\ obs.playbook # NoPlaybook
            /\ profiles' = [profiles EXCEPT ![obs.actor] = Scored(profiles[obs.actor], obs)]
            /\ UNCHANGED steps
<1>1. CASE Accumulate
  <2>1. obs.actor # NoActor
    BY <1>1 DEF Accumulate, Confirmed
  <2>2. /\ profiles' = [profiles EXCEPT ![obs.actor] = After(profiles[obs.actor], obs)]
        /\ steps' = [steps EXCEPT ![obs.actor] = @ \o obs.techs]
    BY <1>1 DEF Accumulate
  <2>. QED  BY <2>1, <2>2, RealObservation
<1>2. CASE SubmitPlaybook /\ Scorable(obs)
             /\ profiles' = [profiles EXCEPT ![obs.actor] = Scored(@, obs)]
  <2>1. obs \in Observations /\ obs.actor \in Actors /\ obs.playbook # NoPlaybook
    BY <1>2, RealObservation DEF Scorable
  <2>. QED  BY <1>2, <2>1 DEF SubmitPlaybook
<1>3. UNCHANGED <<profiles, steps>> \/ Accumulate
      \/ (SubmitPlaybook /\ Scorable(obs)
            /\ profiles' = [profiles EXCEPT ![obs.actor] = Scored(@, obs)])
  BY DEF Next, vars, EmptyPoll, Poll, SubmitActor, SubmitPlaybook, Reject, Unreadable,
         Unwritable, Fails
<1>. QED  BY <1>1, <1>2, <1>3

LEMMA ChainStep ==
  ASSUME Inv, ChainRemembers, [Next]_vars
  PROVE  ChainRemembers'
<1>. DEFINE a == obs.actor
<1>1. CASE UNCHANGED <<profiles, steps>>
  BY <1>1 DEF ChainRemembers
<1>2. CASE /\ obs \in Observations /\ a \in Actors
           /\ profiles' = [profiles EXCEPT ![a] = After(profiles[a], obs)]
           /\ steps' = [steps EXCEPT ![a] = @ \o obs.techs]
  <2>1. /\ profiles[a] \in Profile /\ Sized(profiles[a]) /\ PendingOK(profiles[a])
        /\ steps[a] \in Seq(Techniques) /\ obs.techs \in Seq(Techniques)
    BY <1>2, ObservationsAssumption DEF Inv, TypeOK, Sized
  <2>. DEFINE q == After(profiles[a], obs)
  <2>2. q.chain = LastN(profiles[a].chain \o obs.techs, ChainCap)
    BY <1>2, <2>1, AfterTeaches
  <2>3. profiles[a].chain = LastN(steps[a], ChainCap)
    BY <1>2 DEF ChainRemembers
  <2>4. q.chain = LastN(steps[a] \o obs.techs, ChainCap)
    BY <2>1, <2>2, <2>3, LastNTwice, CapsAssumption
  <2>. HIDE DEF q
  <2>5. profiles'[a] = q /\ steps'[a] = steps[a] \o obs.techs
    BY <1>2 DEF Inv, TypeOK, q
  <2>6. \A b \in Actors \ {a} : profiles'[b] = profiles[b] /\ steps'[b] = steps[b]
    BY <1>2 DEF Inv, TypeOK
  <2>. QED  BY <2>4, <2>5, <2>6 DEF ChainRemembers
<1>3. CASE /\ obs \in Observations /\ a \in Actors /\ obs.playbook # NoPlaybook
           /\ profiles' = [profiles EXCEPT ![a] = Scored(profiles[a], obs)]
           /\ UNCHANGED steps
  <2>1. profiles[a] \in Profile
    BY <1>3 DEF Inv, TypeOK
  <2>2. Scored(profiles[a], obs).chain = profiles[a].chain
    BY <1>3, <2>1, ScoredOK
  <2>3. \A b \in Actors : profiles'[b].chain = profiles[b].chain
    BY <1>3, <2>2 DEF Inv, TypeOK
  <2>. QED  BY <1>3, <2>3 DEF ChainRemembers
<1>. QED  BY <1>1, <1>2, <1>3, ProfileSteps

LEMMA ChainInvariance == Spec => []ChainRemembers
<1>1. Init => ChainRemembers
  BY CapsAssumption DEF Init, ChainRemembers, Fresh, LastN
<1>2. Inv /\ ChainRemembers /\ [Next]_vars => ChainRemembers'
  BY ChainStep
<1>. QED  BY <1>1, <1>2, Invariance, PTL DEF Spec

LEMMA PredictedStep ==
  ASSUME Inv, ChainRemembers, [Next]_vars, NEW a \in Actors,
         profiles'[a].alerts > profiles[a].alerts, Len(obs.techs) = 1,
         NEW x \in profiles'[a].pending, x.age = 0
  PROVE  /\ steps[a] # <<>>
         /\ Cardinality(Followed(steps[a], steps[a][Len(steps[a])], obs.techs[1], x.technique))
              >= MinSupport
<1>. DEFINE p == profiles[a]
            h == steps[a]
            c == p.chain
<1>1. /\ p \in Profile /\ Sized(p) /\ PendingOK(p) /\ h \in Seq(Techniques) /\ p.alerts \in Nat
      /\ c = LastN(h, ChainCap)
  BY DEF Inv, TypeOK, Sized, Profile, ChainRemembers
<1>2. ~(p.alerts > p.alerts)
  BY <1>1
<1>3. obs.actor = a /\ obs \in Observations /\ profiles'[a] = After(p, obs)
  <2>1. CASE UNCHANGED <<profiles, steps>>
    BY <1>2, <2>1
  <2>2. CASE /\ obs \in Observations /\ obs.actor \in Actors
             /\ profiles' = [profiles EXCEPT ![obs.actor] = After(profiles[obs.actor], obs)]
    <3>1. obs.actor # a => profiles'[a] = p
      BY <2>2 DEF Inv, TypeOK
    <3>2. obs.actor = a
      BY <1>2, <3>1
    <3>. QED  BY <2>2, <3>2 DEF Inv, TypeOK
  <2>3. CASE /\ obs \in Observations /\ obs.actor \in Actors /\ obs.playbook # NoPlaybook
             /\ profiles' = [profiles EXCEPT ![obs.actor] = Scored(profiles[obs.actor], obs)]
    <3>1. Scored(profiles[obs.actor], obs).alerts = profiles[obs.actor].alerts
      BY <2>3, ScoredOK DEF Inv, TypeOK
    <3>2. profiles'[a].alerts = p.alerts
      BY <2>3, <3>1 DEF Inv, TypeOK
    <3>. QED  BY <1>2, <3>2
  <2>. QED  BY <2>1, <2>2, <2>3, ProfileSteps
<1>4. x.technique \in Candidates(p, obs)
  BY <1>1, <1>3, AfterTeaches
<1>. DEFINE curr == obs.techs[1]
            prev == c[Len(c)]
            t == x.technique
<1>5. /\ ~(Len(c) < 3) /\ t \in Techniques
      /\ Cardinality(Followed(c, prev, curr, t)) >= MinSupport
  <2>1. t \in Predict(c, curr)
    BY <1>4 DEF Candidates
  <2>. QED  BY <2>1 DEF Predict
<1>6. h # <<>> /\ prev = h[Len(h)]
  <2>. DEFINE k == Dropped(h, ChainCap)
  <2>. HIDE DEF c, h
  <2>1. /\ k \in 0..Len(h) /\ Len(c) = Len(h) - k
        /\ \A i \in 1..(Len(h) - k) : c[i] = h[i + k]
    <3>1. ChainCap \in Nat \ {0} /\ h \in Seq(Techniques)
      BY <1>1, CapsAssumption
    <3>2. /\ k \in 0..Len(h) /\ Len(LastN(h, ChainCap)) = Len(h) - k
          /\ \A i \in 1..(Len(h) - k) : LastN(h, ChainCap)[i] = h[i + k]
      BY <3>1, LastNElements
    <3>. QED  BY <1>1, <3>2
  <2>. HIDE DEF k
  <2>2. Len(h) \in Nat  BY <1>1
  <2>3. Len(h) >= 3 /\ Len(c) \in 1..(Len(h) - k) /\ Len(c) + k = Len(h)
    BY <1>5, <2>1, <2>2
  <2>4. c[Len(c)] = h[Len(h)]  BY <2>1, <2>3
  <2>5. h # <<>>  BY <2>2, <2>3
  <2>. QED  BY <2>4, <2>5
<1>7. Cardinality(Followed(c, prev, curr, t)) <= Cardinality(Followed(h, prev, curr, t))
  BY <1>1, FollowedInHistory, CapsAssumption
<1>8. /\ Cardinality(Followed(c, prev, curr, t)) \in Nat
      /\ Cardinality(Followed(h, prev, curr, t)) \in Nat
  <2>1. ASSUME NEW s \in Seq(Techniques)
        PROVE  Cardinality(Followed(s, prev, curr, t)) \in Nat
    <3>1. Len(s) - 2 \in Int  OBVIOUS
    <3>2. IsFiniteSet(1..(Len(s) - 2))  BY <3>1, FS_Interval
    <3>3. Followed(s, prev, curr, t) \subseteq 1..(Len(s) - 2)  BY DEF Followed, Pairs
    <3>. QED  BY <3>2, <3>3, FS_Subset, FS_CardinalityType
  <2>2. c \in Seq(Techniques)  BY <1>1 DEF Profile
  <2>. QED  BY <1>1, <2>1, <2>2
<1>9. Cardinality(Followed(h, prev, curr, t)) >= MinSupport
  BY <1>5, <1>7, <1>8, CapsAssumption
<1>. QED  BY <1>6, <1>9

(* A technique is predicted only on the evidence of MinSupport precedents  *)
(* in the whole history of the actor, though the code looks at a window    *)
(* that forgets: for every cap, and whichever calls have failed.           *)
THEOREM PredictionsGrounded == Spec => PredictedFromLastSteps
<1>1. Inv /\ ChainRemembers /\ [Next]_vars =>
        \/ UNCHANGED vars
        \/ \A a \in Actors :
             profiles'[a].alerts > profiles[a].alerts /\ Len(obs.techs) = 1 =>
               \A x \in profiles'[a].pending :
                 x.age = 0 =>
                   /\ steps[a] # <<>>
                   /\ Cardinality(Followed(steps[a], steps[a][Len(steps[a])], obs.techs[1],
                                           x.technique)) >= MinSupport
  BY PredictedStep
<1>. QED  BY Invariance, ChainInvariance, <1>1, PTL DEF Spec, PredictedFromLastSteps
=============================================================================
