------------------------- MODULE IncidentCaseProofs -------------------------
(***************************************************************************)
(* What holds of the incident cases, and of the reports made from them,    *)
(* for every set of actors and alerts and for every cap and policy; and    *)
(* what of a diamond a partner is given.                                   *)
(***************************************************************************)
EXTENDS IntrusionReport, PartnerRelease, FiniteSetTheorems, WellFoundedInduction, TLAPS

-----------------------------------------------------------------------------
(* The pieces of a case. *)

(* Larger picks one of two naturals. *)
LEMMA LargerType ==
  ASSUME NEW m \in Nat, NEW n \in Nat
  PROVE  /\ Larger(m, n) \in Nat
         /\ Larger(m, n) >= m
         /\ Larger(m, n) >= n
BY DEF Larger

(* The sliding window of a sequence of alert ids is one. *)
LEMMA AddMemberType ==
  ASSUME NEW m \in Seq(AlertIds), NEW id \in AlertIds \cup {NoId}
  PROVE  AddMember(id, m) \in Seq(AlertIds)
<1>1. CASE IsNew(id, m)
  <2>1. id \in AlertIds
    BY <1>1 DEF IsNew
  <2>2. Append(m, id) \in Seq(AlertIds)
    BY <2>1
  <2>3. \A s \in Seq(AlertIds) : Newest(s) \in Seq(AlertIds)
    BY CapsAssumption DEF Newest
  <2>. QED  BY <1>1, <2>2, <2>3 DEF AddMember
<1>2. CASE ~IsNew(id, m)
  BY <1>2 DEF AddMember
<1>. QED  BY <1>1, <1>2

(* The missing members of a sequence of alert ids are one. *)
LEMMA MissingType ==
  ASSUME NEW m \in Seq(AlertIds), NEW n \in Seq(AlertIds),
         NEW t \in Missing(m, n)
  PROVE  /\ t \in Seq(AlertIds)
         /\ Ids(t) = Ids(n) \ Ids(m)
<1>1. PICK j \in 0..Len(n) : t \in [1..j -> Ids(n) \ Ids(m)]
  BY DEF Missing
<1>2. j \in Nat
  BY <1>1
<1>3. Ids(n) \ Ids(m) \subseteq AlertIds
  BY DEF Ids
<1>. QED  BY <1>1, <1>2, <1>3 DEF Missing

(* Either table yields a category. *)
LEMMA CatType ==
  /\ \A n \in Nat : ProvisionalCat(n) \in Cats
  /\ \A o \in Observation, n \in Nat, d \in BOOLEAN :
       AuthoritativeCat(o, n, d) \in Cats
BY DEF ProvisionalCat, AuthoritativeCat, Cats, Observation

(* An observed alert that binds to a case binds to a key of the store. *)
LEMMA BindableKey ==
  ASSUME NEW a \in Alert, Bindable(a)
  PROVE  KeyOf(a) \in CaseKeys
BY KeysAssumption DEF Bindable, KeyOf, Alert, CaseKeys

(* The case a handler starts from is a case. *)
LEMMA StoredType ==
  ASSUME TypeOK, NEW k \in CaseKeys
  PROVE  Stored(k) \in Case
<1>1. FreshCase \in Case
  BY CapsAssumption DEF FreshCase, Case, States, Early, Cats
<1>. QED  BY <1>1 DEF Stored, Open, TypeOK

(* Folding an alert into a case yields a case. *)
LEMMA ReportedType ==
  ASSUME NEW c \in Case, NEW a \in Alert
  PROVE  Reported(c, a) \in Case
<1>1. a.id \in AlertIds \cup {NoId} /\ a.stage \in Nat
  BY DEF Alert
<1>2. Larger(c.stage, a.stage) \in Nat
  BY <1>1, LargerType DEF Case
<1>3. AddMember(a.id, c.members) \in Seq(AlertIds)
  BY <1>1, AddMemberType DEF Case
<1>4. ProvisionalCat(Larger(c.stage, a.stage)) \in Cats
  BY <1>2, CatType
<1>5. ReportEdge(c.state) \in States
  BY DEF ReportEdge, Case, States, Early
<1>. QED  BY <1>2, <1>3, <1>4, <1>5 DEF Reported, Case

(* Absorbing the fingerprint case changes members, state and stage only,   *)
(* and does not take an early case out of its early states unless the      *)
(* absorbed one was past them.                                             *)
LEMMA ResolvedType ==
  ASSUME TypeOK, NEW a \in Alert, Bindable(a), NEW c \in Resolved(a)
  PROVE  /\ c \in Case
         /\ c.provisional = Stored(KeyOf(a)).provisional
         /\ c.reopens = Stored(KeyOf(a)).reopens
         /\ c.cat = Stored(KeyOf(a)).cat
         /\ \/ c.state = Stored(KeyOf(a)).state
            \/ Absorbs(a) /\ c.state = Later(Stored(KeyOf(a)).state,
                                             cases[a.fp].state)
<1> DEFINE s == Stored(KeyOf(a))
           f == cases[a.fp]
<1>1. s \in Case
  BY StoredType, BindableKey
<1>2. CASE Absorbs(a)
  <2>1. f \in Case
    BY <1>2 DEF Absorbs, Open, TypeOK
  <2>2. PICK t \in Missing(s.members, f.members) :
             c = [s EXCEPT !.members = s.members \o t,
                           !.state   = Later(s.state, f.state),
                           !.stage   = Larger(s.stage, f.stage)]
    BY <1>2 DEF Resolved
  <2>3. s.members \o t \in Seq(AlertIds)
    <3>1. s.members \in Seq(AlertIds) /\ f.members \in Seq(AlertIds)
      BY <1>1, <2>1 DEF Case
    <3>. QED  BY <3>1, MissingType
  <2>4. Later(s.state, f.state) \in States
    BY <1>1, <2>1 DEF Later, Case
  <2>5. Larger(s.stage, f.stage) \in Nat
    BY <1>1, <2>1, LargerType DEF Case
  <2>6. c \in Case
    <3> HIDE DEF s, f
    <3>. QED  BY <1>1, <2>2, <2>3, <2>4, <2>5 DEF Case
  <2>7. /\ c.provisional = s.provisional
        /\ c.reopens = s.reopens
        /\ c.cat = s.cat
        /\ c.state = Later(s.state, f.state)
    <3> HIDE DEF s, f
    <3>. QED  BY <1>1, <2>2 DEF Case
  <2>. QED  BY <1>2, <2>6, <2>7
<1>3. CASE ~Absorbs(a)
  BY <1>1, <1>3 DEF Resolved
<1>. QED  BY <1>2, <1>3

(* The next stage of a case is a stage. *)
LEMMA OutcomeTargetType ==
  ASSUME NEW s \in States, NEW o \in Observation
  PROVE  OutcomeTarget(s, o) \in States
BY DEF OutcomeTarget, States, Early

(* Advancing a case yields a case. *)
LEMMA AdvancedType ==
  ASSUME NEW c \in Case, NEW a \in Alert, NEW o \in Observation
  PROVE  Advanced(c, a, o) \in Case
<1> DEFINE stage == Larger(c.stage, a.stage)
           prov  == c.provisional /\ o.verdict # "CONFIRMED_TP"
           adv   == Advanced(c, a, o)
<1>1. /\ a.id \in AlertIds \cup {NoId}
      /\ a.stage \in Nat
      /\ a.dos \in BOOLEAN
  BY DEF Alert
<1>2. stage \in Nat
  BY <1>1, LargerType DEF Case
<1>3. AddMember(a.id, c.members) \in Seq(AlertIds)
  BY <1>1, AddMemberType DEF Case
<1>4. AuthoritativeCat(o, stage, a.dos) \in Cats /\ c.cat \in Cats
  <2> HIDE DEF stage
  <2>. QED  BY <1>1, <1>2, CatType DEF Case
<1>5. OutcomeTarget(c.state, o) \in States /\ "CONTAINMENT" \in States
  BY OutcomeTargetType DEF Case, States
<1>6. (IF Reopens(c, a, o) THEN c.reopens + 1 ELSE c.reopens) \in 0..MaxReopen
  BY CapsAssumption DEF Case, Reopens
<1>7. prov \in BOOLEAN
  OBVIOUS
<1>. QED
  BY <1>2, <1>3, <1>4, <1>5, <1>6, <1>7 DEF Advanced, Case

(* After a save every key holds nothing, what it held, or the saved case;  *)
(* the recency order still relates keys.                                   *)
LEMMA SaveFrame ==
  ASSUME NEW k \in CaseKeys, NEW c, NEW Gone, NEW r,
         Save(k, c, Gone, r),
         r \subseteq CaseKeys \X CaseKeys
  PROVE  /\ cases' = [l \in CaseKeys |-> cases'[l]]
         /\ \A l \in CaseKeys : cases'[l] = NoCase \/ cases'[l] = cases[l]
                                  \/ (l = k /\ cases'[l] = c)
         /\ cases'[k] \in {NoCase, c}
         /\ older' \subseteq CaseKeys \X CaseKeys
<1> DEFINE kept    == (Open \ Gone) \cup {k}
           recency == Touch(Forget(r, Gone), k, kept)
           evicted == IF Cardinality(kept) > StoreCap
                      THEN {v \in kept : \A l \in kept \ {v} : <<v, l>> \in recency}
                      ELSE {}
<1>1. cases' = [l \in CaseKeys |->
                  IF l \in (Open \cup {k}) \ (Gone \cup evicted)
                  THEN IF l = k THEN c ELSE cases[l]
                  ELSE NoCase]
  BY DEF Save
<1>2. older' = Forget(recency, evicted)
  BY DEF Save
<1>3. recency \subseteq CaseKeys \X CaseKeys
  <2>1. kept \subseteq CaseKeys
    BY DEF Open
  <2> HIDE DEF kept
  <2>. QED  BY <2>1 DEF Touch, Forget
<1>4. older' \subseteq CaseKeys \X CaseKeys
  <2> HIDE DEF recency, evicted
  <2>. QED  BY <1>2, <1>3 DEF Forget
<1> HIDE DEF evicted
<1>. QED  BY <1>1, <1>4

(* Looking cases up keeps the recency order a relation on keys. *)
LEMMA LoadedType ==
  ASSUME NEW r \in SUBSET (CaseKeys \X CaseKeys), NEW k
  PROVE  Loaded(r, k) \in SUBSET (CaseKeys \X CaseKeys)
BY DEF Loaded, Touch, Forget, Open

(* An observed alert names an actor. *)
LEMMA SubmitKey ==
  ASSUME NEW a \in Alert, NEW o \in Observation, SubmitCase(a, o)
  PROVE  KeyOf(a) \in Actors
BY KeysAssumption
   DEF SubmitCase, Bindable, KeyOf, Alert, CaseKeys

-----------------------------------------------------------------------------
(* Type correctness: every variable keeps its type, reopens included.      *)

(* A report changes one case, to the stored one with the alert folded in,  *)
(* and may evict others.                                                   *)
LEMMA ReportStep ==
  ASSUME TypeOK, NEW a \in Alert, ObserveAlert(a)
  PROVE  LET k == KeyOf(a)
             c == Reported(Stored(k), a)
         IN  /\ k \in CaseKeys
             /\ Stored(k) \in Case
             /\ c \in Case
             /\ \A l \in CaseKeys : cases'[l] = NoCase \/ cases'[l] = cases[l]
                                      \/ (l = k /\ cases'[l] = c)
             /\ cases' = [l \in CaseKeys |-> cases'[l]]
             /\ older' \subseteq CaseKeys \X CaseKeys
             /\ cisaCounted' = cisaCounted
<1> DEFINE k == KeyOf(a)
           c == Reported(Stored(k), a)
<1>1. k \in CaseKeys
  BY BindableKey DEF ObserveAlert
<1>2. Stored(k) \in Case
  BY <1>1, StoredType
<1>3. c \in Case
  BY <1>2, ReportedType
<1>4. Save(k, c, {}, Loaded(older, k)) /\ cisaCounted' = cisaCounted
  BY DEF ObserveAlert
<1>5. Loaded(older, k) \subseteq CaseKeys \X CaseKeys
  BY LoadedType DEF TypeOK
<1> HIDE DEF k, c
<1>6. /\ cases' = [l \in CaseKeys |-> cases'[l]]
      /\ \A l \in CaseKeys : cases'[l] = NoCase \/ cases'[l] = cases[l]
                               \/ (l = k /\ cases'[l] = c)
      /\ older' \subseteq CaseKeys \X CaseKeys
  BY <1>1, <1>4, <1>5, SaveFrame
<1>. QED  BY <1>1, <1>2, <1>3, <1>4, <1>6 DEF k, c

(* A trusted observation changes one actor's case, to a resolved one       *)
(* advanced by the observation, and may fold or evict others.              *)
LEMMA SubmitStep ==
  ASSUME TypeOK, NEW a \in Alert, NEW o \in Observation, SubmitCase(a, o)
  PROVE  \E c \in Resolved(a) :
           LET k   == KeyOf(a)
               adv == Advanced(c, a, o)
           IN  /\ k \in Actors
               /\ c \in Case
               /\ adv \in Case
               /\ \A l \in CaseKeys : cases'[l] = NoCase \/ cases'[l] = cases[l]
                                        \/ (l = k /\ cases'[l] = adv)
               /\ cases' = [l \in CaseKeys |-> cases'[l]]
               /\ older' \subseteq CaseKeys \X CaseKeys
               /\ cisaCounted' = IF CisaReportable(adv) THEN cisaCounted \cup {k}
                                                        ELSE cisaCounted
<1> DEFINE k == KeyOf(a)
           G == IF Absorbs(a) THEN {a.fp} ELSE {}
<1>1. PICK c \in Resolved(a) :
        /\ Save(k, Advanced(c, a, o), G, OutcomeLoads(a))
        /\ cisaCounted' = IF CisaReportable(Advanced(c, a, o))
                          THEN cisaCounted \cup {k} ELSE cisaCounted
  BY DEF SubmitCase
<1> DEFINE adv == Advanced(c, a, o)
<1>2. k \in Actors /\ k \in CaseKeys
  BY SubmitKey DEF CaseKeys
<1>3. Bindable(a)
  BY DEF SubmitCase
<1>4. c \in Case
  BY <1>1, <1>3, ResolvedType
<1>5. adv \in Case
  BY <1>4, AdvancedType
<1>6. OutcomeLoads(a) \subseteq CaseKeys \X CaseKeys
  BY LoadedType DEF OutcomeLoads, TypeOK
<1> HIDE DEF k, G, adv
<1>7. /\ cases' = [l \in CaseKeys |-> cases'[l]]
      /\ \A l \in CaseKeys : cases'[l] = NoCase \/ cases'[l] = cases[l]
                               \/ (l = k /\ cases'[l] = adv)
      /\ older' \subseteq CaseKeys \X CaseKeys
  BY <1>1, <1>2, <1>6, SaveFrame DEF adv
<1>. QED  BY <1>1, <1>2, <1>4, <1>5, <1>7 DEF k, adv

(* The steps, whatever the alerts that occur: an alert may be flagged on   *)
(* its way to the case manager (IntrusionReport).                          *)
AnyNext ==
  \/ \E a \in Alert : ObserveAlert(a)
  \/ \E a \in Alert, o \in Observation : SubmitCase(a, o)

LEMMA NextIsAny == [Next]_vars => [AnyNext]_vars
BY AlertsAssumption DEF Next, AnyNext

(* TypeOK holds at the start. *)
LEMMA InitTypeOK == Init => TypeOK
BY DEF Init, TypeOK

(* Every step keeps TypeOK. *)
LEMMA NextTypeOK == TypeOK /\ [AnyNext]_vars => TypeOK'
<1> SUFFICES ASSUME TypeOK, [AnyNext]_vars PROVE TypeOK'
  OBVIOUS
<1>1. ASSUME NEW a \in Alert, ObserveAlert(a) PROVE TypeOK'
  <2> DEFINE k == KeyOf(a)
             c == Reported(Stored(k), a)
  <2>1. /\ c \in Case
        /\ \A l \in CaseKeys : cases'[l] = NoCase \/ cases'[l] = cases[l]
                                 \/ (l = k /\ cases'[l] = c)
        /\ cases' = [l \in CaseKeys |-> cases'[l]]
        /\ older' \subseteq CaseKeys \X CaseKeys
        /\ cisaCounted' = cisaCounted
    BY <1>1, ReportStep
  <2> HIDE DEF k, c
  <2>. QED  BY <2>1 DEF TypeOK
<1>2. ASSUME NEW a \in Alert, NEW o \in Observation, SubmitCase(a, o)
      PROVE TypeOK'
  <2> DEFINE k == KeyOf(a)
  <2>1. PICK c \in Resolved(a) :
          /\ k \in Actors
          /\ Advanced(c, a, o) \in Case
          /\ \A l \in CaseKeys : cases'[l] = NoCase \/ cases'[l] = cases[l]
                                   \/ (l = k /\ cases'[l] = Advanced(c, a, o))
          /\ cases' = [l \in CaseKeys |-> cases'[l]]
          /\ older' \subseteq CaseKeys \X CaseKeys
          /\ cisaCounted' \subseteq cisaCounted \cup {k}
    BY <1>2, SubmitStep
  <2> HIDE DEF k
  <2>. QED  BY <2>1 DEF TypeOK, CaseKeys
<1>3. CASE UNCHANGED vars
  BY <1>3 DEF vars, TypeOK
<1>. QED  BY <1>1, <1>2, <1>3 DEF AnyNext

(* The store, its recency order and the set of counted cases are always    *)
(* well typed; in particular no case is reopened more than MaxReopen times *)
(* (core/incident.py:402).                                                 *)
THEOREM TypeCorrect == Spec => []TypeOK
BY InitTypeOK, NextTypeOK, NextIsAny, PTL DEF Spec

-----------------------------------------------------------------------------
(* The trust boundary.  ContainedIffConfirmed is not inductive alone: an   *)
(* absorbed fingerprint case hands its state, not its confirmation, to the *)
(* actor's case, so it must itself be known to be early.                   *)

TrustInv ==
  /\ TypeOK
  /\ ContainedIffConfirmed
  /\ FingerprintStaysProvisional
  /\ ReportableIsCounted

(* What the first two say of the case c under the key k. *)
Vetted(k, c) ==
  /\ c.provisional <=> c.state \in Early
  /\ k \notin Actors => c.provisional /\ c.reopens = 0

(* The case a handler starts from is vetted. *)
LEMMA StoredVetted ==
  ASSUME TrustInv, NEW k \in CaseKeys
  PROVE  Vetted(k, Stored(k))
BY DEF TrustInv, ContainedIffConfirmed, FingerprintStaysProvisional, Vetted,
       Stored, Open, FreshCase, Early

(* A report leaves a case on its side of the boundary, with a category     *)
(* that is never CISA reportable.                                          *)
LEMMA ReportedVetted ==
  ASSUME NEW k, NEW c \in Case, Vetted(k, c), NEW a \in Alert
  PROVE  Vetted(k, Reported(c, a)) /\ ~CisaReportable(Reported(c, a))
<1> DEFINE r == Reported(c, a)
<1>1. /\ r.provisional = c.provisional
      /\ r.reopens = c.reopens
      /\ r.state = ReportEdge(c.state)
      /\ r.cat \in {"CAT6", "CAT8"}
  BY DEF Reported, Case, ProvisionalCat
<1>2. r.state \in Early <=> c.state \in Early
  BY <1>1 DEF ReportEdge, Early
<1> HIDE DEF r
<1>3. Vetted(k, r)
  BY <1>1, <1>2 DEF Vetted
<1>4. ~CisaReportable(r)
  BY <1>1 DEF CisaReportable
<1>. QED  BY <1>3, <1>4 DEF r

(* Absorbing a fingerprint case, itself early, moves no case across.       *)
LEMMA ResolvedVetted ==
  ASSUME TrustInv, NEW a \in Alert, Bindable(a), KeyOf(a) \in Actors,
         NEW c \in Resolved(a)
  PROVE  c.provisional <=> c.state \in Early
<1> DEFINE s == Stored(KeyOf(a))
           f == cases[a.fp]
<1>1. KeyOf(a) \in CaseKeys
  BY DEF CaseKeys
<1>2. s \in Case /\ (s.provisional <=> s.state \in Early)
  BY <1>1, StoredType, StoredVetted DEF TrustInv, Vetted
<1>3. c.provisional = s.provisional
  BY ResolvedType DEF TrustInv
<1>4. CASE c.state = s.state
  BY <1>2, <1>3, <1>4
<1>5. CASE Absorbs(a) /\ c.state = Later(s.state, f.state)
  <2>1. a.fp \in Open \ Actors
    BY <1>5, KeysAssumption DEF Absorbs, Alert, Open
  <2>2. f.state \in Early
    BY <2>1 DEF TrustInv, ContainedIffConfirmed, FingerprintStaysProvisional
  <2>3. s.state \in States
    BY <1>2 DEF Case
  <2> HIDE DEF s, f
  <2>4. c.state \in Early <=> s.state \in Early
    BY <1>5, <2>2, <2>3 DEF Later, Order, Early, States
  <2>. QED  BY <1>2, <1>3, <2>4
<1>6. c.state = s.state \/ (Absorbs(a) /\ c.state = Later(s.state, f.state))
  BY ResolvedType DEF TrustInv
<1>. QED  BY <1>4, <1>5, <1>6

(* An observation takes a case past ANALYSIS exactly when it confirms it.  *)
LEMMA AdvancedVetted ==
  ASSUME NEW c \in Case, c.provisional <=> c.state \in Early,
         NEW a \in Alert, NEW o \in Observation
  PROVE  Advanced(c, a, o).provisional <=> Advanced(c, a, o).state \in Early
<1> DEFINE d == Advanced(c, a, o)
<1>1. /\ d.provisional = (c.provisional /\ o.verdict # "CONFIRMED_TP")
      /\ d.state = IF Reopens(c, a, o) THEN "CONTAINMENT"
                   ELSE OutcomeTarget(c.state, o)
  BY DEF Advanced
<1>2. c.state \in States /\ c.provisional \in BOOLEAN
  BY DEF Case
<1> SUFFICES d.provisional <=> d.state \in Early
  OBVIOUS
<1> HIDE DEF d
<1>3. CASE Reopens(c, a, o)
  BY <1>1, <1>3 DEF Reopens, Early
<1>4. CASE ~Reopens(c, a, o)
  <2>1. OutcomeTarget(c.state, o) \in Early
          <=> c.state \in Early /\ o.verdict # "CONFIRMED_TP"
    BY <1>2 DEF OutcomeTarget, Early, States
  <2>. QED  BY <1>1, <1>2, <1>4, <2>1
<1>. QED  BY <1>3, <1>4

(* Nothing is stored at the start. *)
LEMMA InitTrust == Init => TrustInv
<1>1. Init => Open = {}
  BY DEF Init, Open
<1>. QED
  BY <1>1, InitTypeOK
     DEF TrustInv, ContainedIffConfirmed, FingerprintStaysProvisional,
         ReportableIsCounted

(* Reports and observations, the only two steps, keep the boundary. *)
LEMMA NextTrust == TrustInv /\ [AnyNext]_vars => TrustInv'
<1> SUFFICES ASSUME TrustInv, [AnyNext]_vars PROVE TrustInv'
  OBVIOUS
<1>0. TypeOK /\ TypeOK'
  BY NextTypeOK DEF TrustInv
<1>1. ASSUME NEW k \in CaseKeys, NEW c \in Case, Vetted(k, c),
             \A l \in CaseKeys : cases'[l] = NoCase \/ cases'[l] = cases[l]
                                    \/ (l = k /\ cases'[l] = c),
             cisaCounted \subseteq cisaCounted',
             CisaReportable(c) => k \in cisaCounted'
      PROVE  TrustInv'
  <2>1. ASSUME NEW l \in Open'
        PROVE  /\ Vetted(l, cases'[l])
               /\ CisaReportable(cases'[l]) => l \in cisaCounted'
    <3>1. l \in CaseKeys /\ cases'[l] # NoCase
      BY <2>1 DEF Open
    <3>2. CASE cases'[l] = cases[l]
      <4>1. l \in Open
        BY <3>1, <3>2 DEF Open
      <4>2. Vetted(l, cases[l]) /\ (CisaReportable(cases[l]) => l \in cisaCounted)
        BY <4>1 DEF TrustInv, ContainedIffConfirmed,
                    FingerprintStaysProvisional, ReportableIsCounted, Vetted
      <4>. QED  BY <1>1, <3>2, <4>2
    <3>3. CASE l = k /\ cases'[l] = c
      BY <1>1, <3>3
    <3>. QED  BY <1>1, <3>1, <3>2, <3>3
  <2>. QED
    BY <1>0, <2>1
       DEF TrustInv, ContainedIffConfirmed, FingerprintStaysProvisional,
           ReportableIsCounted, Vetted
<1>2. ASSUME NEW a \in Alert, ObserveAlert(a) PROVE TrustInv'
  <2> DEFINE k == KeyOf(a)
             c == Reported(Stored(k), a)
  <2>1. /\ k \in CaseKeys
        /\ Stored(k) \in Case
        /\ c \in Case
        /\ \A l \in CaseKeys : cases'[l] = NoCase \/ cases'[l] = cases[l]
                                 \/ (l = k /\ cases'[l] = c)
        /\ cisaCounted' = cisaCounted
    BY <1>0, <1>2, ReportStep
  <2>2. Vetted(k, c) /\ ~CisaReportable(c)
    BY <2>1, StoredVetted, ReportedVetted
  <2> HIDE DEF k, c
  <2>. QED  BY <1>1, <2>1, <2>2
<1>3. ASSUME NEW a \in Alert, NEW o \in Observation, SubmitCase(a, o)
      PROVE TrustInv'
  <2> DEFINE k == KeyOf(a)
  <2>1. PICK c \in Resolved(a) :
          /\ k \in Actors
          /\ c \in Case
          /\ Advanced(c, a, o) \in Case
          /\ \A l \in CaseKeys : cases'[l] = NoCase \/ cases'[l] = cases[l]
                                   \/ (l = k /\ cases'[l] = Advanced(c, a, o))
          /\ cisaCounted' = IF CisaReportable(Advanced(c, a, o))
                            THEN cisaCounted \cup {k} ELSE cisaCounted
    BY <1>0, <1>3, SubmitStep
  <2>2. c.provisional <=> c.state \in Early
    BY <1>3, <2>1, ResolvedVetted DEF SubmitCase
  <2> HIDE DEF k
  <2>3. Vetted(k, Advanced(c, a, o)) /\ k \in CaseKeys
    BY <2>1, <2>2, AdvancedVetted DEF Vetted, CaseKeys
  <2>. QED  BY <1>1, <2>1, <2>3
<1>4. CASE UNCHANGED vars
  BY <1>4, <1>0
     DEF vars, TrustInv, ContainedIffConfirmed, FingerprintStaysProvisional,
         ReportableIsCounted, Open, CisaReportable
<1>. QED  BY <1>2, <1>3, <1>4 DEF AnyNext

(* A case is past ANALYSIS exactly when a trusted CONFIRMED_TP has reached *)
(* it: reports, however many, cannot contain, clear or close an incident   *)
(* (core/incident.py:8-10).                                                *)
THEOREM TrustBoundary == Spec => []ContainedIffConfirmed
<1>1. TrustInv => ContainedIffConfirmed
  BY DEF TrustInv
<1>. QED  BY <1>1, InitTrust, NextTrust, NextIsAny, PTL DEF Spec

(* A case filed under a bare fingerprint is never confirmed and never      *)
(* reopened (core/incident.py:8-11).                                       *)
THEOREM FingerprintsUnconfirmed == Spec => []FingerprintStaysProvisional
<1>1. TrustInv => FingerprintStaysProvisional
  BY DEF TrustInv
<1>. QED  BY <1>1, InitTrust, NextTrust, NextIsAny, PTL DEF Spec

(* No stored case is CISA reportable without having been counted, so the   *)
(* federal reporting counter never lags behind the store                   *)
(* (agents/outcome_probe_agent.py:129-137).                                *)
THEOREM ReportablesCounted == Spec => []ReportableIsCounted
<1>1. TrustInv => ReportableIsCounted
  BY DEF TrustInv
<1>. QED  BY <1>1, InitTrust, NextTrust, NextIsAny, PTL DEF Spec


-----------------------------------------------------------------------------
(* The recency order.  The store forgets one case at a time, and the right *)
(* one, because its order is a strict total order of the open cases and    *)
(* there are never more of them than the cap.                              *)

StrictOrder(r, S) ==
  /\ r \subseteq S \X S
  /\ \A k \in S : <<k, k>> \notin r
  /\ \A k, l \in S : k # l => <<k, l>> \in r \/ <<l, k>> \in r
  /\ \A k, l, m \in S : <<k, l>> \in r /\ <<l, m>> \in r => <<k, m>> \in r

LruInv ==
  /\ StrictOrder(older, Open)
  /\ IsFiniteSet(Open)
  /\ Cardinality(Open) <= StoreCap

(* Deleting cases leaves an order of the others. *)
LEMMA ForgetOrder ==
  ASSUME NEW S, NEW r, StrictOrder(r, S), NEW G
  PROVE  StrictOrder(Forget(r, G), S \ G)
BY DEF StrictOrder, Forget

(* A case that is used comes last, and the others keep their places. *)
LEMMA TouchOrder ==
  ASSUME NEW S, NEW r, StrictOrder(r, S), NEW k
  PROVE  StrictOrder(Touch(r, k, S \cup {k}), S \cup {k})
<1> DEFINE T == S \cup {k}
           t == Touch(r, k, T)
<1>1. \A l, m : <<l, m>> \in t <=> \/ <<l, m>> \in r /\ l # k /\ m # k
                                   \/ m = k /\ l \in S /\ l # k
  BY DEF Touch, Forget
<1>2. \A p \in t : p = <<p[1], p[2]>>
  BY DEF Touch, Forget, StrictOrder
<1> HIDE DEF t
<1>3. t \subseteq T \X T
  BY <1>1, <1>2 DEF StrictOrder
<1>4. \A l \in T : <<l, l>> \notin t
  BY <1>1 DEF StrictOrder
<1>5. \A l, m \in T : l # m => <<l, m>> \in t \/ <<m, l>> \in t
  BY <1>1 DEF StrictOrder
<1>6. \A l, m, n \in T : <<l, m>> \in t /\ <<m, n>> \in t => <<l, n>> \in t
  BY <1>1 DEF StrictOrder
<1>. QED  BY <1>3, <1>4, <1>5, <1>6 DEF StrictOrder, t, T

(* Looking a case up keeps the order. *)
LEMMA LoadedOrder ==
  ASSUME NEW r, StrictOrder(r, Open), NEW k
  PROVE  StrictOrder(Loaded(r, k), Open)
<1>1. CASE k \in Open
  <2>1. Open \cup {k} = Open
    BY <1>1
  <2>2. StrictOrder(Touch(r, k, Open \cup {k}), Open \cup {k})
    BY TouchOrder
  <2>. QED  BY <1>1, <2>1, <2>2 DEF Loaded
<1>2. CASE k \notin Open
  BY <1>2 DEF Loaded
<1>. QED  BY <1>1, <1>2

(* A non-empty set of naturals has a least element. *)
LEMMA LeastNat ==
  ASSUME NEW S \in SUBSET Nat, S # {}
  PROVE  \E i \in S : \A j \in S : i <= j
<1>1. \E i \in S : \A j \in S : <<j, i>> \notin OpToRel(<, Nat)
  BY NatLessThanWellFounded, WFMin
<1>2. \A i, j \in Nat : j < i => <<j, i>> \in OpToRel(<, Nat)
  BY Zenon DEF OpToRel
<1>3. \E i \in S : \A j \in S : ~(j < i)
  BY <1>1, <1>2
<1>. QED  BY <1>3

(* A finite order that is not empty has exactly one first element: the one *)
(* with the fewest elements below it.                                      *)
LEMMA FirstInOrder ==
  ASSUME NEW S, IsFiniteSet(S), S # {}, NEW r, StrictOrder(r, S)
  PROVE  \E v \in S : {u \in S : \A l \in S \ {u} : <<u, l>> \in r} = {v}
<1> DEFINE Below(v) == {l \in S : <<l, v>> \in r}
           Sizes    == {Cardinality(Below(v)) : v \in S}
<1>1. \A v \in S : IsFiniteSet(Below(v)) /\ Cardinality(Below(v)) \in Nat
  <2> SUFFICES ASSUME NEW v \in S
               PROVE  IsFiniteSet(Below(v)) /\ Cardinality(Below(v)) \in Nat
    OBVIOUS
  <2>1. Below(v) \in SUBSET S
    OBVIOUS
  <2> HIDE DEF Below
  <2>. QED  BY <2>1, FS_Subset, FS_CardinalityType
<1>2. Sizes \in SUBSET Nat /\ Sizes # {}
  <2> HIDE DEF Below
  <2>. QED  BY <1>1
<1>3. PICK v \in S : \A w \in S : Cardinality(Below(v)) <= Cardinality(Below(w))
  <2> HIDE DEF Sizes
  <2>1. \E i \in Sizes : \A j \in Sizes : i <= j
    BY <1>2, LeastNat
  <2> HIDE DEF Below
  <2>. QED  BY <2>1 DEF Sizes
<1>4. Below(v) = {}
  <2> SUFFICES ASSUME NEW w \in Below(v) PROVE FALSE
    OBVIOUS
  <2>1. w \in S
    OBVIOUS
  <2>2. Below(w) \in SUBSET Below(v) /\ Below(w) # Below(v)
    BY <2>1 DEF StrictOrder
  <2> HIDE DEF Below
  <2>3. /\ Cardinality(Below(w)) <= Cardinality(Below(v))
        /\ Cardinality(Below(v)) = Cardinality(Below(w)) => Below(v) = Below(w)
    BY <1>1, <2>2, FS_Subset
  <2>. QED  BY <1>1, <1>3, <2>1, <2>2, <2>3
<1>5. \A l \in S \ {v} : <<v, l>> \in r
  BY <1>4 DEF StrictOrder
<1>6. \A u \in S : u # v => <<u, v>> \notin r
  BY <1>4
<1>. QED  BY <1>5, <1>6

(* What a save does to a store in order: the case is stored, the cases in  *)
(* Gone are not, and if nothing is deleted from a full store and the case  *)
(* is new, then the one used least recently goes.                          *)
SaveEffect(k, c, Gone, r) ==
  /\ \A l, m : m # k /\ <<l, m>> \in older' => <<l, m>> \in r
  /\ \E D \in SUBSET Open :
       /\ k \notin D
       /\ cases' = [l \in CaseKeys |->
                      IF l = k THEN c
                      ELSE IF l \in Gone \cup D THEN NoCase ELSE cases[l]]
       /\ \/ D = {}
          \/ /\ Gone = {}
             /\ k \notin Open
             /\ Cardinality(Open) = StoreCap
             /\ Cardinality(Open') = StoreCap
             /\ \E v : D = {v} /\ \A l \in Open \ {v} : <<v, l>> \in r

(* A save has that effect, and leaves a store in order and within its cap. *)
LEMMA SaveShape ==
  ASSUME NEW k \in CaseKeys, NEW c, c # NoCase, NEW r, NEW Gone \in SUBSET Open,
         k \notin Gone, cases = [l \in CaseKeys |-> cases[l]],
         LruInv, StrictOrder(r, Open), Save(k, c, Gone, r)
  PROVE  LruInv' /\ SaveEffect(k, c, Gone, r)
<1> DEFINE kept    == (Open \ Gone) \cup {k}
           recency == Touch(Forget(r, Gone), k, kept)
           first   == {v \in kept : \A l \in kept \ {v} : <<v, l>> \in recency}
           evicted == IF Cardinality(kept) > StoreCap THEN first ELSE {}
<1>1. /\ cases' = [l \in CaseKeys |->
                     IF l \in (Open \cup {k}) \ (Gone \cup evicted)
                     THEN IF l = k THEN c ELSE cases[l]
                     ELSE NoCase]
      /\ older' = Forget(recency, evicted)
  BY DEF Save
<1>2. StrictOrder(recency, kept)
  BY ForgetOrder, TouchOrder
<1>3. /\ IsFiniteSet(Open) /\ Cardinality(Open) \in Nat
      /\ Cardinality(Open) <= StoreCap
  BY FS_CardinalityType DEF LruInv
<1>4. /\ IsFiniteSet(Open \ Gone) /\ Cardinality(Open \ Gone) \in Nat
      /\ Cardinality(Open \ Gone) <= Cardinality(Open)
      /\ Gone # {} => Cardinality(Open \ Gone) < Cardinality(Open)
  <2>1. Open \ Gone \in SUBSET Open /\ (Gone # {} => Open \ Gone # Open)
    OBVIOUS
  <2>2. IsFiniteSet(Open \ Gone) /\ Cardinality(Open \ Gone) \in Nat
    BY <1>3, <2>1, FS_Subset, FS_CardinalityType
  <2>3. /\ Cardinality(Open \ Gone) <= Cardinality(Open)
        /\ Cardinality(Open) = Cardinality(Open \ Gone) => Open = Open \ Gone
    BY <1>3, <2>1, FS_Subset
  <2>. QED  BY <1>3, <2>1, <2>2, <2>3
<1>5. /\ IsFiniteSet(kept)
      /\ Cardinality(kept) = IF k \in Open \ Gone THEN Cardinality(Open \ Gone)
                             ELSE Cardinality(Open \ Gone) + 1
  BY <1>4, FS_AddElement
<1>6. \A l \in kept \ {k} : <<l, k>> \in recency /\ <<k, l>> \notin recency
  BY DEF Touch, Forget
<1>7. \A l, m : m # k /\ <<l, m>> \in recency => <<l, m>> \in r
  BY DEF Touch, Forget
<1>8. k \in kept /\ kept \subseteq CaseKeys /\ kept \ {k} \subseteq Open
  BY DEF Open
<1>9. StoreCap \in Nat /\ StoreCap >= 1
  BY CapsAssumption
<1>10. \A l, m : <<l, m>> \in older' => <<l, m>> \in recency
  <2> HIDE DEF recency, evicted
  <2>. QED  BY <1>1 DEF Forget
<1>11. IsFiniteSet(kept \ evicted) /\ Open' = kept \ evicted
  <2>1. IsFiniteSet(kept \ evicted)
    <3> HIDE DEF kept, evicted
    <3>1. kept \ evicted \in SUBSET kept
      OBVIOUS
    <3>. QED  BY <1>5, <3>1, FS_Subset
  <2>2. Open' = {l \in CaseKeys : cases'[l] # NoCase}
    BY DEF Open
  <2>3. \A l \in CaseKeys : cases'[l] # NoCase <=> l \in kept \ evicted
    <3> HIDE DEF recency, first, evicted
    <3>. QED  BY <1>1 DEF Open
  <2>. QED
    <3> HIDE DEF kept, evicted
    <3>. QED  BY <1>8, <2>1, <2>2, <2>3
<1>12. StrictOrder(older', Open')
  <2> HIDE DEF kept, recency, evicted
  <2>. QED  BY <1>1, <1>2, <1>11, ForgetOrder
<1>13. CASE Cardinality(kept) > StoreCap
  <2>1. Gone = {} /\ k \notin Open /\ Cardinality(Open) = StoreCap
        /\ Cardinality(kept) = StoreCap + 1
    <3> HIDE DEF kept
    <3>. QED  BY <1>3, <1>4, <1>5, <1>9, <1>13
  <2>2. PICK v \in kept : first = {v}
    <3> HIDE DEF kept, recency
    <3>. QED  BY <1>2, <1>5, <1>8, FirstInOrder
  <2>3. evicted = {v} /\ \A l \in kept \ {v} : <<v, l>> \in recency
    <3> HIDE DEF kept, recency
    <3>. QED  BY <1>13, <2>2
  <2>4. kept # {k}
    <3> HIDE DEF kept
    <3>. QED  BY <1>9, <2>1, FS_Singleton
  <2>5. v # k
    <3> HIDE DEF kept, recency, evicted
    <3>. QED  BY <1>6, <2>3, <2>4, <1>8
  <2>6. v \in Open /\ \A l \in Open \ {v} : <<v, l>> \in r
    <3>1. Open \subseteq kept /\ v \in Open
      BY <2>1, <2>5
    <3> HIDE DEF kept, recency, evicted
    <3>. QED  BY <1>7, <2>1, <2>3, <3>1
  <2>7. Cardinality(Open') = StoreCap
    <3> HIDE DEF kept, recency, evicted
    <3>1. Open' = kept \ {v}
      BY <1>11, <2>3
    <3>2. Cardinality(kept \ {v}) = Cardinality(kept) - 1
      BY <1>5, FS_RemoveElement
    <3>3. Cardinality(kept) - 1 = StoreCap
      BY <1>9, <2>1
    <3>. QED  BY <3>1, <3>2, <3>3
  <2>8. cases' = [l \in CaseKeys |->
                    IF l = k THEN c
                    ELSE IF l \in Gone \cup {v} THEN NoCase ELSE cases[l]]
    <3> HIDE DEF kept, recency, evicted
    <3>. QED  BY <1>1, <2>3, <2>5 DEF Open
  <2>. QED
    <3> HIDE DEF kept, recency, evicted
    <3>1. LruInv'
      BY <1>9, <1>11, <1>12, <2>7 DEF LruInv
    <3>. QED  BY <1>7, <1>10, <2>1, <2>5, <2>6, <2>7, <2>8, <3>1 DEF SaveEffect
<1>14. CASE ~(Cardinality(kept) > StoreCap)
  <2>1. evicted = {}
    BY <1>14
  <2>2. Open' = kept
    BY <1>11, <2>1
  <2>3. cases' = [l \in CaseKeys |->
                    IF l = k THEN c
                    ELSE IF l \in Gone \cup {} THEN NoCase ELSE cases[l]]
    <3> HIDE DEF kept, recency, evicted
    <3>. QED  BY <1>1, <2>1 DEF Open
  <2>. QED
    <3>1. Cardinality(kept) \in Nat
      BY <1>5, FS_CardinalityType
    <3> HIDE DEF kept, recency, evicted
    <3>2. LruInv'
      BY <1>5, <1>9, <1>12, <1>14, <2>2, <3>1 DEF LruInv
    <3>. QED  BY <1>7, <1>10, <2>3, <3>2 DEF SaveEffect
<1>. QED  BY <1>13, <1>14

(* What a report does to the store in order. *)
LEMMA ReportShape ==
  ASSUME TypeOK, LruInv, NEW a \in Alert, ObserveAlert(a)
  PROVE  LET k == KeyOf(a)
             c == Reported(Stored(k), a)
         IN  /\ k \in CaseKeys
             /\ Stored(k) \in Case
             /\ c \in Case
             /\ LruInv'
             /\ \E D \in SUBSET Open :
                  /\ k \notin D
                  /\ cases' = [l \in CaseKeys |->
                                 IF l = k THEN c
                                 ELSE IF l \in D THEN NoCase ELSE cases[l]]
                  /\ \/ D = {}
                     \/ /\ Cardinality(Open) = StoreCap
                        /\ Cardinality(Open') = StoreCap
                        /\ \E v : D = {v} /\ \A l \in Open \ {v} : <<v, l>> \in older
<1> DEFINE k == KeyOf(a)
           c == Reported(Stored(k), a)
           r == Loaded(older, k)
<1>1. k \in CaseKeys /\ Stored(k) \in Case /\ c \in Case
  BY ReportStep
<1>2. Save(k, c, {}, r)
  BY DEF ObserveAlert
<1>3. StrictOrder(r, Open)
  BY LoadedOrder DEF LruInv
<1>4. k \notin Open => r = older
  BY DEF Loaded
<1>5. c # NoCase /\ cases = [l \in CaseKeys |-> cases[l]]
  BY <1>1, NoCaseAssumption DEF TypeOK
<1> HIDE DEF k, c, r
<1>6. LruInv' /\ SaveEffect(k, c, {}, r)
  BY <1>1, <1>2, <1>3, <1>5, SaveShape
<1>7. \E D \in SUBSET Open :
         /\ k \notin D
         /\ cases' = [l \in CaseKeys |->
                        IF l = k THEN c
                        ELSE IF l \in D THEN NoCase ELSE cases[l]]
         /\ \/ D = {}
            \/ /\ Cardinality(Open) = StoreCap
               /\ Cardinality(Open') = StoreCap
               /\ \E v : D = {v} /\ \A l \in Open \ {v} : <<v, l>> \in older
  <2>1. PICK D \in SUBSET Open :
           /\ k \notin D
           /\ cases' = [l \in CaseKeys |->
                          IF l = k THEN c
                          ELSE IF l \in {} \cup D THEN NoCase ELSE cases[l]]
           /\ \/ D = {}
              \/ /\ k \notin Open
                 /\ Cardinality(Open) = StoreCap
                 /\ Cardinality(Open') = StoreCap
                 /\ \E v : D = {v} /\ \A l \in Open \ {v} : <<v, l>> \in r
    BY <1>6 DEF SaveEffect
  <2>2. cases' = [l \in CaseKeys |->
                     IF l = k THEN c
                     ELSE IF l \in D THEN NoCase ELSE cases[l]]
    BY <2>1
  <2>. QED  BY <1>4, <2>1, <2>2
<1>. QED  BY <1>1, <1>6, <1>7 DEF k, c

(* What an observation does to the store in order: it never both folds and *)
(* evicts, and a case that was used later than the evicted one only by     *)
(* this very step is the most recent of the cases that were there.         *)
LEMMA SubmitShape ==
  ASSUME TypeOK, LruInv, NEW a \in Alert, NEW o \in Observation, SubmitCase(a, o)
  PROVE  /\ KeyOf(a) \in Actors
         /\ LruInv'
         /\ \E c \in Resolved(a), D \in SUBSET Open :
              /\ c \in Case
              /\ Advanced(c, a, o) \in Case
              /\ KeyOf(a) \notin D
              /\ cases' = [l \in CaseKeys |->
                             IF l = KeyOf(a) THEN Advanced(c, a, o)
                             ELSE IF l \in D THEN NoCase ELSE cases[l]]
              /\ \/ Absorbs(a) /\ D = {a.fp}
                 \/ ~Absorbs(a) /\ D = {}
                 \/ /\ ~Absorbs(a)
                    /\ Cardinality(Open) = StoreCap
                    /\ Cardinality(Open') = StoreCap
                    /\ \E v : /\ D = {v}
                              /\ \A l \in Open \ {v} :
                                   <<v, l>> \in older
                                   \/ \A m \in Open : <<l, m>> \notin older'
<1> DEFINE k == KeyOf(a)
           G == IF Absorbs(a) THEN {a.fp} ELSE {}
           r == OutcomeLoads(a)
           looked == a.actor # NoActor /\ a.id # NoId /\ a.fp # k /\ a.fp \in Open
<1>1. PICK c \in Resolved(a) : Save(k, Advanced(c, a, o), G, r)
  BY DEF SubmitCase
<1> DEFINE adv == Advanced(c, a, o)
<1>2. k \in Actors /\ k \in CaseKeys /\ Bindable(a)
  BY SubmitKey DEF CaseKeys, SubmitCase
<1>3. c \in Case /\ adv \in Case
  BY <1>1, <1>2, ResolvedType, AdvancedType
<1>4. adv # NoCase /\ cases = [l \in CaseKeys |-> cases[l]]
  BY <1>3, NoCaseAssumption DEF TypeOK
<1>5. StrictOrder(r, Open)
  <2>1. StrictOrder(Loaded(older, k), Open)
    BY LoadedOrder DEF LruInv
  <2>2. StrictOrder(Loaded(Loaded(older, k), a.fp), Open)
    BY <2>1, LoadedOrder
  <2>3. r \in {Loaded(older, k), Loaded(Loaded(older, k), a.fp)}
    BY DEF OutcomeLoads
  <2> HIDE DEF r
  <2>. QED  BY <2>1, <2>2, <2>3
<1>6. G \in SUBSET Open /\ k \notin G
  BY DEF Absorbs
<1>7. k \notin Open => r = IF looked THEN Touch(older, a.fp, Open) ELSE older
  BY DEF OutcomeLoads, Loaded
<1> HIDE DEF k, G, r, adv
<1>8. LruInv' /\ SaveEffect(k, adv, G, r)
  BY <1>1, <1>2, <1>4, <1>5, <1>6, SaveShape DEF adv
<1>9. PICK D \in SUBSET Open :
        /\ k \notin D
        /\ cases' = [l \in CaseKeys |->
                       IF l = k THEN adv
                       ELSE IF l \in G \cup D THEN NoCase ELSE cases[l]]
        /\ \/ D = {}
           \/ /\ G = {}
              /\ k \notin Open
              /\ Cardinality(Open) = StoreCap
              /\ Cardinality(Open') = StoreCap
              /\ \E v : D = {v} /\ \A l \in Open \ {v} : <<v, l>> \in r
  BY <1>8 DEF SaveEffect
<1>10. G = IF Absorbs(a) THEN {a.fp} ELSE {}
  BY DEF G
<1>11. G \cup D \in SUBSET Open /\ k \notin G \cup D
  BY <1>6, <1>9
<1>12. CASE D = {}
  <2>1. \/ Absorbs(a) /\ G \cup D = {a.fp}
        \/ ~Absorbs(a) /\ G \cup D = {}
    BY <1>10, <1>12
  <2>. QED  BY <1>1, <1>2, <1>3, <1>8, <1>9, <1>11, <2>1 DEF k, adv
<1>13. CASE D # {}
  <2>1. PICK v : D = {v} /\ \A l \in Open \ {v} : <<v, l>> \in r
    BY <1>9, <1>13
  <2>2. ~Absorbs(a) /\ G \cup D = {v} /\ k \notin Open
    BY <1>9, <1>10, <1>13, <2>1
  <2>3. ASSUME NEW l \in Open \ {v}, <<v, l>> \notin older
        PROVE  \A m \in Open : <<l, m>> \notin older'
    <3>1. <<v, l>> \in r
      BY <2>1
    <3>2. l = a.fp /\ r = Touch(older, a.fp, Open)
      BY <1>7, <2>2, <2>3, <3>1 DEF Touch, Forget
    <3>3. \A m : <<l, m>> \notin r
      BY <3>2 DEF Touch, Forget
    <3>. QED  BY <1>8, <2>2, <3>3 DEF SaveEffect
  <2>4. /\ ~Absorbs(a)
        /\ Cardinality(Open) = StoreCap
        /\ Cardinality(Open') = StoreCap
        /\ \E w : /\ G \cup D = {w}
                  /\ \A l \in Open \ {w} :
                       <<w, l>> \in older \/ \A m \in Open : <<l, m>> \notin older'
    BY <1>9, <1>13, <2>2, <2>3
  <2>. QED  BY <1>1, <1>2, <1>3, <1>8, <1>9, <1>11, <2>4 DEF k, adv
<1>. QED  BY <1>12, <1>13

(* The store starts empty, and every step leaves it in order. *)
LEMMA InitLru == Init => LruInv
<1> SUFFICES ASSUME Init PROVE LruInv
  OBVIOUS
<1>1. Open = {} /\ older = {}
  BY DEF Init, Open
<1>2. IsFiniteSet({}) /\ Cardinality({}) = 0
  BY FS_EmptySet
<1>. QED  BY <1>1, <1>2, CapsAssumption DEF LruInv, StrictOrder

CaseInv == TrustInv /\ LruInv

LEMMA NextCaseInv == CaseInv /\ [AnyNext]_vars => CaseInv'
<1> SUFFICES ASSUME CaseInv, [AnyNext]_vars PROVE CaseInv'
  OBVIOUS
<1>1. TrustInv' /\ TypeOK
  BY NextTrust DEF CaseInv, TrustInv
<1>2. ASSUME NEW a \in Alert, ObserveAlert(a) PROVE LruInv'
  BY <1>1, <1>2, ReportShape DEF CaseInv
<1>3. ASSUME NEW a \in Alert, NEW o \in Observation, SubmitCase(a, o) PROVE LruInv'
  BY <1>1, <1>3, SubmitShape DEF CaseInv
<1>4. CASE UNCHANGED vars
  <2>1. Open' = Open /\ older' = older
    BY <1>4 DEF vars, Open
  <2>. QED  BY <1>1, <2>1 DEF CaseInv, LruInv, StrictOrder
<1>. QED  BY <1>1, <1>2, <1>3, <1>4 DEF AnyNext, CaseInv

THEOREM CaseInvariant == Spec => []CaseInv
<1>1. Init => CaseInv
  BY InitTrust, InitLru DEF CaseInv
<1>. QED  BY <1>1, NextCaseInv, NextIsAny, PTL DEF Spec

-----------------------------------------------------------------------------
(* The members of a case. *)

(* The ids of a sequence and of one appended to it. *)
LEMMA IdsConcat ==
  ASSUME NEW m \in Seq(AlertIds), NEW t \in Seq(AlertIds)
  PROVE  Ids(m \o t) = Ids(m) \cup Ids(t)
<1> DEFINE mt == m \o t
<1>1. /\ Len(mt) = Len(m) + Len(t)
      /\ \A i \in 1..Len(m) : mt[i] = m[i]
      /\ \A i \in 1..Len(t) : mt[Len(m) + i] = t[i]
      /\ Len(m) \in Nat /\ Len(t) \in Nat
      /\ DOMAIN mt = 1..Len(mt) /\ DOMAIN m = 1..Len(m) /\ DOMAIN t = 1..Len(t)
  OBVIOUS
<1> HIDE DEF mt
<1>2. ASSUME NEW i \in 1..Len(mt) PROVE mt[i] \in Ids(m) \cup Ids(t)
  <2>1. CASE i <= Len(m)
    <3>1. i \in 1..Len(m) /\ mt[i] = m[i]
      BY <1>1, <2>1
    <3>. QED  BY <1>1, <3>1 DEF Ids
  <2>2. CASE i > Len(m)
    <3>1. i - Len(m) \in 1..Len(t) /\ i = Len(m) + (i - Len(m))
      BY <1>1, <2>2
    <3>2. mt[i] = t[i - Len(m)]
      BY <1>1, <3>1
    <3>. QED  BY <1>1, <3>1, <3>2 DEF Ids
  <2>. QED  BY <1>1, <2>1, <2>2
<1>3. ASSUME NEW i \in 1..Len(m) PROVE m[i] \in Ids(mt)
  <2>1. i \in 1..Len(mt) /\ mt[i] = m[i]
    BY <1>1
  <2>. QED  BY <1>1, <2>1 DEF Ids
<1>4. ASSUME NEW i \in 1..Len(t) PROVE t[i] \in Ids(mt)
  <2>1. Len(m) + i \in 1..Len(mt) /\ mt[Len(m) + i] = t[i]
    BY <1>1
  <2>. QED  BY <1>1, <2>1 DEF Ids
<1>. QED
  <2>1. Ids(mt) \subseteq Ids(m) \cup Ids(t)
    BY <1>1, <1>2 DEF Ids
  <2>2. Ids(m) \cup Ids(t) \subseteq Ids(mt)
    BY <1>1, <1>3, <1>4 DEF Ids
  <2>. QED  BY <2>1, <2>2 DEF mt

(* A new alert is a member of the case it is added to: the window never    *)
(* drops the newest.                                                       *)
LEMMA AddedMember ==
  ASSUME NEW m \in Seq(AlertIds), NEW id \in AlertIds \cup {NoId}, IsNew(id, m)
  PROVE  id \in Ids(AddMember(id, m)) /\ id \notin Ids(m)
<1> DEFINE n == Append(m, id)
<1>1. id \in AlertIds /\ n \in Seq(AlertIds) /\ Len(n) = Len(m) + 1 /\ n[Len(n)] = id
  BY DEF IsNew
<1>2. AddMember(id, m) = Newest(n)
  BY DEF AddMember
<1> HIDE DEF n
<1>3. id \in Ids(Newest(n))
  <2>1. Len(n) \in Nat /\ Len(n) >= 1 /\ DOMAIN n = 1..Len(n)
    BY <1>1
  <2>2. MemberCap \in Nat /\ MemberCap >= 1
    BY CapsAssumption
  <2>3. CASE Len(n) > MemberCap
    <3> DEFINE s == SubSeq(n, Len(n) - MemberCap + 1, Len(n))
    <3>1. Len(s) = MemberCap /\ DOMAIN s = 1..MemberCap /\ s[MemberCap] = n[Len(n)]
      BY <1>1, <2>1, <2>2, <2>3
    <3>2. Newest(n) = s
      BY <2>3 DEF Newest
    <3> HIDE DEF s
    <3>3. MemberCap \in DOMAIN s /\ s[MemberCap] = id
      BY <1>1, <2>2, <3>1
    <3>. QED  BY <3>2, <3>3 DEF Ids
  <2>4. CASE ~(Len(n) > MemberCap)
    <3>1. Newest(n) = n /\ Len(n) \in DOMAIN n /\ n[Len(n)] = id
      BY <1>1, <2>1, <2>4 DEF Newest
    <3>. QED  BY <3>1 DEF Ids
  <2>. QED  BY <2>3, <2>4
<1>. QED  BY <1>2, <1>3 DEF IsNew

(* The case that absorbed another has its alerts and is as far along. *)
LEMMA ResolvedHolds ==
  ASSUME TypeOK, NEW a \in Alert, Bindable(a), Absorbs(a), NEW c \in Resolved(a)
  PROVE  /\ cases[a.fp] \in Case
         /\ Ids(cases[a.fp].members) \subseteq Ids(c.members)
         /\ ~IsNew(a.id, c.members)
         /\ Order[c.state] >= Order[cases[a.fp].state]
         /\ c.stage >= cases[a.fp].stage
         /\ c.state = Later(Stored(KeyOf(a)).state, cases[a.fp].state)
<1> DEFINE s == Stored(KeyOf(a))
           f == cases[a.fp]
<1>1. s \in Case
  BY StoredType, BindableKey
<1>2. f \in Case /\ a.id \in Ids(f.members)
  BY DEF Absorbs, Open, TypeOK
<1>3. PICK t \in Missing(s.members, f.members) :
           c = [s EXCEPT !.members = s.members \o t,
                         !.state   = Later(s.state, f.state),
                         !.stage   = Larger(s.stage, f.stage)]
  BY DEF Resolved
<1> HIDE DEF s, f
<1>4. s.members \in Seq(AlertIds) /\ f.members \in Seq(AlertIds)
      /\ s.state \in States /\ f.state \in States
      /\ s.stage \in Nat /\ f.stage \in Nat
  BY <1>1, <1>2 DEF Case
<1>5. t \in Seq(AlertIds) /\ Ids(t) = Ids(f.members) \ Ids(s.members)
  BY <1>4, MissingType
<1>6. /\ c.members = s.members \o t
      /\ c.state = Later(s.state, f.state)
      /\ c.stage = Larger(s.stage, f.stage)
  BY <1>1, <1>3 DEF Case
<1>7. Ids(f.members) \subseteq Ids(c.members)
  BY <1>4, <1>5, <1>6, IdsConcat
<1>8. ~IsNew(a.id, c.members)
  BY <1>2, <1>7 DEF IsNew
<1>9. Order[c.state] >= Order[f.state]
  BY <1>4, <1>6 DEF Later, Order, States, Early
<1>10. c.stage >= f.stage
  BY <1>4, <1>6, LargerType
<1>. QED  BY <1>2, <1>6, <1>7, <1>8, <1>9, <1>10 DEF s, f

(* Without a case to absorb, the stored case is the one advanced. *)
LEMMA ResolvedAlone ==
  ASSUME NEW a, ~Absorbs(a), NEW c \in Resolved(a)
  PROVE  c = Stored(KeyOf(a))
BY DEF Resolved

(* Only a reopening counts as one, and it brings a new alert.              *)
LEMMA AdvancedReopens ==
  ASSUME NEW c \in Case, NEW a \in Alert, NEW o \in Observation
  PROVE  LET d == Advanced(c, a, o)
         IN  /\ ~Reopens(c, a, o) => d.reopens = c.reopens
             /\ Reopens(c, a, o) => /\ d.reopens = c.reopens + 1
                                    /\ c.reopens < MaxReopen
                                    /\ c.state = "CLOSED"
                                    /\ d.state = "CONTAINMENT"
                                    /\ ~(Ids(d.members) \subseteq Ids(c.members))
<1> DEFINE d == Advanced(c, a, o)
<1>1. /\ d.reopens = IF Reopens(c, a, o) THEN c.reopens + 1 ELSE c.reopens
      /\ d.members = AddMember(a.id, c.members)
      /\ d.state = IF Reopens(c, a, o) THEN "CONTAINMENT" ELSE OutcomeTarget(c.state, o)
  BY DEF Advanced
<1>2. a.id \in AlertIds \cup {NoId} /\ c.members \in Seq(AlertIds)
  BY DEF Alert, Case
<1>3. Reopens(c, a, o) => /\ c.state = "CLOSED"
                          /\ c.reopens < MaxReopen
                          /\ IsNew(a.id, c.members)
  BY DEF Reopens
<1>4. IsNew(a.id, c.members)
        => ~(Ids(AddMember(a.id, c.members)) \subseteq Ids(c.members))
  BY <1>2, AddedMember
<1> HIDE DEF d
<1>. QED  BY <1>1, <1>3, <1>4 DEF d

-----------------------------------------------------------------------------
(* Reopening. *)

(* A step that changes the count of a case that stays is a reopening. *)
LEMMA NextReopens ==
  CaseInv /\ [AnyNext]_vars =>
    \A k \in CaseKeys :
      cases[k] # NoCase /\ cases'[k] # NoCase /\ cases'[k].reopens # cases[k].reopens =>
        /\ cases[k].state = "CLOSED"
        /\ cases'[k].state = "CONTAINMENT"
        /\ ~(Ids(cases'[k].members) \subseteq Ids(cases[k].members))
<1> SUFFICES ASSUME CaseInv, [AnyNext]_vars, NEW l \in CaseKeys,
                    cases[l] # NoCase, cases'[l] # NoCase,
                    cases'[l].reopens # cases[l].reopens
             PROVE  /\ cases[l].state = "CLOSED"
                    /\ cases'[l].state = "CONTAINMENT"
                    /\ ~(Ids(cases'[l].members) \subseteq Ids(cases[l].members))
  OBVIOUS
<1>1. TypeOK /\ LruInv /\ l \in Open
  BY DEF CaseInv, TrustInv, Open
<1>2. ASSUME NEW a \in Alert, ObserveAlert(a) PROVE FALSE
  <2> DEFINE k == KeyOf(a)
             c == Reported(Stored(k), a)
  <2>1. /\ Stored(k) \in Case
        /\ cases'[l] = cases[l] \/ (l = k /\ cases'[l] = c)
    BY <1>1, <1>2, ReportStep
  <2>2. c.reopens = Stored(k).reopens
    BY <2>1 DEF Reported, Case
  <2>3. l = k => Stored(k) = cases[l]
    BY <1>1 DEF Stored
  <2> HIDE DEF k, c
  <2>. QED  BY <2>1, <2>2, <2>3
<1>3. ASSUME NEW a \in Alert, NEW o \in Observation, SubmitCase(a, o)
      PROVE  /\ cases[l].state = "CLOSED"
             /\ cases'[l].state = "CONTAINMENT"
             /\ ~(Ids(cases'[l].members) \subseteq Ids(cases[l].members))
  <2> DEFINE k == KeyOf(a)
  <2>1. PICK c \in Resolved(a) :
           /\ c \in Case
           /\ cases'[l] = cases[l] \/ (l = k /\ cases'[l] = Advanced(c, a, o))
    BY <1>1, <1>3, SubmitStep
  <2>2. l = k /\ cases'[l] = Advanced(c, a, o)
    BY <2>1
  <2>3. Stored(k) = cases[l] /\ Bindable(a)
    BY <1>1, <1>3, <2>2 DEF Stored, SubmitCase
  <2>4. c.reopens = Stored(k).reopens
    BY <1>1, <2>3, ResolvedType
  <2>5. Reopens(c, a, o)
    <3> HIDE DEF k
    <3>. QED  BY <2>1, <2>2, <2>3, <2>4, AdvancedReopens
  <2>6. ~Absorbs(a)
    BY <1>1, <2>3, <2>5, ResolvedHolds DEF Reopens
  <2>7. c = cases[l]
    BY <2>3, <2>6, ResolvedAlone
  <2> HIDE DEF k
  <2>. QED  BY <2>1, <2>2, <2>5, <2>7, AdvancedReopens
<1>4. CASE UNCHANGED vars
  BY <1>4 DEF vars
<1>. QED  BY <1>2, <1>3, <1>4 DEF AnyNext

(* A closed case is reopened only by an alert its window of members does   *)
(* not hold: a held one cannot, whatever the verdicts say of it, but one   *)
(* that has slid out can (core/incident.py:396-402).                       *)
THEOREM ReopeningsBringNews == Spec => ReopenNeedsNewAlert
<1>1. CaseInv /\ [AnyNext]_vars =>
        [\A k \in CaseKeys :
           cases[k] # NoCase /\ cases'[k] # NoCase
             /\ cases'[k].reopens # cases[k].reopens =>
             /\ cases[k].state = "CLOSED"
             /\ cases'[k].state = "CONTAINMENT"
             /\ ~(Ids(cases'[k].members) \subseteq Ids(cases[k].members))]_vars
  BY NextReopens
<1>. QED  BY <1>1, CaseInvariant, NextIsAny, PTL DEF Spec, ReopenNeedsNewAlert

-----------------------------------------------------------------------------
(* Leaving the store. *)

(* An observation never takes a case back, reopening apart. *)
LEMMA AdvancedForward ==
  ASSUME NEW c \in Case, NEW a \in Alert, NEW o \in Observation, ~Reopens(c, a, o)
  PROVE  /\ Advanced(c, a, o).state = OutcomeTarget(c.state, o)
         /\ Order[Advanced(c, a, o).state] >= Order[c.state]
         /\ Advanced(c, a, o).stage >= c.stage
<1> DEFINE d == Advanced(c, a, o)
<1>1. /\ d.state = OutcomeTarget(c.state, o)
      /\ d.stage = Larger(c.stage, a.stage)
  BY DEF Advanced
<1>2. c.state \in States /\ c.stage \in Nat /\ a.stage \in Nat
  BY DEF Alert, Case
<1> HIDE DEF d
<1>3. Order[OutcomeTarget(c.state, o)] >= Order[c.state]
  BY <1>2 DEF OutcomeTarget, Order, States, Early
<1>. QED  BY <1>1, <1>2, <1>3, LargerType DEF d

(* A case is lost to a full store or to the case that holds its alerts. *)
LEMMA NextLoses ==
  CaseInv /\ [AnyNext]_vars =>
    \A k \in CaseKeys :
      cases[k] # NoCase /\ cases'[k] = NoCase =>
        \/ /\ Cardinality(Open) = StoreCap
           /\ Cardinality(Open') = StoreCap
           /\ \A l \in Open \ {k} :
                <<k, l>> \in older \/ \A m \in Open : <<l, m>> \notin older'
        \/ \E l \in CaseKeys \ {k} :
             /\ cases'[l] # NoCase
             /\ Ids(cases[k].members) \subseteq Ids(cases'[l].members)
             /\ Order[cases'[l].state] >= Order[cases[k].state]
             /\ cases'[l].stage >= cases[k].stage
<1> SUFFICES ASSUME CaseInv, [AnyNext]_vars, NEW k \in CaseKeys,
                    cases[k] # NoCase, cases'[k] = NoCase
             PROVE  \/ /\ Cardinality(Open) = StoreCap
                       /\ Cardinality(Open') = StoreCap
                       /\ \A l \in Open \ {k} :
                            <<k, l>> \in older \/ \A m \in Open : <<l, m>> \notin older'
                    \/ \E l \in CaseKeys \ {k} :
                         /\ cases'[l] # NoCase
                         /\ Ids(cases[k].members) \subseteq Ids(cases'[l].members)
                         /\ Order[cases'[l].state] >= Order[cases[k].state]
                         /\ cases'[l].stage >= cases[k].stage
  OBVIOUS
<1>1. TypeOK /\ LruInv
  BY DEF CaseInv, TrustInv
<1>2. CASE \E a \in Alert : ObserveAlert(a)
  <2>1. PICK a \in Alert : ObserveAlert(a)
    BY <1>2
  <2> DEFINE x == KeyOf(a)
             c == Reported(Stored(x), a)
  <2>2. c # NoCase
    BY <1>1, <2>1, ReportStep, NoCaseAssumption
  <2>3. PICK D \in SUBSET Open :
           /\ x \notin D
           /\ cases' = [l \in CaseKeys |->
                          IF l = x THEN c
                          ELSE IF l \in D THEN NoCase ELSE cases[l]]
           /\ \/ D = {}
              \/ /\ Cardinality(Open) = StoreCap
                 /\ Cardinality(Open') = StoreCap
                 /\ \E v : D = {v} /\ \A l \in Open \ {v} : <<v, l>> \in older
    BY <1>1, <2>1, ReportShape
  <2> HIDE DEF x, c
  <2>4. k \in D
    BY <2>2, <2>3
  <2>. QED  BY <2>3, <2>4
<1>3. CASE \E a \in Alert, o \in Observation : SubmitCase(a, o)
  <2>1. PICK a \in Alert, o \in Observation : SubmitCase(a, o)
    BY <1>3
  <2>2. PICK c \in Resolved(a), D \in SUBSET Open :
           /\ c \in Case
           /\ Advanced(c, a, o) \in Case
           /\ KeyOf(a) \notin D
           /\ cases' = [l \in CaseKeys |->
                          IF l = KeyOf(a) THEN Advanced(c, a, o)
                          ELSE IF l \in D THEN NoCase ELSE cases[l]]
           /\ \/ Absorbs(a) /\ D = {a.fp}
              \/ ~Absorbs(a) /\ D = {}
              \/ /\ ~Absorbs(a)
                 /\ Cardinality(Open) = StoreCap
                 /\ Cardinality(Open') = StoreCap
                 /\ \E v : /\ D = {v}
                           /\ \A l \in Open \ {v} :
                                <<v, l>> \in older
                                \/ \A m \in Open : <<l, m>> \notin older'
    BY <1>1, <2>1, SubmitShape
  <2> DEFINE x == KeyOf(a)
             d == Advanced(c, a, o)
  <2>3. x \in CaseKeys /\ Bindable(a) /\ d # NoCase
    BY <2>1, <2>2, BindableKey, NoCaseAssumption DEF SubmitCase
  <2>4. k \in D /\ k # x
    <3> HIDE DEF x, d
    <3>. QED  BY <2>2, <2>3 DEF x, d
  <2>5. CASE Absorbs(a)
    <3>1. k = a.fp
      BY <2>2, <2>4, <2>5
    <3>2. /\ Ids(cases[k].members) \subseteq Ids(c.members)
          /\ ~IsNew(a.id, c.members)
          /\ Order[c.state] >= Order[cases[k].state]
          /\ c.stage >= cases[k].stage
          /\ cases[k] \in Case
      BY <1>1, <2>3, <2>5, <3>1, ResolvedHolds
    <3>3. ~Reopens(c, a, o) /\ d.members = c.members
      BY <3>2 DEF Reopens, Advanced, AddMember
    <3>4. Order[d.state] >= Order[c.state] /\ d.stage >= c.stage
      BY <2>2, <3>3, AdvancedForward
    <3>5. /\ \A s \in States : Order[s] \in Nat
          /\ c.state \in States /\ d.state \in States /\ cases[k].state \in States
          /\ c.stage \in Nat /\ d.stage \in Nat /\ cases[k].stage \in Nat
      <4>1. \A s \in States : Order[s] \in Nat
        BY DEF Order, States, Early
      <4>2. \A b \in Case : b.state \in States /\ b.stage \in Nat
        BY DEF Case
      <4> HIDE DEF d
      <4>. QED  BY <2>2, <3>2, <4>1, <4>2 DEF d
    <3>6. cases'[x] = d
      <4> HIDE DEF x, d
      <4>. QED  BY <2>2, <2>3 DEF x, d
    <3> HIDE DEF x, d
    <3>7. /\ Ids(cases[k].members) \subseteq Ids(d.members)
          /\ Order[d.state] >= Order[cases[k].state]
          /\ d.stage >= cases[k].stage
      BY <3>2, <3>3, <3>4, <3>5
    <3>. QED  BY <2>3, <2>4, <3>6, <3>7
  <2>6. CASE ~Absorbs(a)
    BY <2>2, <2>4, <2>6
  <2>. QED  BY <2>5, <2>6
<1>4. CASE UNCHANGED vars
  BY <1>4 DEF vars
<1>. QED  BY <1>2, <1>3, <1>4 DEF AnyNext

(* No case leaves the store but by an eviction from a full one, every      *)
(* other case having been used later, or into a case that holds all of its *)
(* alerts and is as far along (core/incident.py:219, 454-463).             *)
THEOREM NoSilentLoss == Spec => NothingLostSilently
<1>1. CaseInv /\ [AnyNext]_vars =>
        [\A k \in CaseKeys :
           cases[k] # NoCase /\ cases'[k] = NoCase =>
             \/ /\ Cardinality(Open) = StoreCap
                /\ Cardinality(Open') = StoreCap
                /\ \A l \in Open \ {k} :
                     <<k, l>> \in older \/ \A m \in Open : <<l, m>> \notin older'
             \/ \E l \in CaseKeys \ {k} :
                  /\ cases'[l] # NoCase
                  /\ Ids(cases[k].members) \subseteq Ids(cases'[l].members)
                  /\ Order[cases'[l].state] >= Order[cases[k].state]
                  /\ cases'[l].stage >= cases[k].stage]_vars
  BY NextLoses
<1>. QED  BY <1>1, CaseInvariant, NextIsAny, PTL DEF Spec, NothingLostSilently

-----------------------------------------------------------------------------
(* The abstract lifecycle. *)

(* The stage of a case under a key, as the lifecycle sees it. *)
PhaseOf(k)   == IF cases[k] = NoCase THEN "ABSENT" ELSE cases[k].state
ReopensOf(k) == IF cases[k] = NoCase THEN 0 ELSE cases[k].reopens

(* A step that stores c under k and forgets at most one other case is one  *)
(* of the lifecycle's when the lifecycle allows c's stage.                 *)
LEMMA LifecycleStep ==
  ASSUME NEW k \in CaseKeys, NEW c \in Case, NEW D \in SUBSET CaseKeys, k \notin D,
         D = {} \/ \E v : D = {v},
         cases' = [l \in CaseKeys |->
                     IF l = k THEN c
                     ELSE IF l \in D THEN NoCase ELSE cases[l]],
         \/ /\ c.reopens = ReopensOf(k)
            /\ \/ <<PhaseOf(k), c.state>> \in Lifecycle!Moves(k)
               \/ PhaseOf(k) # "ABSENT" /\ c.state = PhaseOf(k)
         \/ /\ k \in Actors
            /\ PhaseOf(k) = "CLOSED" /\ c.state = "CONTAINMENT"
            /\ ReopensOf(k) < MaxReopen /\ c.reopens = ReopensOf(k) + 1
  PROVE  Lifecycle!Next
<1> DEFINE phase   == [l \in CaseKeys |-> IF cases[l] = NoCase THEN "ABSENT" ELSE cases[l].state]
           reopens == [l \in CaseKeys |-> IF cases[l] = NoCase THEN 0 ELSE cases[l].reopens]
           phase2  == [l \in CaseKeys |-> IF cases'[l] = NoCase THEN "ABSENT" ELSE cases'[l].state]
           reopens2 == [l \in CaseKeys |-> IF cases'[l] = NoCase THEN 0 ELSE cases'[l].reopens]
<1>1. c # NoCase
  BY NoCaseAssumption
<1>2. D \in Lifecycle!Others(k)
  BY DEF Lifecycle!Others
<1>3. phase[k] = PhaseOf(k) /\ reopens[k] = ReopensOf(k)
  BY DEF PhaseOf, ReopensOf
<1>4. phase2 = [l \in CaseKeys |-> IF l = k THEN c.state
                                   ELSE IF l \in D THEN "ABSENT" ELSE phase[l]]
  BY <1>1
<1>5. reopens2 = [l \in CaseKeys |-> IF l = k THEN c.reopens
                                     ELSE IF l \in D THEN 0 ELSE reopens[l]]
  BY <1>1
<1>6. CASE /\ c.reopens = ReopensOf(k)
           /\ <<PhaseOf(k), c.state>> \in Lifecycle!Moves(k)
  <2>1. reopens2 = [l \in CaseKeys |-> IF l \in D THEN 0 ELSE reopens[l]]
    BY <1>3, <1>5, <1>6
  <2>2. Lifecycle!Move(k, PhaseOf(k), c.state, D)
    BY <1>3, <1>4, <2>1 DEF Lifecycle!Move
  <2>3. Lifecycle!Advance(k)
    BY <1>2, <1>6, <2>2 DEF Lifecycle!Advance
  <2>. QED  BY <2>3 DEF Lifecycle!Next
<1>7. CASE /\ c.reopens = ReopensOf(k)
           /\ PhaseOf(k) # "ABSENT" /\ c.state = PhaseOf(k)
  <2>1. reopens2 = [l \in CaseKeys |-> IF l \in D THEN 0 ELSE reopens[l]]
    BY <1>3, <1>5, <1>7
  <2>2. Lifecycle!Move(k, PhaseOf(k), PhaseOf(k), D)
    BY <1>3, <1>4, <1>7, <2>1 DEF Lifecycle!Move
  <2>3. Lifecycle!Stay(k)
    BY <1>2, <1>3, <1>7, <2>2 DEF Lifecycle!Stay
  <2>. QED  BY <2>3 DEF Lifecycle!Next
<1>8. CASE /\ k \in Actors
           /\ PhaseOf(k) = "CLOSED" /\ c.state = "CONTAINMENT"
           /\ ReopensOf(k) < MaxReopen /\ c.reopens = ReopensOf(k) + 1
  <2>1. Lifecycle!Reopen(k)
    BY <1>2, <1>3, <1>4, <1>5, <1>8 DEF Lifecycle!Reopen
  <2>. QED  BY <2>1 DEF Lifecycle!Next
<1>. QED  BY <1>6, <1>7, <1>8

(* A report takes one of the edges any alert may take, or none.            *)
LEMMA ReportedMove ==
  ASSUME CaseInv, NEW k \in CaseKeys, NEW a \in Alert
  PROVE  LET c == Reported(Stored(k), a)
         IN  /\ c.reopens = ReopensOf(k)
             /\ \/ <<PhaseOf(k), c.state>> \in Lifecycle!Moves(k)
                \/ PhaseOf(k) # "ABSENT" /\ c.state = PhaseOf(k)
<1> DEFINE s == Stored(k)
           c == Reported(s, a)
<1>1. s \in Case
  BY StoredType DEF CaseInv, TrustInv
<1>2. c.state = ReportEdge(s.state) /\ c.reopens = s.reopens /\ s.state \in States
  BY <1>1 DEF Reported, Case
<1>3. \/ PhaseOf(k) = "ABSENT" /\ ReopensOf(k) = 0 /\ s.state = "NEW" /\ s.reopens = 0
      \/ PhaseOf(k) = s.state /\ ReopensOf(k) = s.reopens
  BY DEF Stored, Open, PhaseOf, ReopensOf, FreshCase
<1> HIDE DEF s, c
<1>4. {<<"ABSENT", "ANALYSIS">>, <<"NEW", "ANALYSIS">>} \subseteq Lifecycle!Moves(k)
  BY DEF Lifecycle!Moves, Lifecycle!Untrusted, Lifecycle!Vouched
<1>5. \A q \in States : q # "ABSENT"
  BY DEF States, Early
<1>. QED  BY <1>2, <1>3, <1>4, <1>5 DEF s, c, ReportEdge

(* An observation takes one of the edges a trusted observation may take.   *)
LEMMA AdvancedMove ==
  ASSUME CaseInv, NEW a \in Alert, NEW o \in Observation, Bindable(a),
         KeyOf(a) \in Actors, NEW c \in Resolved(a)
  PROVE  LET k == KeyOf(a)
             d == Advanced(c, a, o)
         IN  \/ /\ d.reopens = ReopensOf(k)
                /\ \/ <<PhaseOf(k), d.state>> \in Lifecycle!Moves(k)
                   \/ PhaseOf(k) # "ABSENT" /\ d.state = PhaseOf(k)
             \/ /\ PhaseOf(k) = "CLOSED" /\ d.state = "CONTAINMENT"
                /\ ReopensOf(k) < MaxReopen /\ d.reopens = ReopensOf(k) + 1
<1> DEFINE k == KeyOf(a)
           s == Stored(k)
           d == Advanced(c, a, o)
<1>1. TypeOK /\ k \in CaseKeys
  BY BindableKey DEF CaseInv, TrustInv
<1>2. s \in Case /\ c \in Case /\ c.reopens = s.reopens
  BY <1>1, StoredType, ResolvedType
<1>3. \/ PhaseOf(k) = "ABSENT" /\ ReopensOf(k) = 0 /\ s.state = "NEW" /\ s.reopens = 0
      \/ PhaseOf(k) = s.state /\ ReopensOf(k) = s.reopens
  BY <1>1 DEF Stored, Open, PhaseOf, ReopensOf, FreshCase
<1>4. s.state \in States /\ c.state \in States
  BY <1>2 DEF Case
<1>5. \/ c.state = s.state
      \/ /\ c.state \in {s.state, "ANALYSIS"}
         /\ s.state \in Early
         /\ ~Reopens(c, a, o)
  <2>1. CASE ~Absorbs(a)
    BY <2>1, ResolvedAlone
  <2>2. CASE Absorbs(a)
    <3>1. c.state = Later(s.state, cases[a.fp].state) /\ ~IsNew(a.id, c.members)
      BY <1>1, <2>2, ResolvedHolds
    <3>2. a.fp \in Open \ Actors
      BY <2>2, KeysAssumption DEF Absorbs, Alert, Open
    <3>3. cases[a.fp].state \in Early
      BY <3>2 DEF CaseInv, TrustInv, ContainedIffConfirmed, FingerprintStaysProvisional
    <3> HIDE DEF s
    <3>. QED  BY <1>4, <3>1, <3>3 DEF Later, Order, Early, States, Reopens
  <2>. QED  BY <2>1, <2>2
<1>6. Reopens(c, a, o) => /\ c.state = "CLOSED" /\ d.state = "CONTAINMENT"
                          /\ c.reopens < MaxReopen /\ d.reopens = c.reopens + 1
  BY <1>2, AdvancedReopens
<1>7. ~Reopens(c, a, o) => /\ d.state = OutcomeTarget(c.state, o)
                           /\ d.reopens = c.reopens
  BY <1>2, AdvancedReopens, AdvancedForward
<1>8. Lifecycle!Moves(k) = Lifecycle!Vouched
  BY DEF Lifecycle!Moves
<1> HIDE DEF k, s, d
<1>9. CASE Reopens(c, a, o)
  <2>1. c.state = s.state /\ s.state = "CLOSED"
    BY <1>5, <1>6, <1>9
  <2>. QED  BY <1>2, <1>3, <1>6, <1>9, <2>1 DEF k, d
<1>10. CASE ~Reopens(c, a, o)
  <2>1. d.reopens = ReopensOf(k)
    BY <1>2, <1>3, <1>7, <1>10
  <2>2. d.state = OutcomeTarget(c.state, o)
    BY <1>7, <1>10
  <2>3. \/ <<PhaseOf(k), d.state>> \in Lifecycle!Vouched
        \/ PhaseOf(k) # "ABSENT" /\ d.state = PhaseOf(k)
    <3>1. d.state \in {c.state} \cup
            (CASE c.state \in Early         -> {"CONTAINMENT"}
               [] c.state = "CONTAINMENT"   -> {"ERADICATION"}
               [] c.state = "ERADICATION"   -> {"RECOVERY"}
               [] c.state = "RECOVERY"      -> {"CLOSED"}
               [] OTHER                     -> {})
      BY <1>4, <2>2 DEF OutcomeTarget, Early, States
    <3>2. \A q \in States : q # "ABSENT"
      BY DEF States, Early
    <3>. QED  BY <1>3, <1>4, <1>5, <3>1, <3>2 DEF Lifecycle!Vouched, Early, States
  <2>. QED  BY <1>8, <2>1, <2>3 DEF k, d
<1>. QED  BY <1>9, <1>10

(* Every step of the store is a step of the lifecycle, or none.            *)
LEMMA NextLifecycle == CaseInv /\ [AnyNext]_vars => [Lifecycle!Next]_(Lifecycle!lifecycle)
<1> SUFFICES ASSUME CaseInv, [AnyNext]_vars
             PROVE  Lifecycle!Next \/ UNCHANGED Lifecycle!lifecycle
  OBVIOUS
<1>1. TypeOK /\ LruInv /\ Open \subseteq CaseKeys
  BY DEF CaseInv, TrustInv, Open
<1>2. ASSUME NEW a \in Alert, ObserveAlert(a) PROVE Lifecycle!Next
  <2> DEFINE k == KeyOf(a)
             c == Reported(Stored(k), a)
  <2>1. k \in CaseKeys /\ c \in Case
    BY <1>1, <1>2, ReportStep
  <2>2. PICK D \in SUBSET Open :
           /\ k \notin D
           /\ cases' = [l \in CaseKeys |->
                          IF l = k THEN c
                          ELSE IF l \in D THEN NoCase ELSE cases[l]]
           /\ D = {} \/ \E v : D = {v}
    BY <1>1, <1>2, ReportShape
  <2>3. /\ c.reopens = ReopensOf(k)
        /\ \/ <<PhaseOf(k), c.state>> \in Lifecycle!Moves(k)
           \/ PhaseOf(k) # "ABSENT" /\ c.state = PhaseOf(k)
    BY <2>1, ReportedMove
  <2>4. D \in SUBSET CaseKeys
    BY <1>1
  <2> HIDE DEF k, c
  <2>. QED  BY <2>1, <2>2, <2>3, <2>4, LifecycleStep
<1>3. ASSUME NEW a \in Alert, NEW o \in Observation, SubmitCase(a, o)
      PROVE  Lifecycle!Next
  <2> DEFINE k == KeyOf(a)
  <2>1. k \in Actors /\ k \in CaseKeys /\ Bindable(a)
    BY <1>3, SubmitKey DEF CaseKeys, SubmitCase
  <2>2. PICK c \in Resolved(a), D \in SUBSET Open :
           /\ c \in Case
           /\ Advanced(c, a, o) \in Case
           /\ k \notin D
           /\ cases' = [l \in CaseKeys |->
                          IF l = k THEN Advanced(c, a, o)
                          ELSE IF l \in D THEN NoCase ELSE cases[l]]
           /\ \/ Absorbs(a) /\ D = {a.fp}
              \/ ~Absorbs(a) /\ D = {}
              \/ /\ ~Absorbs(a)
                 /\ Cardinality(Open) = StoreCap
                 /\ Cardinality(Open') = StoreCap
                 /\ \E v : /\ D = {v}
                           /\ \A l \in Open \ {v} :
                                <<v, l>> \in older
                                \/ \A m \in Open : <<l, m>> \notin older'
    BY <1>1, <1>3, SubmitShape
  <2> DEFINE d == Advanced(c, a, o)
  <2>3. \/ /\ d.reopens = ReopensOf(k)
           /\ \/ <<PhaseOf(k), d.state>> \in Lifecycle!Moves(k)
              \/ PhaseOf(k) # "ABSENT" /\ d.state = PhaseOf(k)
        \/ /\ PhaseOf(k) = "CLOSED" /\ d.state = "CONTAINMENT"
           /\ ReopensOf(k) < MaxReopen /\ d.reopens = ReopensOf(k) + 1
    BY <2>1, AdvancedMove
  <2>4. D \in SUBSET CaseKeys
    BY <1>1
  <2> HIDE DEF k
  <2>5. D = {} \/ \E v : D = {v}
    BY <2>2
  <2>6. d \in Case /\ cases' = [l \in CaseKeys |->
                                  IF l = k THEN d
                                  ELSE IF l \in D THEN NoCase ELSE cases[l]]
    BY <2>2
  <2> HIDE DEF d
  <2>. QED  BY <2>1, <2>2, <2>3, <2>4, <2>5, <2>6, LifecycleStep
<1>4. CASE UNCHANGED vars
  BY <1>4 DEF vars, Lifecycle!lifecycle
<1>. QED  BY <1>2, <1>3, <1>4 DEF AnyNext

(* The store implements the abstract lifecycle of a case (CaseLifecycle):  *)
(* forward one stage at a time, reports confined to ANALYSIS, bounded      *)
(* reopenings, at most one other case forgotten by a step                  *)
(* (core/incident.py:318-412).                                             *)
THEOREM CasesRefineLifecycle == Spec => ImplementsLifecycle
<1>1. Init => Lifecycle!Init
  BY DEF Init, Lifecycle!Init
<1>2. CaseInv /\ [AnyNext]_vars => [Lifecycle!Next]_(Lifecycle!lifecycle)
  BY NextLifecycle
<1>. QED  BY <1>1, <1>2, CaseInvariant, NextIsAny, PTL DEF Spec, ImplementsLifecycle, Lifecycle!Spec

-----------------------------------------------------------------------------
(* Reports.  Authority in a report comes from the case, and a case has it  *)
(* only when a trusted observation confirmed it: history remembers which.  *)

Earned(k, c) == ~c.provisional \/ c.reopens > 0 => k \in vouched

OpenEarned == \A k \in Open : Earned(k, cases[k])

InPipeline ==
  /\ alert = None \/ /\ alert.of \in Alerts
                     /\ alert.advanced \in BOOLEAN
  /\ filing = None \/ /\ filing.of \in Alerts
                      /\ filing.outcome \in Outcomes

AuthorityInv ==
  /\ CaseInv
  /\ InPipeline
  /\ OpenEarned
  /\ AuthorityIsEarned

(* Flagged or not, the alert in the pipeline is one. *)
LEMMA AtStageAlert ==
  ASSUME InPipeline, alert # None
  PROVE  /\ AtStage(alert) \in Alert
         /\ AtStage(alert).id = alert.of.id
         /\ AtStage(alert).actor = alert.of.actor
         /\ KeyOf(AtStage(alert)) = KeyOf(alert.of)
<1> DEFINE f == IF alert.advanced THEN AdvancedOrder ELSE 0
<1>1. alert.of \in Alert
  BY AlertsAssumption DEF InPipeline
<1>2. f \in Nat
  BY PoliciesAssumption
<1> HIDE DEF f
<1>3. AtStage(alert) = [alert.of EXCEPT !.stage = Larger(alert.of.stage, f)]
  BY DEF AtStage, f
<1>4. Larger(alert.of.stage, f) \in Nat
  BY <1>1, <1>2, LargerType DEF Alert
<1>. QED  BY <1>1, <1>3, <1>4 DEF Alert, KeyOf

(* The case an alert is reported with has the authority of the stored one. *)
LEMMA ReportedEarned ==
  ASSUME TypeOK, OpenEarned, NEW k \in CaseKeys, NEW a \in Alert
  PROVE  Earned(k, Reported(Stored(k), a))
<1> DEFINE s == Stored(k)
           c == Reported(s, a)
<1>1. s \in Case
  BY StoredType
<1>2. c.provisional = s.provisional /\ c.reopens = s.reopens
  BY <1>1 DEF Reported, Case
<1>3. Earned(k, s)
  BY DEF OpenEarned, Stored, Earned, FreshCase
<1> HIDE DEF s, c
<1>. QED  BY <1>2, <1>3 DEF s, c, Earned

(* A brief that leaves an alert to routine, asks for approval or speaks of *)
(* a confirmed case was made for a case with authority.                    *)
LEMMA SocAuthority ==
  ASSUME NEW al, NEW s, NEW c, NEW p, NEW run,
         LET b == SocReport(al, s, c, p, run)
         IN  b.routine \/ b.hitl \/ b.confidence = "authoritative"
  PROVE  c # None /\ (~c.provisional \/ c.reopens > 0)
<1>1. \/ Routine(s, c)
      \/ HitlRequired(c)
      \/ Confidence(c) = "authoritative"
  BY DEF SocReport
<1>2. CASE Routine(s, c)
  BY <1>2 DEF Routine, DecisionClass
<1>3. CASE HitlRequired(c)
  BY <1>3 DEF HitlRequired
<1>4. CASE Confidence(c) = "authoritative"
  BY <1>4 DEF Confidence
<1>. QED  BY <1>1, <1>2, <1>3, <1>4

(* At the start nothing is stored, in the pipeline or reported. *)
LEMMA InitAuthority == ReportInit => AuthorityInv
<1> SUFFICES ASSUME ReportInit PROVE AuthorityInv
  OBVIOUS
<1>1. CaseInv
  BY InitTrust, InitLru DEF ReportInit, CaseInv
<1>2. Open = {}
  BY DEF ReportInit, Init, Open
<1>. QED
  BY <1>1, <1>2 DEF ReportInit, AuthorityInv, InPipeline, OpenEarned, AuthorityIsEarned

(* Reports and observations keep it; a report reads it. *)
LEMMA NextAuthority == AuthorityInv /\ [ReportNext]_allVars => AuthorityInv'
<1> SUFFICES ASSUME AuthorityInv, [ReportNext]_allVars PROVE AuthorityInv'
  OBVIOUS
<1>0. CaseInv /\ TypeOK /\ InPipeline /\ OpenEarned
  BY DEF AuthorityInv, CaseInv, TrustInv
<1>1. ASSUME UNCHANGED vars, vouched' = vouched
      PROVE  CaseInv' /\ OpenEarned'
  <2>1. CaseInv'
    BY <1>0, <1>1, NextCaseInv
  <2>2. Open' = Open /\ cases' = cases
    BY <1>1 DEF vars, Open
  <2>. QED  BY <1>0, <1>1, <2>1, <2>2 DEF OpenEarned, Earned
<1>2. ASSUME NEW a \in Alerts, Take(a) PROVE AuthorityInv'
  <2>1. /\ UNCHANGED vars /\ vouched' = vouched
        /\ report' = None /\ filing' = filing
        /\ \E p : alert' = [of       |-> a,
                            advanced |-> IsLate(MaxTacticOrder(p)),
                            decoy    |-> Says[a.id].asset \in DecoyAssets]
    BY <1>2 DEF Take
  <2>2. InPipeline'
    <3>1. PICK p : alert' = [of       |-> a,
                             advanced |-> IsLate(MaxTacticOrder(p)),
                             decoy    |-> Says[a.id].asset \in DecoyAssets]
      BY <2>1
    <3>2. alert'.of = a /\ alert'.advanced \in BOOLEAN
      BY <3>1 DEF IsLate
    <3>. QED  BY <1>0, <2>1, <3>2 DEF InPipeline
  <2>. QED  BY <1>1, <2>1, <2>2 DEF AuthorityInv, AuthorityIsEarned
<1>3. ASSUME NEW run \in Runs, Report(run) PROVE AuthorityInv'
  <2> DEFINE a == AtStage(alert)
             k == KeyOf(a)
             s == Says[a.id]
             c == IF Bindable(a) THEN Reported(Stored(k), a) ELSE None
  <2>1. /\ alert # None /\ alert' = None
        /\ filing' = filing /\ vouched' = vouched
        /\ IF Bindable(a) THEN ObserveAlert(a) ELSE UNCHANGED vars
        /\ \E p : report' = [of |-> a, flagged |-> alert.advanced \/ alert.decoy,
                             recalled |-> p # None, run |-> run,
                             asOf |-> [told |-> memory.told, vouched |-> k \in vouched],
                             soc |-> SocReport(alert, s, c, p, run)]
    BY <1>3 DEF Report
  <2>2. a \in Alert
    BY <1>0, <2>1, AtStageAlert
  <2>3. CaseInv' /\ OpenEarned'
    <3>1. CASE Bindable(a)
      <4>1. ObserveAlert(a)
        BY <2>1, <3>1
      <4>2. CaseInv'
        BY <1>0, <2>2, <4>1, NextCaseInv DEF AnyNext
      <4> DEFINE d == Reported(Stored(k), a)
      <4>3. /\ k \in CaseKeys
            /\ \A l \in CaseKeys : cases'[l] = NoCase \/ cases'[l] = cases[l]
                                     \/ (l = k /\ cases'[l] = d)
        BY <1>0, <2>2, <4>1, ReportStep
      <4>4. Earned(k, d)
        BY <1>0, <2>2, <4>3, ReportedEarned
      <4> HIDE DEF k, d
      <4>5. \A l \in Open' : Earned(l, cases'[l])
        BY <1>0, <4>3, <4>4 DEF OpenEarned, Open
      <4>. QED  BY <2>1, <4>2, <4>5 DEF OpenEarned, Earned
    <3>2. CASE ~Bindable(a)
      BY <1>1, <2>1, <3>2
    <3>. QED  BY <3>1, <3>2
  <2>4. ASSUME c # None, ~c.provisional \/ c.reopens > 0
        PROVE  k \in vouched
    <3>1. Bindable(a) /\ c = Reported(Stored(k), a)
      BY <2>4
    <3>2. k \in CaseKeys
      BY <2>2, <3>1, BindableKey
    <3>3. Earned(k, Reported(Stored(k), a))
      BY <1>0, <2>2, <3>2, ReportedEarned
    <3> HIDE DEF c, k
    <3>. QED  BY <2>4, <3>1, <3>3 DEF Earned
  <2>5. AuthorityIsEarned'
    <3>1. PICK p : report' = [of |-> a, flagged |-> alert.advanced \/ alert.decoy,
                              recalled |-> p # None, run |-> run,
                              asOf |-> [told |-> memory.told, vouched |-> k \in vouched],
                              soc |-> SocReport(alert, s, c, p, run)]
      BY <2>1
    <3> HIDE DEF c, s
    <3>2. report'.soc = SocReport(alert, s, c, p, run) /\ report'.asOf.vouched = (k \in vouched)
      BY <3>1
    <3> HIDE DEF k, a
    <3>3. report'.soc.routine \/ report'.soc.hitl \/ report'.soc.confidence = "authoritative"
            => c # None /\ (~c.provisional \/ c.reopens > 0)
      BY <3>2, SocAuthority
    <3>. QED  BY <2>4, <3>2, <3>3 DEF AuthorityIsEarned
  <2>. QED  BY <1>0, <2>1, <2>3, <2>5 DEF AuthorityInv, InPipeline
<1>4. ASSUME NEW a \in Alerts, NEW o \in Outcomes, Learn(a, o) PROVE AuthorityInv'
  <2>1. /\ UNCHANGED vars /\ vouched' = vouched
        /\ report' = None /\ alert' = alert
        /\ filing' = [of |-> a, outcome |-> o]
    BY <1>4 DEF Learn
  <2>. QED  BY <1>0, <1>1, <2>1 DEF AuthorityInv, AuthorityIsEarned, InPipeline
<1>5. CASE File
  <2> DEFINE a == filing.of
             o == filing.outcome
             k == KeyOf(a)
  <2>1. /\ filing # None /\ filing' = None /\ report' = None /\ alert' = alert
        /\ IF o.verdict # "INCONCLUSIVE" THEN SubmitCase(a, o) ELSE UNCHANGED vars
        /\ vouched' = IF o.verdict = "CONFIRMED_TP" THEN vouched \cup {k} ELSE vouched
    BY <1>5 DEF File
  <2>2. a \in Alert /\ o \in Observation
    BY <1>0, <2>1, AlertsAssumption, OutcomesAssumption DEF InPipeline
  <2>3. CASE SubmitCase(a, o)
    <3>1. CaseInv'
      BY <1>0, <2>2, <2>3, NextCaseInv DEF AnyNext
    <3>2. PICK c \in Resolved(a) :
             /\ k \in Actors
             /\ c \in Case
             /\ \A l \in CaseKeys : cases'[l] = NoCase \/ cases'[l] = cases[l]
                                      \/ (l = k /\ cases'[l] = Advanced(c, a, o))
      BY <1>0, <2>2, <2>3, SubmitStep
    <3> DEFINE d == Advanced(c, a, o)
    <3>3. c.provisional = Stored(k).provisional /\ c.reopens = Stored(k).reopens
      BY <1>0, <2>2, <2>3, ResolvedType DEF SubmitCase
    <3>4. ~Stored(k).provisional \/ Stored(k).reopens > 0 => k \in vouched
      BY <1>0 DEF OpenEarned, Stored, Earned, FreshCase
    <3>5. /\ d.provisional = (c.provisional /\ o.verdict # "CONFIRMED_TP")
          /\ d.reopens = c.reopens \/ o.verdict = "CONFIRMED_TP"
      BY DEF Advanced, Reopens
    <3> HIDE DEF k, d
    <3>6. ~d.provisional \/ d.reopens > 0 => k \in vouched'
      BY <2>1, <3>3, <3>4, <3>5
    <3>7. vouched \subseteq vouched'
      BY <2>1
    <3>8. \A l \in Open' : ~cases'[l].provisional \/ cases'[l].reopens > 0 => l \in vouched'
      BY <1>0, <3>2, <3>6, <3>7 DEF OpenEarned, Earned, Open, d
    <3>9. OpenEarned'
      BY <3>8 DEF OpenEarned, Earned
    <3>. QED  BY <1>0, <2>1, <3>1, <3>9 DEF AuthorityInv, InPipeline, AuthorityIsEarned
  <2>4. CASE ~SubmitCase(a, o)
    <3>1. UNCHANGED vars /\ vouched' = vouched
      BY <2>1, <2>4
    <3>. QED  BY <1>0, <1>1, <2>1, <3>1 DEF AuthorityInv, InPipeline, AuthorityIsEarned
  <2>. QED  BY <2>3, <2>4
<1>6. CASE Tick
  BY <1>0, <1>1, <1>6 DEF Tick, AuthorityInv, InPipeline, AuthorityIsEarned
<1>7. CASE UNCHANGED allVars
  <2>1. UNCHANGED vars /\ UNCHANGED <<vouched, report, alert, filing>>
    BY <1>7 DEF allVars, reportVars
  <2>. QED  BY <1>0, <1>1, <2>1 DEF AuthorityInv, InPipeline, AuthorityIsEarned
<1>8. CASE Recall
  <2>1. UNCHANGED vars /\ UNCHANGED <<vouched, alert, filing>> /\ report' = None
    BY <1>8 DEF Recall
  <2>. QED  BY <1>0, <1>1, <2>1 DEF AuthorityInv, InPipeline, AuthorityIsEarned
<1>. QED  BY <1>2, <1>3, <1>4, <1>5, <1>6, <1>7, <1>8 DEF ReportNext

(* Whatever a report bases on a case's authority (leaving an alert to      *)
(* routine, demanding an approval, calling the case confirmed), a trusted  *)
(* observation confirmed that case before (agents/report_agent.py).        *)
THEOREM AuthorityEarned == ReportSpec => []AuthorityIsEarned
<1>1. AuthorityInv => AuthorityIsEarned
  BY DEF AuthorityInv
<1>. QED  BY <1>1, InitAuthority, NextAuthority, PTL DEF ReportSpec

-----------------------------------------------------------------------------
(* What an answer covers.  A profile forgets steps but no technique, so    *)
(* what history says was confirmed is what the profile has on file.        *)

(* The statistics that the confirmed alerts in t leave. *)
FiledFor(t) ==
  UNION {{<<FiledUnder(Says[x.id]), u>> : u \in Range(Says[x.id].techniques)} : x \in Range(t)}

(* The steps on file are of techniques on file. *)
StepsOnFile(p) ==
  /\ p.steps \in Seq(Range(p.steps))
  /\ \A i \in DOMAIN p.steps : \E x \in p.stats : x[2] = p.steps[i].technique

OnFile(k) ==
  IF k \in DOMAIN profiles
  THEN profiles[k].stats = FiledFor(told[k]) /\ StepsOnFile(profiles[k])
  ELSE told[k] = <<>>

ToldOf(k) == told[k] \in Seq([id : DOMAIN Says, time : Nat])

(* What a report has recalled is a profile as it was on file, with what had *)
(* been told by then.                                                      *)
Remembers ==
  memory # None =>
    /\ alert # None
    /\ memory.told \in Seq([id : DOMAIN Says, time : Nat])
    /\ memory.profile # None =>
         /\ alert.of.actor \in Actors
         /\ memory.profile.stats = FiledFor(memory.told)
         /\ StepsOnFile(memory.profile)

CoverInv ==
  /\ InPipeline
  /\ DOMAIN profiles \subseteq Actors
  /\ told = [k \in Actors |-> told[k]]
  /\ now \in Nat
  /\ \A k \in Actors : ToldOf(k) /\ OnFile(k)
  /\ Remembers
  /\ AnswersCoverReach

(* The range of a sequence with one more element. *)
LEMMA RangeAppend ==
  ASSUME NEW S, NEW t \in Seq(S), NEW x \in S
  PROVE  Range(Append(t, x)) = Range(t) \cup {x}
<1> DEFINE n == Append(t, x)
<1>1. /\ DOMAIN n = 1..(Len(t) + 1) /\ DOMAIN t = 1..Len(t) /\ Len(t) \in Nat
      /\ n[Len(t) + 1] = x /\ \A i \in 1..Len(t) : n[i] = t[i]
  OBVIOUS
<1> HIDE DEF n
<1>2. ASSUME NEW i \in DOMAIN n PROVE n[i] \in Range(t) \cup {x}
  <2>1. i = Len(t) + 1 \/ i \in 1..Len(t)
    BY <1>1
  <2>. QED  BY <1>1, <2>1 DEF Range
<1>3. x \in Range(n)
  <2>1. Len(t) + 1 \in DOMAIN n
    BY <1>1
  <2>. QED  BY <1>1, <2>1 DEF Range
<1>4. ASSUME NEW i \in DOMAIN t PROVE t[i] \in Range(n)
  <2>1. i \in DOMAIN n /\ n[i] = t[i]
    BY <1>1
  <2>. QED  BY <2>1 DEF Range
<1>5. Range(n) \subseteq Range(t) \cup {x}
  BY <1>2 DEF Range
<1>6. Range(t) \cup {x} \subseteq Range(n)
  BY <1>3, <1>4 DEF Range
<1>. QED  BY <1>5, <1>6 DEF n

(* One more confirmed alert is one more set of techniques filed. *)
LEMMA FiledAppend ==
  ASSUME NEW t \in Seq([id : DOMAIN Says, time : Nat]), NEW x \in [id : DOMAIN Says, time : Nat]
  PROVE  FiledFor(Append(t, x)) =
           FiledFor(t) \cup {<<FiledUnder(Says[x.id]), u>> : u \in Range(Says[x.id].techniques)}
<1> DEFINE E == [id : DOMAIN Says, time : Nat]
<1>1. Range(Append(t, x)) = Range(t) \cup {x}
  <2>1. t \in Seq(E) /\ x \in E
    OBVIOUS
  <2> HIDE DEF E
  <2>. QED  BY <2>1, RangeAppend
<1>. QED  BY <1>1 DEF FiledFor

(* Every step of a window was in the sequence. *)
LEMMA KeptSteps ==
  ASSUME NEW S, NEW t \in Seq(S), ChainCap \in Nat
  PROVE  /\ Kept(t) \in Seq(S)
         /\ \A i \in DOMAIN Kept(t) : \E j \in DOMAIN t : Kept(t)[i] = t[j]
<1>1. CASE Len(t) > ChainCap
  <2> DEFINE lo == Len(t) - ChainCap + 1
             w  == SubSeq(t, lo, Len(t))
  <2>1. lo \in 1..(Len(t) + 1) /\ Len(t) \in Nat
    BY <1>1
  <2>2. /\ w \in Seq(S)
        /\ Len(w) = Len(t) - lo + 1
        /\ DOMAIN w = 1..(Len(t) - lo + 1)
        /\ \A i \in 1..(Len(t) - lo + 1) : w[i] = t[lo + i - 1]
    BY <2>1
  <2>3. ASSUME NEW i \in DOMAIN w PROVE \E j \in DOMAIN t : w[i] = t[j]
    <3>1. lo + i - 1 \in DOMAIN t
      BY <2>1, <2>2
    <3> HIDE DEF w
    <3>. QED  BY <2>2, <3>1
  <2>4. Kept(t) = w
    BY <1>1 DEF Kept
  <2> HIDE DEF w
  <2>. QED  BY <2>2, <2>3, <2>4
<1>2. CASE ~(Len(t) > ChainCap)
  BY <1>2 DEF Kept
<1>. QED  BY <1>1, <1>2

(* A learned alert leaves its techniques, and steps on file. *)
LEMMA LearnedOnFile ==
  ASSUME NEW p, StepsOnFile(p), NEW id \in DOMAIN Says, now \in Nat
  PROVE  LET s == Says[id]
             q == Learned(p, s)
         IN  /\ q.stats = p.stats \cup {<<FiledUnder(s), t>> : t \in Range(s.techniques)}
             /\ StepsOnFile(q)
<1> DEFINE s   == Says[id]
           q   == Learned(p, s)
           new == [i \in DOMAIN s.techniques |->
                     [time |-> now, scenario |-> s.scenario, technique |-> s.techniques[i]]]
           all == p.steps \o new
           S   == Range(p.steps) \cup Range(new)
<1>1. q.stats = p.stats \cup {<<FiledUnder(s), t>> : t \in Range(s.techniques)}
      /\ q.steps = Kept(all)
  BY DEF Learned
<1>2. new \in Seq(S) /\ p.steps \in Seq(S)
  <2>1. s.techniques \in Seq(Range(s.techniques))
    BY SaysAssumption
  <2>2. DOMAIN s.techniques = 1..Len(s.techniques) /\ Len(s.techniques) \in Nat
    <3> HIDE DEF s
    <3>. QED  BY <2>1
  <2>3. \A i \in DOMAIN s.techniques : new[i] \in Range(new)
    BY DEF Range
  <2>4. new \in Seq(Range(new))
    <3>1. DOMAIN new = 1..Len(s.techniques)
      BY <2>2
    <3>2. new = [i \in 1..Len(s.techniques) |-> new[i]]
      BY <2>2
    <3> HIDE DEF s, new
    <3>. QED  BY <2>2, <2>3, <3>1, <3>2
  <2>5. p.steps \in Seq(Range(p.steps))
    BY DEF StepsOnFile
  <2> HIDE DEF s, new
  <2>. QED  BY <2>4, <2>5
<1>3. /\ all \in Seq(S) /\ Len(all) = Len(p.steps) + Len(new)
      /\ DOMAIN all = 1..Len(all) /\ Len(p.steps) \in Nat /\ Len(new) \in Nat
      /\ \A i \in 1..Len(p.steps) : all[i] = p.steps[i]
      /\ \A i \in 1..Len(new) : all[Len(p.steps) + i] = new[i]
      /\ DOMAIN p.steps = 1..Len(p.steps) /\ DOMAIN new = 1..Len(new)
  <2> HIDE DEF new, S
  <2>. QED  BY <1>2
<1>4. ASSUME NEW j \in DOMAIN all PROVE \E x \in q.stats : x[2] = all[j].technique
  <2>1. CASE j \in 1..Len(p.steps)
    <3>1. all[j] = p.steps[j] /\ j \in DOMAIN p.steps
      BY <1>3, <2>1
    <3>2. \E x \in p.stats : x[2] = p.steps[j].technique
      BY <3>1 DEF StepsOnFile
    <3> HIDE DEF q, all
    <3>. QED  BY <1>1, <3>1, <3>2
  <2>2. CASE j \notin 1..Len(p.steps)
    <3> DEFINE i == j - Len(p.steps)
    <3>1. i \in DOMAIN new /\ all[j] = new[i]
      <4>1. i \in 1..Len(new) /\ j = Len(p.steps) + i
        <5> HIDE DEF all, new
        <5>. QED  BY <1>3, <2>2
      <4> HIDE DEF all, new, i
      <4>. QED  BY <1>3, <4>1
    <3>2. i \in DOMAIN s.techniques /\ new[i].technique = s.techniques[i]
      <4> HIDE DEF i
      <4>. QED  BY <3>1
    <3>3. <<FiledUnder(s), s.techniques[i]>> \in q.stats
      <4> HIDE DEF i, q
      <4>. QED  BY <1>1, <3>2 DEF Range
    <3> HIDE DEF q, all, i, new
    <3>. QED  BY <3>1, <3>2, <3>3
  <2>. QED  BY <2>1, <2>2
<1>5. Kept(all) \in Seq(S) /\ \A i \in DOMAIN Kept(all) : \E j \in DOMAIN all : Kept(all)[i] = all[j]
  <2>1. ChainCap \in Nat
    BY PoliciesAssumption
  <2>2. all \in Seq(S)
    BY <1>3
  <2> HIDE DEF all, S
  <2>. QED  BY <2>1, <2>2, KeptSteps
<1>6. q.steps \in Seq(Range(q.steps))
  <2> HIDE DEF q, all, S
  <2>. QED  BY <1>1, <1>5 DEF Range
<1>7. \A i \in DOMAIN q.steps : \E x \in q.stats : x[2] = q.steps[i].technique
  <2> HIDE DEF q, all, S
  <2>. QED  BY <1>1, <1>4, <1>5
<1>. QED  BY <1>1, <1>6, <1>7 DEF StepsOnFile

-----------------------------------------------------------------------------
(* The kill chain. *)

(* A finite set of naturals that is not empty has a largest element. *)
LEMMA LargestNat ==
  ASSUME NEW S \in SUBSET Nat, IsFiniteSet(S), S # {}
  PROVE  Max(S) \in S /\ \A y \in S : y <= Max(S)
<1> DEFINE r == {x \in S \X S : x[1] > x[2]}
<1>1. \A x, y : <<x, y>> \in r <=> x \in S /\ y \in S /\ x > y
  OBVIOUS
<1>2. r \subseteq S \X S
  OBVIOUS
<1> HIDE DEF r
<1>3. StrictOrder(r, S)
  BY <1>1, <1>2 DEF StrictOrder
<1>4. PICK v \in S : {u \in S : \A l \in S \ {u} : <<u, l>> \in r} = {v}
  BY <1>3, FirstInOrder
<1>5. \A l \in S \ {v} : v > l
  BY <1>1, <1>4
<1>6. \A y \in S : v >= y
  BY <1>5
<1>. QED  BY <1>6 DEF Max

(* Every tactic has a place; only finitely many places occur. *)
LEMMA OrderSet ==
  /\ \A t : TacticOrder(t) \in {r.order : r \in Matrix} \cup {0}
  /\ {r.order : r \in Matrix} \cup {0} \in SUBSET Nat
  /\ IsFiniteSet({r.order : r \in Matrix} \cup {0})
<1> DEFINE O == {r.order : r \in Matrix}
           f == [r \in Matrix |-> r.order]
<1>1. f \in Surjection(Matrix, O)
  BY DEF Surjection
<1>2. IsFiniteSet(Matrix)
  BY MatrixAssumption
<1>3. IsFiniteSet(O)
  <2> HIDE DEF f, O
  <2>. QED  BY <1>1, <1>2, FS_Surjection
<1>4. IsFiniteSet(O \cup {0})
  <2> HIDE DEF O
  <2>. QED  BY <1>3, FS_AddElement
<1>5. O \cup {0} \in SUBSET Nat
  <2>1. \A r \in Matrix : r.order \in Nat
    BY MatrixAssumption
  <2>. QED  BY <2>1
<1>6. \A t : TacticOrder(t) \in O \cup {0}
  BY DEF TacticOrder
<1>. QED  BY <1>4, <1>5, <1>6

(* The furthest place among tactics is that of one of them, or 0. *)
LEMMA MaxOrder ==
  ASSUME NEW T
  PROVE  /\ MaxTacticOrder(T) \in Nat
         /\ \A t \in T : TacticOrder(t) \in Nat /\ TacticOrder(t) <= MaxTacticOrder(T)
         /\ MaxTacticOrder(T) = 0 \/ \E t \in T : TacticOrder(t) = MaxTacticOrder(T)
<1> DEFINE S == {TacticOrder(t) : t \in T} \cup {0}
<1>1. S \in SUBSET ({r.order : r \in Matrix} \cup {0}) /\ S # {}
  BY OrderSet
<1>2. S \in SUBSET Nat /\ IsFiniteSet(S)
  <2> HIDE DEF S
  <2>. QED  BY <1>1, OrderSet, FS_Subset
<1>3. Max(S) \in S /\ \A y \in S : y <= Max(S)
  <2> HIDE DEF S
  <2>. QED  BY <1>1, <1>2, LargestNat
<1>4. MaxTacticOrder(T) = Max(S)
  BY DEF MaxTacticOrder
<1>. QED  BY <1>2, <1>3, <1>4

(* The furthest of some tactics is one of them, at the furthest place.     *)
LEMMA FurthestOf ==
  ASSUME NEW T, T # {}
  PROVE  Furthest(T) \in T /\ TacticOrder(Furthest(T)) = MaxTacticOrder(T)
<1>1. \E t \in T : \A u \in T : TacticOrder(u) <= TacticOrder(t)
  <2>1. CASE MaxTacticOrder(T) = 0
    <3>1. \A u \in T : TacticOrder(u) = 0
      BY <2>1, MaxOrder
    <3>. QED  BY <3>1
  <2>2. CASE MaxTacticOrder(T) # 0
    BY <2>2, MaxOrder
  <2>. QED  BY <2>1, <2>2
<1>2. Furthest(T) \in T /\ \A u \in T : TacticOrder(u) <= TacticOrder(Furthest(T))
  BY <1>1 DEF Furthest
<1>. QED  BY <1>2, MaxOrder

-----------------------------------------------------------------------------
(* The answers. *)

(* The menu is for the furthest stage. *)
LEMMA MenuAtReach ==
  ASSUME NEW T, NEW predicted, MaxTacticOrder(T) > 0
  PROVE  \E m \in CoursesOfAction(T, predicted) :
            m.stage = "current" /\ TacticOrder(m.tactic) = MaxTacticOrder(T)
<1>1. MaxTacticOrder(T) # 0 /\ T # {}
  BY MaxOrder
<1>2. Furthest(T) \in T /\ TacticOrder(Furthest(T)) = MaxTacticOrder(T)
  BY <1>1, FurthestOf
<1>3. Furthest(T) # None
  <2>1. TacticOrder(Furthest(T)) > 0
    BY <1>1, <1>2, MaxOrder
  <2>2. \E r \in Matrix : r.tactic = Furthest(T)
    BY <2>1 DEF TacticOrder
  <2>. QED  BY <2>2, PoliciesAssumption
<1>4. PICK d \in Defenses : TRUE
  BY PoliciesAssumption
<1>5. Reached(T) = Furthest(T)
  BY <1>1 DEF Reached
<1>6. CoaOption(Furthest(T), "current", d) \in CoursesOfAction(T, predicted)
  BY <1>3, <1>5 DEF CoursesOfAction, Menu
<1>7. /\ CoaOption(Furthest(T), "current", d).stage = "current"
      /\ CoaOption(Furthest(T), "current", d).tactic = Furthest(T)
  BY DEF CoaOption
<1>. QED  BY <1>2, <1>6, <1>7

(* The recovery starts at the furthest stage with a plan. *)
LEMMA RecoveryAtReach ==
  ASSUME NEW T, T \cap Plans # {}
  PROVE  Recovery(T) # None /\ TacticOrder(Recovery(T)) = MaxTacticOrder(T \cap Plans)
BY FurthestOf, PoliciesAssumption DEF Recovery

(* The chain of causes is a sequence. *)
LEMMA CausesOf ==
  ASSUME NEW signals
  PROVE  CausalChain(signals) \in Seq(Range(CausalChain(signals)))
<1> DEFINE hits == {i \in DOMAIN CausalRules : CausalRules[i].signals \cap signals # {}}
<1>1. CASE hits = {}
  <2>1. CausalChain(signals) = <<>>
    BY <1>1 DEF CausalChain
  <2>. QED  BY <2>1 DEF Range
<1>2. CASE hits # {}
  <2>1. hits \in SUBSET Nat
    BY PoliciesAssumption
  <2>2. \E i \in hits : \A j \in hits : i <= j
    <3> HIDE DEF hits
    <3>. QED  BY <1>2, <2>1, LeastNat
  <2>3. Min(hits) \in hits
    <3> HIDE DEF hits
    <3>. QED  BY <2>2 DEF Min
  <2>4. CausalChain(signals) = CausalRules[Min(hits)].steps
    BY <1>2 DEF CausalChain
  <2>. QED  BY <2>3, <2>4, PoliciesAssumption
<1>. QED  BY <1>1, <1>2

(* The graph names every technique on file, and no edge hangs loose. *)
GraphNames(p, g) ==
  /\ \A x \in p.stats : Technique(x[2]) \in g.nodes
  /\ \A e \in g.edges : {e[1], e[2]} \subseteq g.nodes

LEMMA GraphCloses ==
  ASSUME NEW actor, actor # None, NEW p, StepsOnFile(p), NEW forecast,
         NEW causal, causal \in Seq(Range(causal))
  PROVE  GraphNames(p, AttackGraph(actor, p, forecast, causal))
<1> DEFINE A == ActorPart(actor, p)
           C == ChainPart(p)
           P == PredictedPart(actor, p, forecast)
           K == CausalPart(causal)
           g == AttackGraph(actor, p, forecast, causal)
<1>1. /\ g.nodes = A.nodes \cup C.nodes \cup P.nodes \cup K.nodes
      /\ g.edges = A.edges \cup C.edges \cup P.edges \cup K.edges
  <2> DEFINE parts == {A, C} \cup {P, K}
  <2>1. g = [nodes |-> UNION {h.nodes : h \in parts}, edges |-> UNION {h.edges : h \in parts}]
    BY DEF AttackGraph
  <2> HIDE DEF A, C, P, K, g
  <2>. QED  BY <2>1
<1>2. \A x \in p.stats : Technique(x[2]) \in A.nodes
  BY DEF ActorPart
<1>3. \A e \in A.edges : {e[1], e[2]} \subseteq A.nodes
  BY DEF ActorPart
<1>4. \A e \in C.edges : {e[1], e[2]} \subseteq C.nodes
  BY DEF ChainPart
<1>5. \A e \in P.edges : {e[1], e[2]} \subseteq A.nodes \cup P.nodes
  <2>1. <<"actor", actor>> \in A.nodes
    BY DEF ActorPart
  <2>2. p.steps # <<>> => Technique(Last(p.steps).technique) \in A.nodes
    <3>1. SUFFICES ASSUME p.steps # <<>>
                   PROVE  Technique(Last(p.steps).technique) \in A.nodes
      OBVIOUS
    <3>2. Len(p.steps) \in DOMAIN p.steps
      BY <3>1 DEF StepsOnFile
    <3>3. \E x \in p.stats : x[2] = p.steps[Len(p.steps)].technique
      BY <3>2 DEF StepsOnFile
    <3> HIDE DEF A
    <3>. QED  BY <1>2, <3>3 DEF Last
  <2>. QED
    <3> HIDE DEF A
    <3>. QED  BY <2>1, <2>2 DEF PredictedPart
<1>6. \A e \in K.edges : {e[1], e[2]} \subseteq K.nodes
  <2>1. DOMAIN causal = 1..Len(causal) /\ Len(causal) \in Nat
    OBVIOUS
  <2>2. \A i \in 1..(Len(causal) - 1) : i \in DOMAIN causal /\ i + 1 \in DOMAIN causal
    BY <2>1
  <2>. QED  BY <2>2 DEF CausalPart
<1> HIDE DEF A, C, P, K, g
<1>. QED  BY <1>1, <1>2, <1>3, <1>4, <1>5, <1>6 DEF g, GraphNames

(* What an answer to an alert of an actor owes to what was confirmed of it. *)
Covers(b, t, s, run) ==
  LET said  == {Says[x.id] : x \in Range(t)}
      filed == {FiledUnder(u) : u \in {u \in said : u.techniques # <<>>}} \cup Range(s.tactics)
      says  == b.says
  IN  /\ MaxTacticOrder(filed) > 0 =>
           \E m \in says.coas : /\ m.stage = "current"
                                /\ TacticOrder(m.tactic) = MaxTacticOrder(filed)
      /\ run.verdict = "TRUE_POSITIVE" /\ filed \cap Plans # {} =>
           /\ says.recovery # None
           /\ TacticOrder(says.recovery) = MaxTacticOrder(filed \cap Plans)
      /\ \A u \in said : /\ Range(u.techniques) \subseteq says.diamond.capabilities
                         /\ {"technique"} \X Range(u.techniques) \subseteq says.graph.nodes
      /\ \A e \in says.graph.edges : {e[1], e[2]} \subseteq says.graph.nodes

(* The tactics a profile has on file are those its alerts are filed under. *)
LEMMA FiledTactics ==
  ASSUME NEW t \in Seq([id : DOMAIN Says, time : Nat]), NEW p, p.stats = FiledFor(t)
  PROVE  TacticsOnFile(p) =
           {FiledUnder(u) : u \in {u \in {Says[x.id] : x \in Range(t)} : u.techniques # <<>>}}
<1>1. \A x \in Range(t) : x.id \in DOMAIN Says
  <2> DEFINE E == [id : DOMAIN Says, time : Nat]
  <2>1. \A x \in E : x.id \in DOMAIN Says
    OBVIOUS
  <2>2. t \in Seq(E)
    OBVIOUS
  <2> HIDE DEF E
  <2>3. \A i \in DOMAIN t : t[i] \in E
    BY <2>2
  <2>. QED  BY <2>1, <2>3 DEF Range
<1>2. \A id \in DOMAIN Says : Says[id].techniques # <<>> <=> \E u : u \in Range(Says[id].techniques)
  <2> SUFFICES ASSUME NEW id \in DOMAIN Says
               PROVE  Says[id].techniques # <<>> <=> \E u : u \in Range(Says[id].techniques)
    OBVIOUS
  <2> DEFINE q == Says[id].techniques
  <2>1. q \in Seq(Range(q))
    BY SaysAssumption
  <2> HIDE DEF q
  <2>2. q # <<>> <=> \E i : i \in DOMAIN q
    BY <2>1
  <2>3. (\E i : i \in DOMAIN q) <=> \E u : u \in Range(q)
    BY DEF Range
  <2>. QED  BY <2>2, <2>3 DEF q
<1>3. \A y : y \in TacticsOnFile(p)
             <=> \E x \in Range(t) : y = FiledUnder(Says[x.id])
                                     /\ \E u : u \in Range(Says[x.id].techniques)
  <2>1. TacticsOnFile(p) = {x[1] : x \in FiledFor(t)}
    BY DEF TacticsOnFile
  <2>2. ASSUME NEW y \in TacticsOnFile(p)
        PROVE  \E x \in Range(t) : y = FiledUnder(Says[x.id])
                                   /\ \E u : u \in Range(Says[x.id].techniques)
    <3>1. PICK z \in FiledFor(t) : y = z[1]
      BY <2>1
    <3>2. PICK x \in Range(t) :
               \E u \in Range(Says[x.id].techniques) : z = <<FiledUnder(Says[x.id]), u>>
      BY DEF FiledFor
    <3>3. PICK u \in Range(Says[x.id].techniques) : z = <<FiledUnder(Says[x.id]), u>>
      BY <3>2
    <3>4. z[1] = FiledUnder(Says[x.id])
      BY <3>3
    <3>. QED  BY <3>1, <3>3, <3>4
  <2>3. ASSUME NEW x \in Range(t), NEW u \in Range(Says[x.id].techniques)
        PROVE  FiledUnder(Says[x.id]) \in TacticsOnFile(p)
    <3>1. <<FiledUnder(Says[x.id]), u>> \in FiledFor(t)
      BY DEF FiledFor
    <3>. QED  BY <2>1, <3>1
  <2>. QED  BY <2>2, <2>3
<1>4. \A y : y \in TacticsOnFile(p)
             <=> \E x \in Range(t) : y = FiledUnder(Says[x.id]) /\ Says[x.id].techniques # <<>>
  BY <1>1, <1>2, <1>3
<1>. QED  BY <1>4

(* An answer made from a profile that has on file what was confirmed.      *)
LEMMA AnswerCovers ==
  ASSUME NEW al, NEW s, NEW c, NEW p, NEW run,
         NEW t \in Seq([id : DOMAIN Says, time : Nat]),
         p # None, al.of.actor # None, p.stats = FiledFor(t), StepsOnFile(p)
  PROVE  Covers(SocReport(al, s, c, p, run), t, s, run)
<1> DEFINE says  == SocReport(al, s, c, p, run).says
           said  == {Says[x.id] : x \in Range(t)}
           filed == {FiledUnder(u) : u \in {u \in said : u.techniques # <<>>}} \cup Range(s.tactics)
           T     == Range(s.tactics) \cup TacticsOnFile(p)
           F     == {x.technique : x \in run.forecast}
           K     == CausalChain(s.signals)
<1>1. /\ says.coas = CoursesOfAction(T, F)
      /\ says.recovery = IF run.verdict = "TRUE_POSITIVE" THEN Recovery(T) ELSE None
      /\ says.diamond.capabilities = Range(s.techniques) \cup {x[2] : x \in p.stats}
      /\ says.graph = AttackGraph(al.of.actor, p, run.forecast, K)
  BY DEF SocReport, Analyses, DiamondEvent, Capabilities
<1>2. T = filed
  BY FiledTactics
<1> HIDE DEF says
<1>3. MaxTacticOrder(filed) > 0 =>
        \E m \in says.coas : /\ m.stage = "current"
                             /\ TacticOrder(m.tactic) = MaxTacticOrder(filed)
  <2> HIDE DEF T, F, filed
  <2>. QED  BY <1>1, <1>2, MenuAtReach
<1>4. run.verdict = "TRUE_POSITIVE" /\ filed \cap Plans # {} =>
        /\ says.recovery # None
        /\ TacticOrder(says.recovery) = MaxTacticOrder(filed \cap Plans)
  <2> HIDE DEF T, F, filed
  <2>. QED  BY <1>1, <1>2, RecoveryAtReach
<1>5. /\ \A x \in p.stats : Technique(x[2]) \in says.graph.nodes
      /\ \A e \in says.graph.edges : {e[1], e[2]} \subseteq says.graph.nodes
  <2>1. K \in Seq(Range(K))
    BY CausesOf
  <2>2. says.graph = AttackGraph(al.of.actor, p, run.forecast, K)
    BY <1>1
  <2> HIDE DEF K
  <2>3. GraphNames(p, says.graph)
    BY <2>1, <2>2, GraphCloses
  <2>. QED  BY <2>3 DEF GraphNames
<1>6. ASSUME NEW u \in said
      PROVE  /\ Range(u.techniques) \subseteq says.diamond.capabilities
             /\ {"technique"} \X Range(u.techniques) \subseteq says.graph.nodes
  <2>1. PICK x \in Range(t) : u = Says[x.id]
    OBVIOUS
  <2>2. \A v \in Range(u.techniques) : <<FiledUnder(u), v>> \in p.stats
    BY <2>1 DEF FiledFor
  <2>3. \A v \in Range(u.techniques) : v \in {y[2] : y \in p.stats}
    <3> SUFFICES ASSUME NEW v \in Range(u.techniques) PROVE v \in {y[2] : y \in p.stats}
      OBVIOUS
    <3>1. <<FiledUnder(u), v>> \in p.stats /\ <<FiledUnder(u), v>>[2] = v
      BY <2>2
    <3>. QED  BY <3>1
  <2>4. \A v \in Range(u.techniques) : <<"technique", v>> \in says.graph.nodes
    <3> SUFFICES ASSUME NEW v \in Range(u.techniques)
                 PROVE  <<"technique", v>> \in says.graph.nodes
      OBVIOUS
    <3>1. PICK y \in p.stats : y[2] = v
      BY <2>3
    <3>. QED  BY <1>5, <3>1 DEF Technique
  <2>. QED  BY <1>1, <2>3, <2>4
<1> HIDE DEF T, F, K
<1>. QED  BY <1>3, <1>4, <1>5, <1>6 DEF Covers, says

LEMMA InitCover == ReportInit => CoverInv
<1> SUFFICES ASSUME ReportInit PROVE CoverInv
  OBVIOUS
<1>1. <<>> \in Seq([id : DOMAIN Says, time : Nat])
  <2> DEFINE E == [id : DOMAIN Says, time : Nat]
  <2> HIDE DEF E
  <2>1. <<>> \in Seq(E)
    OBVIOUS
  <2>. QED  BY <2>1 DEF E
<1>2. now \in Nat
  BY DEF ReportInit
<1>. QED
  BY <1>1, <1>2 DEF ReportInit, CoverInv, InPipeline, ToldOf, OnFile, Remembers,
                    AnswersCoverReach

(* A recall takes a profile on file, of the actor of the alert, or none. *)
LEMMA RecallTakes ==
  ASSUME CoverInv, Recall
  PROVE  /\ alert # None /\ alert' = alert
         /\ \/ memory'.profile = None /\ memory'.told = <<>>
            \/ /\ alert.of.actor \in DOMAIN profiles
               /\ alert.of.actor \in Actors
               /\ memory' = [profile |-> profiles[alert.of.actor], told |-> told[alert.of.actor]]
<1> DEFINE k == alert.of.actor
<1>1. /\ alert # None /\ alert' = alert
      /\ \E p \in (IF k \in {NoActor, Blank} THEN {None} ELSE Recalls(k)) :
           memory' = [profile |-> p, told |-> IF p = None THEN <<>> ELSE told[k]]
  BY DEF Recall
<1> HIDE DEF k
<1>2. PICK p \in (IF k \in {NoActor, Blank} THEN {None} ELSE Recalls(k)) :
           memory' = [profile |-> p, told |-> IF p = None THEN <<>> ELSE told[k]]
  BY <1>1
<1>4. CASE p = None
  BY <1>1, <1>2, <1>4
<1>5. CASE p # None
  <2>1. k \in DOMAIN profiles /\ p = profiles[k]
    BY <1>2, <1>5 DEF Recalls
  <2>2. DOMAIN profiles \subseteq Actors
    BY DEF CoverInv
  <2>. QED  BY <1>1, <1>2, <1>5, <2>1, <2>2 DEF k
<1>. QED  BY <1>4, <1>5

(* An alert is learned into the profile and the history alike; an answer   *)
(* that recalls the profile covers what history has.                       *)
LEMMA NextCover == CoverInv /\ [ReportNext]_allVars => CoverInv'
<1> SUFFICES ASSUME CoverInv, [ReportNext]_allVars PROVE CoverInv'
  OBVIOUS
<1>0. /\ InPipeline
      /\ DOMAIN profiles \subseteq Actors
      /\ told = [k \in Actors |-> told[k]]
      /\ now \in Nat
      /\ \A k \in Actors : ToldOf(k) /\ OnFile(k)
      /\ Remembers
  BY DEF CoverInv
<1>1. ASSUME profiles' = profiles, told' = told, now' = now
      PROVE  /\ DOMAIN profiles' \subseteq Actors
             /\ told' = [k \in Actors |-> told'[k]]
             /\ now' \in Nat
             /\ \A k \in Actors : ToldOf(k)' /\ OnFile(k)'
  BY <1>0, <1>1 DEF ToldOf, OnFile
<1>2. ASSUME NEW a \in Alerts, Take(a) PROVE CoverInv'
  <2>1. /\ profiles' = profiles /\ told' = told /\ now' = now
        /\ report' = None /\ filing' = filing /\ alert = None /\ memory' = memory
        /\ \E p : alert' = [of       |-> a,
                            advanced |-> IsLate(MaxTacticOrder(p)),
                            decoy    |-> Says[a.id].asset \in DecoyAssets]
    BY <1>2 DEF Take
  <2>2. PICK p : alert' = [of       |-> a,
                           advanced |-> IsLate(MaxTacticOrder(p)),
                           decoy    |-> Says[a.id].asset \in DecoyAssets]
    BY <2>1
  <2>3. alert'.of = a /\ alert'.advanced \in BOOLEAN
    BY <2>2 DEF IsLate
  <2>4. InPipeline'
    BY <1>0, <2>1, <2>3 DEF InPipeline
  <2>5. Remembers'
    BY <1>0, <2>1 DEF Remembers
  <2>. QED  BY <1>1, <2>1, <2>4, <2>5 DEF CoverInv, AnswersCoverReach
<1>3. ASSUME NEW run \in Runs, Report(run) PROVE CoverInv'
  <2> DEFINE a == AtStage(alert)
             s == Says[a.id]
             c == IF Bindable(a) THEN Reported(Stored(KeyOf(a)), a) ELSE None
             p == memory.profile
             v == KeyOf(a) \in vouched
  <2>1. /\ alert # None /\ memory # None /\ alert' = None /\ memory' = None
        /\ profiles' = profiles /\ told' = told /\ now' = now /\ filing' = filing
        /\ report' = [of |-> a, flagged |-> alert.advanced \/ alert.decoy,
                      recalled |-> p # None, run |-> run,
                      asOf |-> [told |-> memory.told, vouched |-> v],
                      soc |-> SocReport(alert, s, c, p, run)]
    BY <1>3 DEF Report
  <2>2. memory.told \in Seq([id : DOMAIN Says, time : Nat])
    BY <1>0, <2>1 DEF Remembers
  <2>3. report'.soc = SocReport(alert, s, c, p, run) /\ report'.asOf.told = memory.told
    <3> HIDE DEF a, c, s, p, v
    <3>. QED  BY <2>1
  <2>4. ASSUME p # None
        PROVE  Covers(report'.soc, report'.asOf.told, s, run)
    <3>1. /\ alert.of.actor \in Actors
          /\ p.stats = FiledFor(memory.told) /\ StepsOnFile(p)
      BY <1>0, <2>1, <2>4 DEF Remembers
    <3>2. alert.of.actor # None
      BY <3>1, PoliciesAssumption
    <3> HIDE DEF a, c, s, p, v
    <3>3. Covers(SocReport(alert, s, c, p, run), memory.told, s, run)
      BY <2>2, <2>4, <3>1, <3>2, AnswerCovers
    <3>. QED  BY <2>3, <3>3
  <2>5. /\ report'.recalled = (p # None) /\ report'.run = run
        /\ report'.of = a
    <3> HIDE DEF c, s, a, p, v
    <3>. QED  BY <2>1
  <2>6. report'.recalled => Covers(report'.soc, report'.asOf.told, Says[report'.of.id], report'.run)
    BY <2>4, <2>5
  <2> HIDE DEF a, c, s, p, v
  <2>7. AnswersCoverReach'
    BY <2>6 DEF AnswersCoverReach, Covers
  <2>. QED  BY <1>0, <1>1, <2>1, <2>7 DEF CoverInv, InPipeline, Remembers
<1>4. ASSUME NEW a \in Alerts, NEW o \in Outcomes, Learn(a, o) PROVE CoverInv'
  <2> DEFINE k == a.actor
             s == Says[a.id]
             p == IF k \in DOMAIN profiles THEN profiles[k] ELSE NoProfile
             x == [id |-> a.id, time |-> now]
  <2>1. /\ k \in Actors
        /\ report' = None /\ alert' = alert /\ now' = now /\ memory' = memory
        /\ filing' = [of |-> a, outcome |-> o]
        /\ IF o.verdict = "CONFIRMED_TP"
           THEN /\ profiles' = [m \in DOMAIN profiles \cup {k} |->
                                IF m = k THEN Learned(p, s) ELSE profiles[m]]
                /\ told' = [told EXCEPT ![k] = Append(told[k], x)]
           ELSE UNCHANGED <<profiles, told>>
    BY <1>4 DEF Learn
  <2>2. a.id \in DOMAIN Says /\ x \in [id : DOMAIN Says, time : Nat]
    BY <1>0, StagesAssumption
  <2>3. InPipeline' /\ Remembers'
    BY <1>0, <2>1 DEF InPipeline, Remembers
  <2>4. CASE o.verdict = "CONFIRMED_TP"
    <3>1. /\ profiles' = [m \in DOMAIN profiles \cup {k} |->
                                IF m = k THEN Learned(p, s) ELSE profiles[m]]
          /\ told' = [told EXCEPT ![k] = Append(told[k], x)]
      BY <2>1, <2>4
    <3>2. told[k] \in Seq([id : DOMAIN Says, time : Nat])
      BY <1>0, <2>1 DEF ToldOf
    <3>3. Append(told[k], x) \in Seq([id : DOMAIN Says, time : Nat])
      <4> DEFINE E == [id : DOMAIN Says, time : Nat]
      <4>1. told[k] \in Seq(E) /\ x \in E
        BY <2>2, <3>2
      <4> HIDE DEF E, x, k
      <4>2. Append(told[k], x) \in Seq(E)
        BY <4>1
      <4>. QED  BY <4>2 DEF E
    <3>4. p.stats = FiledFor(told[k]) /\ StepsOnFile(p)
      <4>1. CASE k \notin DOMAIN profiles
        <5>1. p = NoProfile /\ told[k] = <<>>
          BY <1>0, <2>1, <4>1 DEF OnFile
        <5>2. FiledFor(<<>>) = {} /\ StepsOnFile(NoProfile)
          BY DEF FiledFor, Range, StepsOnFile, NoProfile
        <5>. QED  BY <5>1, <5>2 DEF NoProfile
      <4>2. CASE k \in DOMAIN profiles
        BY <1>0, <2>1, <4>2 DEF OnFile
      <4>. QED  BY <4>1, <4>2
    <3>5. /\ Learned(p, s).stats = FiledFor(Append(told[k], x))
          /\ StepsOnFile(Learned(p, s))
      <4>1. /\ Learned(p, s).stats =
                 p.stats \cup {<<FiledUnder(s), t>> : t \in Range(s.techniques)}
            /\ StepsOnFile(Learned(p, s))
        <5> HIDE DEF p
        <5>. QED  BY <1>0, <2>2, <3>4, LearnedOnFile
      <4>2. FiledFor(Append(told[k], x)) =
              FiledFor(told[k]) \cup {<<FiledUnder(Says[x.id]), u>> : u \in Range(Says[x.id].techniques)}
        <5> HIDE DEF x, k
        <5>. QED  BY <2>2, <3>2, FiledAppend
      <4>3. x.id = a.id
        OBVIOUS
      <4> HIDE DEF p, x, k
      <4>. QED  BY <3>4, <4>1, <4>2, <4>3
    <3> HIDE DEF p, s, x
    <3>7. profiles' = [m \in DOMAIN profiles \cup {k} |->
                         IF m = k THEN Learned(p, s) ELSE profiles[m]]
      BY <3>1
    <3>8. told' = [m \in Actors |-> IF m = k THEN Append(told[k], x) ELSE told[m]]
      <4>1. told = [m \in Actors |-> told[m]]
        BY <1>0
      <4>2. told' = [told EXCEPT ![k] = Append(told[k], x)]
        BY <3>1
      <4> HIDE DEF k
      <4>. QED  BY <4>1, <4>2
    <3> HIDE DEF k
    <3>9. \A m \in Actors : ToldOf(m)' /\ OnFile(m)'
      BY <1>0, <3>3, <3>5, <3>7, <3>8 DEF ToldOf, OnFile
    <3>10. /\ DOMAIN profiles' \subseteq Actors
           /\ told' = [m \in Actors |-> told'[m]]
      BY <1>0, <2>1, <3>7, <3>8
    <3>. QED  BY <1>0, <2>1, <2>3, <3>9, <3>10 DEF CoverInv, AnswersCoverReach
  <2>5. CASE o.verdict # "CONFIRMED_TP"
    BY <1>1, <2>1, <2>3, <2>5 DEF CoverInv, AnswersCoverReach
  <2>. QED  BY <2>4, <2>5
<1>5. CASE File
  <2>1. /\ profiles' = profiles /\ told' = told /\ now' = now
        /\ filing' = None /\ report' = None /\ alert' = alert /\ memory' = memory
    BY <1>5 DEF File
  <2>. QED  BY <1>0, <1>1, <2>1 DEF CoverInv, InPipeline, Remembers, AnswersCoverReach
<1>6. CASE Tick
  <2>1. /\ profiles' = profiles /\ told' = told /\ now' = now + 1
        /\ filing' = filing /\ report' = None /\ alert' = alert /\ memory' = memory
    BY <1>6 DEF Tick
  <2>2. \A k \in Actors : ToldOf(k)' /\ OnFile(k)'
    BY <1>0, <2>1 DEF ToldOf, OnFile
  <2>. QED  BY <1>0, <2>1, <2>2 DEF CoverInv, InPipeline, Remembers, AnswersCoverReach
<1>7. CASE UNCHANGED allVars
  <2>1. UNCHANGED reportVars
    BY <1>7 DEF allVars
  <2>2. AnswersCoverReach'
    BY <2>1 DEF reportVars, CoverInv, AnswersCoverReach
  <2>3. InPipeline' /\ Remembers'
    BY <1>0, <2>1 DEF reportVars, InPipeline, Remembers
  <2>. QED  BY <1>1, <2>1, <2>2, <2>3 DEF reportVars, CoverInv
<1>8. CASE Recall
  <2>1. /\ profiles' = profiles /\ told' = told /\ now' = now
        /\ filing' = filing /\ report' = None /\ alert' = alert
    BY <1>8 DEF Recall
  <2>2. Remembers'
    <3>1. /\ alert' # None
          /\ \/ memory'.profile = None /\ memory'.told = <<>>
             \/ /\ alert'.of.actor \in DOMAIN profiles
                /\ alert'.of.actor \in Actors
                /\ memory'.profile = profiles[alert'.of.actor]
                /\ memory'.told = told[alert'.of.actor]
      BY <1>8, RecallTakes
    <3> DEFINE E == [id : DOMAIN Says, time : Nat]
    <3>2. \A k \in Actors : told[k] \in Seq(E)
      BY <1>0 DEF ToldOf
    <3>3. memory'.told \in Seq(E)
      <4> HIDE DEF E
      <4>1. <<>> \in Seq(E)
        OBVIOUS
      <4>. QED  BY <3>1, <3>2, <4>1
    <3>4. ASSUME memory'.profile # None
          PROVE  /\ alert'.of.actor \in Actors
                 /\ memory'.profile.stats = FiledFor(memory'.told)
                 /\ StepsOnFile(memory'.profile)
      BY <1>0, <3>1, <3>4 DEF OnFile
    <3>. QED  BY <3>1, <3>3, <3>4 DEF Remembers
  <2>. QED  BY <1>0, <1>1, <2>1, <2>2 DEF CoverInv, InPipeline, AnswersCoverReach
<1>. QED  BY <1>2, <1>3, <1>4, <1>5, <1>6, <1>7, <1>8 DEF ReportNext

(* The answer to an alert covers all its actor was confirmed to have done, *)
(* though the window of steps has forgotten most of it: the menu of        *)
(* courses of action and the recovery are for the furthest stage filed,    *)
(* the diamond and the graph name every technique, and the graph is closed *)
(* (agents/report_agent.py, core/kill_chain.py).                           *)
THEOREM AnswersCover == ReportSpec => []AnswersCoverReach
<1>1. CoverInv => AnswersCoverReach
  BY DEF CoverInv
<1>. QED  BY <1>1, InitCover, NextCover, PTL DEF ReportSpec

-----------------------------------------------------------------------------
(* What a partner is given. *)

(* Whatever the bundle holds, a partner is given the statement of its tier *)
(* and objects of a type its tier may have, with the fields that are safe  *)
(* and public references only, and relationships between such objects: no  *)
(* end of one is left dangling (releasability.py for_partner).             *)
THEOREM NothingElseLeaves ==
  ASSUME NEW bundle, NEW tier, NEW o \in ForPartner(bundle, tier)
  PROVE  \/ o = Statement(tier)
         \/ /\ o.fields \subseteq SafeFields[o.type] \cup {"object_marking_refs"}
            /\ o.refs \subseteq SafeRefs(o.refs)
            /\ \/ o.type \in PartnerTiers[tier] \cap DOMAIN SafeFields
               \/ /\ o.type = "relationship" /\ o.ends[2] \in Vocabulary
                  /\ {o.ends[1], o.ends[3]} \subseteq {x.id : x \in ForPartner(bundle, tier)}
<1> DEFINE kept      == {x \in bundle : Releasable(x, tier)}
           surviving == {Statement(tier).id} \cup {x.id : x \in kept}
           related   == {x \in bundle : Related(x, surviving)}
           given     == ForPartner(bundle, tier)
<1>1. given = {Statement(tier)} \cup {Scrub(x) : x \in kept \cup related}
  BY DEF ForPartner
<1>2. \A x : Scrub(x).id = x.id /\ Scrub(x).type = x.type /\ Scrub(x).ends = x.ends
  BY DEF Scrub
<1>3. surviving \subseteq {x.id : x \in given}
  BY <1>1, <1>2
<1>4. SUFFICES ASSUME NEW x \in kept \cup related, o = Scrub(x) PROVE
         /\ o.fields \subseteq SafeFields[o.type] \cup {"object_marking_refs"}
         /\ o.refs \subseteq SafeRefs(o.refs)
         /\ \/ o.type \in PartnerTiers[tier] \cap DOMAIN SafeFields
            \/ /\ o.type = "relationship" /\ o.ends[2] \in Vocabulary
               /\ {o.ends[1], o.ends[3]} \subseteq {y.id : y \in given}
  BY <1>1
<1>5. o.fields \subseteq SafeFields[o.type] \cup {"object_marking_refs"}
  BY <1>4 DEF Scrub
<1>6. o.refs \subseteq SafeRefs(o.refs)
  BY <1>4 DEF Scrub, SafeRefs
<1>7. CASE x \in kept
  BY <1>2, <1>4, <1>5, <1>6, <1>7 DEF Releasable
<1>8. CASE x \in related
  <2>1. x.type = "relationship" /\ x.ends[2] \in Vocabulary
        /\ x.ends[1] \in surviving /\ x.ends[3] \in surviving
    BY <1>8 DEF Related
  <2>2. o.type = "relationship" /\ o.ends = x.ends
    BY <1>2, <1>4, <2>1
  <2> HIDE DEF surviving, given
  <2>. QED  BY <1>3, <1>5, <1>6, <2>1, <2>2
<1>. QED  BY <1>4, <1>7, <1>8

(* The techniques and indicators of a diamond that a tier may have.        *)
Given(d, tier) ==
  {Scrub(AttackPattern(t)) :
     t \in {t \in d.capabilities \cap Public : "attack-pattern" \in PartnerTiers[tier]}}
  \cup {Scrub(Indicator(i)) :
          i \in {i \in d.infrastructure \cap Patterned : "indicator" \in PartnerTiers[tier]}}

LEMMA PatternIsReleasable ==
  ASSUME NEW tier
  PROVE  /\ \A t : Releasable(AttackPattern(t), tier)
                     <=> t \in Public /\ "attack-pattern" \in PartnerTiers[tier]
         /\ \A i : Releasable(Indicator(i), tier) <=> "indicator" \in PartnerTiers[tier]
         /\ \A a : ~Releasable(ThreatActor(a), tier)
         /\ \A s, k, t : ~Releasable(Rel(s, k, t), tier)
         /\ ~Releasable(Identity, tier)
<1>1. ASSUME NEW t PROVE SafeRefs(AttackPattern(t).refs) # {} <=> t \in Public
  <2> DEFINE ref == [source |-> "mitre-attack", id |-> t]
  <2>1. AttackPattern(t).refs = {ref}
    BY DEF AttackPattern, StixObject
  <2>2. ref.source = "mitre-attack" /\ ref.id = t
    OBVIOUS
  <2> HIDE DEF ref
  <2>. QED  BY <2>1, <2>2 DEF SafeRefs
<1>2. /\ \A t : AttackPattern(t).type = "attack-pattern"
      /\ \A i : Indicator(i).type = "indicator"
      /\ \A a : ThreatActor(a).type = "threat-actor"
      /\ \A s, k, t : Rel(s, k, t).type = "relationship"
      /\ Identity.type = "identity"
  BY DEF AttackPattern, Indicator, ThreatActor, Rel, Identity, StixObject
<1>3. DOMAIN SafeFields = {"attack-pattern", "indicator", "relationship", "marking-definition"}
  BY DEF SafeFields
<1>4. ASSUME NEW t
      PROVE  Releasable(AttackPattern(t), tier)
               <=> t \in Public /\ "attack-pattern" \in PartnerTiers[tier]
  <2> DEFINE o == AttackPattern(t)
  <2>1. o.type = "attack-pattern" /\ (SafeRefs(o.refs) # {} <=> t \in Public)
    BY <1>1, <1>2
  <2> HIDE DEF o
  <2>2. Releasable(o, tier) <=> t \in Public /\ "attack-pattern" \in PartnerTiers[tier]
    BY <2>1, <1>3 DEF Releasable
  <2>. QED  BY <2>2 DEF o
<1>5. ASSUME NEW i
      PROVE  Releasable(Indicator(i), tier) <=> "indicator" \in PartnerTiers[tier]
  BY <1>2, <1>3 DEF Releasable
<1>6. /\ \A a : ~Releasable(ThreatActor(a), tier)
      /\ \A s, k, t : ~Releasable(Rel(s, k, t), tier)
      /\ ~Releasable(Identity, tier)
  BY <1>2, <1>3 DEF Releasable
<1>. QED  BY <1>4, <1>5, <1>6

(* Every relationship of a diamond has its adversary at an end.            *)
LEMMA GivenIsWhole ==
  ASSUME NEW d, NEW tier \in DOMAIN PartnerTiers
  PROVE  ForPartner(FromDiamond(d), tier) =
           IF Given(d, tier) = {} THEN {} ELSE {Statement(tier)} \cup Given(d, tier)
<1> DEFINE actors  == {d.adversary} \ {NoAdversary}
           iocs    == d.infrastructure \cap Patterned
           named   == {ThreatActor(a) : a \in actors}
           means   == {AttackPattern(t) : t \in d.capabilities}
           uses    == {Rel(Sid("threat-actor", x[1]), "uses", Sid("attack-pattern", x[2])) :
                         x \in actors \X d.capabilities}
           seen    == {Indicator(i) : i \in iocs}
           tells   == {Rel(Sid("indicator", x[2]), "indicates", Sid("threat-actor", x[1])) :
                         x \in actors \X iocs}
           threats == named \cup means \cup uses \cup seen \cup tells
           bundle  == FromDiamond(d)
           kept      == {x \in bundle : Releasable(x, tier)}
           surviving == {Statement(tier).id} \cup {x.id : x \in kept}
           related   == {x \in bundle : Related(x, surviving)}
           patterns  == {AttackPattern(t) :
                           t \in {t \in d.capabilities \cap Public : "attack-pattern" \in PartnerTiers[tier]}}
           observed  == {Indicator(i) : i \in {i \in iocs : "indicator" \in PartnerTiers[tier]}}
<1>1. bundle = IF threats = {} THEN {} ELSE {Identity} \cup threats
  BY DEF FromDiamond
<1>2. kept = patterns \cup observed
  <2>1. ASSUME NEW x \in kept PROVE x \in patterns \cup observed
    <3>1. x \in bundle /\ Releasable(x, tier)
      OBVIOUS
    <3>2. x \in {Identity} \cup threats
      BY <1>1, <3>1
    <3>3. x \notin named /\ x \notin uses /\ x \notin tells /\ x # Identity
      BY <3>1, PatternIsReleasable
    <3>4. x \in means \/ x \in seen
      BY <3>2, <3>3
    <3>. QED  BY <3>1, <3>4, PatternIsReleasable
  <2>2. ASSUME NEW x \in patterns \cup observed PROVE x \in kept
    <3>1. x \in means \cup seen /\ Releasable(x, tier)
      BY PatternIsReleasable
    <3>2. x \in bundle
      BY <1>1, <3>1
    <3>. QED  BY <3>1, <3>2
  <2>. QED  BY <2>1, <2>2
<1> HIDE DEF bundle
<1>3. \A x \in kept : x.id[1] \in {"attack-pattern", "indicator"}
  <2>1. /\ \A t : AttackPattern(t).id[1] = "attack-pattern"
        /\ \A i : Indicator(i).id[1] = "indicator"
    BY DEF AttackPattern, Indicator, StixObject, Sid
  <2>. QED  BY <1>2, <2>1
<1>4. Statement(tier).id[1] = "marking-definition"
  BY DEF Statement, StixObject, Sid
<1>5. \A s \in surviving : s[1] # "threat-actor"
  BY <1>3, <1>4
<1>6. related = {}
  <2> SUFFICES ASSUME NEW x \in related PROVE FALSE
    OBVIOUS
  <2>1. x \in bundle /\ x.type = "relationship" /\ x.ends[1] \in surviving /\ x.ends[3] \in surviving
    BY DEF Related
  <2>2. x \in {Identity} \cup threats
    BY <1>1, <2>1
  <2>3. x \in uses \cup tells
    <3>1. /\ \A t : AttackPattern(t).type = "attack-pattern"
          /\ \A i : Indicator(i).type = "indicator"
          /\ \A a : ThreatActor(a).type = "threat-actor"
          /\ Identity.type = "identity"
      BY DEF AttackPattern, Indicator, ThreatActor, Identity, StixObject
    <3>. QED  BY <2>1, <2>2, <3>1
  <2>4. x.ends[1][1] = "threat-actor" \/ x.ends[3][1] = "threat-actor"
    <3>1. \A s, k, t : Rel(s, k, t).ends[1] = s /\ Rel(s, k, t).ends[3] = t
      BY DEF Rel, StixObject
    <3>2. \A a : Sid("threat-actor", a)[1] = "threat-actor"
      BY DEF Sid
    <3>. QED  BY <2>3, <3>1, <3>2
  <2> HIDE DEF surviving
  <2>. QED  BY <1>5, <2>1, <2>4
<1>7. ForPartner(bundle, tier) =
        IF kept = {} THEN {} ELSE {Statement(tier)} \cup {Scrub(x) : x \in kept \cup related}
  BY DEF ForPartner
<1>8. {Scrub(x) : x \in kept} = Given(d, tier)
  BY <1>2 DEF Given
<1> HIDE DEF kept, related
<1>9. kept = {} <=> Given(d, tier) = {}
  BY <1>8
<1>. QED  BY <1>6, <1>7, <1>8, <1>9 DEF bundle

(* Who the adversary is and whom it struck never shows: diamonds of the    *)
(* same means give a partner the same objects, whatever its tier.          *)
THEOREM AdversaryNeverShows ==
  ASSUME NEW d, NEW e, NEW tier,
         d.capabilities = e.capabilities, d.infrastructure = e.infrastructure
  PROVE  ForPartner(FromDiamond(d), tier) = ForPartner(FromDiamond(e), tier)
<1>1. CASE tier \in DOMAIN PartnerTiers
  BY <1>1, GivenIsWhole DEF Given
<1>2. CASE tier \notin DOMAIN PartnerTiers
  BY <1>2 DEF ForPartner
<1>. QED  BY <1>1, <1>2

(* With the tiers as they are shipped, none of which has indicators, only  *)
(* the techniques show (policy/releasability.yaml).                        *)
THEOREM OnlyTechniquesShow ==
  ASSUME NEW d, NEW e, NEW tier, \A t \in DOMAIN PartnerTiers : PartnerTiers[t] = {"attack-pattern"},
         d.capabilities \cap Public = e.capabilities \cap Public
  PROVE  ForPartner(FromDiamond(d), tier) = ForPartner(FromDiamond(e), tier)
<1>1. CASE tier \in DOMAIN PartnerTiers
  <2>1. "indicator" \notin PartnerTiers[tier]
    BY <1>1
  <2>2. Given(d, tier) = Given(e, tier)
    BY <2>1 DEF Given
  <2>. QED  BY <1>1, <2>2, GivenIsWhole
<1>2. CASE tier \notin DOMAIN PartnerTiers
  BY <1>2 DEF ForPartner
<1>. QED  BY <1>1, <1>2

-----------------------------------------------------------------------------
(* The campaign a report recognises, and the steps on file it comes from. *)

(* The match of a chain is what the loop computes, one scenario after the  *)
(* other.                                                                  *)
LEMMA MetUnfolds ==
  ASSUME NEW c, NEW h, Len(h) \in Nat
  PROVE  /\ Met(c, h)[0] = 0
         /\ \A i \in 1..Len(h) :
              Met(c, h)[i] = IF Met(c, h)[i - 1] < Len(c) /\ h[i] = c[Met(c, h)[i - 1] + 1]
                             THEN Met(c, h)[i - 1] + 1 ELSE Met(c, h)[i - 1]
<1> DEFINE more(n, s) == IF n < Len(c) /\ s = c[n + 1] THEN n + 1 ELSE n
           Loop(f, n) == [i \in 0..n |-> IF i = 0 THEN 0
                            ELSE IF f[i - 1] < Len(c) /\ h[i] = c[f[i - 1] + 1]
                                 THEN f[i - 1] + 1 ELSE f[i - 1]]
           Unrun == {n \in Nat : ~ \E f : f = Loop(f, n)}
<1>1. Unrun = {}
  <2> SUFFICES ASSUME Unrun # {}  PROVE FALSE
    OBVIOUS
  <2>1. PICK n \in Unrun : \A m \in Unrun : n <= m
    BY LeastNat
  <2>2. n # 0
    <3> DEFINE f == [i \in 0..0 |-> 0]
    <3>1. f = Loop(f, 0)
      OBVIOUS
    <3>. QED  BY <3>1
  <2>3. n - 1 \in Nat /\ n - 1 \notin Unrun
    BY <2>1, <2>2
  <2>4. PICK f : f = Loop(f, n - 1)
    BY <2>3
  <2> DEFINE g == [i \in 0..n |-> IF i = 0 THEN 0 ELSE more(f[i - 1], h[i])]
  <2>5. \A i \in 0..(n - 1) : g[i] = f[i]
    <3>1. \A i \in 0..(n - 1) : f[i] = IF i = 0 THEN 0 ELSE more(f[i - 1], h[i])
      BY <2>4
    <3>2. \A i \in 0..(n - 1) : g[i] = IF i = 0 THEN 0 ELSE more(f[i - 1], h[i])
      <4> HIDE DEF more
      <4>. QED  BY <2>1
    <3>. QED  BY <3>1, <3>2
  <2>6. \A i \in 0..n : i # 0 => i - 1 \in 0..(n - 1)
    BY <2>1
  <2>7. g = Loop(g, n)
    <3>1. \A i \in 0..n : g[i] = IF i = 0 THEN 0 ELSE more(g[i - 1], h[i])
      <4> HIDE DEF more
      <4>1. \A i \in 0..n : g[i] = IF i = 0 THEN 0 ELSE more(f[i - 1], h[i])
        OBVIOUS
      <4> HIDE DEF g
      <4>. QED  BY <2>5, <2>6, <4>1
    <3>2. g = [i \in 0..n |-> IF i = 0 THEN 0 ELSE more(g[i - 1], h[i])]
      <4>1. g = [i \in 0..n |-> g[i]]
        OBVIOUS
      <4> HIDE DEF g, more
      <4>. QED  BY <3>1, <4>1
    <3> HIDE DEF g
    <3>. QED  BY <3>2
  <2>. QED  BY <2>1, <2>7
<1> DEFINE w == Met(c, h)
           N == Len(h)
<1>2. w = Loop(w, N)
  <2>1. \E f : f = Loop(f, N)
    BY <1>1
  <2>. QED  BY <2>1 DEF Met
<1> HIDE DEF w, N
<1>3. N \in Nat
  BY DEF N
<1>4. \A i \in 0..N : w[i] = IF i = 0 THEN 0
                            ELSE IF w[i - 1] < Len(c) /\ h[i] = c[w[i - 1] + 1]
                                 THEN w[i - 1] + 1 ELSE w[i - 1]
  BY <1>2
<1>5. 0 \in 0..N /\ \A i \in 1..N : i \in 0..N /\ i # 0
  BY <1>3
<1>6. /\ w[0] = 0
      /\ \A i \in 1..N : w[i] = IF w[i - 1] < Len(c) /\ h[i] = c[w[i - 1] + 1]
                                THEN w[i - 1] + 1 ELSE w[i - 1]
  BY <1>4, <1>5
<1>. QED  BY <1>6 DEF w, N

(* As many as n of a chain are found in a history, in its order. *)
Embedded(c, n, h) ==
  \E at \in [1..n -> 1..Len(h)] : /\ \A i, j \in 1..n : i < j => at[i] < at[j]
                                  /\ \A i \in 1..n : h[at[i]] = c[i]

(* What is counted was met: as much of the chain as is counted is found in *)
(* the history, in its order.                                              *)
LEMMA MetIsEmbedded ==
  ASSUME NEW c, Len(c) \in Nat, NEW h, Len(h) \in Nat
  PROVE  PrefixMatch(c, h) \in 0..Len(c) /\ Embedded(c, PrefixMatch(c, h), h)
<1> DEFINE w == Met(c, h)
           N == Len(h)
           Found(n, k) == \E at \in [1..n -> 1..k] :
                            /\ \A i, j \in 1..n : i < j => at[i] < at[j]
                            /\ \A i \in 1..n : h[at[i]] = c[i]
           Lost == {k \in 0..N : ~(w[k] \in 0..Len(c) /\ Found(w[k], k))}
<1>1. /\ w[0] = 0
      /\ \A i \in 1..N : w[i] = IF w[i - 1] < Len(c) /\ h[i] = c[w[i - 1] + 1]
                                THEN w[i - 1] + 1 ELSE w[i - 1]
  BY MetUnfolds
<1> HIDE DEF w
<1>2. Lost = {}
  <2> SUFFICES ASSUME Lost # {}  PROVE FALSE
    OBVIOUS
  <2>0. Lost \in SUBSET Nat
    <3> DEFINE B(k) == ~(w[k] \in 0..Len(c) /\ Found(w[k], k))
    <3>1. Lost = {k \in 0..N : B(k)} /\ 0..N \subseteq Nat
      OBVIOUS
    <3> HIDE DEF Lost, B, N
    <3>. QED  BY <3>1
  <2>1. PICK k \in Lost : \A m \in Lost : k <= m
    <3> HIDE DEF Lost
    <3>. QED  BY <2>0, LeastNat
  <2>2. k # 0
    <3>1. Found(0, 0)
      <4> DEFINE at == [i \in 1..0 |-> 0]
      <4>1. at \in [1..0 -> 1..0] /\ \A i \in 1..0 : FALSE
        OBVIOUS
      <4> HIDE DEF at
      <4>. QED  BY <4>1
    <3>2. 0 \in 0..Len(c) /\ w[0] = 0
      BY <1>1
    <3>3. ~(w[k] \in 0..Len(c) /\ Found(w[k], k))
      <4> HIDE DEF Found
      <4>. QED  BY <2>1
    <3> HIDE DEF Found
    <3>4. w[0] \in 0..Len(c) /\ Found(w[0], 0)
      BY <3>1, <3>2, Zenon
    <3>. QED  BY <3>3, <3>4
  <2>3. k \in 1..N /\ k - 1 \in 0..N /\ k - 1 \notin Lost
    <3>1. k \in 0..N
      <4> HIDE DEF Found
      <4>. QED  BY <2>1
    <3>2. k - 1 \in 0..N /\ k \in 1..N /\ ~(k <= k - 1)
      BY <2>2, <3>1
    <3> HIDE DEF Lost
    <3>. QED  BY <2>1, <3>2
  <2> DEFINE n == w[k - 1]
  <2>4. n \in 0..Len(c) /\ Found(n, k - 1)
    <3> HIDE DEF Found
    <3>. QED  BY <2>3
  <2>5. PICK at \in [1..n -> 1..(k - 1)] :
              /\ \A i, j \in 1..n : i < j => at[i] < at[j]
              /\ \A i \in 1..n : h[at[i]] = c[i]
    BY <2>4
  <2> HIDE DEF n
  <2>6. CASE n < Len(c) /\ h[k] = c[n + 1]
    <3>1. w[k] = n + 1 /\ n + 1 \in 0..Len(c)
      BY <1>1, <2>3, <2>4, <2>6 DEF n
    <3> DEFINE to == [i \in 1..(n + 1) |-> IF i = n + 1 THEN k ELSE at[i]]
    <3>2. \A i \in 1..(n + 1) : i = n + 1 \/ i \in 1..n
      BY <2>4
    <3>3. \A i \in 1..n : at[i] \in 1..(k - 1) /\ i # n + 1 /\ i \in 1..(n + 1)
      BY <2>4, <2>5
    <3>4. to \in [1..(n + 1) -> 1..k]
      BY <2>3, <3>2, <3>3
    <3>5. \A i \in 1..n : to[i] = at[i]
      BY <3>3
    <3>6. to[n + 1] = k
      BY <2>4
    <3> HIDE DEF to
    <3>7. \A i, j \in 1..(n + 1) : i < j => to[i] < to[j]
      <4> SUFFICES ASSUME NEW i \in 1..(n + 1), NEW j \in 1..(n + 1), i < j
                   PROVE  to[i] < to[j]
        OBVIOUS
      <4>1. i \in 1..n
        BY <2>4
      <4>2. CASE j = n + 1
        BY <2>3, <3>3, <3>5, <3>6, <4>1, <4>2
      <4>3. CASE j \in 1..n
        BY <2>5, <3>5, <4>1, <4>3
      <4>. QED  BY <3>2, <4>2, <4>3
    <3>8. \A i \in 1..(n + 1) : h[to[i]] = c[i]
      BY <2>5, <2>6, <3>2, <3>5, <3>6
    <3>9. Found(n + 1, k)
      BY <3>4, <3>7, <3>8
    <3> HIDE DEF Found
    <3>. QED  BY <2>1, <3>1, <3>9
  <2>7. CASE ~(n < Len(c) /\ h[k] = c[n + 1])
    <3>1. w[k] = n
      BY <1>1, <2>3, <2>7 DEF n
    <3>2. at \in [1..n -> 1..k]
      BY <2>3, <2>5
    <3>3. Found(n, k)
      BY <2>5, <3>2
    <3> HIDE DEF Found
    <3>. QED  BY <2>1, <2>4, <3>1, <3>3
  <2>. QED  BY <2>6, <2>7
<1>3. N \in 0..N
  OBVIOUS
<1>4. w[N] \in 0..Len(c) /\ Found(w[N], N)
  BY <1>2, <1>3
<1>. QED  BY <1>4 DEF PrefixMatch, Embedded, w

-----------------------------------------------------------------------------
(* Where the steps on file come from: each from a confirmed alert, in the  *)
(* order of the alerts, and from the first of them on none is left out.    *)

(* An alert without techniques leaves no step. *)
LeavesSteps(x) == Says[x.id].techniques # <<>>

TracedBy(steps, t, from) ==
  /\ from \in [DOMAIN steps -> DOMAIN t]
  /\ \A i, j \in DOMAIN steps : i <= j => from[i] <= from[j]
  /\ \A i \in DOMAIN steps : /\ steps[i].scenario = Says[t[from[i]].id].scenario
                             /\ steps[i].time = t[from[i]].time
                             /\ LeavesSteps(t[from[i]])
  /\ \A i \in DOMAIN steps, m \in DOMAIN t :
       from[i] <= m /\ LeavesSteps(t[m]) => \E j \in DOMAIN steps : from[j] = m

Traced(steps, t) == \E from : TracedBy(steps, t, from)

(* The end of what is traced is traced. *)
LEMMA TracedSuffix ==
  ASSUME NEW S, NEW steps \in Seq(S), NEW t, DOMAIN t \subseteq Nat, Traced(steps, t), ChainCap \in Nat
  PROVE  Traced(Kept(steps), t)
<1>1. CASE Len(steps) > ChainCap
  <2> DEFINE lo == Len(steps) - ChainCap + 1
             n  == Len(steps) - lo + 1
             w  == SubSeq(steps, lo, Len(steps))
  <2>1. lo \in 1..(Len(steps) + 1) /\ Len(steps) \in Nat /\ lo \in Nat /\ n \in Nat
    BY <1>1
  <2>2. /\ DOMAIN w = 1..n /\ \A i \in 1..n : w[i] = steps[lo + i - 1]
        /\ DOMAIN steps = 1..Len(steps)
    BY <2>1
  <2>3. Kept(steps) = w
    BY <1>1 DEF Kept
  <2> HIDE DEF w
  <2>4. PICK from : TracedBy(steps, t, from)
    BY DEF Traced
  <2> DEFINE at(i) == lo + i - 1
             to    == [i \in 1..n |-> from[at(i)]]
  <2>5. \A i \in 1..n : at(i) \in DOMAIN steps /\ at(i) \in Nat
    BY <2>1, <2>2
  <2>6. \A i, j \in 1..n : i <= j => at(i) <= at(j)
    BY <2>1
  <2>7. \A j \in DOMAIN steps : j >= lo => j - lo + 1 \in 1..n /\ at(j - lo + 1) = j
    BY <2>1, <2>2
  <2>8. \A i \in 1..n : at(i) >= lo /\ w[i] = steps[at(i)] /\ to[i] = from[at(i)]
    BY <2>1, <2>2
  <2>9. to \in [1..n -> DOMAIN t]
    <3>1. \A i \in 1..n : from[at(i)] \in DOMAIN t
      <4> HIDE DEF at, n
      <4>. QED  BY <2>4, <2>5 DEF TracedBy
    <3> HIDE DEF at, n
    <3>. QED  BY <3>1
  <2> HIDE DEF to, at, n, lo
  <2>10. \A i, j \in 1..n : i <= j => to[i] <= to[j]
    BY <2>4, <2>5, <2>6, <2>8 DEF TracedBy
  <2>11. \A i \in 1..n : /\ w[i].scenario = Says[t[to[i]].id].scenario
                         /\ w[i].time = t[to[i]].time
                         /\ LeavesSteps(t[to[i]])
    BY <2>4, <2>5, <2>8 DEF TracedBy
  <2>12. ASSUME NEW i \in 1..n, NEW m \in DOMAIN t, to[i] <= m, LeavesSteps(t[m])
         PROVE  \E j \in 1..n : to[j] = m
    <3>1. PICK j \in DOMAIN steps : from[j] = m
      BY <2>4, <2>5, <2>8, <2>12 DEF TracedBy
    <3>2. CASE j >= lo
      BY <2>7, <2>8, <3>1, <3>2
    <3>3. CASE ~(j >= lo)
      <4>1. j <= at(i)
        BY <2>1, <2>2, <2>5, <2>8, <3>3
      <4>2. m <= to[i]
        BY <2>4, <2>5, <2>8, <3>1, <4>1 DEF TracedBy
      <4>3. m \in Nat /\ to[i] \in Nat
        BY <2>9
      <4>. QED  BY <2>12, <4>2, <4>3
    <3>. QED  BY <3>2, <3>3
  <2>13. TracedBy(w, t, to)
    BY <2>2, <2>9, <2>10, <2>11, <2>12 DEF TracedBy
  <2>. QED  BY <2>3, <2>13 DEF Traced
<1>2. CASE ~(Len(steps) > ChainCap)
  BY <1>2 DEF Kept
<1>. QED  BY <1>1, <1>2

(* The steps of one more confirmed alert are traced to it. *)
LEMMA TracedMore ==
  ASSUME NEW S, NEW steps \in Seq(S), NEW T, NEW t \in Seq(T), Traced(steps, t),
         NEW x \in T, NEW new \in Seq(S),
         (new # <<>>) <=> LeavesSteps(x),
         \A i \in DOMAIN new : new[i].scenario = Says[x.id].scenario /\ new[i].time = x.time
  PROVE  Traced(steps \o new, Append(t, x))
<1> DEFINE all == steps \o new
           n   == Len(steps)
           k   == Len(new)
           l   == Len(t)
           u   == Append(t, x)
<1>1. /\ n \in Nat /\ k \in Nat /\ l \in Nat
      /\ DOMAIN steps = 1..n /\ DOMAIN new = 1..k /\ DOMAIN t = 1..l
      /\ DOMAIN all = 1..(n + k) /\ DOMAIN u = 1..(l + 1)
      /\ \A i \in 1..n : all[i] = steps[i]
      /\ \A i \in 1..k : all[n + i] = new[i]
      /\ \A i \in 1..l : u[i] = t[i]
      /\ u[l + 1] = x
      /\ (new # <<>>) <=> k >= 1
  OBVIOUS
<1> HIDE DEF all, n, k, l, u
<1>0. n \in Nat /\ k \in Nat /\ l \in Nat
  BY <1>1
<1>2. PICK from : TracedBy(steps, t, from)
  BY DEF Traced
<1> DEFINE place(i) == IF i <= n THEN from[i] ELSE l + 1
           to       == [i \in 1..(n + k) |-> place(i)]
<1>3. \A i \in 1..(n + k) : \/ i \in 1..n /\ i <= n /\ to[i] = from[i]
                            \/ ~(i <= n) /\ i - n \in 1..k /\ i = n + (i - n) /\ to[i] = l + 1
  <2>1. \A i \in 1..(n + k) : \/ i \in 1..n /\ i <= n
                              \/ ~(i <= n) /\ i - n \in 1..k /\ i = n + (i - n)
    BY <1>0
  <2>2. \A i \in 1..(n + k) : to[i] = place(i)
    <3> HIDE DEF place
    <3>. QED  OBVIOUS
  <2>3. \A i : (i <= n => place(i) = from[i]) /\ (~(i <= n) => place(i) = l + 1)
    BY Zenon
  <2> HIDE DEF to, place
  <2>. QED  BY <2>1, <2>2, <2>3
<1>4. \A i \in 1..n : i \in 1..(n + k) /\ to[i] = from[i] /\ from[i] \in 1..l
  <2>1. \A i \in 1..n : i \in 1..(n + k) /\ i <= n
    BY <1>0
  <2>2. \A i \in 1..n : from[i] \in 1..l
    BY <1>1, <1>2 DEF TracedBy
  <2> HIDE DEF to, place
  <2>. QED  BY <1>3, <2>1, <2>2
<1>5. \A i \in 1..l : i \in 1..(l + 1) /\ i <= l + 1 /\ i # l + 1
  BY <1>1
<1>6. l + 1 \in 1..(l + 1) /\ \A i \in 1..(l + 1) : i \in 1..l \/ i = l + 1
  BY <1>1
<1>7. to \in [1..(n + k) -> 1..(l + 1)]
  <2>1. to = [i \in 1..(n + k) |-> to[i]]
    OBVIOUS
  <2>2. \A i \in 1..(n + k) : to[i] \in 1..(l + 1)
    <3> HIDE DEF to
    <3>. QED  BY <1>3, <1>4, <1>5, <1>6
  <2> HIDE DEF to
  <2>. QED  BY <2>1, <2>2
<1> HIDE DEF to
<1>8. ASSUME NEW i \in 1..(n + k), NEW j \in 1..(n + k), i <= j
      PROVE  to[i] <= to[j]
  <2>1. CASE j \in 1..n
    <3>1. i \in 1..n
      BY <1>1, <1>8, <2>1
    <3>. QED  BY <1>1, <1>2, <1>4, <1>8, <2>1, <3>1 DEF TracedBy
  <2>2. CASE to[j] = l + 1
    <3>1. to[i] \in 1..(l + 1)
      BY <1>7
    <3>. QED  BY <1>1, <2>2, <3>1
  <2>. QED  BY <1>3, <2>1, <2>2
<1>9. ASSUME NEW i \in 1..(n + k)
      PROVE  /\ all[i].scenario = Says[u[to[i]].id].scenario
             /\ all[i].time = u[to[i]].time
             /\ LeavesSteps(u[to[i]])
  <2>1. CASE i \in 1..n
    <3>1. all[i] = steps[i] /\ u[to[i]] = t[from[i]]
      BY <1>1, <1>4, <2>1
    <3>. QED  BY <1>1, <1>2, <2>1, <3>1 DEF TracedBy
  <2>2. CASE ~(i <= n) /\ i - n \in 1..k /\ i = n + (i - n) /\ to[i] = l + 1
    <3>1. all[i] = new[i - n] /\ u[to[i]] = x /\ i - n \in DOMAIN new
      BY <1>1, <2>2
    <3>2. new # <<>>
      BY <1>1, <3>1
    <3>. QED  BY <3>1, <3>2
  <2>. QED  BY <1>3, <2>1, <2>2
<1>10. ASSUME NEW i \in 1..(n + k), NEW m \in 1..(l + 1), to[i] <= m, LeavesSteps(u[m])
       PROVE  \E j \in 1..(n + k) : to[j] = m
  <2>1. CASE m = l + 1
    <3>1. k >= 1
      BY <1>1, <1>10, <2>1
    <3>2. n + 1 \in 1..(n + k) /\ ~(n + 1 <= n)
      BY <1>1, <3>1
    <3>. QED  BY <1>3, <2>1, <3>2
  <2>2. CASE m \in 1..l
    <3>1. i \in 1..n
      <4>1. to[i] # l + 1
        BY <1>1, <1>10, <2>2
      <4>. QED  BY <1>3, <4>1
    <3>2. u[m] = t[m] /\ to[i] = from[i]
      BY <1>1, <1>4, <2>2, <3>1
    <3>3. \E j \in 1..n : from[j] = m
      BY <1>1, <1>2, <1>10, <2>2, <3>1, <3>2 DEF TracedBy
    <3>. QED  BY <1>4, <3>3
  <2>. QED  BY <1>6, <2>1, <2>2
<1>11. TracedBy(all, u, to)
  BY <1>1, <1>7, <1>8, <1>9, <1>10 DEF TracedBy
<1>. QED  BY <1>11 DEF Traced, all, u

(* A function on the first numbers is a sequence of its values. *)
LEMMA RangeSeq ==
  ASSUME NEW n \in Nat, NEW f, f = [i \in 1..n |-> f[i]]
  PROVE  f \in Seq(Range(f))
<1>1. \A i \in 1..n : f[i] \in Range(f)
  BY DEF Range
<1> DEFINE R == Range(f)
<1> HIDE DEF R
<1>2. \A i \in 1..n : f[i] \in R
  BY <1>1 DEF R
<1>3. f \in [1..n -> R]
  BY <1>2
<1>4. f \in Seq(R)
  BY <1>3
<1>. QED  BY <1>4 DEF R

(* A sequence and one more element. *)
LEMMA OneMore ==
  ASSUME NEW n \in Nat, NEW f, f = [i \in 1..n |-> f[i]], NEW y
  PROVE  /\ Len(f \o <<y>>) = n + 1 /\ DOMAIN (f \o <<y>>) = 1..(n + 1)
         /\ \A i \in 1..n : (f \o <<y>>)[i] = f[i]
         /\ (f \o <<y>>)[n + 1] = y
<1> DEFINE Y == Range(f) \cup {y}
<1>1. f \in Seq(Range(f))
  BY RangeSeq
<1> HIDE DEF Y
<1>2. f \in Seq(Y) /\ <<y>> \in Seq(Y)
  BY <1>1 DEF Y
<1>3. DOMAIN f = 1..n
  OBVIOUS
<1>4. Len(f) = n
  BY <1>2, <1>3
<1>5. Len(f \o <<y>>) = n + 1 /\ DOMAIN (f \o <<y>>) = 1..(n + 1)
  BY <1>2, <1>4
<1>6. \A i \in 1..(n + 1) : (f \o <<y>>)[i] = IF i <= n THEN f[i] ELSE <<y>>[i - n]
  BY <1>2, <1>4
<1>7. n + 1 \in 1..(n + 1) /\ ~(n + 1 <= n) /\ (n + 1) - n = 1 /\ <<y>>[1] = y
  OBVIOUS
<1>8. \A i \in 1..n : i \in 1..(n + 1) /\ i <= n
  OBVIOUS
<1>. QED  BY <1>5, <1>6, <1>7, <1>8

(* A sequence is empty when it has no places. *)
LEMMA NoPlaces ==
  ASSUME NEW S, NEW q \in Seq(S)
  PROVE  (q # <<>>) <=> DOMAIN q # {}
<1>1. CASE q = <<>>
  BY <1>1
<1>2. CASE q # <<>>
  <2>1. Len(q) \in Nat /\ Len(q) # 0 /\ DOMAIN q = 1..Len(q)
    BY <1>2
  <2>2. 1 \in 1..Len(q)
    BY <2>1
  <2>. QED  BY <1>2, <2>1, <2>2
<1>. QED  BY <1>1, <1>2

(* What is learned of a confirmed alert is traced to it. *)
LEMMA TracedLearned ==
  ASSUME NEW p, p.steps \in Seq(Range(p.steps)), NEW id \in DOMAIN Says, now \in Nat,
         NEW t \in Seq([id : DOMAIN Says, time : Nat]), Traced(p.steps, t)
  PROVE  Traced(Learned(p, Says[id]).steps, Append(t, [id |-> id, time |-> now]))
<1> DEFINE s   == Says[id]
           new == [i \in DOMAIN s.techniques |->
                     [time |-> now, scenario |-> s.scenario, technique |-> s.techniques[i]]]
           all == p.steps \o new
           S   == Range(p.steps) \cup Range(new)
           T   == [id : DOMAIN Says, time : Nat]
           x   == [id |-> id, time |-> now]
<1>1. Learned(p, s).steps = Kept(all)
  BY DEF Learned
<1>2. s.techniques \in Seq(Range(s.techniques))
  BY SaysAssumption
<1>3. DOMAIN s.techniques = 1..Len(s.techniques) /\ Len(s.techniques) \in Nat
  <2> HIDE DEF s
  <2>. QED  BY <1>2
<1>4. new \in Seq(Range(new)) /\ DOMAIN new = DOMAIN s.techniques
  <2>1. DOMAIN new = DOMAIN s.techniques
    OBVIOUS
  <2>2. new = [i \in 1..Len(s.techniques) |-> new[i]]
    BY <1>3
  <2> HIDE DEF s, new
  <2>. QED  BY <1>3, <2>1, <2>2, RangeSeq
<1>5. \A i \in DOMAIN new : new[i].scenario = Says[x.id].scenario /\ new[i].time = x.time
  <2>1. \A i \in DOMAIN new : new[i].scenario = s.scenario /\ new[i].time = now
    <3> DEFINE step(i) == [time |-> now, scenario |-> s.scenario, technique |-> s.techniques[i]]
    <3>1. \A i \in DOMAIN new : new[i] = step(i)
      <4> HIDE DEF s
      <4>. QED  OBVIOUS
    <3>2. \A i : step(i).scenario = s.scenario /\ step(i).time = now
      <4> HIDE DEF s, new
      <4>. QED  OBVIOUS
    <3> HIDE DEF s, step, new
    <3>. QED  BY <3>1, <3>2
  <2>2. Says[x.id] = s /\ x.time = now
    OBVIOUS
  <2> HIDE DEF s, x, new
  <2>. QED  BY <2>1, <2>2
<1>6. x \in T /\ x.id = id
  OBVIOUS
<1>7. (new # <<>>) <=> LeavesSteps(x)
  <2>1. (s.techniques # <<>>) <=> DOMAIN s.techniques # {}
    <3> HIDE DEF s
    <3>. QED  BY <1>2, NoPlaces
  <2>2. (new # <<>>) <=> DOMAIN new # {}
    <3> HIDE DEF new
    <3>. QED  BY <1>4, NoPlaces
  <2>3. LeavesSteps(x) <=> s.techniques # <<>>
    BY <1>6 DEF LeavesSteps
  <2> HIDE DEF s, new, x
  <2>. QED  BY <1>4, <2>1, <2>2, <2>3
<1> HIDE DEF new, x, s
<1>8. p.steps \in Seq(S) /\ new \in Seq(S) /\ all \in Seq(S)
  BY <1>4
<1>9. Traced(all, Append(t, x))
  <2>1. t \in Seq(T)
    OBVIOUS
  <2> HIDE DEF T, S
  <2>. QED  BY <1>5, <1>6, <1>7, <1>8, <2>1, TracedMore
<1>10. DOMAIN Append(t, x) \subseteq Nat
  <2>1. t \in Seq(T)
    OBVIOUS
  <2> HIDE DEF T
  <2>2. Append(t, x) \in Seq(T)
    BY <1>6, <2>1
  <2>. QED  BY <2>2
<1>11. Traced(Kept(all), Append(t, x))
  <2>1. ChainCap \in Nat
    BY PoliciesAssumption
  <2> HIDE DEF all, S
  <2>. QED  BY <1>8, <1>9, <1>10, <2>1, TracedSuffix
<1>. QED  BY <1>1, <1>11 DEF s, x

(* All that is on file is traced. *)
TraceInv ==
  /\ CoverInv
  /\ \A k \in DOMAIN profiles : Traced(profiles[k].steps, told[k])
  /\ memory # None /\ memory.profile # None => Traced(memory.profile.steps, memory.told)

(* Nothing is traced to anything. *)
LEMMA TracedNothing == \A t : Traced(<<>>, t)
<1> SUFFICES ASSUME NEW t PROVE Traced(<<>>, t)
  OBVIOUS
<1> DEFINE from == [i \in {} |-> 0]
<1>1. DOMAIN <<>> = {}
  OBVIOUS
<1>2. from \in [{} -> DOMAIN t]
  OBVIOUS
<1> HIDE DEF from
<1>3. TracedBy(<<>>, t, from)
  BY <1>1, <1>2 DEF TracedBy
<1>. QED  BY <1>3 DEF Traced

LEMMA InitTrace == ReportInit => TraceInv
<1> SUFFICES ASSUME ReportInit PROVE TraceInv
  OBVIOUS
<1>1. DOMAIN profiles = {} /\ memory = None
  BY DEF ReportInit
<1>. QED  BY <1>1, InitCover DEF TraceInv

(* Only an alert that is learned adds steps, and it is the last told. *)
LEMMA NextTrace == TraceInv /\ [ReportNext]_allVars => TraceInv'
<1> SUFFICES ASSUME TraceInv, [ReportNext]_allVars PROVE TraceInv'
  OBVIOUS
<1>0. /\ CoverInv /\ CoverInv' /\ InPipeline
      /\ DOMAIN profiles \subseteq Actors
      /\ told = [k \in Actors |-> told[k]]
      /\ now \in Nat
      /\ \A k \in Actors : ToldOf(k) /\ OnFile(k)
      /\ \A k \in DOMAIN profiles : Traced(profiles[k].steps, told[k])
      /\ memory # None /\ memory.profile # None => Traced(memory.profile.steps, memory.told)
  BY NextCover DEF TraceInv, CoverInv
<1>1. CASE profiles' = profiles /\ told' = told /\ memory' = memory
  BY <1>0, <1>1 DEF TraceInv
<1>2. ASSUME NEW a \in Alerts, NEW o \in Outcomes, Learn(a, o), o.verdict = "CONFIRMED_TP"
      PROVE  TraceInv'
  <2> DEFINE k == a.actor
             p == IF k \in DOMAIN profiles THEN profiles[k] ELSE NoProfile
             x == [id |-> a.id, time |-> now]
             q == Learned(p, Says[a.id])
  <2>1. /\ k \in Actors
        /\ profiles' = [m \in DOMAIN profiles \cup {k} |-> IF m = k THEN q ELSE profiles[m]]
        /\ told' = [told EXCEPT ![k] = Append(told[k], x)]
        /\ memory' = memory
    BY <1>2 DEF Learn
  <2>2. a.id \in DOMAIN Says
    BY StagesAssumption
  <2>3. p.steps \in Seq(Range(p.steps)) /\ Traced(p.steps, told[k])
    <3>1. CASE k \notin DOMAIN profiles
      <4>1. p.steps = <<>>
        BY <3>1 DEF NoProfile
      <4>2. <<>> \in Seq(Range(<<>>))
        OBVIOUS
      <4> HIDE DEF p
      <4>. QED  BY <4>1, <4>2, TracedNothing
    <3>2. CASE k \in DOMAIN profiles
      BY <1>0, <2>1, <3>2 DEF OnFile, StepsOnFile
    <3>. QED  BY <3>1, <3>2
  <2>4. told[k] \in Seq([id : DOMAIN Says, time : Nat])
    BY <1>0, <2>1 DEF ToldOf
  <2>5. Traced(q.steps, Append(told[k], x))
    <3> HIDE DEF p, k
    <3>. QED  BY <1>0, <2>2, <2>3, <2>4, TracedLearned
  <2> HIDE DEF q, x, p, k
  <2>6. told'[k] = Append(told[k], x) /\ \A m \in Actors : m # k => told'[m] = told[m]
    BY <1>0, <2>1
  <2>7. \A m \in DOMAIN profiles' : Traced(profiles'[m].steps, told'[m])
    <3> SUFFICES ASSUME NEW m \in DOMAIN profiles' PROVE Traced(profiles'[m].steps, told'[m])
      OBVIOUS
    <3>1. CASE m = k
      BY <2>1, <2>5, <2>6, <3>1
    <3>2. CASE m # k
      <4>1. m \in DOMAIN profiles /\ profiles'[m] = profiles[m]
        BY <2>1, <3>2
      <4>. QED  BY <1>0, <2>6, <3>2, <4>1
    <3>. QED  BY <3>1, <3>2
  <2>. QED  BY <1>0, <2>1, <2>7 DEF TraceInv
<1>3. ASSUME NEW a \in Alerts, NEW o \in Outcomes, Learn(a, o), o.verdict # "CONFIRMED_TP"
      PROVE  TraceInv'
  BY <1>1, <1>3 DEF Learn
<1>4. ASSUME NEW a \in Alerts, Take(a) PROVE TraceInv'
  BY <1>1, <1>4 DEF Take
<1>5. ASSUME NEW run \in Runs, Report(run) PROVE TraceInv'
  <2>1. profiles' = profiles /\ told' = told /\ memory' = None
    BY <1>5 DEF Report
  <2>. QED  BY <1>0, <2>1 DEF TraceInv
<1>6. CASE File
  BY <1>1, <1>6 DEF File
<1>7. CASE Tick
  BY <1>1, <1>7 DEF Tick
<1>8. CASE UNCHANGED allVars
  BY <1>1, <1>8 DEF allVars, reportVars
<1>9. CASE Recall
  <2>1. profiles' = profiles /\ told' = told
    BY <1>9 DEF Recall
  <2>2. \/ memory'.profile = None
        \/ /\ alert.of.actor \in DOMAIN profiles
           /\ memory'.profile = profiles[alert.of.actor] /\ memory'.told = told[alert.of.actor]
    BY <1>0, <1>9, RecallTakes
  <2>. QED  BY <1>0, <2>1, <2>2 DEF TraceInv
<1>. QED  BY <1>2, <1>3, <1>4, <1>5, <1>6, <1>7, <1>8, <1>9 DEF ReportNext

(* A report made for the alert al, with the profile q at hand, after run. *)
MadeFrom(r, al, q, run) ==
  LET s == Says[r.of.id]
      b == r.soc.says
  IN  /\ run \in Runs /\ r.run = run
      /\ r.of.id \in DOMAIN Says
      /\ r.flagged = (al.advanced \/ al.decoy)
      /\ r.asOf.told \in Seq([id : DOMAIN Says, time : Nat])
      /\ q.steps \in Seq(Range(q.steps)) /\ Traced(q.steps, r.asOf.told)
      /\ b.campaigns = Campaigns(History(q, s))
      /\ b.pace = DecisionAdvantage(run.latency, q.steps)
      /\ b.hypotheses = Ranked(ExtractEvidence(al, s, run))
      /\ r.soc.hunted = ActiveFindings(s, Predictions(run), run)

(* Every report is made from what it has recalled. *)
LEMMA ReportIsMade ==
  ASSUME TraceInv, ReportNext, report' # None
  PROVE  \E al, q, run : MadeFrom(report', al, q, run)
<1>1. PICK run \in Runs : Report(run)
  BY DEF ReportNext, Take, Recall, Learn, File, Tick
<1> DEFINE a == AtStage(alert)
           s == Says[a.id]
           c == IF Bindable(a) THEN Reported(Stored(KeyOf(a)), a) ELSE None
           p == memory.profile
           t == memory.told
           q == IF p = None THEN NoProfile ELSE p
           v == KeyOf(a) \in vouched
<1>2. /\ alert # None /\ memory # None
      /\ report' = [of |-> a, flagged |-> alert.advanced \/ alert.decoy,
                    recalled |-> p # None, run |-> run,
                    asOf |-> [told |-> t, vouched |-> v],
                    soc |-> SocReport(alert, s, c, p, run)]
  BY <1>1 DEF Report
<1>4. /\ InPipeline /\ Remembers
      /\ memory # None /\ p # None => Traced(p.steps, t)
  BY DEF TraceInv, CoverInv
<1>5. a.id \in DOMAIN Says
  BY <1>2, <1>4, AtStageAlert, StagesAssumption DEF InPipeline
<1>6. t \in Seq([id : DOMAIN Says, time : Nat])
  BY <1>2, <1>4 DEF Remembers
<1>7. q.steps \in Seq(Range(q.steps)) /\ Traced(q.steps, t)
  <2>1. CASE p = None
    <3>1. q.steps = <<>>
      BY <2>1 DEF NoProfile
    <3>2. <<>> \in Seq(Range(<<>>))
      OBVIOUS
    <3> HIDE DEF q, t
    <3>. QED  BY <3>1, <3>2, TracedNothing
  <2>2. CASE p # None
    BY <1>2, <1>4, <2>2 DEF Remembers, StepsOnFile
  <2>. QED  BY <2>1, <2>2
<1>8. LET b == SocReport(alert, s, c, p, run)
      IN  /\ b.says.campaigns = Campaigns(History(q, s))
          /\ b.says.pace = DecisionAdvantage(run.latency, q.steps)
          /\ b.says.hypotheses = Ranked(ExtractEvidence(alert, s, run))
          /\ b.hunted = ActiveFindings(s, Predictions(run), run)
  <2> HIDE DEF a, s, c, p, t, v
  <2>. QED  BY DEF SocReport, Analyses
<1>9. /\ report'.of = a /\ report'.run = run /\ report'.flagged = (alert.advanced \/ alert.decoy)
      /\ report'.asOf.told = t /\ report'.soc = SocReport(alert, s, c, p, run)
  <2> HIDE DEF a, s, c, p, t, v
  <2>. QED  BY <1>2
<1> HIDE DEF a, c, p, q, t, v
<1>10. MadeFrom(report', alert, q, run)
  BY <1>5, <1>6, <1>7, <1>8, <1>9 DEF MadeFrom
<1>. QED  BY <1>10

(* As much of the chain as is matched was met in t and s, in its order. *)
Grounded(m, t, s) ==
  LET seen == [i \in DOMAIN t |-> Says[t[i].id].scenario] \o <<s.scenario>>
  IN  \E at \in [1..m.matched -> DOMAIN seen] :
        /\ \A i, j \in 1..m.matched : i < j => at[i] < at[j]
        /\ \A i \in 1..m.matched : seen[at[i]] = m.chain[i]

(* What is matched in the steps on file and the alert at hand was met in   *)
(* what was confirmed and that alert: two scenarios of a chain are         *)
(* different, so steps of one alert are not counted twice.                 *)
LEMMA CampaignTraced ==
  ASSUME NEW q, q.steps \in Seq(Range(q.steps)),
         NEW t \in Seq([id : DOMAIN Says, time : Nat]), Traced(q.steps, t), NEW s,
         NEW m \in Campaigns(History(q, s))
  PROVE  Grounded(m, t, s)
<1> DEFINE h    == History(q, s)
           k    == Len(q.steps)
           l    == Len(t)
           past == [i \in DOMAIN t |-> Says[t[i].id].scenario]
           seen == past \o <<s.scenario>>
<1>1. PICK c \in Chains : m = CampaignMatch(c, PrefixMatch(c, h), h)
  BY DEF Campaigns
<1> DEFINE n == PrefixMatch(c, h)
<1>2. m.matched = n /\ m.chain = c
  BY <1>1 DEF CampaignMatch
<1>3. k \in Nat /\ DOMAIN q.steps = 1..k /\ l \in Nat /\ DOMAIN t = 1..l
  <2> DEFINE e == q.steps
             E == [id : DOMAIN Says, time : Nat]
  <2>1. e \in Seq(Range(e)) /\ t \in Seq(E)
    OBVIOUS
  <2> HIDE DEF e, E
  <2>2. Len(e) \in Nat /\ DOMAIN e = 1..Len(e) /\ Len(t) \in Nat /\ DOMAIN t = 1..Len(t)
    BY <2>1
  <2>. QED  BY <2>2 DEF e
<1>4. /\ Len(h) = k + 1 /\ DOMAIN h = 1..(k + 1)
      /\ \A i \in 1..k : h[i] = q.steps[i].scenario
      /\ h[k + 1] = s.scenario
  <2> DEFINE f == [i \in DOMAIN q.steps |-> q.steps[i].scenario]
             y == s.scenario
  <2>1. f = [i \in 1..k |-> f[i]] /\ \A i \in 1..k : f[i] = q.steps[i].scenario
    BY <1>3
  <2>2. h = f \o <<y>>
    BY DEF History
  <2> HIDE DEF f, y, h, k
  <2>3. /\ Len(h) = k + 1 /\ DOMAIN h = 1..(k + 1)
        /\ \A i \in 1..k : h[i] = f[i]
        /\ h[k + 1] = y
    BY <1>3, <2>1, <2>2, OneMore
  <2>. QED  BY <2>1, <2>3 DEF y
<1>5. /\ DOMAIN seen = 1..(l + 1)
      /\ \A i \in 1..l : seen[i] = Says[t[i].id].scenario
      /\ seen[l + 1] = s.scenario
  <2> DEFINE y == s.scenario
  <2>1. past = [i \in 1..l |-> past[i]] /\ \A i \in 1..l : past[i] = Says[t[i].id].scenario
    BY <1>3
  <2> HIDE DEF past, l, y
  <2>2. /\ DOMAIN (past \o <<y>>) = 1..(l + 1)
        /\ \A i \in 1..l : (past \o <<y>>)[i] = past[i]
        /\ (past \o <<y>>)[l + 1] = y
    BY <1>3, <2>1, OneMore
  <2>. QED  BY <2>1, <2>2 DEF y
<1>6. PICK from : TracedBy(q.steps, t, from)
  BY DEF Traced
<1>7. c \in Seq(Range(c)) /\ IsInjective(c)
  BY ChainsAssumption
<1>8. Len(c) \in Nat /\ DOMAIN c = 1..Len(c)
  BY <1>7
<1>9. n \in 0..Len(c) /\ n \in Nat /\ Embedded(c, n, h)
  <2>1. Len(h) \in Nat
    BY <1>3, <1>4
  <2> HIDE DEF h
  <2>. QED  BY <1>8, <2>1, MetIsEmbedded
<1> HIDE DEF h, k, l, n, seen, past
<1>10. PICK at \in [1..n -> 1..(k + 1)] :
           /\ \A i, j \in 1..n : i < j => at[i] < at[j]
           /\ \A i \in 1..n : h[at[i]] = c[i]
  BY <1>4, <1>9 DEF Embedded
<1> DEFINE place(i) == IF i = k + 1 THEN l + 1 ELSE from[i]
           to       == [i \in 1..n |-> place(at[i])]
<1>11. \A i \in 1..(k + 1) : i = k + 1 \/ (i \in 1..k /\ i # k + 1)
  BY <1>3
<1>12. \A i \in 1..k : from[i] \in 1..l
  BY <1>3, <1>6 DEF TracedBy
<1>13. \A i : (i = k + 1 => place(i) = l + 1) /\ (i # k + 1 => place(i) = from[i])
  BY Zenon
<1> HIDE DEF place
<1>14. 1..l \subseteq 1..(l + 1) /\ l + 1 \in 1..(l + 1) /\ \A i \in 1..l : i < l + 1
  BY <1>3
<1>15. \A i \in 1..(k + 1) : place(i) \in 1..(l + 1) /\ seen[place(i)] = h[i]
  <2> SUFFICES ASSUME NEW i \in 1..(k + 1) PROVE place(i) \in 1..(l + 1) /\ seen[place(i)] = h[i]
    OBVIOUS
  <2>1. CASE i = k + 1
    BY <1>4, <1>5, <1>13, <1>14, <2>1
  <2>2. CASE i \in 1..k /\ i # k + 1
    <3>1. place(i) = from[i] /\ from[i] \in 1..l
      BY <1>12, <1>13, <2>2
    <3>2. h[i] = Says[t[from[i]].id].scenario
      BY <1>3, <1>4, <1>6, <2>2 DEF TracedBy
    <3>. QED  BY <1>5, <1>14, <3>1, <3>2
  <2>. QED  BY <1>11, <2>1, <2>2
<1>16. ASSUME NEW i \in 1..(k + 1), NEW j \in 1..(k + 1), i < j PROVE place(i) <= place(j)
  <2>1. i \in 1..k /\ i # k + 1 /\ i <= j
    BY <1>3, <1>16
  <2>2. CASE j = k + 1
    BY <1>3, <1>12, <1>13, <1>14, <2>1, <2>2
  <2>3. CASE j \in 1..k /\ j # k + 1
    <3>1. from[i] <= from[j]
      BY <1>3, <1>6, <2>1, <2>3 DEF TracedBy
    <3>. QED  BY <1>13, <2>1, <2>3, <3>1
  <2>. QED  BY <1>11, <2>2, <2>3
<1>17. \A i \in 1..n : /\ at[i] \in 1..(k + 1) /\ to[i] = place(at[i])
                      /\ i \in DOMAIN c
  BY <1>8, <1>9, <1>10
<1>18. to \in [1..n -> 1..(l + 1)]
  <2>1. \A i \in 1..n : place(at[i]) \in 1..(l + 1)
    BY <1>15, <1>17
  <2>. QED  BY <2>1
<1> HIDE DEF to
<1>19. \A i \in 1..n : seen[to[i]] = c[i]
  BY <1>10, <1>15, <1>17
<1>20. ASSUME NEW i \in 1..n, NEW j \in 1..n, i < j PROVE to[i] < to[j]
  <2>1. to[i] <= to[j]
    BY <1>10, <1>16, <1>17, <1>20
  <2>2. to[i] # to[j]
    <3>1. SUFFICES ASSUME to[i] = to[j] PROVE FALSE
      OBVIOUS
    <3>2. c[i] = c[j]
      BY <1>19, <3>1
    <3>3. i = j
      BY <1>7, <1>17, <3>2 DEF IsInjective
    <3>4. i \in Nat /\ j \in Nat
      BY <1>9
    <3>. QED  BY <1>20, <3>3, <3>4
  <2>3. to[i] \in 1..(l + 1) /\ to[j] \in 1..(l + 1)
    BY <1>18
  <2>4. to[i] \in Int /\ to[j] \in Int
    BY <1>3, <2>3
  <2>. QED  BY <2>1, <2>2, <2>4
<1>21. \E a \in [1..n -> DOMAIN seen] :
               /\ \A i, j \in 1..n : i < j => a[i] < a[j]
               /\ \A i \in 1..n : seen[a[i]] = c[i]
  BY <1>5, <1>18, <1>19, <1>20
<1>. QED  BY <1>2, <1>21 DEF Grounded, seen, past

(* A campaign in a report went on: its scenarios were met in the order of  *)
(* the chain, all but the last in attacks confirmed before                 *)
(* (core/campaign.py).                                                     *)
THEOREM CampaignsAreGrounded == ReportSpec => []CampaignIsGrounded
<1> DEFINE Holds_(r) == r # None => \A m \in r.soc.says.campaigns :
                                       Grounded(m, r.asOf.told, Says[r.of.id])
<1>1. ReportInit => CampaignIsGrounded
  BY DEF ReportInit, CampaignIsGrounded
<1>2. ASSUME TraceInv, CampaignIsGrounded, [ReportNext]_allVars
      PROVE  CampaignIsGrounded'
  <2>1. (CampaignIsGrounded <=> Holds_(report)) /\ (CampaignIsGrounded' <=> Holds_(report'))
    BY DEF CampaignIsGrounded, Grounded
  <2>2. CASE report' = None
    BY <2>1, <2>2
  <2>3. CASE UNCHANGED allVars
    <3>1. report' = report
      BY <2>3 DEF allVars, reportVars
    <3> HIDE DEF Holds_
    <3>. QED  BY <1>2, <2>1, <3>1
  <2>4. CASE ReportNext /\ report' # None
    <3>1. PICK al, q, run : MadeFrom(report', al, q, run)
      BY <1>2, <2>4, ReportIsMade
    <3> DEFINE t == report'.asOf.told
               s == Says[report'.of.id]
               C == report'.soc.says.campaigns
    <3>2. /\ q.steps \in Seq(Range(q.steps)) /\ Traced(q.steps, t)
          /\ t \in Seq([id : DOMAIN Says, time : Nat])
          /\ C = Campaigns(History(q, s))
      BY <3>1 DEF MadeFrom
    <3> HIDE DEF t, s, C
    <3>3. \A m \in C : Grounded(m, t, s)
      BY <3>2, CampaignTraced
    <3>. QED  BY <2>1, <3>3 DEF t, s, C
  <2>. QED  BY <1>2, <2>2, <2>3, <2>4
<1>. QED  BY <1>1, <1>2, InitTrace, NextTrace, PTL DEF ReportSpec

-----------------------------------------------------------------------------
(* The median of finitely many numbers. *)

(* The k-th smallest value is one: fewer than k are below it, and k are    *)
(* not above it.                                                           *)
LEMMA SmallestOf ==
  ASSUME NEW K, IsFiniteSet(K), NEW f \in [K -> Nat], NEW k \in 1..Cardinality(K)
  PROVE  LET v == Smallest(f, k)
         IN  /\ v \in Nat
             /\ Cardinality({i \in K : f[i] < v}) < k
             /\ k <= Cardinality({i \in K : f[i] <= v})
<1> DEFINE Upto(v)  == {i \in K : f[i] <= v}
           Below(v) == {i \in K : f[i] < v}
           Enough   == {v \in Nat : k <= Cardinality(Upto(v))}
<1>1. Cardinality(K) \in Nat /\ k \in Nat /\ k >= 1 /\ k <= Cardinality(K)
  BY FS_CardinalityType
<1>2. \A v \in Nat : /\ Cardinality(Upto(v)) \in Nat /\ Cardinality(Below(v)) \in Nat
  BY FS_Subset, FS_CardinalityType
<1>3. Enough # {}
  <2>1. K # {}
    BY <1>1, FS_EmptySet
  <2>2. f \in Surjection(K, Range(f))
    BY DEF Surjection, Range
  <2>3. IsFiniteSet(Range(f))
    BY <2>2, FS_Surjection
  <2>4. Range(f) \in SUBSET Nat /\ Range(f) # {}
    BY <2>1 DEF Range
  <2>5. Max(Range(f)) \in Nat /\ \A y \in Range(f) : y <= Max(Range(f))
    BY <2>3, <2>4, LargestNat
  <2> DEFINE v == Max(Range(f))
  <2>6. \A i \in K : f[i] <= v
    BY <2>5 DEF Range
  <2> HIDE DEF v
  <2>7. Upto(v) = K
    BY <2>6
  <2>. QED  BY <1>1, <2>5, <2>7 DEF v
<1>4. Enough \in SUBSET Nat
  OBVIOUS
<1>5. PICK v \in Enough : \A w \in Enough : v <= w
  <2> HIDE DEF Enough
  <2>. QED  BY <1>3, <1>4, LeastNat
<1>6. v \in Nat /\ k <= Cardinality(Upto(v))
  BY <1>5
<1>7. Cardinality(Below(v)) < k
  <2>1. CASE v = 0
    <3>1. Below(v) = {}
      BY <2>1
    <3> HIDE DEF Below
    <3>. QED  BY <1>1, <3>1, FS_EmptySet
  <2>2. CASE v # 0
    <3>1. v - 1 \in Nat /\ ~(v <= v - 1)
      BY <1>6, <2>2
    <3>2. v - 1 \notin Enough
      <4> HIDE DEF Enough
      <4>. QED  BY <1>5, <3>1
    <3>3. ~(k <= Cardinality(Upto(v - 1)))
      <4> HIDE DEF Upto
      <4>. QED  BY <3>1, <3>2
    <3>4. Upto(v - 1) = Below(v)
      <4>1. \A i \in K : f[i] \in Nat
        OBVIOUS
      <4>2. \A i \in K : f[i] <= v - 1 <=> f[i] < v
        BY <1>6, <4>1
      <4>. QED  BY <4>2
    <3> HIDE DEF Upto, Below
    <3>. QED  BY <1>1, <1>2, <1>6, <3>3, <3>4
  <2>. QED  BY <2>1, <2>2
<1>8. v \in Range(f)
  <2> SUFFICES ASSUME v \notin Range(f) PROVE FALSE
    OBVIOUS
  <2>1. \A i \in K : f[i] \in Nat /\ f[i] # v
    BY DEF Range
  <2>2. \A i \in K : f[i] <= v <=> f[i] < v
    BY <1>6, <2>1
  <2>3. Upto(v) = Below(v)
    BY <2>2
  <2> HIDE DEF Upto, Below
  <2>. QED  BY <1>1, <1>2, <1>6, <1>7, <2>3
<1> DEFINE u == Smallest(f, k)
<1>9. DOMAIN f = K
  OBVIOUS
<1>10. /\ u \in Range(f)
       /\ Cardinality(Below(u)) < k
       /\ k <= Cardinality(Upto(u))
  BY <1>6, <1>7, <1>8, <1>9 DEF Smallest
<1>11. Range(f) \subseteq Nat
  BY DEF Range
<1> HIDE DEF u
<1>. QED  BY <1>10, <1>11 DEF u

(* Half of the numbers at least are above whatever is below their median.  *)
LEMMA HalfAbove ==
  ASSUME NEW K, IsFiniteSet(K), K # {}, NEW f \in [K -> Nat], NEW x \in Nat,
         2 * x < TwiceMedian(f)
  PROVE  2 * Cardinality({i \in K : f[i] > x}) >= Cardinality(K)
<1> DEFINE n == Cardinality(K)
           a == (n + 1) \div 2
           b == (n + 2) \div 2
           p == Smallest(f, a)
           q == Smallest(f, b)
           Upto(v)  == {i \in K : f[i] <= v}
           Below(v) == {i \in K : f[i] < v}
           Above    == {i \in K : f[i] > x}
<1>1. n \in Nat /\ n # 0
  BY FS_CardinalityType, FS_EmptySet
<1>2. a \in 1..n /\ b \in 1..n /\ a <= b /\ 2 * b <= n + 2 /\ a \in Nat /\ b \in Nat
  <2> HIDE DEF n
  <2>. QED  BY <1>1
<1>3. /\ p \in Nat /\ Cardinality(Below(p)) < a /\ a <= Cardinality(Upto(p))
      /\ q \in Nat /\ Cardinality(Below(q)) < b /\ b <= Cardinality(Upto(q))
  <2> HIDE DEF a, b
  <2>. QED  BY <1>2, SmallestOf
<1>4. 2 * x < p + q
  <2>1. DOMAIN f = K
    OBVIOUS
  <2>. QED  BY <2>1 DEF TwiceMedian
<1> HIDE DEF n, a, b, p, q
<1>5. \A i \in K : f[i] \in Nat
  OBVIOUS
<1>6. \A v \in Nat : /\ IsFiniteSet(Upto(v)) /\ IsFiniteSet(Below(v))
                     /\ Cardinality(Upto(v)) \in Nat /\ Cardinality(Below(v)) \in Nat
  BY FS_Subset, FS_CardinalityType
<1>7. p <= q
  <2> SUFFICES ASSUME ~(p <= q) PROVE FALSE
    OBVIOUS
  <2>1. Upto(q) \in SUBSET Below(p)
    BY <1>3, <1>5
  <2> HIDE DEF Upto, Below
  <2>2. Cardinality(Upto(q)) <= Cardinality(Below(p))
    BY <1>3, <1>6, <2>1, FS_Subset
  <2>. QED  BY <1>2, <1>3, <1>6, <2>2
<1>8. x < q
  BY <1>3, <1>4, <1>7
<1>9. Below(q) \cup Above = K
  BY <1>3, <1>5, <1>8
<1>10. IsFiniteSet(Above) /\ Cardinality(Above) \in Nat
  BY FS_Subset, FS_CardinalityType
<1> HIDE DEF Below, Above, Upto
<1>11. n <= Cardinality(Below(q)) + Cardinality(Above)
  <2>1. Cardinality(K) = Cardinality(Below(q)) + Cardinality(Above) - Cardinality(Below(q) \cap Above)
    BY <1>3, <1>6, <1>9, <1>10, FS_Union
  <2>2. IsFiniteSet(Below(q) \cap Above) /\ Cardinality(Below(q) \cap Above) \in Nat
    <3>1. Below(q) \cap Above \in SUBSET Above
      OBVIOUS
    <3>. QED  BY <1>10, <3>1, FS_Subset, FS_CardinalityType
  <2>. QED  BY <1>3, <1>6, <1>10, <2>1, <2>2 DEF n
<1>12. 2 * Cardinality(Above) >= n
  BY <1>1, <1>2, <1>3, <1>6, <1>10, <1>11
<1>. QED  BY <1>12 DEF Above, n

-----------------------------------------------------------------------------
(* The pauses between steps are those between confirmed alerts. *)

Pause(t, p) == t[p[2]].time - t[p[1]].time

(* The pauses between alerts that leave steps, one after the other. *)
Pauses(t, first) ==
  LET last == {i \in {i \in DOMAIN t : LeavesSteps(t[i])} : i >= first}
  IN  {p \in last \X last : /\ p[1] < p[2] /\ Pause(t, p) > 0
                            /\ ~ \E i \in last : p[1] < i /\ i < p[2]}

(* At least half of the pauses since some alert are longer than x. *)
Measured(t, x) ==
  \E first \in {i \in DOMAIN t : LeavesSteps(t[i])} :
    /\ Pauses(t, first) # {}
    /\ 2 * Cardinality({p \in Pauses(t, first) : Pause(t, p) > x})
         >= Cardinality(Pauses(t, first))

(* The pauses of the steps on file, each put between the two alerts it     *)
(* separates: no two alike, none missing, all of their own length.         *)
PacesFit(steps, t, from) ==
  LET K == DOMAIN Paces(steps)
      g == [i \in K |-> <<from[i], from[i + 1]>>]
      P == Pauses(t, from[1])
  IN  /\ IsFiniteSet(K)
      /\ Paces(steps) \in [K -> Nat]
      /\ from[1] \in {i \in DOMAIN t : LeavesSteps(t[i])}
      /\ g \in [K -> P]
      /\ \A i \in K : Pause(t, g[i]) = Paces(steps)[i]
      /\ \A i, j \in K : g[i] = g[j] => i = j
      /\ \A p \in P : \E i \in K : g[i] = p

(* From where the steps on file begin, each pause of the attack is one     *)
(* between two of them, and the other way round.                           *)
LEMMA PausesTraced ==
  ASSUME NEW steps, NEW n \in Nat, n >= 1, DOMAIN steps = 1..n, Len(steps) = n,
         NEW t, NEW l \in Nat, DOMAIN t = 1..l, \A i \in 1..l : t[i].time \in Nat,
         NEW from, TracedBy(steps, t, from)
  PROVE  PacesFit(steps, t, from)
<1> DEFINE f     == Paces(steps)
           K     == DOMAIN f
           g     == [i \in K |-> <<from[i], from[i + 1]>>]
           timed == {i \in DOMAIN t : LeavesSteps(t[i])}
           last  == {i \in timed : i >= from[1]}
           pace(i) == steps[i + 1].time - steps[i].time
<1>1. \A i \in 1..n : /\ from[i] \in 1..l /\ from[i] \in Nat
                      /\ steps[i].time = t[from[i]].time
                      /\ from[i] \in timed
  <2>1. from \in [1..n -> 1..l]
    BY DEF TracedBy
  <2>2. \A i \in 1..n : steps[i].time = t[from[i]].time /\ LeavesSteps(t[from[i]])
    BY DEF TracedBy
  <2>. QED  BY <2>1, <2>2
<1>2. \A i, j \in 1..n : i <= j => from[i] <= from[j]
  BY DEF TracedBy
<1>3. \A i \in 1..n, m \in 1..l : from[i] <= m /\ LeavesSteps(t[m]) => \E j \in 1..n : from[j] = m
  BY DEF TracedBy
<1>4. 1 \in 1..n /\ \A i \in 1..n : 1 <= i
  OBVIOUS
<1>5. \A i \in 1..(n - 1) : i \in 1..n /\ i + 1 \in 1..n /\ i \in Nat
  OBVIOUS
<1>6. \A i \in 1..n : from[i] \in last
  BY <1>1, <1>2, <1>4
<1>7. K = {i \in 1..(n - 1) : pace(i) > 0} /\ \A i \in K : f[i] = pace(i)
  <2> DEFINE K0 == {i \in 1..(n - 1) : pace(i) > 0}
  <2>1. f = [i \in K0 |-> pace(i)]
    BY Zenon DEF Paces
  <2> HIDE DEF f, pace
  <2>. QED  BY Zenon, <2>1
<1> HIDE DEF f, K, pace
<1>8. \A i \in 1..(n - 1) : pace(i) \in Int /\ pace(i) = t[from[i + 1]].time - t[from[i]].time
  BY <1>1, <1>5 DEF pace
<1>9. \A i \in K : i \in 1..(n - 1) /\ f[i] \in Nat /\ f[i] > 0
  BY <1>7, <1>8
<1>10. IsFiniteSet(K)
  <2>1. IsFiniteSet(1..(n - 1))
    <3>1. n - 1 \in Int /\ 1 \in Int
      OBVIOUS
    <3>. QED  BY <3>1, FS_Interval
  <2>2. K \in SUBSET (1..(n - 1))
    BY <1>9
  <2>. QED  BY <2>1, <2>2, FS_Subset
<1>11. f \in [K -> Nat]
  <2>1. f = [i \in K |-> f[i]]
    BY DEF f, K, Paces
  <2>. QED  BY <1>9, <2>1
<1>12. \A i \in K : Pause(t, <<from[i], from[i + 1]>>) = f[i]
  BY <1>7, <1>8, <1>9 DEF Pause
<1>13. \A i \in K : from[i] < from[i + 1]
  <2> SUFFICES ASSUME NEW i \in K PROVE from[i] < from[i + 1]
    OBVIOUS
  <2>1. i \in 1..n /\ i + 1 \in 1..n /\ i <= i + 1 /\ i \in 1..(n - 1)
    BY <1>5, <1>9
  <2>2. from[i] <= from[i + 1]
    BY <1>2, <2>1
  <2>3. from[i] # from[i + 1]
    <3> SUFFICES ASSUME from[i] = from[i + 1] PROVE FALSE
      OBVIOUS
    <3>1. pace(i) = t[from[i]].time - t[from[i]].time
      BY <1>8, <2>1
    <3>2. t[from[i]].time \in Nat
      BY <1>1, <2>1
    <3>. QED  BY <1>7, <3>1, <3>2
  <2>. QED  BY <1>1, <2>1, <2>2, <2>3
<1>14. ASSUME NEW i \in K, NEW m \in last, from[i] < m, m < from[i + 1]
       PROVE  FALSE
  <2>1. i \in 1..n /\ i + 1 \in 1..n /\ i \in Nat
    BY <1>5, <1>9
  <2>2. m \in 1..l /\ LeavesSteps(t[m]) /\ m \in Nat
    OBVIOUS
  <2>3. from[1] <= m
    BY <1>1, <1>4, <2>2
  <2>4. PICK j \in 1..n : from[j] = m
    BY <1>3, <1>4, <2>2, <2>3
  <2>5. ~(j <= i)
    BY <1>1, <1>2, <1>14, <2>1, <2>2, <2>4
  <2>6. ~(i + 1 <= j)
    BY <1>1, <1>2, <1>14, <2>1, <2>2, <2>4
  <2>7. j \in Nat
    OBVIOUS
  <2>. QED  BY <2>1, <2>5, <2>6, <2>7
<1>15. ASSUME NEW i \in K PROVE g[i] \in Pauses(t, from[1]) /\ g[i] = <<from[i], from[i + 1]>>
  <2>1. i \in 1..n /\ i + 1 \in 1..n
    BY <1>5, <1>9
  <2> DEFINE p == <<from[i], from[i + 1]>>
  <2>2. p \in last \X last /\ p[1] = from[i] /\ p[2] = from[i + 1]
    BY <1>6, <2>1
  <2>3. p[1] < p[2] /\ Pause(t, p) > 0
    BY <1>9, <1>12, <1>13, <2>2
  <2>4. ~ \E m \in last : p[1] < m /\ m < p[2]
    BY <1>14, <2>2
  <2>5. g[i] = p
    OBVIOUS
  <2> HIDE DEF p, g
  <2>6. p \in Pauses(t, from[1])
    BY <2>2, <2>3, <2>4 DEF Pauses
  <2>. QED  BY <2>5, <2>6 DEF p
<1>16. g \in [K -> Pauses(t, from[1])]
  BY <1>15
<1>17. ASSUME NEW i \in K, NEW j \in K, g[i] = g[j] PROVE i = j
  <2>1. from[i] = from[j] /\ from[i + 1] = from[j + 1]
    BY <1>15, <1>17
  <2>2. /\ i \in 1..n /\ i + 1 \in 1..n /\ i \in Nat
        /\ j \in 1..n /\ j + 1 \in 1..n /\ j \in Nat
    BY <1>5, <1>9
  <2>3. ~(i < j)
    <3> SUFFICES ASSUME i < j PROVE FALSE
      OBVIOUS
    <3>1. from[i + 1] <= from[j]
      BY <1>2, <2>2
    <3>. QED  BY <1>1, <1>13, <2>1, <2>2, <3>1
  <2>4. ~(j < i)
    <3> SUFFICES ASSUME j < i PROVE FALSE
      OBVIOUS
    <3>1. from[j + 1] <= from[i]
      BY <1>2, <2>2
    <3>. QED  BY <1>1, <1>13, <2>1, <2>2, <3>1
  <2>. QED  BY <2>2, <2>3, <2>4
<1>18. ASSUME NEW p \in Pauses(t, from[1]) PROVE \E i \in K : g[i] = p
  <2>1. /\ p \in last \X last /\ p[1] < p[2] /\ Pause(t, p) > 0
        /\ ~ \E m \in last : p[1] < m /\ m < p[2]
    BY DEF Pauses
  <2>2. /\ p = <<p[1], p[2]>> /\ p[1] \in last /\ p[2] \in last
        /\ p[1] \in 1..l /\ p[2] \in 1..l /\ p[1] \in Nat /\ p[2] \in Nat
        /\ LeavesSteps(t[p[1]]) /\ LeavesSteps(t[p[2]])
        /\ from[1] <= p[1] /\ from[1] <= p[2]
    <3>1. from[1] \in Nat
      BY <1>1, <1>4
    <3>. QED  BY <2>1, <3>1
  <2>3. (\E j \in 1..n : from[j] = p[1]) /\ (\E j \in 1..n : from[j] = p[2])
    BY <1>3, <1>4, <2>2
  <2> DEFINE After == {j \in 1..n : from[j] > p[1]}
  <2>4. After # {} /\ After \in SUBSET Nat
    BY <2>1, <2>2, <2>3
  <2>5. PICK j \in After : \A k \in After : j <= k
    <3> HIDE DEF After
    <3>. QED  BY <2>4, LeastNat
  <2>6. j \in 1..n /\ j \in Nat /\ from[j] > p[1]
    BY <2>5
  <2>7. PICK i \in 1..n : from[i] = p[1]
    BY <2>3
  <2>8. i < j
    <3>1. ~(j <= i)
      BY <1>1, <1>2, <2>2, <2>6, <2>7
    <3>2. i \in Nat
      OBVIOUS
    <3>. QED  BY <2>6, <3>1, <3>2
  <2>9. j - 1 \in 1..n /\ j - 1 \in 1..(n - 1) /\ i <= j - 1 /\ (j - 1) + 1 = j /\ ~(j <= j - 1)
    BY <2>6, <2>8
  <2>10. from[j - 1] = p[1]
    <3>1. from[j - 1] >= p[1]
      BY <1>1, <1>2, <2>2, <2>7, <2>9
    <3>2. j - 1 \notin After
      <4> HIDE DEF After
      <4>. QED  BY <2>5, <2>9
    <3>3. ~(from[j - 1] > p[1])
      BY <2>9, <3>2
    <3>. QED  BY <1>1, <2>2, <2>9, <3>1, <3>3
  <2>11. from[j] = p[2]
    <3>1. from[j] \in last
      BY <1>6, <2>6
    <3>2. ~(from[j] < p[2])
      BY <2>1, <2>6, <3>1
    <3>3. PICK k \in 1..n : from[k] = p[2]
      BY <2>3
    <3>4. k \in After
      BY <2>1, <2>2, <3>3
    <3>5. j <= k
      BY <2>5, <3>4
    <3>6. from[j] <= p[2]
      BY <1>2, <2>6, <3>3, <3>5
    <3>. QED  BY <1>1, <2>2, <2>6, <3>2, <3>6
  <2>12. pace(j - 1) > 0
    <3>1. pace(j - 1) = t[p[2]].time - t[p[1]].time
      BY <1>8, <2>9, <2>10, <2>11
    <3>. QED  BY <2>1, <3>1 DEF Pause
  <2>13. j - 1 \in K
    BY <1>7, <2>9, <2>12
  <2>14. g[j - 1] = p
    BY <1>15, <2>2, <2>9, <2>10, <2>11, <2>13
  <2>. QED  BY <2>13, <2>14
<1>19. from[1] \in timed
  BY <1>1, <1>4
<1> HIDE DEF g
<1>. QED  BY <1>10, <1>11, <1>12, <1>15, <1>16, <1>17, <1>18, <1>19 DEF g, f, K, PacesFit

(* A margin on the steps on file is one on what was confirmed. *)
LEMMA MarginTraced ==
  ASSUME NEW steps, steps \in Seq(Range(steps)),
         NEW t \in Seq([id : DOMAIN Says, time : Nat]), Traced(steps, t),
         NEW x \in Nat, DecisionAdvantage(x, steps) = "margin"
  PROVE  Measured(t, x)
<1> DEFINE f == Paces(steps)
           K == DOMAIN f
           n == Len(steps)
           l == Len(t)
<1>1. Len(steps) >= 2 /\ K # {} /\ 2 * x < TwiceMedian(f)
  <2>1. n \in Nat
    OBVIOUS
  <2> HIDE DEF n
  <2>2. n >= 2 /\ K # {} /\ 2 * x < TwiceMedian(f)
    <3>1. ~(n < 2) /\ K # {} /\ 2 * x < TwiceMedian(f)
      BY Zenon DEF DecisionAdvantage, n
    <3>. QED  BY <2>1, <3>1
  <2>. QED  BY <2>2 DEF n
<1>2. /\ n \in Nat /\ n >= 1 /\ DOMAIN steps = 1..n
      /\ l \in Nat /\ DOMAIN t = 1..l /\ \A i \in 1..l : t[i].time \in Nat
  <2> DEFINE E == [id : DOMAIN Says, time : Nat]
  <2>1. t \in Seq(E) /\ \A e \in E : e.time \in Nat
    OBVIOUS
  <2> HIDE DEF E
  <2>2. l \in Nat /\ DOMAIN t = 1..l /\ \A i \in 1..l : t[i] \in E
    BY <2>1
  <2>. QED  BY <1>1, <2>1, <2>2
<1>3. PICK from : TracedBy(steps, t, from)
  BY DEF Traced
<1> DEFINE g == [i \in K |-> <<from[i], from[i + 1]>>]
           P == Pauses(t, from[1])
<1>4. /\ IsFiniteSet(K) /\ f \in [K -> Nat]
      /\ from[1] \in {i \in DOMAIN t : LeavesSteps(t[i])}
      /\ g \in [K -> P]
      /\ \A i \in K : Pause(t, g[i]) = f[i]
      /\ \A i, j \in K : g[i] = g[j] => i = j
      /\ \A p \in P : \E i \in K : g[i] = p
  <2> HIDE DEF n, l
  <2>1. Len(steps) = n
    BY DEF n
  <2>2. PacesFit(steps, t, from)
    BY <1>2, <1>3, <2>1, PausesTraced
  <2>. QED  BY <2>2 DEF PacesFit
<1> HIDE DEF f, K, g, P, n, l
<1>5. 2 * Cardinality({i \in K : f[i] > x}) >= Cardinality(K)
  <2>1. IsFiniteSet(K) /\ f \in [K -> Nat]
    BY <1>4
  <2>2. K # {} /\ 2 * x < TwiceMedian(f)
    BY <1>1
  <2>. QED  BY Zenon, <2>1, <2>2, HalfAbove
<1>6. IsFiniteSet(P) /\ Cardinality(P) <= Cardinality(K)
  <2>1. g \in Surjection(K, P)
    BY <1>4 DEF Surjection
  <2>. QED  BY <1>4, <2>1, FS_Surjection
<1> DEFINE KL == {i \in K : f[i] > x}
           PL == {p \in P : Pause(t, p) > x}
<1>7. Cardinality(KL) <= Cardinality(PL) /\ IsFiniteSet(KL) /\ IsFiniteSet(PL)
  <2>1. PL \in SUBSET P
    OBVIOUS
  <2>2. IsFiniteSet(PL)
    BY <1>6, <2>1, FS_Subset
  <2> DEFINE gl == [i \in KL |-> g[i]]
  <2>3. gl \in Injection(KL, PL)
    <3>1. \A i \in KL : g[i] \in PL
      BY <1>4
    <3>2. \A i, j \in KL : gl[i] = gl[j] => i = j
      BY <1>4
    <3>. QED  BY <3>1, <3>2 DEF Injection, IsInjective
  <2> HIDE DEF KL, PL, gl
  <2>. QED  BY <2>2, <2>3, FS_Injection
<1>8. P # {}
  BY <1>1, <1>4
<1>9. /\ Cardinality(K) \in Nat /\ Cardinality(P) \in Nat
      /\ Cardinality(KL) \in Nat /\ Cardinality(PL) \in Nat
  <2> HIDE DEF KL, PL
  <2>. QED  BY <1>4, <1>6, <1>7, FS_CardinalityType
<1>10. 2 * Cardinality(PL) >= Cardinality(P)
  BY <1>5, <1>6, <1>7, <1>9
<1>. QED  BY <1>4, <1>8, <1>10 DEF Measured, P

(* A margin is measured: at least half of the pauses between the last      *)
(* attacks confirmed outlast the pipeline (core/ooda.py).                  *)
THEOREM MarginsAreMeasured == ReportSpec => []MarginIsMeasured
<1> DEFINE Holds_(r) == r # None /\ r.soc.says.pace = "margin" => Measured(r.asOf.told, r.run.latency)
<1>1. ReportInit => MarginIsMeasured
  BY DEF ReportInit, MarginIsMeasured
<1>2. ASSUME TraceInv, MarginIsMeasured, [ReportNext]_allVars
      PROVE  MarginIsMeasured'
  <2>1. (MarginIsMeasured <=> Holds_(report)) /\ (MarginIsMeasured' <=> Holds_(report'))
    BY DEF MarginIsMeasured, Measured, Pauses, Pause, LeavesSteps
  <2>2. CASE report' = None
    BY <2>1, <2>2
  <2>3. CASE UNCHANGED allVars
    <3>1. report' = report
      BY <2>3 DEF allVars, reportVars
    <3> HIDE DEF Holds_
    <3>. QED  BY <1>2, <2>1, <3>1
  <2>4. CASE ReportNext /\ report' # None
    <3>1. PICK al, q, run : MadeFrom(report', al, q, run)
      BY <1>2, <2>4, ReportIsMade
    <3> DEFINE t == report'.asOf.told
               x == report'.run.latency
    <3>2. /\ q.steps \in Seq(Range(q.steps)) /\ Traced(q.steps, t)
          /\ t \in Seq([id : DOMAIN Says, time : Nat])
          /\ report'.soc.says.pace = DecisionAdvantage(x, q.steps)
      BY <3>1 DEF MadeFrom
    <3>3. x \in Nat
      BY <3>1, RunsAssumption DEF MadeFrom
    <3> DEFINE e == q.steps
    <3> HIDE DEF t, x, e
    <3>4. DecisionAdvantage(x, e) = "margin" => Measured(t, x)
      BY <3>2, <3>3, MarginTraced DEF e
    <3>. QED  BY <2>1, <3>2, <3>4 DEF t, x, e
  <2>. QED  BY <1>2, <2>2, <2>3, <2>4
<1>. QED  BY <1>1, <1>2, InitTrace, NextTrace, PTL DEF ReportSpec

-----------------------------------------------------------------------------
(* What the flags of an alert do to the null hypothesis. *)

(* The smaller of two numbers. *)
LEMMA SmallerType ==
  ASSUME NEW n \in Nat
  PROVE  /\ Min({10, n}) \in 0..10
         /\ n >= 10 => Min({10, n}) = 10
<1>1. CASE n >= 10
  <2>1. 10 \in {10, n} /\ \A y \in {10, n} : 10 <= y
    BY <1>1
  <2>2. \A x \in {10, n} : (\A y \in {10, n} : x <= y) => x = 10
    BY <1>1
  <2>3. Min({10, n}) = 10
    BY <2>1, <2>2 DEF Min
  <2>. QED  BY <2>3
<1>2. CASE ~(n >= 10)
  <2>1. n \in {10, n} /\ \A y \in {10, n} : n <= y
    BY <1>2
  <2>2. \A x \in {10, n} : (\A y \in {10, n} : x <= y) => x = n
    BY <1>2
  <2>3. Min({10, n}) = n
    BY <2>1, <2>2 DEF Min
  <2>. QED  BY <1>2, <2>3
<1>. QED  BY <1>1, <1>2

(* The sums are what the loop computes, one rule after the other.          *)
LEMMA SumsUnfold ==
  ASSUME NEW rules, NEW ev, NEW side, Len(rules) \in Nat
  PROVE  /\ Sums(rules, ev, side)[0] = 0
         /\ \A i \in 1..Len(rules) :
              Sums(rules, ev, side)[i] = Sums(rules, ev, side)[i - 1] + Worth(rules[i], ev, side)
<1> DEFINE w(i) == Worth(rules[i], ev, side)
           Loop(f, n) == [i \in 0..n |-> IF i = 0 THEN 0 ELSE f[i - 1] + w(i)]
           Unrun == {n \in Nat : ~ \E f : f = Loop(f, n)}
<1> HIDE DEF w
<1>1. Unrun = {}
  <2> SUFFICES ASSUME Unrun # {}  PROVE FALSE
    OBVIOUS
  <2>1. Unrun \in SUBSET Nat
    OBVIOUS
  <2>2. PICK n \in Unrun : \A m \in Unrun : n <= m
    <3> HIDE DEF Unrun
    <3>. QED  BY <2>1, LeastNat
  <2>3. n # 0
    <3> DEFINE f == [i \in 0..0 |-> 0]
    <3>1. f = Loop(f, 0)
      OBVIOUS
    <3>. QED  BY <3>1
  <2>4. n - 1 \in Nat /\ n - 1 \notin Unrun
    <3>1. n \in Nat
      BY <2>2
    <3> HIDE DEF Unrun
    <3>. QED  BY <2>2, <2>3, <3>1
  <2>5. PICK f : f = Loop(f, n - 1)
    BY <2>4
  <2> DEFINE g == [i \in 0..n |-> IF i = n THEN f[n - 1] + w(n) ELSE f[i]]
  <2>6. \A i \in 0..(n - 1) : f[i] = IF i = 0 THEN 0 ELSE f[i - 1] + w(i)
    BY Zenon, <2>5
  <2>7. \A i \in 0..n : g[i] = IF i = 0 THEN 0 ELSE g[i - 1] + w(i)
    <3> SUFFICES ASSUME NEW i \in 0..n
                 PROVE  g[i] = IF i = 0 THEN 0 ELSE g[i - 1] + w(i)
      OBVIOUS
    <3>1. n \in Nat
      BY <2>2
    <3>2. CASE i = n
      <4>1. n - 1 \in 0..n /\ n - 1 # n /\ g[n - 1] = f[n - 1]
        BY <2>3, <3>1
      <4>. QED  BY <2>3, <3>2, <4>1
    <3>3. CASE i # n
      <4>1. i \in 0..(n - 1) /\ (i # 0 => i - 1 \in 0..n /\ i - 1 # n)
        BY <3>1, <3>3
      <4>. QED  BY <2>6, <3>3, <4>1
    <3>. QED  BY <3>2, <3>3
  <2>8. g = Loop(g, n)
    <3>1. g = [i \in 0..n |-> g[i]]
      OBVIOUS
    <3> HIDE DEF g
    <3>. QED  BY Zenon, <2>7, <3>1
  <2> HIDE DEF g, Loop
  <2>. QED  BY <2>2, <2>8
<1>2. PICK f : f = Loop(f, Len(rules))
  BY <1>1
<1> DEFINE sum == Sums(rules, ev, side)
<1>3. sum = Loop(sum, Len(rules))
  BY <1>2 DEF Sums, w
<1> HIDE DEF sum
<1>4. \A i \in 0..Len(rules) : sum[i] = IF i = 0 THEN 0 ELSE sum[i - 1] + w(i)
  BY Zenon, <1>3
<1>5. 0 \in 0..Len(rules) /\ \A i \in 1..Len(rules) : i \in 0..Len(rules) /\ i # 0
  OBVIOUS
<1>6. sum[0] = 0 /\ \A i \in 1..Len(rules) : sum[i] = sum[i - 1] + w(i)
  BY <1>4, <1>5
<1>. QED  BY <1>6 DEF sum, w

(* Evidence is measured in naturals. *)
Measures(ev) == \A key \in DOMAIN ev : ev[key] \in Nat

Rules(rules) ==
  /\ Len(rules) \in Nat
  /\ DOMAIN rules = 1..Len(rules)
  /\ \A i \in 1..Len(rules) : LoadableRule(rules[i])

LEMMA WorthType ==
  ASSUME NEW r, LoadableRule(r), NEW ev, Measures(ev), NEW side \in BOOLEAN
  PROVE  /\ Worth(r, ev, side) \in Nat
         /\ Worth(r, ev, side) <= 10 * r.weight
         /\ r.supports # side => Worth(r, ev, side) = 0
         /\ (/\ r.supports = side /\ r.least <= 10
             /\ r.key \in DOMAIN ev /\ ev[r.key] = 10) => Worth(r, ev, side) = 10 * r.weight
<1> DEFINE least == Min({10, ev[r.key]})
<1>1. r.weight \in 1..10 /\ r.least \in Nat
  BY DEF LoadableRule
<1>2. CASE r.supports = side /\ Matches(r, ev)
  <2>1. ev[r.key] \in Nat
    BY <1>2 DEF Matches, Measures
  <2>2. least \in 0..10 /\ (ev[r.key] >= 10 => least = 10)
    BY <2>1, SmallerType
  <2>3. Worth(r, ev, side) = r.weight * least
    BY <1>2 DEF Worth
  <2> HIDE DEF least
  <2>4. \A w \in 1..10, l \in 0..10 : w * l \in Nat /\ w * l <= 10 * w
    OBVIOUS
  <2>5. ev[r.key] = 10 => Worth(r, ev, side) = 10 * r.weight
    <3> SUFFICES ASSUME ev[r.key] = 10 PROVE Worth(r, ev, side) = 10 * r.weight
      OBVIOUS
    <3>1. least = 10
      BY <2>2
    <3>2. Worth(r, ev, side) = r.weight * 10
      BY <2>3, <3>1
    <3>. QED  BY <1>1, <3>2
  <2>6. Worth(r, ev, side) \in Nat /\ Worth(r, ev, side) <= 10 * r.weight
    BY <1>1, <2>2, <2>3, <2>4
  <2>. QED  BY <1>2, <2>5, <2>6
<1>3. CASE ~(r.supports = side /\ Matches(r, ev))
  <2>1. Worth(r, ev, side) = 0
    BY <1>3 DEF Worth
  <2>2. (/\ r.supports = side /\ r.least <= 10
         /\ r.key \in DOMAIN ev /\ ev[r.key] = 10) => FALSE
    BY <1>1, <1>3 DEF Matches
  <2>. QED  BY <1>1, <2>1, <2>2
<1>. QED  BY <1>2, <1>3

(* A sum is at least each of its parts; and, when only one rule of a side  *)
(* is worth anything, at most that one.                                    *)
LEMMA SumsBound ==
  ASSUME NEW rules, Rules(rules), NEW ev, Measures(ev), NEW side \in BOOLEAN
  PROVE  /\ Weighed(rules, ev, side) \in Nat
         /\ \A i \in 1..Len(rules) : Worth(rules[i], ev, side) <= Weighed(rules, ev, side)
         /\ \A b \in Nat :
              /\ \A i \in 1..Len(rules) : Worth(rules[i], ev, side) <= b
              /\ \A i, j \in 1..Len(rules) :
                   rules[i].supports = side /\ rules[j].supports = side => i = j
              => Weighed(rules, ev, side) <= b
<1> DEFINE n    == Len(rules)
           w(i) == Worth(rules[i], ev, side)
           sum  == Sums(rules, ev, side)
<1>1. n \in Nat
  BY DEF Rules
<1>2. \A i \in 1..n : w(i) \in Nat /\ (rules[i].supports # side => w(i) = 0)
  BY WorthType DEF Rules
<1>3. sum[0] = 0 /\ \A i \in 1..n : sum[i] = sum[i - 1] + w(i)
  BY <1>1, SumsUnfold
<1>4. Weighed(rules, ev, side) = sum[n]
  BY DEF Weighed
<1> HIDE DEF n, w, sum
<1>5. \A i \in 1..n : i \in Nat /\ i - 1 \in 0..n /\ i - 1 < i
  BY <1>1
<1>6. ASSUME NEW i \in 0..n PROVE sum[i] \in Nat /\ \A j \in 1..i : w(j) <= sum[i]
  <2> DEFINE Good(k) == sum[k] \in Nat /\ \A j \in 1..k : w(j) <= sum[k]
             Bad     == {k \in 0..n : ~Good(k)}
  <2>1. Bad \in SUBSET Nat
    BY <1>1
  <2>2. Bad = {}
    <3> SUFFICES ASSUME Bad # {} PROVE FALSE
      OBVIOUS
    <3>1. PICK k \in Bad : \A m \in Bad : k <= m
      <4> HIDE DEF Bad
      <4>. QED  BY <2>1, LeastNat
    <3>2. k # 0
      BY <1>3, <3>1
    <3>3. k \in 1..n /\ k - 1 \in 0..n /\ ~(k <= k - 1)
      BY <1>1, <3>1, <3>2
    <3>4. Good(k - 1)
      BY <3>1, <3>3
    <3>5. sum[k] = sum[k - 1] + w(k) /\ w(k) \in Nat
      BY <1>2, <1>3, <3>3
    <3>6. \A j \in 1..k : j = k \/ j \in 1..(k - 1)
      BY <3>3
    <3>7. \A j \in 1..(k - 1) : j \in 1..n /\ w(j) \in Nat
      BY <1>1, <1>2, <3>3
    <3>8. \A j \in 1..k : w(j) <= sum[k]
      BY <3>4, <3>5, <3>6, <3>7
    <3>9. Good(k)
      BY <3>4, <3>5, <3>8
    <3>. QED  BY <3>1, <3>9
  <2>. QED  BY <2>2
<1>7. ASSUME NEW b \in Nat, \A i \in 1..n : w(i) <= b,
             \A i, j \in 1..n : rules[i].supports = side /\ rules[j].supports = side => i = j,
             NEW i \in 0..n
      PROVE  sum[i] <= b
  <2> DEFINE Good(k) == sum[k] <= b /\ (sum[k] = 0 \/ \E j \in 1..k : w(j) # 0)
             Bad     == {k \in 0..n : ~Good(k)}
  <2>1. Bad \in SUBSET Nat
    BY <1>1
  <2>2. Bad = {}
    <3> SUFFICES ASSUME Bad # {} PROVE FALSE
      OBVIOUS
    <3>1. PICK k \in Bad : \A m \in Bad : k <= m
      <4> HIDE DEF Bad
      <4>. QED  BY <2>1, LeastNat
    <3>2. k # 0
      BY <1>3, <3>1
    <3>3. k \in 1..n /\ k - 1 \in 0..n /\ ~(k <= k - 1) /\ k \in 1..k
      BY <1>1, <3>1, <3>2
    <3>4. Good(k - 1)
      BY <3>1, <3>3
    <3>5. sum[k] = sum[k - 1] + w(k) /\ w(k) \in Nat /\ sum[k - 1] \in Nat /\ w(k) <= b
      BY <1>2, <1>3, <1>6, <1>7, <3>3
    <3>6. CASE w(k) = 0
      <4>1. \A j \in 1..(k - 1) : j \in 1..k
        BY <3>3
      <4>2. sum[k] = sum[k - 1]
        BY <3>5, <3>6
      <4>3. Good(k)
        BY <3>4, <4>1, <4>2
      <4>. QED  BY <3>1, <4>3
    <3>7. CASE w(k) # 0
      <4>1. \A j \in 1..(k - 1) : w(j) = 0
        <5> SUFFICES ASSUME NEW j \in 1..(k - 1), w(j) # 0 PROVE FALSE
          OBVIOUS
        <5>1. j \in 1..n /\ j # k
          BY <1>1, <3>3
        <5>2. rules[j].supports = side /\ rules[k].supports = side
          BY <1>2, <3>3, <3>7, <5>1
        <5>. QED  BY <1>7, <3>3, <5>1, <5>2
      <4>2. sum[k - 1] = 0
        BY <3>4, <4>1
      <4>3. sum[k] <= b
        BY <3>5, <4>2
      <4>4. Good(k)
        BY <3>3, <3>7, <4>3
      <4>. QED  BY <3>1, <4>4
    <3>. QED  BY <3>6, <3>7
  <2>. QED  BY <2>2
<1>8. n \in 0..n /\ \A i \in 1..n : i \in 1..n
  BY <1>1
<1>9. sum[n] \in Nat /\ \A i \in 1..n : w(i) <= sum[n]
  BY <1>6, <1>8
<1>10. \A b \in Nat :
         /\ \A i \in 1..n : w(i) <= b
         /\ \A i, j \in 1..n : rules[i].supports = side /\ rules[j].supports = side => i = j
         => sum[n] <= b
  BY <1>7, <1>8
<1>. QED  BY <1>4, <1>9, <1>10 DEF n, w

(* What the loader demands. *)
LEMMA CatalogRules == \A k \in Catalog : Rules(k.rules) /\ k.place \in Nat
<1> SUFFICES ASSUME NEW k \in Catalog PROVE Rules(k.rules) /\ k.place \in Nat
  OBVIOUS
<1>1. /\ k.place \in Nat
      /\ k.rules \in Seq(Range(k.rules))
      /\ \A i \in DOMAIN k.rules : LoadableRule(k.rules[i])
  BY CatalogAssumption DEF Loadable
<1> DEFINE s == k.rules
           E == Range(s)
<1> HIDE DEF s, E
<1>2. s \in Seq(E) => Len(s) \in Nat /\ DOMAIN s = 1..Len(s)
  OBVIOUS
<1>. QED  BY <1>1, <1>2 DEF Rules, s, E

(* Who is ranked first is preceded by none.                                *)
LEMMA FirstRanked ==
  ASSUME NEW ev, Measures(ev),
         NEW h \in Catalog, Ledger(h, ev) # {}
  PROVE  /\ Ranked(ev) # <<>>
         /\ \E g \in Catalog :
              /\ Ranked(ev)[1].id = g.id
              /\ \A k \in Catalog : ~ Precedes(Assessed(k, ev), Assessed(g, ev))
<1> DEFINE A(k) == Assessed(k, ev)
           all  == {A(k) : k \in Catalog}
           r    == {p \in all \X all : Precedes(p[1], p[2])}
<1>1. \A k \in Catalog : /\ A(k).id = k.id /\ A(k).place = k.place /\ k.place \in Nat
                         /\ A(k).ledger = Ledger(k, ev)
                         /\ A(k).support \in Nat /\ A(k).refutation \in Nat
  <2> SUFFICES ASSUME NEW k \in Catalog
               PROVE  /\ A(k).id = k.id /\ A(k).place = k.place /\ k.place \in Nat
                      /\ A(k).ledger = Ledger(k, ev)
                      /\ A(k).support \in Nat /\ A(k).refutation \in Nat
    OBVIOUS
  <2>1. Rules(k.rules) /\ k.place \in Nat
    BY CatalogRules
  <2>2. Weighed(k.rules, ev, TRUE) \in Nat /\ Weighed(k.rules, ev, FALSE) \in Nat
    BY <2>1, SumsBound
  <2>. QED  BY <2>1, <2>2 DEF Assessed
<1>2. \A k, l \in Catalog : A(k).place = A(l).place => A(k) = A(l)
  BY <1>1, CatalogAssumption DEF Loadable
<1> HIDE DEF A
<1>3. IsFiniteSet(all)
  <2> DEFINE f == [k \in Catalog |-> A(k)]
  <2>1. f \in Surjection(Catalog, all)
    BY DEF Surjection
  <2>2. IsFiniteSet(Catalog)
    BY CatalogAssumption DEF Loadable
  <2> HIDE DEF f, all
  <2>. QED  BY <2>1, <2>2, FS_Surjection
<1>4. \A a \in all : a.place \in Nat /\ a.support \in Nat /\ a.refutation \in Nat
  BY <1>1
<1>5. \A a, b \in all : a.place = b.place => a = b
  BY <1>2
<1>6. A(h) \in all /\ A(h).ledger # {}
  BY <1>1
<1>7. \A a, b : <<a, b>> \in r <=> a \in all /\ b \in all /\ Precedes(a, b)
  OBVIOUS
<1>8. StrictOrder(r, all)
  <2>1. r \subseteq all \X all
    OBVIOUS
  <2> HIDE DEF r, all
  <2>2. \A a \in all : ~ Precedes(a, a)
    BY <1>4 DEF Precedes
  <2>3. \A a, b \in all : a # b => Precedes(a, b) \/ Precedes(b, a)
    BY <1>4, <1>5 DEF Precedes
  <2>4. \A a, b, c \in all : Precedes(a, b) /\ Precedes(b, c) => Precedes(a, c)
    BY <1>4 DEF Precedes
  <2>. QED  BY <1>7, <2>1, <2>2, <2>3, <2>4 DEF StrictOrder
<1> HIDE DEF r
<1>9. PICK u \in all : \A a \in all \ {u} : <<u, a>> \in r
  <2> HIDE DEF all
  <2>1. all # {}
    BY <1>6
  <2>. QED  BY <1>3, <1>8, <2>1, FirstInOrder
<1> DEFINE ahead(a) == {b \in all : Precedes(b, a)}
           first    == Placed(all, 1)
<1>10. ahead(u) = {}
  <2> HIDE DEF all
  <2> SUFFICES ASSUME NEW b \in all, Precedes(b, u) PROVE FALSE
    OBVIOUS
  <2>1. <<b, u>> \in r
    BY <1>7
  <2>2. b # u /\ (b # u => <<u, b>> \in r)
    BY <1>8, <1>9, <2>1 DEF StrictOrder
  <2>3. <<u, u>> \in r
    BY <1>8, <2>1, <2>2 DEF StrictOrder
  <2>. QED  BY <1>8, <2>3 DEF StrictOrder
<1>11. first \in all /\ Cardinality(ahead(first)) = 0
  <2> HIDE DEF all
  <2>1. Cardinality(ahead(u)) = 1 - 1
    BY <1>10, FS_EmptySet
  <2>2. first = CHOOSE a \in all : Cardinality(ahead(a)) = 1 - 1
    BY DEF Placed
  <2> HIDE DEF first, ahead
  <2>3. first \in all /\ Cardinality(ahead(first)) = 1 - 1
    BY <2>1, <2>2
  <2>. QED  BY <2>3
<1>12. ahead(first) = {}
  <2> HIDE DEF all, first
  <2>1. ahead(first) \in SUBSET all
    OBVIOUS
  <2> HIDE DEF ahead
  <2>. QED  BY <1>3, <1>11, <2>1, FS_Subset, FS_EmptySet
<1> DEFINE said(a) == [id |-> a.id, apart |-> {x.key : x \in a.ledger} \ Nondiagnostic(all)]
           N       == Cardinality(all)
<1>13. Ranked(ev) = [n \in 1..N |-> said(Placed(all, n))]
  <2>1. ~ \A a \in all : a.ledger = {}
    BY <1>6
  <2>. QED  BY <2>1 DEF Ranked, A
<1>14. N \in Nat /\ N # 0
  <2> HIDE DEF all
  <2>. QED  BY <1>3, <1>6, FS_CardinalityType, FS_EmptySet
<1>15. 1 \in 1..N
  <2> HIDE DEF N
  <2>. QED  BY <1>14
<1>16. Ranked(ev)[1].id = first.id /\ Ranked(ev) # <<>>
  <2> HIDE DEF N, first, all
  <2> DEFINE f == [n \in 1..N |-> said(Placed(all, n))]
  <2>1. f[1] = said(first)
    BY <1>15 DEF first
  <2>2. DOMAIN f = 1..N
    OBVIOUS
  <2>3. f # <<>>
    BY <1>15, <2>2
  <2>. QED  BY <1>13, <2>1, <2>3
<1>17. PICK g \in Catalog : first = A(g)
  BY <1>11
<1>18. \A k \in Catalog : ~ Precedes(A(k), A(g))
  BY <1>12, <1>17
<1>19. A(g).id = g.id
  BY <1>1
<1> HIDE DEF first
<1>. QED  BY <1>16, <1>17, <1>18, <1>19 DEF A

(* One light rule of a side is not worth much.                             *)
LEMMA LittleRefuted ==
  ASSUME NEW rules, Rules(rules), NEW ev, Measures(ev), NEW side \in BOOLEAN, NEW c \in 1..10,
         \A i, j \in 1..Len(rules) : rules[i].supports = side /\ rules[j].supports = side => i = j,
         \A j \in 1..Len(rules) : rules[j].supports = side => rules[j].weight < c
  PROVE  Weighed(rules, ev, side) < 10 * c /\ Weighed(rules, ev, side) \in Nat
<1> DEFINE b == 10 * c - 10
<1>1. b \in Nat
  OBVIOUS
<1>2. ASSUME NEW j \in 1..Len(rules) PROVE Worth(rules[j], ev, side) <= b
  <2>1. LoadableRule(rules[j])
    BY DEF Rules
  <2> DEFINE x == Worth(rules[j], ev, side)
             v == rules[j].weight
  <2>2. /\ x \in Nat /\ x <= 10 * v /\ v \in 1..10
        /\ rules[j].supports # side => x = 0
        /\ rules[j].supports = side => v < c
    BY <2>1, WorthType DEF LoadableRule
  <2> HIDE DEF x, v, b
  <2>3. CASE rules[j].supports = side
    <3>1. x <= 10 * v /\ v < c /\ v \in 1..10 /\ x \in Nat
      BY <2>2, <2>3
    <3>2. \A m, n, l \in Nat : l <= 10 * m /\ m < n => l <= 10 * n - 10
      OBVIOUS
    <3>3. c \in Nat /\ v \in Nat
      BY <3>1
    <3>4. x <= 10 * c - 10
      BY <3>1, <3>2, <3>3
    <3>5. x <= b
      BY <3>4 DEF b
    <3>. QED  BY <3>5 DEF x
  <2>4. CASE rules[j].supports # side
    <3>1. x <= b
      BY <1>1, <2>2, <2>4
    <3>. QED  BY <3>1 DEF x
  <2>. QED  BY <2>3, <2>4
<1> HIDE DEF b
<1>3. Weighed(rules, ev, side) <= b /\ Weighed(rules, ev, side) \in Nat
  BY <1>1, <1>2, SumsBound
<1>4. b < 10 * c
  BY DEF b
<1>. QED  BY <1>1, <1>3, <1>4

(* Flagged evidence refutes the null hypothesis more than another.         *)
LEMMA NullIsNotFirst ==
  ASSUME Discerns(Catalog), NEW ev, Measures(ev),
         NEW key \in {"kill_chain_advanced", "decoy_hit"}, key \in DOMAIN ev, ev[key] = 10
  PROVE  Ranked(ev) # <<>> /\ Ranked(ev)[1].id # NullHypothesis
<1>1. PICK h \in Catalog :
        /\ h.id # NullHypothesis
        /\ \A i, j \in Refuting(h) : i = j
        /\ \A null \in Catalog : null.id = NullHypothesis =>
             \A key_ \in {"kill_chain_advanced", "decoy_hit"} :
               \E i \in Refuting(null) :
                 /\ null.rules[i].key = key_ /\ null.rules[i].least <= 10
                 /\ \A j \in Refuting(h) : h.rules[j].weight < null.rules[i].weight
  BY DEF Discerns
<1>2. PICK null \in Catalog : null.id = NullHypothesis
  BY CatalogAssumption DEF Loadable
<1>3. PICK i \in Refuting(null) :
             /\ null.rules[i].key = key /\ null.rules[i].least <= 10
             /\ \A j \in Refuting(h) : h.rules[j].weight < null.rules[i].weight
  BY <1>1, <1>2
<1> DEFINE r == null.rules[i]
<1>4. Rules(null.rules) /\ Rules(h.rules)
  BY CatalogRules
<1>5. i \in 1..Len(null.rules) /\ ~ r.supports /\ LoadableRule(r)
  BY <1>4 DEF Refuting, Rules
<1>6. r.supports = FALSE /\ r.weight \in 1..10 /\ r.least \in Nat
  BY <1>5 DEF LoadableRule
<1>7. Worth(r, ev, FALSE) = 10 * r.weight
  BY <1>3, <1>5, <1>6, WorthType
<1>8. Ledger(null, ev) # {}
  <2>1. Matches(r, ev)
    BY <1>3, <1>6 DEF Matches
  <2>2. i \in DOMAIN null.rules
    BY <1>3 DEF Refuting
  <2>3. r \in Range(null.rules)
    BY <2>2 DEF Range
  <2>. QED  BY <2>1, <2>3 DEF Ledger
<1>9. 10 * r.weight <= Weighed(null.rules, ev, FALSE) /\ Weighed(null.rules, ev, FALSE) \in Nat
  <2>1. \A side \in BOOLEAN : /\ Worth(r, ev, side) <= Weighed(null.rules, ev, side)
                              /\ Weighed(null.rules, ev, side) \in Nat
    BY <1>4, <1>5, SumsBound
  <2>2. /\ Worth(r, ev, FALSE) <= Weighed(null.rules, ev, FALSE)
        /\ Weighed(null.rules, ev, FALSE) \in Nat
    BY <2>1
  <2>. QED  BY <1>7, <2>2
<1>10. Weighed(h.rules, ev, FALSE) < 10 * r.weight /\ Weighed(h.rules, ev, FALSE) \in Nat
  <2>1. /\ DOMAIN h.rules = 1..Len(h.rules)
        /\ \A j \in 1..Len(h.rules) : h.rules[j].supports \in BOOLEAN
    BY <1>4 DEF Rules, LoadableRule
  <2>2. \A j \in 1..Len(h.rules) : h.rules[j].supports = FALSE => j \in Refuting(h)
    BY <2>1 DEF Refuting
  <2>3. /\ \A j, k \in 1..Len(h.rules) :
             h.rules[j].supports = FALSE /\ h.rules[k].supports = FALSE => j = k
        /\ \A j \in 1..Len(h.rules) : h.rules[j].supports = FALSE => h.rules[j].weight < r.weight
    BY <1>1, <1>3, <2>2
  <2>. QED  BY <1>4, <1>6, <2>3, LittleRefuted
<1>11. Precedes(Assessed(h, ev), Assessed(null, ev))
  <2> DEFINE x == Weighed(h.rules, ev, FALSE)
             y == Weighed(null.rules, ev, FALSE)
             c == 10 * r.weight
  <2>1. c \in Nat
    BY <1>6
  <2> HIDE DEF x, y, c
  <2>2. x < c /\ c <= y /\ x \in Nat /\ y \in Nat
    BY <1>9, <1>10 DEF x, y, c
  <2>3. x < y
    BY <2>1, <2>2
  <2>4. Assessed(h, ev).refutation = x /\ Assessed(null, ev).refutation = y
    BY DEF Assessed, x, y
  <2>. QED  BY <2>3, <2>4 DEF Precedes
<1>12. /\ Ranked(ev) # <<>>
       /\ \E g \in Catalog :
            /\ Ranked(ev)[1].id = g.id
            /\ \A k \in Catalog : ~ Precedes(Assessed(k, ev), Assessed(g, ev))
  BY <1>8, FirstRanked
<1>13. \A g \in Catalog : g.id = NullHypothesis => g = null
  BY <1>2, CatalogAssumption DEF Loadable
<1>. QED  BY <1>11, <1>12, <1>13

(* What is gathered of an alert is measured, and its flags in full.        *)
LEMMA EvidenceGathered ==
  ASSUME NEW al, NEW s, NEW run \in Runs
  PROVE  LET ev == ExtractEvidence(al, s, run)
         IN  /\ Measures(ev)
             /\ al.decoy => "decoy_hit" \in DOMAIN ev /\ ev["decoy_hit"] = 10
             /\ al.advanced => "kill_chain_advanced" \in DOMAIN ev /\ ev["kill_chain_advanced"] = 10
<1> DEFINE flag(b) == IF b THEN 10 ELSE 0
           half(p) == p.probability \div 2
           S       == {half(p) : p \in run.forecast}
           likely  == Max({0} \cup S)
           known   == [decoy_hit |-> flag(al.decoy), kill_chain_advanced |-> flag(al.advanced),
                       key_terrain |-> flag(s.terrain), prediction_probability |-> likely]
           ev      == ExtractEvidence(al, s, run)
<1>1. /\ IsFiniteSet(run.forecast) /\ \A p \in run.forecast : p.probability \in Nat
      /\ run.found \in [DOMAIN run.found -> Nat]
  BY RunsAssumption
<1>2. likely \in Nat
  <2>1. \A m \in Nat : m \div 2 \in Nat
    OBVIOUS
  <2>2. S \in SUBSET Nat
    BY <1>1, <2>1
  <2>3. IsFiniteSet(S)
    <3> DEFINE f == [p \in run.forecast |-> half(p)]
    <3> HIDE DEF half
    <3>1. f \in Surjection(run.forecast, S)
      BY DEF Surjection
    <3> HIDE DEF f, S
    <3>. QED  BY <1>1, <3>1, FS_Surjection
  <2> HIDE DEF S
  <2>4. IsFiniteSet(S \cup {0})
    BY <2>3, FS_AddElement
  <2>5. S \cup {0} = {0} \cup S
    OBVIOUS
  <2> DEFINE T == {0} \cup S
  <2>6. T \in SUBSET Nat /\ T # {} /\ IsFiniteSet(T)
    BY <2>2, <2>4, <2>5
  <2> HIDE DEF T
  <2>7. Max(T) \in T
    BY <2>6, LargestNat
  <2>8. Max(T) \in Nat
    BY <2>6, <2>7
  <2>. QED  BY <2>8 DEF T
<1>3. ev = [key \in DOMAIN known \cup DOMAIN run.found |->
              IF key \in DOMAIN known THEN known[key] ELSE run.found[key]]
  BY DEF ExtractEvidence
<1> HIDE DEF ev, likely
<1>4. /\ DOMAIN known = {"decoy_hit", "kill_chain_advanced", "key_terrain", "prediction_probability"}
      /\ known["decoy_hit"] = flag(al.decoy)
      /\ known["kill_chain_advanced"] = flag(al.advanced)
      /\ known["key_terrain"] = flag(s.terrain)
      /\ known["prediction_probability"] = likely
  OBVIOUS
<1>5. \A key \in DOMAIN known : known[key] \in Nat
  BY <1>2, <1>4
<1>6. al.decoy => known["decoy_hit"] = 10
  BY <1>4
<1>7. al.advanced => known["kill_chain_advanced"] = 10
  BY <1>4
<1>8. "decoy_hit" \in DOMAIN known /\ "kill_chain_advanced" \in DOMAIN known
  BY <1>4
<1> HIDE DEF known
<1>9. \A key \in DOMAIN ev : ev[key] \in Nat
  BY <1>1, <1>3, <1>5
<1>10. Measures(ev)
  BY <1>9 DEF Measures
<1>11. \A key \in DOMAIN known : key \in DOMAIN ev /\ ev[key] = known[key]
  BY <1>3
<1>12. /\ al.decoy => "decoy_hit" \in DOMAIN ev /\ ev["decoy_hit"] = 10
       /\ al.advanced => "kill_chain_advanced" \in DOMAIN ev /\ ev["kill_chain_advanced"] = 10
  BY <1>6, <1>7, <1>8, <1>11
<1>. QED  BY <1>10, <1>12 DEF ev

(* An alert on a decoy or late in the kill chain is not put down to the    *)
(* environment, whatever else the investigation found, when the catalogue  *)
(* has the shape of the shipped one (core/hypothesis.py).                  *)
THEOREM FlaggedAreNotBenign ==
  ASSUME Discerns(Catalog)
  PROVE  ReportSpec => []FlaggedIsNotBenign
<1> DEFINE Holds_(r) == r # None /\ r.flagged =>
                          /\ r.soc.says.hypotheses # <<>>
                          /\ r.soc.says.hypotheses[1].id # NullHypothesis
<1>1. ReportInit => FlaggedIsNotBenign
  BY DEF ReportInit, FlaggedIsNotBenign
<1>2. ASSUME TraceInv, FlaggedIsNotBenign, [ReportNext]_allVars
      PROVE  FlaggedIsNotBenign'
  <2>1. (FlaggedIsNotBenign <=> Holds_(report)) /\ (FlaggedIsNotBenign' <=> Holds_(report'))
    BY DEF FlaggedIsNotBenign
  <2>2. CASE report' = None
    BY <2>1, <2>2
  <2>3. CASE UNCHANGED allVars
    <3>1. report' = report
      BY <2>3 DEF allVars, reportVars
    <3> HIDE DEF Holds_
    <3>. QED  BY <1>2, <2>1, <3>1
  <2>4. CASE ReportNext /\ report' # None
    <3>1. PICK al, q, run : MadeFrom(report', al, q, run)
      BY <1>2, <2>4, ReportIsMade
    <3> DEFINE ev == ExtractEvidence(al, Says[report'.of.id], run)
    <3>2. /\ run \in Runs
          /\ report'.flagged = (al.advanced \/ al.decoy)
          /\ report'.soc.says.hypotheses = Ranked(ev)
      BY <3>1 DEF MadeFrom
    <3>3. /\ Measures(ev)
          /\ al.decoy => "decoy_hit" \in DOMAIN ev /\ ev["decoy_hit"] = 10
          /\ al.advanced => "kill_chain_advanced" \in DOMAIN ev /\ ev["kill_chain_advanced"] = 10
      BY <3>2, EvidenceGathered
    <3> HIDE DEF ev
    <3>4. al.decoy \/ al.advanced => Ranked(ev) # <<>> /\ Ranked(ev)[1].id # NullHypothesis
      BY <3>3, NullIsNotFirst
    <3>. QED  BY <2>1, <3>2, <3>4
  <2>. QED  BY <1>2, <2>2, <2>3, <2>4
<1>. QED  BY <1>1, <1>2, InitTrace, NextTrace, PTL DEF ReportSpec

-----------------------------------------------------------------------------
(* The hunt back in time. *)

(* A finite set put in a sequence, each of its elements once.              *)
LEMMA InSequence ==
  ASSUME NEW S, IsFiniteSet(S)
  PROVE  SetToSeq(S) \in Seq(S) /\ Range(SetToSeq(S)) = S
<1> DEFINE n == Cardinality(S)
           f == SetToSeq(S)
<1>1. n \in Nat /\ ExistsBijection(1..n, S)
  BY FS_CardinalityType
<1>2. PICK g : g \in Bijection(1..n, S)
  BY <1>1 DEF ExistsBijection
<1>3. g \in [1..n -> S] /\ IsInjective(g)
  BY <1>2 DEF Bijection, Injection, Surjection, IsInjective
<1>4. f \in [1..n -> S] /\ IsInjective(f)
  BY <1>3 DEF SetToSeq
<1> HIDE DEF f
<1>5. f \in Seq(S)
  <2> HIDE DEF n
  <2>. QED  BY <1>1, <1>4
<1>6. f \in Injection(1..n, S)
  BY <1>4 DEF Injection, IsInjective
<1>7. Cardinality(1..n) = n /\ IsFiniteSet(1..n)
  <2> HIDE DEF n
  <2>1. 1 \in Int /\ n \in Int
    BY <1>1
  <2>. QED  BY <1>1, <2>1, FS_Interval
<1>8. Range(f) \in SUBSET S
  BY <1>4 DEF Range
<1>9. f \in Injection(1..n, Range(f)) /\ f \in Surjection(1..n, Range(f))
  BY <1>4 DEF Injection, IsInjective, Surjection, Range
<1>10. Cardinality(Range(f)) = n
  <2> HIDE DEF n
  <2>1. IsFiniteSet(Range(f))
    BY <1>8, FS_Subset
  <2>2. Cardinality(Range(f)) <= n /\ Cardinality(Range(f)) \in Nat
    BY <1>7, <1>9, <2>1, FS_Surjection, FS_CardinalityType
  <2>3. n <= Cardinality(Range(f))
    BY <1>7, <1>9, <2>1, FS_Injection
  <2>. QED  BY <1>1, <2>2, <2>3
<1>11. Range(f) = S
  <2> HIDE DEF n
  <2>1. Cardinality(Range(f)) = Cardinality(S)
    BY <1>10 DEF n
  <2>. QED  BY <1>8, <2>1, FS_Subset
<1>. QED  BY <1>5, <1>11 DEF f

(* A concatenation has the elements of both. *)
LEMMA BothRanges ==
  ASSUME NEW S, NEW s \in Seq(S), NEW t \in Seq(S)
  PROVE  /\ s \o t \in Seq(S)
         /\ Range(s \o t) = Range(s) \cup Range(t)
<1>1. /\ Len(s \o t) = Len(s) + Len(t) /\ Len(s) \in Nat /\ Len(t) \in Nat
      /\ DOMAIN s = 1..Len(s) /\ DOMAIN t = 1..Len(t)
      /\ DOMAIN (s \o t) = 1..(Len(s) + Len(t))
      /\ \A i \in 1..(Len(s) + Len(t)) :
           (s \o t)[i] = IF i <= Len(s) THEN s[i] ELSE t[i - Len(s)]
  OBVIOUS
<1>2. s \o t \in Seq(S)
  OBVIOUS
<1> DEFINE u == s \o t
           m == Len(s)
           n == Len(t)
<1> HIDE DEF u, m, n
<1>3. Range(u) \subseteq Range(s) \cup Range(t)
  <2> SUFFICES ASSUME NEW i \in 1..(m + n) PROVE u[i] \in Range(s) \cup Range(t)
    BY <1>1 DEF Range, u, m, n
  <2>1. u[i] = IF i <= m THEN s[i] ELSE t[i - m]
    BY <1>1 DEF u, m, n
  <2>2. m \in Nat /\ n \in Nat
    BY <1>1 DEF m, n
  <2>3. i <= m => i \in 1..m
    BY <2>2
  <2>4. ~(i <= m) => i - m \in 1..n
    BY <2>2
  <2>. QED  BY <1>1, <2>1, <2>3, <2>4 DEF Range, m, n
<1>4. Range(s) \subseteq Range(u)
  <2> SUFFICES ASSUME NEW i \in 1..m PROVE s[i] \in Range(u)
    BY <1>1 DEF Range, m
  <2>1. i \in 1..(m + n) /\ i <= m
    BY <1>1 DEF m, n
  <2>2. u[i] = s[i] /\ i \in DOMAIN u
    BY <1>1, <2>1 DEF u, m, n
  <2>. QED  BY <2>2 DEF Range
<1>5. Range(t) \subseteq Range(u)
  <2> SUFFICES ASSUME NEW i \in 1..n PROVE t[i] \in Range(u)
    BY <1>1 DEF Range, n
  <2>1. i + m \in 1..(m + n) /\ ~(i + m <= m) /\ (i + m) - m = i
    BY <1>1 DEF m, n
  <2>2. u[i + m] = t[i] /\ i + m \in DOMAIN u
    BY <1>1, <2>1 DEF u, m, n
  <2>. QED  BY <2>2 DEF Range
<1>. QED  BY <1>2, <1>3, <1>4, <1>5 DEF u

(* The techniques of a row are those traced to it. *)
LEMMA RowIsListed ==
  ASSUME NEW row \in Matrix
  PROVE  /\ TechniquesOf(row) \in Seq(Techniques(row))
         /\ Range(TechniquesOf(row)) = Techniques(row)
<1> DEFINE A == row.covered
           B == row.planned \ row.covered
           C == row.uncovered \ (row.covered \cup row.planned)
           T == Techniques(row)
<1>1. IsFiniteSet(T)
  BY MatrixAssumption DEF Techniques
<1>2. A \in SUBSET T /\ B \in SUBSET T /\ C \in SUBSET T /\ A \cup B \cup C = T
  BY DEF Techniques
<1>3. TechniquesOf(row) = SetToSeq(A) \o SetToSeq(B) \o SetToSeq(C)
  BY DEF TechniquesOf
<1> HIDE DEF A, B, C, T
<1>4. IsFiniteSet(A) /\ IsFiniteSet(B) /\ IsFiniteSet(C)
  BY <1>1, <1>2, FS_Subset
<1> DEFINE a == SetToSeq(A)
           b == SetToSeq(B)
           c == SetToSeq(C)
<1>5. /\ a \in Seq(A) /\ Range(a) = A
      /\ b \in Seq(B) /\ Range(b) = B
      /\ c \in Seq(C) /\ Range(c) = C
  BY <1>4, InSequence
<1> HIDE DEF a, b, c
<1>6. a \in Seq(T) /\ b \in Seq(T) /\ c \in Seq(T)
  BY <1>2, <1>5
<1>7. a \o b \in Seq(T) /\ Range(a \o b) = A \cup B
  BY <1>5, <1>6, BothRanges
<1>8. (a \o b) \o c \in Seq(T) /\ Range((a \o b) \o c) = (A \cup B) \cup C
  <2> DEFINE d == a \o b
  <2>1. d \in Seq(T) /\ Range(d) = A \cup B
    BY <1>7
  <2> HIDE DEF d
  <2>2. d \o c \in Seq(T) /\ Range(d \o c) = (A \cup B) \cup C
    BY <1>5, <1>6, <2>1, BothRanges
  <2>. QED  BY <2>2 DEF d
<1>. QED  BY <1>2, <1>3, <1>8 DEF T, a, b, c

(* Where a lead stands is a pair of numbers. *)
PlacedLead(l) == l.place[1] \in Nat /\ l.place[2] \in Nat

(* There are finitely many leads, each in its place. *)
LEMMA FiniteLeads ==
  ASSUME NEW s, NEW predictions, NEW n \in Nat, DOMAIN predictions = 1..n
  PROVE  LET leads == ForwardLeads(predictions) \cup BackwardLeads(s)
         IN  IsFiniteSet(leads) /\ \A l \in leads : PlacedLead(l)
<1> DEFINE lead(i)   == Lead(<<0, i>>, "forward", predictions[i], 0, -ForwardSpan)
           back(r,i) == Lead(<<r.order, i>>, "backward", TechniquesOf(r)[i], Lookback(Range(s.tactics)), 0)
           before    == PreviousTactics(CurrentOrder(Range(s.tactics)))
           ahead     == ForwardLeads(predictions)
           behind    == {TracedTo(r, s) : r \in before}
<1>1. \A m \in Nat : IsFiniteSet(1..m)
  <2> SUFFICES ASSUME NEW m \in Nat PROVE IsFiniteSet(1..m)
    OBVIOUS
  <2>1. 1 \in Int /\ m \in Int
    OBVIOUS
  <2>. QED  BY <2>1, FS_Interval
<1>2. IsFiniteSet(ahead) /\ \A l \in ahead : PlacedLead(l)
  <2>1. ahead = {lead(i) : i \in 1..n}
    BY DEF ForwardLeads
  <2>2. \A i \in 1..n : PlacedLead(lead(i))
    BY DEF Lead, PlacedLead
  <2> DEFINE f == [i \in 1..n |-> lead(i)]
  <2> HIDE DEF lead
  <2>3. f \in Surjection(1..n, ahead)
    BY <2>1 DEF Surjection
  <2> HIDE DEF f, ahead
  <2>. QED  BY <1>1, <2>1, <2>2, <2>3, FS_Surjection
<1>3. ASSUME NEW r \in before
      PROVE  IsFiniteSet(TracedTo(r, s)) /\ \A l \in TracedTo(r, s) : PlacedLead(l)
  <2>1. r \in Matrix /\ r.order \in Nat
    BY MatrixAssumption DEF PreviousTactics
  <2> DEFINE t == TechniquesOf(r)
             m == Len(t)
             T == Techniques(r)
  <2>2. t \in Seq(T)
    BY <2>1, RowIsListed
  <2> HIDE DEF t, T
  <2>3. m \in Nat /\ DOMAIN t = 1..m
    BY <2>2
  <2>4. TracedTo(r, s) = {back(r, i) : i \in 1..m}
    BY <2>3 DEF TracedTo, t
  <2>5. \A i \in 1..m : PlacedLead(back(r, i))
    BY <2>1, <2>3 DEF Lead, PlacedLead
  <2> DEFINE S == TracedTo(r, s)
             f == [i \in 1..m |-> back(r, i)]
  <2> HIDE DEF back, m
  <2>6. f \in Surjection(1..m, S)
    BY <2>4 DEF Surjection
  <2>7. \A l \in S : PlacedLead(l)
    BY <2>4, <2>5
  <2> HIDE DEF f, S
  <2>8. IsFiniteSet(S)
    BY <1>1, <2>3, <2>6, FS_Surjection
  <2>. QED  BY <2>7, <2>8 DEF S
<1>4. IsFiniteSet(before)
  <2>1. before \in SUBSET Matrix
    BY DEF PreviousTactics
  <2> HIDE DEF before
  <2>. QED  BY <2>1, MatrixAssumption, FS_Subset
<1>5. IsFiniteSet(behind)
  <2> DEFINE f == [r \in before |-> TracedTo(r, s)]
  <2>1. f \in Surjection(before, behind)
    BY DEF Surjection
  <2> HIDE DEF f, behind, before
  <2>. QED  BY <1>4, <2>1, FS_Surjection
<1>6. IsFiniteSet(UNION behind) /\ \A l \in UNION behind : PlacedLead(l)
  <2>1. \A S \in behind : IsFiniteSet(S) /\ \A l \in S : PlacedLead(l)
    BY <1>3
  <2> HIDE DEF behind
  <2>. QED  BY <1>5, <2>1, FS_UNION
<1>7. BackwardLeads(s) = UNION behind \/ BackwardLeads(s) = {}
  BY DEF BackwardLeads
<1> DEFINE B == BackwardLeads(s)
<1>8. IsFiniteSet(B) /\ \A l \in B : PlacedLead(l)
  <2> HIDE DEF B, behind
  <2>. QED  BY <1>6, <1>7, FS_EmptySet DEF B
<1> HIDE DEF ahead, B
<1>9. IsFiniteSet(ahead \cup B) /\ \A l \in ahead \cup B : PlacedLead(l)
  BY <1>2, <1>8, FS_Union
<1>. QED  BY <1>9 DEF ahead, B

(* When the cap cuts nothing, every query is asked. *)
LEMMA AllAsked ==
  ASSUME NEW s, NEW predictions, NEW n \in Nat, DOMAIN predictions = 1..n,
         ~ Plan(s, predictions).cut,
         NEW l \in ForwardLeads(predictions) \cup BackwardLeads(s),
         NEW q \in QueriesFor(l)
  PROVE  q \in Plan(s, predictions).queries
<1> DEFINE leads   == ForwardLeads(predictions) \cup BackwardLeads(s)
           queries == UNION {QueriesFor(x) : x \in leads}
           ahead   == {p \in queries : Earlier(p, q)}
<1>1. IsFiniteSet(leads) /\ \A x \in leads : PlacedLead(x)
  BY FiniteLeads
<1>2. /\ Plan(s, predictions).queries = {y \in queries : Cardinality({p \in queries : Earlier(p, y)}) < MaxQueries}
      /\ Plan(s, predictions).cut = (Cardinality(queries) > MaxQueries)
  BY DEF Plan
<1>3. q \in queries /\ l \in leads
  OBVIOUS
<1> HIDE DEF leads
<1>4. Len(Templates) \in Nat /\ DOMAIN Templates = 1..Len(Templates)
  <2> DEFINE E == Range(Templates)
  <2>1. Templates \in Seq(E)
    BY SpansAssumption
  <2> HIDE DEF E
  <2>. QED  BY <2>1
<1>5. IsFiniteSet(queries)
  <2>1. ASSUME NEW x \in leads PROVE IsFiniteSet(QueriesFor(x))
    <3> DEFINE I == {i \in DOMAIN Templates : /\ Templates[i].technique = x.technique
                                              /\ Templates[i].direction \in {x.direction, "both"}}
               ask(i) == [id |-> Templates[i].id, lead |-> x, nth |-> i]
               f == [i \in I |-> ask(i)]
               Q == QueriesFor(x)
    <3>1. I \in SUBSET (1..Len(Templates))
      BY <1>4
    <3>2. IsFiniteSet(1..Len(Templates))
      <4> DEFINE m == Len(Templates)
      <4>1. 1 \in Int /\ m \in Int
        BY <1>4
      <4> HIDE DEF m
      <4>2. IsFiniteSet(1..m)
        BY <4>1, FS_Interval
      <4>. QED  BY <4>2 DEF m
    <3>3. Q = {ask(i) : i \in I}
      BY DEF QueriesFor
    <3> HIDE DEF I, ask, Q
    <3>4. IsFiniteSet(I)
      BY <3>1, <3>2, FS_Subset
    <3>5. f \in Surjection(I, Q)
      BY <3>3 DEF Surjection
    <3> HIDE DEF f
    <3>6. IsFiniteSet(Q)
      BY <3>4, <3>5, FS_Surjection
    <3>. QED  BY <3>6 DEF Q
  <2> DEFINE sets == {QueriesFor(x) : x \in leads}
             f    == [x \in leads |-> QueriesFor(x)]
  <2>2. f \in Surjection(leads, sets)
    BY DEF Surjection
  <2>3. \A Q \in sets : IsFiniteSet(Q)
    BY <2>1
  <2> HIDE DEF f, sets
  <2>4. IsFiniteSet(sets)
    BY <1>1, <2>2, FS_Surjection
  <2>5. IsFiniteSet(UNION sets)
    BY <2>3, <2>4, FS_UNION
  <2>. QED  BY <2>5 DEF sets
<1>6. q.lead = l /\ q.nth \in Nat
  BY <1>4 DEF QueriesFor
<1>7. ~ Earlier(q, q)
  <2>1. l.place[1] \in Nat /\ l.place[2] \in Nat
    BY <1>1, <1>3 DEF PlacedLead
  <2>. QED  BY <1>6, <2>1 DEF Earlier
<1> HIDE DEF queries
<1>8. Cardinality(ahead) < Cardinality(queries)
  <2>1. ahead \in SUBSET queries /\ q \notin ahead
    BY <1>7
  <2> HIDE DEF ahead
  <2>2. ahead # queries
    BY <1>3, <2>1
  <2>3. /\ IsFiniteSet(ahead) /\ Cardinality(ahead) <= Cardinality(queries)
        /\ Cardinality(ahead) = Cardinality(queries) => ahead = queries
    BY <1>5, <2>1, FS_Subset
  <2>4. Cardinality(ahead) \in Nat /\ Cardinality(queries) \in Nat
    BY <1>5, <2>3, FS_CardinalityType
  <2>. QED  BY <2>2, <2>3, <2>4
<1>9. Cardinality(ahead) < MaxQueries
  <2>1. IsFiniteSet(ahead)
    <3>1. ahead \in SUBSET queries
      OBVIOUS
    <3> HIDE DEF ahead
    <3>. QED  BY <1>5, <3>1, FS_Subset
  <2> HIDE DEF ahead
  <2>2. Cardinality(ahead) \in Nat /\ Cardinality(queries) \in Nat
    BY <1>5, <2>1, FS_CardinalityType
  <2>3. ~ (Cardinality(queries) > MaxQueries)
    BY <1>2
  <2>. QED  BY <1>8, <2>2, <2>3, SpansAssumption
<1>. QED  BY <1>2, <1>3, <1>9

(* The smaller and the larger of two integers. *)
LEMMA TwoMin ==
  ASSUME NEW m \in Int, NEW k \in Int
  PROVE  Min({m, k}) \in Int /\ Min({m, k}) <= k
<1>1. \E x \in {m, k} : \A y \in {m, k} : x <= y
  <2>1. CASE m <= k
    BY <2>1
  <2>2. CASE ~ (m <= k)
    BY <2>2
  <2>. QED  BY <2>1, <2>2
<1>2. Min({m, k}) \in {m, k} /\ \A y \in {m, k} : Min({m, k}) <= y
  BY <1>1 DEF Min
<1>. QED  BY <1>2

LEMMA TwoMax ==
  ASSUME NEW m \in Int, NEW k \in Int
  PROVE  Max({m, k}) \in Int /\ Max({m, k}) \in {m, k}
<1>1. \E x \in {m, k} : \A y \in {m, k} : x >= y
  <2>1. CASE m >= k
    BY <2>1
  <2>2. CASE ~ (m >= k)
    BY <2>2
  <2>. QED  BY <2>1, <2>2
<1>2. Max({m, k}) \in {m, k} /\ \A y \in {m, k} : Max({m, k}) >= y
  BY <1>1 DEF Max
<1>. QED  BY <1>2

(* Late enough, or with a tactic that is always traced, an alert is traced *)
(* back.                                                                   *)
LEMMA DueIsTraced ==
  ASSUME NEW s, TracedBack(s)
  PROVE  ShouldBackwardHunt(s)
<1> DEFINE tactics == Range(s.tactics)
           current == CurrentOrder(tactics)
           named   == IF Cpcon \in DOMAIN CpconThresholds THEN TacticOrder(CpconThresholds[Cpcon]) ELSE 0
           base    == IF named # 0 THEN named ELSE current + 1
           lower   == (IF s.terrain THEN TerrainDelta ELSE 0) + (IF s.risky THEN RiskDelta ELSE 0)
           last    == MaxTacticOrder({r.tactic : r \in Matrix})
           bound   == Min({last, base - lower})
<1>1. CASE tactics \cap ForceTactics # {}
  BY <1>1 DEF ShouldBackwardHunt, Forced
<1>2. CASE ~ (tactics \cap ForceTactics # {})
  <2>1. /\ Cpcon \in DOMAIN CpconThresholds
        /\ TacticOrder(CpconThresholds[Cpcon]) > 0
        /\ MaxTacticOrder(tactics) >= TacticOrder(CpconThresholds[Cpcon])
    BY <1>2 DEF TracedBack
  <2>2. \A t : TacticOrder(t) \in Nat
    BY OrderSet
  <2>3. named \in Nat /\ named > 0 /\ current >= named
    BY <2>1, <2>2 DEF CurrentOrder
  <2>4. lower \in Nat
    BY SpansAssumption
  <2>5. last \in Nat /\ current \in Nat
    BY MaxOrder DEF CurrentOrder
  <2>6. Threshold(s) = Max({1, bound})
    BY DEF Threshold
  <2> HIDE DEF named, lower, last, current
  <2>7. base = named
    BY <2>3
  <2>8. bound \in Int /\ bound <= base - lower
    <3> DEFINE b == base - lower
    <3>1. b \in Int
      BY <2>3, <2>4, <2>7
    <3> HIDE DEF b
    <3>2. \A m, k \in Int : Min({m, k}) \in Int /\ Min({m, k}) <= k
      BY TwoMin
    <3>3. Min({last, b}) \in Int /\ Min({last, b}) <= b
      BY <2>5, <3>1, <3>2
    <3>. QED  BY <3>3 DEF b
  <2> HIDE DEF bound, base
  <2>9. Max({1, bound}) <= current
    <3>1. 1 <= current /\ bound <= current
      BY <2>3, <2>4, <2>5, <2>7, <2>8
    <3>2. Max({1, bound}) \in {1, bound}
      BY <2>8, TwoMax
    <3>. QED  BY <3>1, <3>2
  <2>10. Max({1, bound}) \in Int
    BY <2>8, TwoMax
  <2>11. current >= Threshold(s)
    BY <2>5, <2>6, <2>9, <2>10
  <2>. QED  BY <2>11 DEF ShouldBackwardHunt, current
<1>. QED  BY <1>1, <1>2

(* A technique of the matrix is in the row found for it. *)
LEMMA RowHasIt ==
  ASSUME NEW t, Mapped(t)
  PROVE  RowOf(t) \in Matrix /\ t \in Techniques(RowOf(t))
<1> DEFINE rows   == {r \in Matrix : t \in Techniques(r)}
           orders == {r.order : r \in rows}
<1>1. orders \in SUBSET Nat /\ orders # {}
  <2>1. rows \in SUBSET Matrix /\ rows # {}
    BY DEF Mapped
  <2>2. \A r \in rows : r.order \in Nat
    BY <2>1, MatrixAssumption
  <2> HIDE DEF rows
  <2>. QED  BY <2>1, <2>2
<1>2. PICK o \in orders : \A k \in orders : o <= k
  <2> HIDE DEF orders
  <2>. QED  BY <1>1, LeastNat
<1>3. \E r \in rows : \A k \in rows : r.order <= k.order
  BY <1>2
<1>4. RowOf(t) \in rows
  BY <1>3 DEF RowOf
<1>. QED  BY <1>4

(* What an earlier stage left in the logs, where a query can find it. *)
Findable(r, s, run) ==
  /\ Mapped(r.technique)
  /\ RowOf(r.technique).order < MaxTacticOrder(Range(s.tactics))
  /\ 0 <= r.age /\ r.age <= Lookback(Range(s.tactics))
  /\ \E x \in {x \in Range(Templates) : x.technique = r.technique /\ x.direction # "forward"} :
       /\ x.id \notin run.failing
       /\ x.id \in DOMAIN run.partial => r \in run.partial[x.id]

FoundBack(r, findings) ==
  \E f \in findings : f.technique = r.technique /\ f.direction = "backward" /\ f.matched

LEMMA EntryFound ==
  ASSUME NEW s, NEW run \in Runs, TracedBack(s), ~ Plan(s, Predictions(run)).cut,
         NEW r \in run.rows, Findable(r, s, run)
  PROVE  FoundBack(r, ActiveFindings(s, Predictions(run), run))
<1> DEFINE predictions == Predictions(run)
           n   == Cardinality(run.forecast)
           t   == r.technique
           row == RowOf(t)
           L   == TechniquesOf(row)
           at(i) == Lead(<<row.order, i>>, "backward", L[i], Lookback(Range(s.tactics)), 0)
<1>1. n \in Nat /\ DOMAIN predictions = 1..n
  <2>1. n \in Nat
    BY RunsAssumption, FS_CardinalityType
  <2>2. DOMAIN predictions = 1..n
    BY DEF Predictions
  <2>. QED  BY <2>1, <2>2
<1>2. /\ Mapped(t)
      /\ row.order < CurrentOrder(Range(s.tactics))
      /\ 0 <= r.age /\ r.age <= Lookback(Range(s.tactics))
  BY DEF Findable, CurrentOrder
<1>3. PICK x \in Range(Templates) :
        /\ x.technique = t /\ x.direction # "forward"
        /\ x.id \notin run.failing
        /\ x.id \in DOMAIN run.partial => r \in run.partial[x.id]
  BY DEF Findable
<1>4. PICK j \in DOMAIN Templates : Templates[j] = x
  BY DEF Range
<1>5. row \in Matrix /\ t \in Techniques(row)
  BY <1>2, RowHasIt
<1>6. PICK i \in DOMAIN L : L[i] = t
  <2>1. t \in Range(L)
    BY <1>5, RowIsListed
  <2> HIDE DEF L
  <2>. QED  BY <2>1 DEF Range
<1> DEFINE l == at(i)
           q == [id |-> x.id, lead |-> l, nth |-> j]
           b == RunQuery(q, run)
<1>7. l \in BackwardLeads(s)
  <2>1. ShouldBackwardHunt(s)
    BY DueIsTraced
  <2>2. row \in PreviousTactics(CurrentOrder(Range(s.tactics)))
    BY <1>2, <1>5 DEF PreviousTactics
  <2>3. l \in TracedTo(row, s)
    BY <1>6 DEF TracedTo
  <2> HIDE DEF l, row
  <2>. QED  BY <2>1, <2>2, <2>3 DEF BackwardLeads
<1>8. /\ l.technique = t /\ l.direction = "backward"
      /\ l.oldest = Lookback(Range(s.tactics)) /\ l.newest = 0
  BY <1>6 DEF Lead
<1> HIDE DEF l
<1>9. q \in QueriesFor(l)
  <2>1. x.direction \in {"backward", "both"}
    BY <1>3, SpansAssumption
  <2>2. /\ Templates[j].technique = l.technique
        /\ Templates[j].direction \in {l.direction, "both"}
        /\ Templates[j].id = x.id
    BY <1>3, <1>4, <1>8, <2>1
  <2>. QED  BY <2>2 DEF QueriesFor
<1>10. q \in Plan(s, predictions).queries
  <2> HIDE DEF q, predictions
  <2>1. ~ Plan(s, predictions).cut
    BY DEF predictions
  <2>2. l \in ForwardLeads(predictions) \cup BackwardLeads(s)
    BY <1>7
  <2> HIDE DEF n
  <2>. QED  BY <1>1, <1>9, <2>1, <2>2, AllAsked
<1>11. b \in ActiveFindings(s, predictions, run)
  <2>1. HuntEnabled
    BY DEF TracedBack
  <2> HIDE DEF q, predictions
  <2>. QED  BY <1>10, <2>1 DEF ActiveFindings
<1>12. r \in ResponseRows(q, run)
  <2>1. /\ q.lead.technique = t /\ q.lead.newest = 0 /\ q.id = x.id
        /\ q.lead.oldest = Lookback(Range(s.tactics))
    BY <1>8
  <2> HIDE DEF q
  <2>2. r \in IF PartialError(q, run) THEN run.partial[q.id] ELSE run.rows
    BY <1>3, <2>1 DEF PartialError
  <2>. QED  BY <1>2, <2>1, <2>2 DEF ResponseRows
<1>13. Cardinality(ResponseRows(q, run)) > 0
  <2> DEFINE R == ResponseRows(q, run)
             A == IF PartialError(q, run) THEN run.partial[q.id] ELSE run.rows
  <2> HIDE DEF q
  <2>1. IsFiniteSet(A)
    BY RunsAssumption DEF PartialError
  <2>2. R \in SUBSET A
    BY DEF ResponseRows
  <2> HIDE DEF R, A
  <2>3. IsFiniteSet(R)
    BY <2>1, <2>2, FS_Subset
  <2>4. R # {}
    BY <1>12 DEF R
  <2>5. Cardinality(R) \in Nat /\ Cardinality(R) # 0
    BY <2>3, <2>4, FS_CardinalityType, FS_EmptySet
  <2>6. Cardinality(R) > 0
    BY <2>5
  <2>. QED  BY <2>6 DEF R
<1>14. b.technique = t /\ b.direction = "backward" /\ b.matched
  <2>1. q.lead = l /\ q.id = x.id
    OBVIOUS
  <2> HIDE DEF q
  <2>2. b = Finding(l, Cardinality(ResponseRows(q, run)) > 0, PartialError(q, run))
    BY <1>3, <2>1 DEF RunQuery, QueryResult
  <2> HIDE DEF b
  <2>. QED  BY <1>8, <1>13, <2>2 DEF Finding
<1> HIDE DEF b
<1>. QED  BY <1>11, <1>14 DEF FoundBack

(* While the hunt is on, an alert late enough for the posture is traced    *)
(* back to its entry (core/active_hunt.py, agents/active_hunt_agent.py).   *)
THEOREM EntriesAreTraced == ReportSpec => []EntryIsTraced
<1> DEFINE Holds_(r) ==
      r # None =>
        LET s == Says[r.of.id]
        IN  TracedBack(s) /\ ~ Plan(s, Predictions(r.run)).cut =>
              \A x \in r.run.rows : Findable(x, s, r.run) => FoundBack(x, r.soc.hunted)
<1>1. ReportInit => EntryIsTraced
  BY DEF ReportInit, EntryIsTraced
<1>2. ASSUME TraceInv, EntryIsTraced, [ReportNext]_allVars
      PROVE  EntryIsTraced'
  <2>1. (EntryIsTraced <=> Holds_(report)) /\ (EntryIsTraced' <=> Holds_(report'))
    BY DEF EntryIsTraced, Findable, FoundBack
  <2>2. CASE report' = None
    BY <2>1, <2>2
  <2>3. CASE UNCHANGED allVars
    <3>1. report' = report
      BY <2>3 DEF allVars, reportVars
    <3> HIDE DEF Holds_
    <3>. QED  BY <1>2, <2>1, <3>1
  <2>4. CASE ReportNext /\ report' # None
    <3>1. PICK al, q, run : MadeFrom(report', al, q, run)
      BY <1>2, <2>4, ReportIsMade
    <3> DEFINE s == Says[report'.of.id]
    <3>2. /\ run \in Runs /\ report'.run = run
          /\ report'.soc.hunted = ActiveFindings(s, Predictions(run), run)
      BY <3>1 DEF MadeFrom
    <3> HIDE DEF s
    <3>3. TracedBack(s) /\ ~ Plan(s, Predictions(run)).cut =>
            \A x \in run.rows : Findable(x, s, run) => FoundBack(x, ActiveFindings(s, Predictions(run), run))
      BY <3>2, EntryFound
    <3>4. Holds_(report')
      BY <3>2, <3>3 DEF s
    <3>. QED  BY <2>1, <3>4
  <2>. QED  BY <1>2, <2>2, <2>3, <2>4
<1>. QED  BY <1>1, <1>2, InitTrace, NextTrace, PTL DEF ReportSpec
=============================================================================
