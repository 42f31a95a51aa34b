----------------------- MODULE DynamicsTrackerProofs -----------------------
(***************************************************************************)
(* What holds of the dynamics tracker for every set of assets and          *)
(* scenarios, every retention, window and cap, and every rhythm of alerts. *)
(***************************************************************************)
EXTENDS DynamicsTracker, FiniteSetTheorems, TLAPS

(* The dictionaries against the history.  An entry is no older than the    *)
(* activity it stands for; it is missing or too young only if MaxEntries   *)
(* others came after it.                                                   *)
History ==
  \A k \in Keys :
    /\ began[k] <= heard[k] /\ heard[k] <= now
    /\ heard[k] # 0 => began[k] # 0
    /\ last[k] # 0 => /\ heard[k] = last[k]
                      /\ began[k] <= first[k] /\ first[k] <= last[k]
    /\ Ongoing(k) /\ k \notin crowded => last[k] # 0 /\ first[k] = began[k]

(* For every upstream asset under attack there is one in the dictionary    *)
(* that was attacked no earlier.                                           *)
Attacks ==
  \A b \in Upstream :
    /\ attacked[b] <= now
    /\ up[b] # 0 => up[b] = attacked[b]
    /\ attacked[b] # 0 /\ now - attacked[b] <= Window =>
         \E c \in Upstream : up[c] # 0 /\ attacked[b] <= up[c]

Inv ==
  /\ TypeOK
  /\ now # 0
  /\ History
  /\ Attacks
  /\ DwellIsActivity
  /\ LateralIsUpstreamActive

-----------------------------------------------------------------------------
(* Dictionaries. *)

LEMMA KeysFinite == IsFiniteSet(Keys) /\ IsFiniteSet(Upstream)
BY DynamicsAssumption, FS_Product, FS_Subset DEF Keys

(* Putting x into a dictionary within its cap, and dropping what Overflow  *)
(* says, leaves it within its cap; x stays.                                *)
LEMMA CapHolds ==
  ASSUME NEW S, IsFiniteSet(S), NEW before \in [S -> Time], NEW after \in [S -> Time],
         NEW x, Entries(after) \subseteq Entries(before) \cup {x},
         Cardinality(Entries(before)) <= MaxEntries,
         NEW gone \in Overflow(after, x)
  PROVE  /\ Cardinality(Entries(Without(after, gone))) <= MaxEntries
         /\ x \notin gone
<1>. DEFINE E == Entries(after)
            B == Entries(before)
            W == Entries(Without(after, gone))
<1>1. /\ IsFiniteSet(B) /\ IsFiniteSet(E)
      /\ B \subseteq S /\ E \subseteq S
  BY FS_Subset DEF Entries
<1>2. W = E \ gone
  BY DEF Entries, Without
<1>3. Cardinality(B) \in Nat /\ Cardinality(E) \in Nat
  BY <1>1, FS_CardinalityType
<1>4. CASE Cardinality(E) <= MaxEntries
  <2>1. gone = {}
    BY <1>4, <1>3, DynamicsAssumption DEF Overflow
  <2>. QED  BY <2>1, <1>2, <1>4
<1>5. CASE ~(Cardinality(E) <= MaxEntries)
  <2>1. PICK y \in E \ {x} : gone = {y}
    BY <1>5, <1>3, DynamicsAssumption DEF Overflow
  <2>2. /\ IsFiniteSet(B \cup {x})
        /\ Cardinality(B \cup {x}) <= Cardinality(B) + 1
        /\ Cardinality(B \cup {x}) \in Nat
    <3>1. /\ IsFiniteSet(B \cup {x})
          /\ Cardinality(B \cup {x}) = IF x \in B THEN Cardinality(B) ELSE Cardinality(B) + 1
      BY <1>1, FS_AddElement
    <3>2. Cardinality(B \cup {x}) \in Nat
      BY <3>1, FS_CardinalityType
    <3>. QED  BY <3>1, <3>2, <1>3
  <2>3. Cardinality(E) <= Cardinality(B \cup {x})
    BY <2>2, FS_Subset
  <2>4. Cardinality(E \ {y}) = Cardinality(E) - 1
    BY <1>1, <2>1, FS_RemoveElement
  <2>. QED  BY <1>2, <1>3, <2>1, <2>2, <2>3, <2>4, DynamicsAssumption
<1>. QED  BY <1>4, <1>5

(* What Overflow drops is no younger than anything else, and there are     *)
(* MaxEntries others.                                                      *)
LEMMA DroppedIsOldest ==
  ASSUME NEW S, IsFiniteSet(S), NEW seen \in [S -> Time], NEW x,
         NEW gone \in Overflow(seen, x), NEW y \in gone
  PROVE  /\ y \in Entries(seen) \ {x} /\ gone = {y}
         /\ \A w \in Entries(seen) : seen[y] <= seen[w]
         /\ MaxEntries <= Cardinality(Entries(seen) \ {y})
<1>1. Cardinality(Entries(seen)) > MaxEntries
  BY DEF Overflow
<1>2. /\ y \in Entries(seen) \ {x} /\ gone = {y}
      /\ \A w \in Entries(seen) : seen[y] <= seen[w]
  BY <1>1 DEF Overflow
<1>3. IsFiniteSet(Entries(seen)) /\ Cardinality(Entries(seen)) \in Nat
  BY FS_Subset, FS_CardinalityType DEF Entries
<1>4. Cardinality(Entries(seen) \ {y}) = Cardinality(Entries(seen)) - 1
  BY <1>2, <1>3, FS_RemoveElement
<1>. QED  BY <1>1, <1>2, <1>3, <1>4, DynamicsAssumption

LEMMA QuotientGrows ==
  ASSUME NEW a \in Nat, NEW b \in Nat, a <= b
  PROVE  a \div Minute <= b \div Minute /\ a \div Minute \in Nat
BY DynamicsAssumption

-----------------------------------------------------------------------------

LEMMA Initially == Init => Inv
<1>. SUFFICES ASSUME Init PROVE Inv
  OBVIOUS
<1>1. now \in Time /\ 0 \in Time
  BY DynamicsAssumption DEF Init, Time
<1>2. Entries(first) = {} /\ Entries(last) = {} /\ Entries(up) = {}
  BY DEF Init, Entries
<1>3. TypeOK
  BY <1>1, <1>2, FS_EmptySet, DynamicsAssumption DEF Init, TypeOK
<1>4. History /\ Attacks
  BY DynamicsAssumption DEF Init, History, Attacks, Ongoing
<1>. QED  BY <1>3, <1>4 DEF Init, Inv, DwellIsActivity, LateralIsUpstreamActive

LEMMA ResetStep ==
  ASSUME Inv, Reset
  PROVE  Inv'
<1>1. now \in Time /\ now # 0 /\ now' = now /\ 0 \in Time
  BY DynamicsAssumption DEF Reset, Inv, TypeOK, Time
<1>2. Entries(first') = {} /\ Entries(last') = {} /\ Entries(up') = {}
  BY DEF Reset, Entries
<1>3. TypeOK'
  BY <1>1, <1>2, FS_EmptySet, DynamicsAssumption DEF Reset, TypeOK, Entries
<1>4. History' /\ Attacks'
  BY <1>1, DynamicsAssumption DEF Reset, History, Attacks, Ongoing, Time
<1>. QED  BY <1>1, <1>3, <1>4 DEF Reset, Inv, DwellIsActivity, LateralIsUpstreamActive

LEMMA TickStep ==
  ASSUME Inv, Tick
  PROVE  Inv'
<1>1. /\ now \in Nat /\ now' = now + 1 /\ now' \in Time
      /\ UNCHANGED <<first, last, up, out, began, heard, attacked, crowded>>
  BY DynamicsAssumption DEF Tick, Inv, TypeOK, Time
<1>2. TypeOK'
  BY <1>1 DEF Inv, TypeOK, Entries
<1>3. History'
  <2>1. ASSUME NEW k \in Keys, Ongoing(k)'
        PROVE  Ongoing(k)
    BY <1>1, <2>1, DynamicsAssumption DEF Ongoing, Inv, TypeOK, Time
  <2>. QED  BY <1>1, <2>1, DynamicsAssumption DEF Inv, TypeOK, History, Time
<1>4. Attacks'
  BY <1>1, DynamicsAssumption DEF Inv, TypeOK, Attacks, Time
<1>. QED  BY <1>1, <1>2, <1>3, <1>4 DEF Inv, DwellIsActivity, LateralIsUpstreamActive

-----------------------------------------------------------------------------
(* One observation of key k, in three parts: the threats, the upstream     *)
(* assets, and the enriched alert.                                         *)

LEMMA Threats ==
  ASSUME Inv, NEW k \in Keys, Enrich(k)
  PROVE  /\ first' \in [Keys -> Time] /\ last' \in [Keys -> Time]
         /\ Entries(first') = Entries(last')
         /\ Cardinality(Entries(last')) <= MaxEntries
         /\ History'
         /\ \/ FirstSeen(k)[k] = began'[k]
            \/ k \in crowded' /\ FirstSeen(k)[k] \in began'[k] .. now
<1>. DEFINE F == FirstSeen(k)
            L == LastSeen(k)
<1>. PICK gone \in Overflow(L, k) : first' = Without(F, gone) /\ last' = Without(L, gone)
  BY DEF Enrich
<1>1. /\ now \in Time /\ now' = now /\ now # 0 /\ 0 \in Time
      /\ Retention \in Nat /\ Horizon \in Nat
  BY DynamicsAssumption DEF Enrich, Inv, TypeOK, Time
<1>2. /\ F \in [Keys -> Time] /\ L \in [Keys -> Time]
      /\ L[k] = now /\ F[k] = IF Stale(k) \/ first[k] = 0 THEN now ELSE first[k]
      /\ \A q \in Keys \ {k} : /\ L[q] = IF Stale(q) THEN 0 ELSE last[q]
                               /\ F[q] = IF Stale(q) THEN 0 ELSE first[q]
  BY <1>1 DEF FirstSeen, LastSeen, Without, Inv, TypeOK
<1>3. /\ first' \in [Keys -> Time] /\ last' \in [Keys -> Time]
      /\ \A q \in Keys : /\ first'[q] = IF q \in gone THEN 0 ELSE F[q]
                         /\ last'[q] = IF q \in gone THEN 0 ELSE L[q]
  BY <1>1, <1>2 DEF Without
<1>4. \A q \in Keys : first[q] = 0 <=> last[q] = 0
  BY DEF Inv, TypeOK, Entries
<1>5. \A q \in Keys : F[q] = 0 <=> L[q] = 0
  BY <1>1, <1>2, <1>4
<1>6. Entries(first') = Entries(last')
  BY <1>3, <1>5 DEF Entries
<1>7. /\ Cardinality(Entries(last')) <= MaxEntries
      /\ k \notin gone
  <2>1. Entries(L) \subseteq Entries(last) \cup {k}
    BY <1>2 DEF Entries, Inv, TypeOK
  <2>. QED  BY <1>2, <2>1, KeysFinite, CapHolds DEF Inv, TypeOK
<1>8. /\ heard' = [heard EXCEPT ![k] = now]
      /\ began' = [began EXCEPT ![k] = IF Ongoing(k) THEN @ ELSE now]
      /\ crowded' = (IF Ongoing(k) THEN crowded ELSE crowded \ {k})
                  \cup {q \in Keys \ {k} : MaxEntries <=
                          Cardinality({z \in Keys \ {q} : heard'[q] <= heard'[z]})}
  BY DEF Enrich, Observed
<1>9. \A q \in Keys : L[q] # 0 => L[q] = heard'[q]
  BY <1>2, <1>8 DEF Inv, TypeOK, History
<1>10. ASSUME NEW y \in gone
       PROVE  y \in crowded'
  <2>1. /\ y \in Entries(L) \ {k}
        /\ \A w \in Entries(L) : L[y] <= L[w]
        /\ MaxEntries <= Cardinality(Entries(L) \ {y})
    BY <1>2, KeysFinite, DroppedIsOldest
  <2>. DEFINE later == {z \in Keys \ {y} : heard'[y] <= heard'[z]}
  <2>2. Entries(L) \ {y} \subseteq later
    BY <1>2, <1>9, <2>1 DEF Entries
  <2>3. IsFiniteSet(later) /\ Cardinality(later) \in Nat
    BY KeysFinite, FS_Subset, FS_CardinalityType
  <2>4. /\ Cardinality(Entries(L) \ {y}) <= Cardinality(later)
        /\ IsFiniteSet(Entries(L) \ {y})
    BY <2>2, <2>3, FS_Subset
  <2>5. Cardinality(Entries(L) \ {y}) \in Nat
    BY <2>4, FS_CardinalityType
  <2>6. MaxEntries <= Cardinality(later)
    BY <2>1, <2>3, <2>4, <2>5, DynamicsAssumption
  <2>7. y \in Keys \ {k}
    BY <1>2, <2>1 DEF Entries
  <2>. QED  BY <1>8, <2>6, <2>7
<1>11. \/ F[k] = began'[k]
       \/ k \in crowded' /\ F[k] \in began'[k] .. now
  <2>1. CASE Ongoing(k)
    <3>1. began'[k] = began[k] /\ (k \in crowded' <=> k \in crowded)
      BY <1>8, <2>1 DEF Inv, TypeOK
    <3>2. CASE k \notin crowded
      <4>1. last[k] # 0 /\ first[k] = began[k] /\ last[k] = heard[k]
        BY <2>1, <3>2 DEF Inv, History
      <4>2. ~Stale(k)
        BY <1>1, <2>1, <4>1 DEF Ongoing, Stale, Inv, TypeOK, Time
      <4>. QED  BY <1>2, <1>4, <3>1, <4>1, <4>2
    <3>3. CASE k \in crowded
      BY <1>1, <1>2, <1>4, <2>1, <3>1, <3>3 DEF Inv, TypeOK, History, Time
    <3>. QED  BY <3>2, <3>3
  <2>2. CASE ~Ongoing(k)
    <3>1. began'[k] = now
      BY <1>8, <2>2 DEF Inv, TypeOK
    <3>2. last[k] # 0 => Stale(k)
      BY <1>1, <2>2 DEF Inv, TypeOK, History, Ongoing, Stale, Time
    <3>. QED  BY <1>2, <1>4, <3>1, <3>2
  <2>. QED  BY <2>1, <2>2
<1>12. History'
  <2>1. /\ began'[k] <= heard'[k] /\ heard'[k] = now /\ began'[k] # 0
        /\ last'[k] = now /\ first'[k] = F[k]
    BY <1>1, <1>2, <1>3, <1>7, <1>8 DEF Inv, TypeOK, History, Time, Ongoing
  <2>2. began'[k] \in Time /\ F[k] \in Time
    BY <1>1, <1>2, <1>8 DEF Inv, TypeOK
  <2>3. /\ began'[k] <= first'[k] /\ first'[k] <= last'[k]
        /\ k \notin crowded' => first'[k] = began'[k]
    BY <1>1, <1>11, <2>1, <2>2 DEF Time
  <2>4. ASSUME NEW q \in Keys, q # k
        PROVE  /\ began'[q] <= heard'[q] /\ heard'[q] <= now'
               /\ heard'[q] # 0 => began'[q] # 0
               /\ last'[q] # 0 => /\ heard'[q] = last'[q]
                                  /\ began'[q] <= first'[q] /\ first'[q] <= last'[q]
    BY <1>1, <1>2, <1>3, <1>8, <2>4 DEF Inv, TypeOK, History
  <2>5. ASSUME NEW q \in Keys, q # k, Ongoing(q)', q \notin crowded'
        PROVE  last'[q] # 0 /\ first'[q] = began'[q]
    <3>1. Ongoing(q) /\ q \notin crowded /\ q \notin gone
      BY <1>1, <1>8, <1>10, <2>5 DEF Ongoing, Inv, TypeOK
    <3>2. last[q] # 0 /\ first[q] = began[q] /\ last[q] = heard[q]
      BY <3>1 DEF Inv, History
    <3>3. ~Stale(q)
      BY <1>1, <3>1, <3>2 DEF Ongoing, Stale, Inv, TypeOK, Time
    <3>. QED  BY <1>2, <1>3, <1>8, <2>5, <3>1, <3>2, <3>3 DEF Inv, TypeOK
  <2>. QED  BY <1>1, <2>1, <2>2, <2>3, <2>4, <2>5 DEF History, Time
<1>. QED  BY <1>3, <1>6, <1>7, <1>11, <1>12

LEMMA UpstreamAssets ==
  ASSUME Inv, NEW k \in Keys, Enrich(k)
  PROVE  /\ up' \in [Upstream -> Time] /\ attacked' \in [Upstream -> Time]
         /\ Cardinality(Entries(up')) <= MaxEntries
         /\ Attacks'
         /\ k[1] \notin Upstream =>
              (Entries(UpstreamSeen(k)) # {} <=>
                 \E b \in Upstream : attacked'[b] # 0 /\ now - attacked'[b] <= Window)
<1>. DEFINE U == UpstreamSeen(k)
<1>. PICK gone \in Overflow(U, k[1]) : up' = Without(U, gone)
  BY DEF Enrich
<1>1. /\ now \in Time /\ now' = now /\ now # 0 /\ 0 \in Time
      /\ Window \in Nat /\ Horizon \in Nat
  BY DynamicsAssumption DEF Enrich, Inv, TypeOK, Time
<1>2. /\ U \in [Upstream -> Time]
      /\ \A b \in Upstream : U[b] = IF b = k[1] THEN now
                                    ELSE IF now - up[b] > Window THEN 0 ELSE up[b]
  BY <1>1 DEF UpstreamSeen, Inv, TypeOK
<1>3. /\ up' \in [Upstream -> Time]
      /\ \A b \in Upstream : up'[b] = IF b \in gone THEN 0 ELSE U[b]
  BY <1>1, <1>2 DEF Without
<1>4. /\ attacked' \in [Upstream -> Time]
      /\ \A b \in Upstream : attacked'[b] = IF b = k[1] THEN now ELSE attacked[b]
  BY <1>1 DEF Enrich, Observed, Inv, TypeOK
<1>5. Cardinality(Entries(up')) <= MaxEntries /\ k[1] \notin gone
  <2>1. Entries(U) \subseteq Entries(up) \cup {k[1]}
    BY <1>2 DEF Entries, Inv, TypeOK
  <2>. QED  BY <1>2, <2>1, KeysFinite, CapHolds DEF Inv, TypeOK
<1>6. ASSUME NEW b \in Upstream, attacked'[b] # 0, now - attacked'[b] <= Window
      PROVE  \E c \in Upstream : U[c] # 0 /\ attacked'[b] <= U[c]
  <2>1. CASE b = k[1]
    BY <1>1, <1>2, <1>4, <2>1 DEF Time
  <2>2. CASE b # k[1]
    <3>1. PICK c \in Upstream : up[c] # 0 /\ attacked[b] <= up[c]
      BY <1>4, <1>6, <2>2 DEF Inv, Attacks
    <3>2. up[c] <= now
      BY <3>1 DEF Inv, Attacks
    <3>3. U[c] # 0 /\ attacked[b] <= U[c]
      BY <1>1, <1>2, <1>4, <1>6, <2>2, <3>1, <3>2 DEF Inv, TypeOK, Time
    <3>. QED  BY <1>4, <2>2, <3>3
  <2>. QED  BY <2>1, <2>2
<1>7. ASSUME NEW b \in Upstream, attacked'[b] # 0, now - attacked'[b] <= Window
      PROVE  \E c \in Upstream : up'[c] # 0 /\ attacked'[b] <= up'[c]
  <2>1. PICK c \in Upstream : U[c] # 0 /\ attacked'[b] <= U[c]
    BY <1>6, <1>7
  <2>2. CASE c \notin gone
    BY <1>3, <2>1, <2>2
  <2>3. CASE c \in gone
    <3>1. /\ c # k[1] /\ gone = {c}
          /\ \A w \in Entries(U) : U[c] <= U[w]
          /\ MaxEntries <= Cardinality(Entries(U) \ {c})
      BY <1>2, <2>3, KeysFinite, DroppedIsOldest
    <3>2. PICK w \in Entries(U) : w # c
      <4>1. Cardinality(Entries(U) \ {c}) # 0
        BY <1>2, <3>1, KeysFinite, FS_Subset, FS_CardinalityType, DynamicsAssumption DEF Entries
      <4>. QED  BY <4>1, FS_EmptySet
    <3>3. w \in Upstream /\ U[w] # 0 /\ U[c] <= U[w] /\ w \notin gone
      BY <1>2, <3>1, <3>2 DEF Entries
    <3>. QED  BY <1>2, <1>3, <1>4, <2>1, <3>3 DEF Time
  <2>. QED  BY <2>2, <2>3
<1>8. Attacks'
  <2>1. \A b \in Upstream : attacked'[b] <= now'
    BY <1>1, <1>4 DEF Inv, Attacks, Time
  <2>2. \A b \in Upstream : up'[b] # 0 => up'[b] = attacked'[b]
    BY <1>2, <1>3, <1>4 DEF Inv, Attacks
  <2>. QED  BY <1>1, <1>7, <2>1, <2>2 DEF Attacks
<1>9. ASSUME k[1] \notin Upstream, NEW c \in Entries(U)
      PROVE  c \in Upstream /\ attacked'[c] # 0 /\ now - attacked'[c] <= Window
  <2>1. c \in Upstream /\ U[c] # 0 /\ c # k[1]
    BY <1>2, <1>9 DEF Entries
  <2>2. U[c] = up[c] /\ ~(now - up[c] > Window) /\ up[c] = attacked'[c]
    BY <1>2, <1>4, <2>1 DEF Inv, Attacks
  <2>. QED  BY <1>1, <2>1, <2>2 DEF Inv, TypeOK, Time
<1>10. (\E b \in Upstream : attacked'[b] # 0 /\ now - attacked'[b] <= Window) => Entries(U) # {}
  BY <1>2, <1>6 DEF Entries
<1>. QED  BY <1>3, <1>4, <1>5, <1>8, <1>9, <1>10

LEMMA EnrichStep ==
  ASSUME Inv, NEW k \in Keys, Enrich(k)
  PROVE  Inv'
<1>. DEFINE d == (now - FirstSeen(k)[k]) \div Minute
            l == k[1] \notin Upstream /\ Entries(UpstreamSeen(k)) # {}
<1>1. /\ now \in Time /\ now' = now /\ now # 0
      /\ now \in Nat /\ out' = {[key |-> k, dwell |-> d, lateral |-> l]}
  BY DynamicsAssumption DEF Enrich, Inv, TypeOK, Time
<1>2. heard'[k] = now /\ heard' \in [Keys -> Time] /\ began' \in [Keys -> Time]
      /\ crowded' \in SUBSET Keys
  BY <1>1 DEF Enrich, Observed, Inv, TypeOK
<1>3. /\ began'[k] \in Nat /\ began'[k] <= now
      /\ FirstSeen(k)[k] \in began'[k] .. now
      /\ k \notin crowded' => FirstSeen(k)[k] = began'[k]
  BY <1>1, <1>2, Threats, DynamicsAssumption DEF History, Time
<1>4. d <= (now - began'[k]) \div Minute /\ d \in Nat
  <2>1. /\ now - FirstSeen(k)[k] \in Nat /\ now - began'[k] \in Nat
        /\ now - FirstSeen(k)[k] <= now - began'[k]
    BY <1>1, <1>3
  <2>. QED  BY <2>1, QuotientGrows
<1>5. TypeOK'
  BY <1>1, <1>2, <1>4, Threats, UpstreamAssets DEF TypeOK
<1>6. DwellIsActivity'
  BY <1>1, <1>2, <1>3, <1>4 DEF DwellIsActivity
<1>7. LateralIsUpstreamActive'
  <2>1. l <=> /\ k[1] \notin Upstream
              /\ \E b \in Upstream : attacked'[b] # 0 /\ now - attacked'[b] <= Window
    BY UpstreamAssets
  <2>2. \A alert \in out' : alert.key = k /\ alert.lateral = l
    BY <1>1
  <2>. HIDE DEF l
  <2>. QED  BY <1>2, <2>1, <2>2 DEF LateralIsUpstreamActive
<1>. QED  BY <1>1, <1>5, <1>6, <1>7, Threats, UpstreamAssets DEF Inv

LEMMA Invariant == Spec => []Inv
<1>1. Inv /\ [Next]_vars => Inv'
  <2>. SUFFICES ASSUME Inv, [Next]_vars PROVE Inv'
    OBVIOUS
  <2>1. CASE UNCHANGED vars
    BY <2>1 DEF vars, Inv, TypeOK, History, Attacks, Ongoing, Entries,
                DwellIsActivity, LateralIsUpstreamActive
  <2>2. CASE Next
    BY <2>2, TickStep, ResetStep, EnrichStep DEF Next
  <2>. QED  BY <2>1, <2>2
<1>. QED  BY <1>1, Initially, PTL DEF Spec

-----------------------------------------------------------------------------

(* Types, and neither dictionary outgrows max_entries                      *)
(* (core/dynamics.py:98-111).                                              *)
THEOREM TypeCorrect == Spec => []TypeOK
<1>1. Inv => TypeOK
  BY DEF Inv
<1>. QED  BY <1>1, Invariant, PTL

(* The dwell of an alert is the time its threat has been active, or less   *)
(* if max_entries other threats overtook it (core/dynamics.py:14-16).      *)
THEOREM DwellCorrect == Spec => []DwellIsActivity
<1>1. Inv => DwellIsActivity
  BY DEF Inv
<1>. QED  BY <1>1, Invariant, PTL

(* The lateral flag says whether an upstream asset was observed within the *)
(* window, whatever was dropped (core/dynamics.py:133-139).                *)
THEOREM LateralCorrect == Spec => []LateralIsUpstreamActive
<1>1. Inv => LateralIsUpstreamActive
  BY DEF Inv
<1>. QED  BY <1>1, Invariant, PTL
=============================================================================
