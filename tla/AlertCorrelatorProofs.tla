----------------------- MODULE AlertCorrelatorProofs -----------------------
(***************************************************************************)
(* What holds of the correlator for every registry of assets, every set of *)
(* indicators and every setting.                                           *)
(***************************************************************************)
EXTENDS AlertCorrelator, FiniteSetTheorems, SequenceTheorems,
        WellFoundedInduction, TLAPS

-----------------------------------------------------------------------------
(* Choices. *)

(* A non-empty set of naturals has a first element, and First is it.       *)
LEMMA FirstOf ==
  ASSUME NEW S \in SUBSET Nat, S # {}
  PROVE  /\ First(S) \in S
         /\ \A j \in S : First(S) <= j
<1>1. \E i \in S : \A j \in S : <<j, i>> \notin OpToRel(<, Nat)
  BY NatLessThanWellFounded, WFMin
<1>2. \A i, j \in Nat : j < i => <<j, i>> \in OpToRel(<, Nat)
  BY Zenon DEF OpToRel
<1>3. \E i \in S : \A j \in S : ~(j < i)
  BY <1>1, <1>2
<1>4. \E i \in S : \A j \in S : i <= j
  BY <1>3
<1>. QED  BY <1>4 DEF First

(* The fields of an alert of the window. *)
LEMMA EntryOf ==
  ASSUME NEW w \in Seq(Entry), NEW i \in DOMAIN w
  PROVE  /\ w[i].age \in 0..WindowSec
         /\ w[i].asset \in Assets
         /\ w[i].iocs \subseteq Iocs
<1>1. w[i] \in Entry
  BY ElementOfSeq, LenProperties
<1>. QED  BY <1>1 DEF Entry

(* A group of alerts of the window is finite and has a first alert. *)
LEMMA GroupOf ==
  ASSUME NEW w \in Seq(Entry), NEW C \in SUBSET DOMAIN w, C # {}
  PROVE  /\ C \in SUBSET Nat
         /\ Cardinality(C) \in 0..Len(w)
         /\ First(C) \in C
         /\ \A i \in C : First(C) <= i
<1>1. Len(w) \in Nat /\ DOMAIN w = 1..Len(w)
  BY LenProperties
<1>2. C \in SUBSET Nat
  BY <1>1
<1>3. /\ IsFiniteSet(1..Len(w))
      /\ Cardinality(1..Len(w)) = IF 1 > Len(w) THEN 0 ELSE Len(w)-1+1
  BY <1>1, FS_Interval
<1>4. IsFiniteSet(C) /\ Cardinality(C) <= Len(w)
  BY <1>1, <1>3, FS_Subset
<1>5. Cardinality(C) \in Nat
  BY <1>4, FS_CardinalityType
<1>. QED  BY <1>1, <1>2, <1>4, <1>5, FirstOf

(* The cluster of a window is one of its eligible groups, if it has any. *)
LEMMA ClusterOf ==
  ASSUME NEW w \in Seq(Entry), Eligible(w) # {}
  PROVE  Cluster(w) \in Eligible(w)
<1>. DEFINE n     == Len(w)
            less  == {n - Cardinality(C) : C \in Eligible(w)}
<1>1. n \in Nat
  BY LenProperties
<1>2. \A C \in Eligible(w) : /\ Cardinality(C) \in 0..n
                             /\ First(C) \in Nat
  <2>. SUFFICES ASSUME NEW C \in Eligible(w)
                PROVE  Cardinality(C) \in 0..n /\ First(C) \in Nat
    OBVIOUS
  <2>1. C \in SUBSET DOMAIN w /\ C # {}
    BY DEF Eligible, Components
  <2>. QED  BY <2>1, GroupOf
<1>3. less \in SUBSET Nat /\ less # {}
  BY <1>1, <1>2
<1>4. PICK A \in Eligible(w) : \A C \in Eligible(w) :
             n - Cardinality(A) <= n - Cardinality(C)
  <2>1. First(less) \in less /\ \A j \in less : First(less) <= j
    BY <1>3, FirstOf
  <2>. QED  BY <2>1
<1>5. \A C \in Eligible(w) : Cardinality(C) <= Cardinality(A)
  BY <1>1, <1>2, <1>4
<1>. DEFINE largest == {C \in Eligible(w) : Cardinality(C) = Cardinality(A)}
            firsts  == {First(C) : C \in largest}
<1>6. firsts \in SUBSET Nat /\ firsts # {}
  BY <1>2
<1>7. PICK B \in largest : \A C \in largest : First(B) <= First(C)
  <2>1. First(firsts) \in firsts /\ \A j \in firsts : First(firsts) <= j
    BY <1>6, FirstOf
  <2>. QED  BY <2>1
<1>8. \A D \in Eligible(w) : \/ Cardinality(B) > Cardinality(D)
                             \/ /\ Cardinality(B) = Cardinality(D)
                                /\ First(B) <= First(D)
  BY <1>2, <1>5, <1>7
<1>. QED  BY <1>7, <1>8 DEF Cluster

-----------------------------------------------------------------------------
(* Groups of connected alerts. *)

Edges(w) == IocEdges(w) \cup DependencyEdges(w)

(* A component is a smallest group of alerts that no edge leaves. *)
LEMMA ComponentOf ==
  ASSUME NEW w, NEW C \in Components(w)
  PROVE  /\ C \in SUBSET DOMAIN w /\ C # {}
         /\ \A e \in Edges(w) : e[1] \in C <=> e[2] \in C
         /\ \A T \in (SUBSET C) \ {{}, C} :
              \E e \in Edges(w) : ~(e[1] \in T <=> e[2] \in T)
<1>1. /\ C \in SUBSET DOMAIN w /\ C # {}
      /\ \A e \in Edges(w) : e[1] \in C <=> e[2] \in C
  BY DEF Components, Edges
<1>2. ASSUME NEW T \in (SUBSET C) \ {{}, C}
      PROVE  \E e \in Edges(w) : ~(e[1] \in T <=> e[2] \in T)
  <2>1. T \in (SUBSET DOMAIN w) \ {{}} /\ T \subseteq C /\ T # C
    BY <1>1
  <2>. QED  BY <2>1 DEF Components, Edges
<1>. QED  BY <1>1, <1>2

(* A star has an edge from the first alert to every one of the group. *)
LEMMA StarOf ==
  ASSUME NEW w \in Seq(Entry), NEW S \in SUBSET DOMAIN w, NEW j \in S
  PROVE  First(S) \in S /\ <<First(S), j>> \in Star(S)
<1>1. First(S) \in S
  BY GroupOf
<1>. QED  BY <1>1 DEF Star

(* Every edge joins two related alerts. *)
LEMMA EdgesRelate ==
  ASSUME NEW w \in Seq(Entry), NEW e \in Edges(w), e[1] # e[2]
  PROVE  /\ e[1] \in DOMAIN w /\ e[2] \in DOMAIN w
         /\ Related(w, e[1], e[2])
         /\ Related(w, e[2], e[1])
<1>1. CASE e \in IocEdges(w)
  <2>1. PICK h \in Iocs : e \in Star({i \in DOMAIN w : h \in w[i].iocs})
    BY <1>1 DEF IocEdges
  <2>. DEFINE S == {i \in DOMAIN w : h \in w[i].iocs}
  <2>2. PICK j \in S : e = <<First(S), j>>
    BY <2>1 DEF Star
  <2>3. First(S) \in S
    BY StarOf
  <2>. QED  BY <2>2, <2>3 DEF Related
<1>2. CASE e \in DependencyEdges(w)
  <2>. DEFINE present == {x \in Assets : At(w, x) # {}}
              pairs   == {p \in present \X present : DepLinked(p[1], p[2])}
  <2>1. PICK p \in pairs : \/ e = <<First(At(w, p[1])), First(At(w, p[2]))>>
                           \/ e \in Star(At(w, p[1]))
    BY <1>2 DEF DependencyEdges
  <2>2. /\ At(w, p[1]) \in SUBSET DOMAIN w /\ At(w, p[1]) # {}
        /\ At(w, p[2]) \in SUBSET DOMAIN w /\ At(w, p[2]) # {}
        /\ DepLinked(p[1], p[2]) /\ DepLinked(p[2], p[1])
    BY DEF At, DepLinked
  <2>3. First(At(w, p[1])) \in At(w, p[1]) /\ First(At(w, p[2])) \in At(w, p[2])
    BY <2>2, GroupOf
  <2>4. CASE e = <<First(At(w, p[1])), First(At(w, p[2]))>>
    BY <2>2, <2>3, <2>4 DEF At, Related
  <2>5. CASE e \in Star(At(w, p[1]))
    <3>1. PICK j \in At(w, p[1]) : e = <<First(At(w, p[1])), j>>
      BY <2>5 DEF Star
    <3>2. \E k \in DOMAIN w : w[k].asset = p[2]
      BY <2>2 DEF At
    <3>. QED  BY <2>2, <2>3, <3>1, <3>2 DEF At, Related
  <2>. QED  BY <2>1, <2>4, <2>5
<1>. QED  BY <1>1, <1>2 DEF Edges

(* No alert outside a group that no edge leaves is related to one in it.   *)
LEMMA ClosedIsolates ==
  ASSUME NEW w \in Seq(Entry), NEW C \in SUBSET DOMAIN w,
         \A e \in Edges(w) : e[1] \in C <=> e[2] \in C,
         NEW i \in C, NEW j \in DOMAIN w, Related(w, i, j)
  PROVE  j \in C
<1>1. \A S \in SUBSET DOMAIN w : Star(S) \subseteq Edges(w) /\ i \in S /\ j \in S
                                => j \in C
  <2>. SUFFICES ASSUME NEW S \in SUBSET DOMAIN w, Star(S) \subseteq Edges(w),
                       i \in S, j \in S
                PROVE  j \in C
    OBVIOUS
  <2>1. <<First(S), i>> \in Edges(w) /\ <<First(S), j>> \in Edges(w)
    BY StarOf
  <2>. QED  BY <2>1
<1>2. w[i].asset \in Assets /\ w[j].asset \in Assets /\ w[i].iocs \subseteq Iocs
  BY EntryOf
<1>3. CASE w[i].iocs \cap w[j].iocs # {}
  <2>1. PICK h \in Iocs : h \in w[i].iocs /\ h \in w[j].iocs
    BY <1>2, <1>3
  <2>2. Star({k \in DOMAIN w : h \in w[k].iocs}) \subseteq Edges(w)
    BY DEF IocEdges, Edges
  <2>. QED  BY <1>1, <2>1, <2>2
<1>. DEFINE present == {x \in Assets : At(w, x) # {}}
            pairs   == {p \in present \X present : DepLinked(p[1], p[2])}
<1>4. ASSUME NEW k \in DOMAIN w, DepLinked(w[i].asset, w[k].asset)
      PROVE  /\ <<First(At(w, w[i].asset)), First(At(w, w[k].asset))>> \in Edges(w)
             /\ Star(At(w, w[i].asset)) \subseteq Edges(w)
             /\ Star(At(w, w[k].asset)) \subseteq Edges(w)
  <2>1. w[k].asset \in Assets
    BY EntryOf
  <2>2. <<w[i].asset, w[k].asset>> \in pairs /\ <<w[k].asset, w[i].asset>> \in pairs
    BY <1>2, <1>4, <2>1 DEF At, DepLinked
  <2>3. \A p \in pairs : /\ <<First(At(w, p[1])), First(At(w, p[2]))>> \in Edges(w)
                         /\ Star(At(w, p[1])) \subseteq Edges(w)
    BY DEF DependencyEdges, Edges
  <2>. HIDE DEF pairs
  <2>. QED  BY <2>2, <2>3
<1>5. CASE DepLinked(w[i].asset, w[j].asset)
  <2>1. /\ First(At(w, w[i].asset)) \in At(w, w[i].asset)
        /\ <<First(At(w, w[i].asset)), i>> \in Edges(w)
    BY <1>4, <1>5, StarOf DEF At
  <2>2. /\ First(At(w, w[j].asset)) \in At(w, w[j].asset)
        /\ <<First(At(w, w[j].asset)), j>> \in Edges(w)
    BY <1>4, <1>5, StarOf DEF At
  <2>3. <<First(At(w, w[i].asset)), First(At(w, w[j].asset))>> \in Edges(w)
    BY <1>4, <1>5
  <2>. QED  BY <2>1, <2>2, <2>3
<1>6. CASE /\ w[i].asset = w[j].asset
           /\ \E k \in DOMAIN w : DepLinked(w[i].asset, w[k].asset)
  <2>1. Star(At(w, w[i].asset)) \subseteq Edges(w)
    BY <1>4, <1>6
  <2>2. At(w, w[i].asset) \in SUBSET DOMAIN w /\ i \in At(w, w[i].asset) /\ j \in At(w, w[i].asset)
    BY <1>6 DEF At
  <2>. QED  BY <1>1, <2>1, <2>2
<1>. QED  BY <1>3, <1>5, <1>6 DEF Related

(* The semantic group a component stands for. *)
Semantic(w, C) ==
  /\ \A i \in C, j \in (DOMAIN w) \ C : ~Related(w, i, j)
  /\ \A S \in (SUBSET C) \ {{}, C} : \E i \in S, j \in C \ S : Related(w, i, j)
  /\ Cardinality(AssetsOf(w, C)) >= 2

(* The star-shaped edges yield the same groups as the full relation.       *)
LEMMA EligibleIsSemantic ==
  ASSUME NEW w \in Seq(Entry), NEW C \in Eligible(w)
  PROVE  Semantic(w, C)
<1>1. C \in Components(w) /\ Cardinality(AssetsOf(w, C)) >= 2
  BY DEF Eligible
<1>2. \A i \in C, j \in (DOMAIN w) \ C : ~Related(w, i, j)
  BY <1>1, ComponentOf, ClosedIsolates
<1>3. ASSUME NEW S \in (SUBSET C) \ {{}, C}
      PROVE  \E i \in S, j \in C \ S : Related(w, i, j)
  <2>1. PICK e \in Edges(w) : ~(e[1] \in S <=> e[2] \in S)
    BY <1>1, ComponentOf
  <2>2. e[1] \in C <=> e[2] \in C
    BY <1>1, ComponentOf
  <2>3. Related(w, e[1], e[2]) /\ Related(w, e[2], e[1])
    BY <2>1, EdgesRelate
  <2>. QED  BY <2>1, <2>2, <2>3
<1>. QED  BY <1>1, <1>2, <1>3 DEF Semantic

-----------------------------------------------------------------------------
(* The sliding window. *)

(* The alerts of the window are in the order of their arrival. *)
Sorted(w) == \A i, j \in DOMAIN w : i <= j => w[j].age <= w[i].age

(* Sliding keeps the order, ages nothing past the window and keeps the cap. *)
LEMMA SlideOf ==
  ASSUME TypeOK, Sorted(window),
         NEW alert \in Entry, alert.age = 0, NEW gap \in 0..MaxGap
  PROVE  /\ Slide(alert, gap) \in Seq(Entry)
         /\ Len(Slide(alert, gap)) \in 1..MaxAlerts
         /\ Sorted(Slide(alert, gap))
<1>. DEFINE n     == Len(window)
            w     == Aged(alert, gap)
            young == {i \in DOMAIN w : w[i].age <= WindowSec}
            room  == n + 1 - MaxAlerts + 1
            from  == IF First(young) < room THEN room ELSE First(young)
            Older == [age : Nat, asset : Assets, iocs : SUBSET Iocs]
            aged  == [i \in DOMAIN window |-> [window[i] EXCEPT !.age = @ + gap]]
<1>1. /\ n \in Nat /\ DOMAIN window = 1..n
      /\ window \in Seq(Entry)
      /\ gap \in Nat /\ MaxAlerts \in Nat \ {0} /\ WindowSec \in Nat
  BY LenProperties, SettingsAssumption DEF TypeOK
<1>2. \A i \in 1..n : /\ window[i] \in Entry
                      /\ window[i].age \in Nat
  BY <1>1, ElementOfSeq, EntryOf
<1>3. \A i \in 1..n : /\ aged[i] \in Older
                      /\ aged[i].age = window[i].age + gap
  BY <1>1, <1>2 DEF Entry
<1>4. aged \in [1..n -> Older]
  BY <1>1, <1>3
<1>14. Slide(alert, gap) =
         SubSeq(w, IF First(young) < Len(w) - MaxAlerts + 1
                   THEN Len(w) - MaxAlerts + 1 ELSE First(young), Len(w))
  BY Zenon DEF Slide
<1>5. aged \in Seq(Older) /\ Len(aged) = n
  BY <1>1, <1>4
<1>. HIDE DEF aged
<1>6. alert \in Older
  BY DEF Entry
<1>7. /\ w \in Seq(Older) /\ Len(w) = n + 1 /\ DOMAIN w = 1..(n + 1)
      /\ \A i \in 1..n : w[i] = aged[i]
      /\ w[n + 1] = alert
  BY <1>5, <1>6, AppendProperties, LenProperties DEF Aged, aged
<1>. HIDE DEF w
<1>8. \A i \in 1..(n + 1) : w[i] \in Older /\ w[i].age \in Nat
  BY <1>3, <1>6, <1>7
<1>9. Sorted(w)
  <2>. SUFFICES ASSUME NEW i \in 1..(n + 1), NEW j \in 1..(n + 1), i <= j
                PROVE  w[j].age <= w[i].age
    BY <1>7 DEF Sorted
  <2>1. CASE j = n + 1
    BY <2>1, <1>7, <1>8
  <2>2. CASE j \in 1..n
    <3>1. i \in 1..n /\ window[j].age <= window[i].age
      BY <2>2, <1>1 DEF Sorted
    <3>2. w[i].age = window[i].age + gap /\ w[j].age = window[j].age + gap
      BY <3>1, <2>2, <1>3, <1>7
    <3>3. window[i].age \in Nat /\ window[j].age \in Nat
      BY <3>1, <2>2, <1>2
    <3>. QED  BY <3>1, <3>2, <3>3, <1>1
  <2>. QED  BY <1>1, <2>1, <2>2
<1>10. /\ young \in SUBSET Nat
       /\ n + 1 \in young
  BY <1>1, <1>7
<1>11. First(young) \in 1..(n + 1) /\ w[First(young)].age <= WindowSec
  <2>1. First(young) \in young
    BY <1>10, FirstOf
  <2>. QED  BY <2>1, <1>7
<1>12. /\ from \in 1..(n + 1) /\ from >= First(young) /\ from >= room
  BY <1>1, <1>11
<1>13. \A i \in from..(n + 1) : w[i] \in Entry
  <2>. SUFFICES ASSUME NEW i \in from..(n + 1)
                PROVE  w[i] \in Entry
    OBVIOUS
  <2>1. i \in 1..(n + 1) /\ First(young) <= i
    BY <1>11, <1>12
  <2>2. w[i].age <= w[First(young)].age
    BY <2>1, <1>7, <1>9, <1>11 DEF Sorted
  <2>3. w[i].age \in 0..WindowSec
    BY <2>1, <2>2, <1>1, <1>8, <1>11
  <2>. QED  BY <2>1, <2>3, <1>8 DEF Entry
<1>18. Slide(alert, gap) = SubSeq(w, from, n + 1)
  <2>1. Len(w) = n + 1
    BY <1>7
  <2>2. room = Len(w) - MaxAlerts + 1
    BY <2>1, <1>1
  <2>. HIDE DEF young, room, n
  <2>. QED  BY <2>1, <2>2, <1>14
<1>. HIDE DEF from, room, young
<1>15. /\ Slide(alert, gap) \in Seq(Entry)
       /\ Len(Slide(alert, gap)) = n + 1 - from + 1
       /\ \A i \in 1..(n + 1 - from + 1) : Slide(alert, gap)[i] = w[from + i - 1]
  BY <1>1, <1>12, <1>13, <1>18, SubSeqProperties
<1>16. Len(Slide(alert, gap)) \in 1..MaxAlerts
  BY <1>1, <1>12, <1>15 DEF room
<1>17. Sorted(Slide(alert, gap))
  <2>1. DOMAIN Slide(alert, gap) = 1..(n + 1 - from + 1)
    BY <1>15, LenProperties
  <2>. SUFFICES ASSUME NEW i \in 1..(n + 1 - from + 1), NEW j \in 1..(n + 1 - from + 1),
                       i <= j
                PROVE  Slide(alert, gap)[j].age <= Slide(alert, gap)[i].age
    BY <2>1 DEF Sorted
  <2>2. /\ from + i - 1 \in 1..(n + 1) /\ from + j - 1 \in 1..(n + 1)
        /\ from + i - 1 <= from + j - 1
    BY <1>1, <1>12
  <2>3. w[from + j - 1].age <= w[from + i - 1].age
    BY <2>2, <1>7, <1>9 DEF Sorted
  <2>. QED  BY <2>3, <1>15
<1>. QED  BY <1>15, <1>16, <1>17

-----------------------------------------------------------------------------
(* The alarms. *)

(* Where the loop over the patterns returns. *)
LEMMA StopOf ==
  ASSUME NEW held \in SUBSET Patterns
  PROVE  \/ /\ Stop(held) = 1
            /\ "correlated_cluster" \in held \ fired
         \/ /\ Stop(held) = 2
            /\ "correlated_cluster" \notin held \ fired
            /\ "multi_axis" \in held \ fired
         \/ /\ Stop(held) = 3
            /\ "correlated_cluster" \notin held \ fired
            /\ "multi_axis" \notin held \ fired
            /\ "alert_storm" \in held \ fired
         \/ /\ Stop(held) = 4
            /\ held \ fired = {}
<1>. DEFINE ready == {r \in 1..3 : PatternOrder[r] \in held \ fired}
<1>1. \A r \in 1..3 : r \in ready <=> PatternOrder[r] \in held \ fired
  OBVIOUS
<1>2. /\ 1 \in ready <=> "correlated_cluster" \in held \ fired
      /\ 2 \in ready <=> "multi_axis" \in held \ fired
      /\ 3 \in ready <=> "alert_storm" \in held \ fired
  BY <1>1 DEF PatternOrder
<1>3. ready \subseteq 1..3
  OBVIOUS
<1>4. Stop(held) = IF ready = {} THEN 4 ELSE First(ready)
  BY Zenon DEF Stop
<1>. HIDE DEF ready
<1>5. CASE ready = {}
  BY <1>2, <1>4, <1>5 DEF Patterns
<1>6. CASE ready # {}
  <2>1. First(ready) \in ready /\ \A j \in ready : First(ready) <= j
    BY <1>3, <1>6, FirstOf
  <2>2. CASE First(ready) = 1
    BY <1>2, <1>4, <1>6, <2>1, <2>2
  <2>3. CASE First(ready) = 2
    <3>1. 1 \notin ready
      BY <2>1, <2>3
    <3>. QED  BY <1>2, <1>4, <1>6, <2>1, <2>3, <3>1
  <2>4. CASE First(ready) = 3
    <3>1. 1 \notin ready /\ 2 \notin ready
      BY <2>1, <2>4
    <3>. QED  BY <1>2, <1>4, <1>6, <2>1, <2>4, <3>1
  <2>5. First(ready) \in {1, 2, 3}
    <3>1. 1..3 = {1, 2, 3}
      OBVIOUS
    <3>. QED  BY <1>3, <2>1, <3>1
  <2>. QED  BY <2>2, <2>3, <2>4, <2>5
<1>. QED  BY <1>5, <1>6

(* What the loop arms again before it returns. *)
LEMMA RearmedOf ==
  ASSUME NEW held \in SUBSET Patterns
  PROVE  /\ Rearmed(held) \subseteq Patterns \ held
         /\ Stop(held) = 1 => Rearmed(held) = {}
         /\ Stop(held) = 2 => Rearmed(held) = {"correlated_cluster"} \ held
         /\ Stop(held) = 3 => Rearmed(held) = {"correlated_cluster", "multi_axis"} \ held
<1>1. /\ PatternOrder[1] = "correlated_cluster"
      /\ PatternOrder[2] = "multi_axis"
      /\ PatternOrder[3] = "alert_storm"
  BY DEF PatternOrder
<1>2. Stop(held) \in 1..4
  BY StopOf
<1>3. Rearmed(held) = {PatternOrder[r] : r \in 1..(Stop(held) - 1)} \ held
  BY DEF Rearmed
<1>4. Rearmed(held) \subseteq Patterns \ held
  <2>1. \A r \in 1..(Stop(held) - 1) : PatternOrder[r] \in Patterns
    BY <1>1, <1>2 DEF Patterns
  <2>. QED  BY <1>3, <2>1
<1>5. Stop(held) = 1 => Rearmed(held) = {}
  BY <1>3
<1>6. Stop(held) = 2 => Rearmed(held) = {"correlated_cluster"} \ held
  BY <1>1, <1>3
<1>7. Stop(held) = 3 => Rearmed(held) = {"correlated_cluster", "multi_axis"} \ held
  BY <1>1, <1>3
<1>. QED  BY <1>4, <1>5, <1>6, <1>7

(* A pattern that was reported and not seen to clear is held back. *)
HeldBack == Patterns \ due \subseteq fired

(* An armed pattern goes unreported only while patterns before it take     *)
(* their turn, and each turn leaves its mark in fired.                     *)
Turns ==
  LET cluster == "correlated_cluster" \in fired
      axis    == "multi_axis" \in fired
  IN  /\ waiting["correlated_cluster"] = 0
      /\ waiting["multi_axis"] \in {0, 1}
      /\ waiting["multi_axis"] = 1 => cluster
      /\ waiting["alert_storm"] \in {0, 1, 2, 3}
      /\ waiting["alert_storm"] = 1 => cluster \/ axis
      /\ waiting["alert_storm"] = 2 => axis
      /\ waiting["alert_storm"] = 3 => cluster /\ axis

(* What an observation does to the alarms, by what it reports. *)
AlarmStep(held, reported) ==
  /\ held \in SUBSET Patterns /\ reported \in SUBSET held
  /\ fired' = (fired \ Rearmed(held)) \cup reported
  /\ due' = (due \cup (Patterns \ held)) \ reported
  /\ waiting' = [p \in Patterns |-> IF p \in held \ (fired \cup reported)
                                   THEN waiting[p] + 1 ELSE 0]
  /\ \/ Stop(held) = 1 /\ reported = {"correlated_cluster"}
     \/ Stop(held) = 2 /\ reported = {"multi_axis"}
     \/ Stop(held) = 3 /\ reported = {"alert_storm"}
     \/ Stop(held) = 4 /\ reported = {}

(* An observation keeps both parts of the alarm invariant. *)
LEMMA AlarmsStep ==
  ASSUME fired \subseteq Patterns, due \subseteq Patterns,
         HeldBack, Turns,
         NEW held, NEW reported, AlarmStep(held, reported)
  PROVE  /\ fired' \subseteq Patterns /\ due' \subseteq Patterns
         /\ HeldBack' /\ Turns'
<1>1. held \in SUBSET Patterns /\ reported \subseteq held
  BY DEF AlarmStep
<1>2. Rearmed(held) \subseteq Patterns \ held
  BY <1>1, RearmedOf
<1>3. fired' = (fired \ Rearmed(held)) \cup reported
  BY DEF AlarmStep
<1>4. due' = (due \cup (Patterns \ held)) \ reported
  BY DEF AlarmStep
<1>5. HeldBack'
  BY <1>1, <1>2, <1>3, <1>4 DEF HeldBack
<1>6. /\ waiting'["correlated_cluster"] =
           IF "correlated_cluster" \in held \ (fired \cup reported)
           THEN waiting["correlated_cluster"] + 1 ELSE 0
      /\ waiting'["multi_axis"] =
           IF "multi_axis" \in held \ (fired \cup reported)
           THEN waiting["multi_axis"] + 1 ELSE 0
      /\ waiting'["alert_storm"] =
           IF "alert_storm" \in held \ (fired \cup reported)
           THEN waiting["alert_storm"] + 1 ELSE 0
  BY DEF AlarmStep, Patterns
<1>7. Turns'
  <2>1. CASE Stop(held) = 1
    <3>1. /\ reported = {"correlated_cluster"} /\ Rearmed(held) = {}
          /\ "correlated_cluster" \notin fired
      BY <1>1, <2>1, RearmedOf, StopOf DEF AlarmStep
    <3>2. fired' = fired \cup {"correlated_cluster"}
      BY <1>3, <3>1
    <3>3. waiting["multi_axis"] = 0 /\ waiting["alert_storm"] \in {0, 1, 2}
      BY <3>1 DEF Turns
    <3>4. /\ waiting'["correlated_cluster"] = 0
          /\ waiting'["multi_axis"] \in {0, 1}
      BY <1>6, <3>1, <3>3
    <3>5. \/ waiting'["alert_storm"] = 0
          \/ waiting'["alert_storm"] = waiting["alert_storm"] + 1
      BY <1>6
    <3>6. waiting["alert_storm"] = 2 => "multi_axis" \in fired
      BY DEF Turns
    <3>7. \/ waiting'["alert_storm"] \in {0, 1, 2} /\
             (waiting'["alert_storm"] = 2 => waiting["alert_storm"] = 1)
          \/ waiting'["alert_storm"] = 3 /\ "multi_axis" \in fired
      BY <3>3, <3>5, <3>6
    <3>8. waiting["alert_storm"] = 1 => "multi_axis" \in fired
      BY <3>1 DEF Turns
    <3>. QED  BY <3>2, <3>4, <3>7, <3>8 DEF Turns
  <2>2. CASE Stop(held) = 2
    <3>1. /\ reported = {"multi_axis"}
          /\ Rearmed(held) = {"correlated_cluster"} \ held
          /\ "correlated_cluster" \notin held \ fired
          /\ "multi_axis" \notin fired
      BY <1>1, <2>2, RearmedOf, StopOf DEF AlarmStep
    <3>2. "multi_axis" \in fired'
      BY <1>3, <3>1
    <3>3. waiting["alert_storm"] \in {0, 1}
      BY <3>1 DEF Turns
    <3>4. waiting'["correlated_cluster"] = 0 /\ waiting'["multi_axis"] = 0
      BY <1>6, <3>1
    <3>5. waiting'["alert_storm"] \in {0, 1, 2}
      BY <1>6, <3>3
    <3>. QED  BY <3>2, <3>4, <3>5 DEF Turns
  <2>3. CASE Stop(held) = 3
    <3>1. /\ reported = {"alert_storm"}
          /\ "correlated_cluster" \notin held \ fired
          /\ "multi_axis" \notin held \ fired
      BY <1>1, <2>3, StopOf DEF AlarmStep
    <3>. QED  BY <1>6, <3>1 DEF Turns
  <2>4. CASE Stop(held) = 4
    <3>1. reported = {} /\ held \ fired = {}
      BY <1>1, <2>4, StopOf DEF AlarmStep
    <3>. QED  BY <1>6, <3>1 DEF Turns
  <2>. QED  BY <1>1, <2>1, <2>2, <2>3, <2>4, StopOf
<1>. QED  BY <1>1, <1>3, <1>4, <1>5, <1>7

-----------------------------------------------------------------------------
(* The invariant of the correlator, and the theorems. *)

Inv ==
  /\ TypeOK
  /\ Sorted(window)
  /\ HeldBack
  /\ Turns
  /\ incident.pattern = "correlated_cluster" => incident.members \in Eligible(window)

LEMMA Initially == Init => Inv
<1>. SUFFICES ASSUME Init PROVE Inv
  OBVIOUS
<1>1. window \in Seq(Entry) /\ Len(window) = 0 /\ DOMAIN window = {}
  BY EmptySeq DEF Init
<1>2. TypeOK
  BY <1>1, SettingsAssumption DEF Init, TypeOK, Nothing, Patterns
<1>3. Turns
  BY DEF Init, Turns, Patterns
<1>. QED  BY <1>1, <1>2, <1>3 DEF Init, Inv, Sorted, HeldBack, Nothing

(* One observation, told apart by what it reports. *)
LEMMA ObserveOf ==
  ASSUME Inv, NEW asset \in Assets, NEW iocs \in SUBSET Iocs, NEW gap \in 0..MaxGap,
         Observe(asset, iocs, gap)
  PROVE  /\ window' \in Seq(Entry) /\ Len(window') <= MaxAlerts /\ Sorted(window')
         /\ \E reported : /\ AlarmStep(Held(window'), reported)
                          /\ \/ incident' = Nothing
                             \/ \E p \in reported :
                                  incident' = [pattern |-> p, members |-> Members(p, window')]
<1>. DEFINE alert    == [age |-> 0, asset |-> asset, iocs |-> iocs]
            held     == Held(window')
            reported == IF Stop(held) = 4 THEN {} ELSE {PatternOrder[Stop(held)]}
<1>1. alert \in Entry /\ alert.age = 0
  BY SettingsAssumption DEF Entry
<1>2. window' = Slide(alert, gap)
  BY DEF Observe
<1>3. TypeOK /\ Sorted(window)
  BY DEF Inv
<1>. HIDE DEF alert
<1>4. /\ window' \in Seq(Entry) /\ Len(window') \in 1..MaxAlerts
      /\ Sorted(window')
  BY <1>1, <1>2, <1>3, SlideOf
<1>5. /\ fired' = (fired \ Rearmed(held)) \cup reported
      /\ incident' = IF reported = {} THEN Nothing
                     ELSE [pattern |-> PatternOrder[Stop(held)],
                           members |-> Members(PatternOrder[Stop(held)], window')]
      /\ due' = (due \cup (Patterns \ held)) \ reported
      /\ waiting' = [p \in Patterns |-> IF p \in held \ (fired \cup reported)
                                       THEN waiting[p] + 1 ELSE 0]
  BY DEF Observe
<1>6. held \in SUBSET Patterns
  BY DEF Held
<1>. HIDE DEF held
<1>7. /\ reported \in SUBSET held
      /\ \/ Stop(held) = 1 /\ reported = {"correlated_cluster"}
         \/ Stop(held) = 2 /\ reported = {"multi_axis"}
         \/ Stop(held) = 3 /\ reported = {"alert_storm"}
         \/ Stop(held) = 4 /\ reported = {}
  BY <1>6, StopOf DEF PatternOrder
<1>8. AlarmStep(held, reported)
  BY <1>5, <1>6, <1>7 DEF AlarmStep
<1>9. \/ incident' = Nothing
      \/ \E p \in reported :
           incident' = [pattern |-> p, members |-> Members(p, window')]
  BY <1>5
<1>10. Len(window') <= MaxAlerts
  BY <1>4, SettingsAssumption
<1>. QED  BY <1>4, <1>8, <1>9, <1>10 DEF held

LEMMA Preserved == Inv /\ [Next]_vars => Inv'
<1>. SUFFICES ASSUME Inv, [Next]_vars PROVE Inv'
  OBVIOUS
<1>1. ASSUME NEW asset \in Assets, NEW iocs \in SUBSET Iocs, NEW gap \in 0..MaxGap,
             Observe(asset, iocs, gap)
      PROVE  Inv'
  <2>1. /\ window' \in Seq(Entry) /\ Len(window') <= MaxAlerts /\ Sorted(window')
    BY <1>1, ObserveOf
  <2>2. PICK reported : /\ AlarmStep(Held(window'), reported)
                        /\ \/ incident' = Nothing
                           \/ \E p \in reported :
                                incident' = [pattern |-> p, members |-> Members(p, window')]
    BY <1>1, ObserveOf
  <2>3. /\ fired' \subseteq Patterns /\ due' \subseteq Patterns
        /\ HeldBack' /\ Turns'
    BY <2>2, AlarmsStep DEF Inv, TypeOK
  <2>4. waiting' \in [Patterns -> Nat]
    BY <2>2 DEF AlarmStep, Inv, TypeOK
  <2>5. CASE incident' = Nothing
    BY <2>1, <2>3, <2>4, <2>5 DEF Inv, TypeOK, Nothing, Patterns
  <2>6. CASE \E p \in reported : incident' = [pattern |-> p, members |-> Members(p, window')]
    <3>1. PICK p \in reported : incident' = [pattern |-> p, members |-> Members(p, window')]
      BY <2>6
    <3>2. p \in Held(window') /\ p \in Patterns
      BY <2>2, <3>1 DEF AlarmStep
    <3>3. p = "correlated_cluster" => Members(p, window') \in Eligible(window')
      <4>. HAVE p = "correlated_cluster"
      <4>1. Eligible(window') # {}
        BY <3>2 DEF Held
      <4>. QED  BY <2>1, <4>1, ClusterOf DEF Members
    <3>4. Members(p, window') \in SUBSET (1..MaxAlerts)
      <4>1. Members(p, window') \in SUBSET DOMAIN window'
        BY <3>3 DEF Members, Eligible, Components
      <4>2. DOMAIN window' = 1..Len(window') /\ Len(window') \in Nat
        BY <2>1, LenProperties
      <4>. QED  BY <2>1, <4>1, <4>2, SettingsAssumption
    <3>5. incident' \in [pattern : Patterns \cup {"none"}, members : SUBSET (1..MaxAlerts)]
      BY <3>1, <3>2, <3>4
    <3>. QED  BY <2>1, <2>3, <2>4, <3>1, <3>3, <3>5 DEF Inv, TypeOK
  <2>. QED  BY <2>2, <2>5, <2>6
<1>2. CASE Restart
  <2>1. Init'
    BY <1>2 DEF Restart, Init
  <2>. QED  BY <2>1, Initially, PTL
<1>3. CASE UNCHANGED vars
  BY <1>3 DEF vars, Inv, TypeOK, Sorted, HeldBack, Turns
<1>. QED  BY <1>1, <1>2, <1>3 DEF Next

LEMMA InvHolds == Spec => []Inv
<1>. QED  BY Initially, Preserved, PTL DEF Spec

(* Every variable has its type, and the window keeps within its hard cap,  *)
(* for every setting (core/correlation.py:100-109).                        *)
THEOREM TypeCorrect == Spec => []TypeOK
<1>1. Inv => TypeOK
  BY DEF Inv
<1>. QED  BY <1>1, InvHolds, PTL

(* No spell of a pattern is reported twice, whatever the other patterns do *)
(* (core/correlation.py:121-128).                                          *)
THEOREM OncePerSpell == Spec => ReportedOncePerSpell
<1>. DEFINE Report == incident'.pattern \in Patterns => incident'.pattern \in due
<1>1. Inv /\ [Next]_vars => [Report]_vars
  <2>. SUFFICES ASSUME Inv, Next PROVE Report
    OBVIOUS
  <2>1. ASSUME NEW asset \in Assets, NEW iocs \in SUBSET Iocs, NEW gap \in 0..MaxGap,
               Observe(asset, iocs, gap)
        PROVE  Report
    <3>1. PICK reported : /\ AlarmStep(Held(window'), reported)
                          /\ \/ incident' = Nothing
                             \/ \E p \in reported :
                                  incident' = [pattern |-> p, members |-> Members(p, window')]
      BY <2>1, ObserveOf
    <3>2. CASE incident' = Nothing
      BY <3>2 DEF Nothing, Patterns
    <3>3. CASE \E p \in reported : incident' = [pattern |-> p, members |-> Members(p, window')]
      <4>1. reported \cap fired = {} /\ reported \subseteq Patterns
        BY <3>1, StopOf DEF AlarmStep
      <4>2. incident'.pattern \in reported
        BY <3>3
      <4>. QED  BY <4>1, <4>2 DEF Inv, HeldBack
    <3>. QED  BY <3>1, <3>2, <3>3
  <2>2. CASE Restart
    BY <2>2 DEF Restart, Nothing, Patterns
  <2>. QED  BY <2>1, <2>2 DEF Next
<1>. QED  BY <1>1, InvHolds, PTL DEF Spec, ReportedOncePerSpell

(* A pattern that holds and is armed is reported at the fourth observation *)
(* at the latest, however often the patterns before it come and go         *)
(* (core/correlation.py:86, 121-128).                                      *)
THEOREM NotStarved == Spec => []ArmedIsNotStarved
<1>1. Inv => ArmedIsNotStarved
  BY DEF Inv, Turns, ArmedIsNotStarved, Patterns
<1>. QED  BY <1>1, InvHolds, PTL

(* A reported cluster is one whole group of related alerts, for every      *)
(* dependency graph and every window: the star-shaped edges of the         *)
(* union-find are enough (core/correlation.py:164-214).                    *)
THEOREM ClustersAreSemantic == Spec => []ClusterIsSemantic
<1>1. Inv => ClusterIsSemantic
  <2>. SUFFICES ASSUME Inv, incident.pattern = "correlated_cluster"
                PROVE  Semantic(window, incident.members)
    BY DEF ClusterIsSemantic, Semantic
  <2>. QED  BY EligibleIsSemantic DEF Inv, TypeOK
<1>. QED  BY <1>1, InvHolds, PTL
=============================================================================
