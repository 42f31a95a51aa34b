-------------------------- MODULE AlertCorrelator --------------------------
(***************************************************************************)
(* The cross-alert correlator of core/correlation.py, as the hot path      *)
(* (app/hotpath.py) drives it: one instance for the life of the process,   *)
(* one observation for each inbound alert whose own pipeline run has       *)
(* succeeded, never one for the aggregate alert it causes.                 *)
(*                                                                         *)
(* The window is a sequence of alerts with their age at the latest         *)
(* observation, so time is the gap before an alert; the clock never goes   *)
(* back.  An alert is its asset and its public indicators, which is all    *)
(* the patterns look at.                                                   *)
(***************************************************************************)
EXTENDS Integers, Sequences, FiniteSets

CONSTANTS
  Assets,           \* what alert.asset_id may be; "" and other unregistered
                    \* names are assets nothing depends on
  DependsOn,        \* <<x, y>>: asset x depends on asset y
  Iocs,             \* public indicators of compromise
  WindowSec,        \* window_sec
  StormCount,       \* storm_count
  MultiAxisAssets,  \* multi_axis_assets
  ClusterMin,       \* cluster_min
  MaxAlerts,        \* max_alerts
  MaxGap            \* bound: the longest time between two alerts

ASSUME SettingsAssumption ==
  /\ WindowSec \in Nat \ {0}
  /\ StormCount \in Nat \ {0}
  /\ MultiAxisAssets \in Nat \ {0}
  /\ ClusterMin \in Nat \ {0}
  /\ MaxAlerts \in Nat \ {0}
  /\ MaxGap \in Nat

ASSUME RegistryAssumption == DependsOn \subseteq Assets \X Assets

(* The patterns, the most important first. *)
PatternOrder == <<"correlated_cluster", "multi_axis", "alert_storm">>
Patterns     == {"correlated_cluster", "multi_axis", "alert_storm"}

Entry == [age : 0..WindowSec, asset : Assets, iocs : SUBSET Iocs]

VARIABLES
  window,    \* _window, oldest first
  fired,     \* _fired: the patterns not to be reported again for now
  incident,  \* what the latest observation returned
  (* history, which no action reads *)
  due,       \* patterns whose present or next spell is not reported yet
  waiting    \* how many observations in a row an armed pattern went unreported

vars == <<window, fired, incident, due, waiting>>

Nothing == [pattern |-> "none", members |-> {}]

-----------------------------------------------------------------------------
(* The semantic cluster: connected alerts, by shared indicators or by the  *)
(* dependencies between registered assets.                                 *)

First(S) == CHOOSE i \in S : \A j \in S : i <= j

Star(S) == IF S = {} THEN {} ELSE {<<First(S), j>> : j \in S}

(* Faulty variant: an indicator links its first two alerts only. *)
IocEdgesFirstTwo(w) ==
  UNION {LET S == {i \in DOMAIN w : h \in w[i].iocs}
         IN  IF Cardinality(S) < 2 THEN {}
             ELSE {<<First(S), First(S \ {First(S)})>>} : h \in Iocs}

IocEdges(w) == UNION {Star({i \in DOMAIN w : h \in w[i].iocs}) : h \in Iocs}

DepLinked(x, y) == x # y /\ (<<x, y>> \in DependsOn \/ <<y, x>> \in DependsOn)

At(w, x) == {i \in DOMAIN w : w[i].asset = x}

(* One edge for a pair of dependent assets, and every alert of an asset    *)
(* that is in such a pair.                                                 *)
DependencyEdges(w) ==
  LET present == {x \in Assets : At(w, x) # {}}
      pairs   == {p \in present \X present : DepLinked(p[1], p[2])}
  IN  {<<First(At(w, p[1])), First(At(w, p[2]))>> : p \in pairs}
      \cup UNION {Star(At(w, p[1])) : p \in pairs}

AssetsOf(w, S) == {w[i].asset : i \in S}

(* The result of the union-find: the smallest groups no edge leaves. *)
Components(w) ==
  LET edges  == IocEdges(w) \cup DependencyEdges(w)
      closed == {S \in (SUBSET DOMAIN w) \ {{}} :
                   \A e \in edges : e[1] \in S <=> e[2] \in S}
  IN  {S \in closed : \A T \in closed : T \subseteq S => T = S}

(* Large enough, and not one asset repeating itself. *)
Eligible(w) ==
  {C \in Components(w) :
     Cardinality(C) >= ClusterMin /\ Cardinality(AssetsOf(w, C)) >= 2}

(* The largest eligible group; among equals, the one seen first. *)
Cluster(w) ==
  LET eligible == Eligible(w)
  IN  CHOOSE C \in eligible : \A D \in eligible :
        \/ Cardinality(C) > Cardinality(D)
        \/ Cardinality(C) = Cardinality(D) /\ First(C) <= First(D)

-----------------------------------------------------------------------------
(* observe *)

Held(w) ==
  {p \in Patterns :
     CASE p = "correlated_cluster" -> Eligible(w) # {}
       [] p = "multi_axis"  -> Cardinality(AssetsOf(w, DOMAIN w)) >= MultiAxisAssets
       [] p = "alert_storm" -> Len(w) >= StormCount}

Aged(alert, gap) ==
  Append([i \in DOMAIN window |-> [window[i] EXCEPT !.age = @ + gap]], alert)

(* Append; pop the oldest while it is too old, then while the window is    *)
(* past its hard cap.                                                      *)
Slide(alert, gap) ==
  LET w     == Aged(alert, gap)
      young == First({i \in DOMAIN w : w[i].age <= WindowSec})
      room  == Len(w) - MaxAlerts + 1
  IN  SubSeq(w, IF young < room THEN room ELSE young, Len(w))

(* Faulty variants of Stop: a pattern is reported whenever it holds; a     *)
(* reported pattern hides the ones after it.                               *)
StopAtHeld(held) ==
  LET ready == {r \in 1..3 : PatternOrder[r] \in held}
  IN  IF ready = {} THEN 4 ELSE First(ready)

StopOfBest(held) ==
  LET best == {r \in 1..3 : PatternOrder[r] \in held}
  IN  IF best = {} THEN 4
      ELSE IF PatternOrder[First(best)] \in fired THEN 4 ELSE First(best)

(* Where the loop over the patterns returns: at the first that holds and   *)
(* is armed; 4 when it runs to its end.                                    *)
Stop(held) ==
  LET ready == {r \in 1..3 : PatternOrder[r] \in held \ fired}
  IN  IF ready = {} THEN 4 ELSE First(ready)

(* Patterns that do not hold are armed again, those up to the return.      *)
Rearmed(held) ==
  {PatternOrder[r] : r \in 1..(Stop(held) - 1)} \ held

Members(p, w) == IF p = "correlated_cluster" THEN Cluster(w) ELSE DOMAIN w

Observe(asset, iocs, gap) ==
  /\ window' = Slide([age |-> 0, asset |-> asset, iocs |-> iocs], gap)
  /\ \E held \in {Held(window')} :
       LET reported == IF Stop(held) = 4 THEN {} ELSE {PatternOrder[Stop(held)]}
       IN  /\ fired' = (fired \ Rearmed(held)) \cup reported
           /\ incident' = IF reported = {} THEN Nothing
                          ELSE LET p == PatternOrder[Stop(held)]
                               IN  [pattern |-> p, members |-> Members(p, window')]
           /\ due' = (due \cup (Patterns \ held)) \ reported
           /\ waiting' = [p \in Patterns |->
                            IF p \in held \ (fired \cup reported)
                            THEN waiting[p] + 1 ELSE 0]

(* The process restarts; reset() does the same for the tests. *)
Restart ==
  /\ window' = <<>>
  /\ fired' = {}
  /\ incident' = Nothing
  /\ due' = Patterns
  /\ waiting' = [p \in Patterns |-> 0]

Init ==
  /\ window = <<>>
  /\ fired = {}
  /\ incident = Nothing
  /\ due = Patterns
  /\ waiting = [p \in Patterns |-> 0]

Next ==
  \/ \E asset \in Assets, iocs \in SUBSET Iocs, gap \in 0..MaxGap :
       Observe(asset, iocs, gap)
  \/ Restart

Spec == Init /\ [][Next]_vars

-----------------------------------------------------------------------------
(* Properties. *)

(* Every variable has its type; the window never holds more than MaxAlerts *)
(* alerts, however fast they come (core/correlation.py:107-109).           *)
TypeOK ==
  /\ window \in Seq(Entry)
  /\ Len(window) <= MaxAlerts
  /\ fired \in SUBSET Patterns
  /\ incident \in [pattern : Patterns \cup {"none"}, members : SUBSET (1..MaxAlerts)]
  /\ due \in SUBSET Patterns
  /\ waiting \in [Patterns -> Nat]

(* A spell of a pattern is reported once: a second report needs an         *)
(* observation in between at which the pattern did not hold                *)
(* (core/correlation.py:121-128).                                          *)
ReportedOncePerSpell ==
  [][incident'.pattern \in Patterns => incident'.pattern \in due]_vars

(* Higher patterns do not starve an armed lower one                        *)
(* (core/correlation.py:86): whatever they do, it is reported before it    *)
(* has gone unreported at four observations in a row.                      *)
ArmedIsNotStarved == \A p \in Patterns : waiting[p] <= 3

(* Two alerts are related by a shared public indicator, by dependent       *)
(* assets, or by one asset that has a dependency in the window.            *)
Related(w, i, j) ==
  \/ w[i].iocs \cap w[j].iocs # {}
  \/ DepLinked(w[i].asset, w[j].asset)
  \/ /\ w[i].asset = w[j].asset
     /\ \E k \in DOMAIN w : DepLinked(w[i].asset, w[k].asset)

(* A reported cluster is one connected group of related alerts, whole: the *)
(* star-shaped edges of the union-find neither split it nor join strangers *)
(* (core/correlation.py:164-214).                                          *)
ClusterIsSemantic ==
  incident.pattern = "correlated_cluster" =>
    LET C == incident.members
    IN  /\ \A i \in C, j \in DOMAIN window \ C : ~Related(window, i, j)
        /\ \A S \in (SUBSET C) \ {{}, C} :
             \E i \in S, j \in C \ S : Related(window, i, j)
        /\ Cardinality(AssetsOf(window, C)) >= 2

=============================================================================
