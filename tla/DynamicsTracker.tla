-------------------------- MODULE DynamicsTracker --------------------------
(***************************************************************************)
(* How long a threat has been dwelling and whether an upstream asset is    *)
(* under attack: the tracker that the hot path shares between all its      *)
(* graph runs (core/dynamics.py, app/hotpath.py:98-133).                   *)
(*                                                                         *)
(* The HTTP server handles one request after the other, so enrich is one   *)
(* step.  An alert arrives with dwelling_min 0 and lateral_correlation     *)
(* False, which are internal fields (core/alert.py:85), so merging leaves  *)
(* what the tracker computes.  Time is the receiving clock, which does not *)
(* go back, in ticks from 1; 0 stands for "not in the dictionary".         *)
(***************************************************************************)
EXTENDS Naturals, FiniteSets

CONSTANTS
  Assets,      \* asset ids
  Scenarios,   \* scenario ids
  Upstream,    \* the assets for which _is_upstream holds
  Retention,   \* retention_min, in ticks
  Window,      \* upstream_active_min, in ticks
  MaxEntries,  \* max_entries
  Minute,      \* ticks of a minute
  Horizon      \* bound of the clock

ASSUME DynamicsAssumption ==
  /\ IsFiniteSet(Assets) /\ IsFiniteSet(Scenarios)
  /\ Upstream \subseteq Assets
  /\ Retention \in Nat /\ Window \in Nat /\ Horizon \in Nat \ {0}
  /\ MaxEntries \in Nat \ {0} /\ Minute \in Nat \ {0}

Keys == Assets \X Scenarios

VARIABLES
  now,       \* the clock
  first,     \* _first_seen
  last,      \* _last_seen
  up,        \* _upstream_seen
  out,       \* the alert enriched last, if any
  (* history, which no action reads *)
  began,     \* when the activity of a key began that was going on at heard
  heard,     \* when a key was last observed
  attacked,  \* when an upstream asset was last observed
  crowded    \* keys that MaxEntries others overtook during their activity

vars == <<now, first, last, up, out, began, heard, attacked, crowded>>

Time == 0 .. Horizon

-----------------------------------------------------------------------------
(* The entries of a dictionary. *)
Entries(seen) == {x \in DOMAIN seen : seen[x] # 0}

(* Faulty variant of Stale: a threat is dropped for its age.               *)
StaleByAge(k) == now - first[k] > Retention

(* _evict drops what has been silent for too long. *)
Stale(k) == now - last[k] > Retention

(* Faulty variant of Overflow: the newest entry goes.                      *)
OverflowNewest(seen, x) ==
  IF Cardinality(Entries(seen)) > MaxEntries THEN {{x}} ELSE {{}}

(* _enforce_cap: of a dictionary into which x has just been put the oldest *)
(* entry goes when there are too many.  Of equally old ones min() takes    *)
(* the one inserted first, which x is not.  One entry is put in at a time, *)
(* so one goes at most.                                                    *)
Overflow(seen, x) ==
  IF Cardinality(Entries(seen)) > MaxEntries
  THEN {{y} : y \in {z \in Entries(seen) \ {x} : \A w \in Entries(seen) : seen[z] <= seen[w]}}
  ELSE {{}}

Without(seen, gone) == [x \in DOMAIN seen |-> IF x \in gone THEN 0 ELSE seen[x]]

(* The dictionaries after _evict and the observation of key k. *)
FirstSeen(k) ==
  [Without(first, {q \in Keys : Stale(q)}) EXCEPT ![k] = IF @ = 0 THEN now ELSE @]

LastSeen(k) == [Without(last, {q \in Keys : Stale(q)}) EXCEPT ![k] = now]

UpstreamSeen(k) ==
  [b \in Upstream |-> IF b = k[1] THEN now
                      ELSE IF now - up[b] > Window THEN 0 ELSE up[b]]

(* What the alerts alone say: the activity of a key goes on as long as it  *)
(* is never silent for longer than Retention.                              *)
Ongoing(k) == heard[k] # 0 /\ now - heard[k] <= Retention

Observed(k) ==
  /\ heard' = [heard EXCEPT ![k] = now]
  /\ began' = [began EXCEPT ![k] = IF Ongoing(k) THEN @ ELSE now]
  /\ attacked' = [b \in Upstream |-> IF b = k[1] THEN now ELSE attacked[b]]
  /\ crowded' = (IF Ongoing(k) THEN crowded ELSE crowded \ {k})
                  \cup {q \in Keys \ {k} : MaxEntries <=
                          Cardinality({z \in Keys \ {q} : heard'[q] <= heard'[z]})}

Enrich(k) ==
  /\ \E gone \in Overflow(LastSeen(k), k) :
       /\ first' = Without(FirstSeen(k), gone)
       /\ last' = Without(LastSeen(k), gone)
  /\ \E gone \in Overflow(UpstreamSeen(k), k[1]) : up' = Without(UpstreamSeen(k), gone)
  /\ out' = {[key |-> k,
              dwell |-> (now - FirstSeen(k)[k]) \div Minute,
              lateral |-> k[1] \notin Upstream /\ Entries(UpstreamSeen(k)) # {}]}
  /\ Observed(k)
  /\ UNCHANGED now

Tick ==
  /\ now < Horizon
  /\ now' = now + 1
  /\ UNCHANGED <<first, last, up, out, began, heard, attacked, crowded>>

(* reset, and a new process. *)
Reset ==
  /\ first' = [k \in Keys |-> 0]
  /\ last' = [k \in Keys |-> 0]
  /\ up' = [b \in Upstream |-> 0]
  /\ out' = {}
  /\ began' = [k \in Keys |-> 0]
  /\ heard' = [k \in Keys |-> 0]
  /\ attacked' = [b \in Upstream |-> 0]
  /\ crowded' = {}
  /\ UNCHANGED now

Init ==
  /\ now = 1
  /\ first = [k \in Keys |-> 0]
  /\ last = [k \in Keys |-> 0]
  /\ up = [b \in Upstream |-> 0]
  /\ out = {}
  /\ began = [k \in Keys |-> 0]
  /\ heard = [k \in Keys |-> 0]
  /\ attacked = [b \in Upstream |-> 0]
  /\ crowded = {}

Next == Tick \/ Reset \/ \E k \in Keys : Enrich(k)

Spec == Init /\ [][Next]_vars

-----------------------------------------------------------------------------
(* Properties. *)

(* Every variable has its type, the two dictionaries of the threats have   *)
(* the same keys, and none outgrows max_entries (core/dynamics.py:98-111). *)
TypeOK ==
  /\ now \in Time
  /\ first \in [Keys -> Time] /\ last \in [Keys -> Time] /\ up \in [Upstream -> Time]
  /\ began \in [Keys -> Time] /\ heard \in [Keys -> Time]
  /\ attacked \in [Upstream -> Time]
  /\ crowded \in SUBSET Keys
  /\ out \in SUBSET [key : Keys, dwell : Nat, lateral : BOOLEAN]
  /\ Entries(first) = Entries(last)
  /\ Cardinality(Entries(last)) <= MaxEntries
  /\ Cardinality(Entries(up)) <= MaxEntries

(* The dwell of an alert never exceeds how long the threat has been active *)
(* and is never less, unless max_entries other threats were observed after *)
(* it in the meantime: silence alone, however it is distributed over the   *)
(* alerts, does not reset it (core/dynamics.py:14-16, 78-83).              *)
DwellIsActivity ==
  \A alert \in out :
    LET active == (heard[alert.key] - began[alert.key]) \div Minute
    IN  /\ alert.dwell <= active
        /\ alert.key \notin crowded => alert.dwell = active

(* An alert of a dependent asset is correlated exactly when an upstream    *)
(* asset was observed within the window, whatever eviction and cap have    *)
(* dropped (core/dynamics.py:10, 133-139).                                  *)
LateralIsUpstreamActive ==
  \A alert \in out :
    alert.lateral <=> /\ alert.key[1] \notin Upstream
                      /\ \E b \in Upstream : /\ attacked[b] # 0
                                             /\ heard[alert.key] - attacked[b] <= Window
=============================================================================
