--------------------------- MODULE CaseLifecycle ---------------------------
(***************************************************************************)
(* What the incident store promises about one actor's case, whatever the   *)
(* store, the alerts and their order: an unvouched alert brings a case no  *)
(* further than ANALYSIS; after that it goes one stage at a time, forward, *)
(* and only for keys a trusted observation can name; the single way back   *)
(* is a bounded number of reopenings of a closed case.  A case may be      *)
(* forgotten (evicted, or folded into another case), one at a time and     *)
(* never in the step that works on it.                                     *)
(***************************************************************************)
EXTENDS Naturals

CONSTANTS
  Keys,       \* what a case may be filed under
  Trusted,    \* the keys, among those, a trusted observation can name
  MaxReopen   \* reopenings of one case

VARIABLES phase, reopens

lifecycle == <<phase, reopens>>

Phases == {"ABSENT", "NEW", "ANALYSIS", "CONTAINMENT",
           "ERADICATION", "RECOVERY", "CLOSED"}

(* What any alert may do to a case. *)
Untrusted == {<<"ABSENT", "ANALYSIS">>, <<"NEW", "ANALYSIS">>}

(* What a trusted observation may do, reopening apart. *)
Vouched == {<<"ABSENT", "NEW">>, <<"ABSENT", "ANALYSIS">>, <<"NEW", "ANALYSIS">>,
            <<"ABSENT", "CONTAINMENT">>, <<"NEW", "CONTAINMENT">>,
            <<"ANALYSIS", "CONTAINMENT">>, <<"CONTAINMENT", "ERADICATION">>,
            <<"ERADICATION", "RECOVERY">>, <<"RECOVERY", "CLOSED">>}

Moves(k) == IF k \in Trusted THEN Vouched ELSE Untrusted

(* Key k goes from phase p to phase q, and D is forgotten in passing. *)
Move(k, p, q, D) ==
  /\ phase[k] = p
  /\ phase' = [l \in Keys |-> IF l = k THEN q
                              ELSE IF l \in D THEN "ABSENT" ELSE phase[l]]
  /\ reopens' = [l \in Keys |-> IF l \in D THEN 0 ELSE reopens[l]]

(* One other key at most. *)
Others(k) == {{}} \cup {{l} : l \in Keys \ {k}}

Advance(k) == \E D \in Others(k), m \in Moves(k) : Move(k, m[1], m[2], D)

(* The case is worked on but stays where it is. *)
Stay(k) == /\ phase[k] # "ABSENT"
           /\ \E D \in Others(k) : Move(k, phase[k], phase[k], D)

Reopen(k) ==
  /\ k \in Trusted
  /\ phase[k] = "CLOSED"
  /\ reopens[k] < MaxReopen
  /\ \E D \in Others(k) :
       /\ phase' = [l \in Keys |-> IF l = k THEN "CONTAINMENT"
                                   ELSE IF l \in D THEN "ABSENT" ELSE phase[l]]
       /\ reopens' = [l \in Keys |-> IF l = k THEN reopens[k] + 1
                                     ELSE IF l \in D THEN 0 ELSE reopens[l]]

Init == /\ phase = [k \in Keys |-> "ABSENT"]
        /\ reopens = [k \in Keys |-> 0]

Next == \E k \in Keys : Advance(k) \/ Stay(k) \/ Reopen(k)

Spec == Init /\ [][Next]_lifecycle
=============================================================================
