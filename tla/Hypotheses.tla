----------------------------- MODULE Hypotheses -----------------------------
(***************************************************************************)
(* The competing hypotheses of core/hypothesis.py: what an investigation   *)
(* found is evidence for or against each of a catalogue of explanations,   *)
(* one of them that nothing happened.  The least refuted comes first.      *)
(*                                                                         *)
(* Strengths and weights are in tenths.  The syntax of conditions and the  *)
(* errors of the catalogue's file are left out.                            *)
(***************************************************************************)
EXTENDS Integers, FiniteSets, SequencesExt

CONSTANTS
  Catalog  \* hypotheses [id, place, rules], place that of the id in the alphabet,
           \* rules a sequence of [key, least, supports, weight]

NullHypothesis == "HYP-BENIGN-ENV"

(* What the loader demands of a rule, and of the catalogue. *)
LoadableRule(r) == r.weight \in 1..10 /\ r.least \in Nat \ {0} /\ r.supports \in BOOLEAN

Loadable(catalog) ==
  /\ IsFiniteSet(catalog)
  /\ \E h \in catalog : h.id = NullHypothesis
  /\ \A g, h \in catalog : g.id = h.id \/ g.place = h.place => g = h
  /\ \A h \in catalog :
       /\ h.place \in Nat
       /\ h.rules \in Seq(Range(h.rules)) /\ h.rules # <<>>
       /\ \A i \in DOMAIN h.rules : LoadableRule(h.rules[i])

ASSUME CatalogAssumption == Loadable(Catalog)

Matches(r, evidence) == r.key \in DOMAIN evidence /\ evidence[r.key] >= r.least

(* The rules that matched.                                                 *)
Ledger(h, evidence) == {r \in Range(h.rules) : Matches(r, evidence)}

(* What a rule is worth for one side or the other.                         *)
Worth(r, evidence, supports) ==
  IF r.supports = supports /\ Matches(r, evidence)
  THEN r.weight * Min({10, evidence[r.key]}) ELSE 0

(* The sums of what the first rules, and the next, are worth.              *)
Sums(rules, evidence, supports) ==
  LET sum[i \in 0..Len(rules)] ==
        IF i = 0 THEN 0 ELSE sum[i - 1] + Worth(rules[i], evidence, supports)
  IN  sum

Weighed(rules, evidence, supports) == Sums(rules, evidence, supports)[Len(rules)]

Assessed(h, evidence) ==
  [id |-> h.id, place |-> h.place, ledger |-> Ledger(h, evidence),
   support    |-> Weighed(h.rules, evidence, TRUE),
   refutation |-> Weighed(h.rules, evidence, FALSE)]

(* Faulty variant: the one with the most support first. *)
PrecedesBySupport(a, b) ==
  \/ a.support > b.support
  \/ a.support = b.support /\ a.refutation < b.refutation
  \/ a.support = b.support /\ a.refutation = b.refutation /\ a.place < b.place

Precedes(a, b) ==
  \/ a.refutation < b.refutation
  \/ a.refutation = b.refutation /\ a.support > b.support
  \/ a.refutation = b.refutation /\ a.support = b.support /\ a.place < b.place

(* Evidence that speaks the same way of every hypothesis tells none apart. *)
Nondiagnostic(assessments) ==
  LET ways(key, a) == {r.supports : r \in {r \in a.ledger : r.key = key}}
      keys         == {r.key : r \in UNION {a.ledger : a \in assessments}}
  IN  {k \in keys : /\ Cardinality(assessments) > 1
                    /\ \A a \in assessments : ways(k, a) # {}
                    /\ Cardinality(UNION {ways(k, a) : a \in assessments}) = 1}

(* The n-th of the assessments: so many precede it.                        *)
Placed(assessments, n) ==
  CHOOSE a \in assessments : Cardinality({b \in assessments : Precedes(b, a)}) = n - 1

(* Without any evidence nothing is ranked. *)
Ranked(evidence) ==
  LET all     == {Assessed(h, evidence) : h \in Catalog}
      said(a) == [id |-> a.id, apart |-> {r.key : r \in a.ledger} \ Nondiagnostic(all)]
  IN  IF \A a \in all : a.ledger = {} THEN <<>>
      ELSE [n \in 1..Cardinality(all) |-> said(Placed(all, n))]

-----------------------------------------------------------------------------
(* What the shipped catalogue has besides.  Either flag of an alert speaks *)
(* against the null hypothesis, and some other explanation is refuted by   *)
(* one rule at most, which weighs less.                                    *)
Refuting(h) == {i \in DOMAIN h.rules : ~h.rules[i].supports}

Discerns(catalog) ==
  \E h \in catalog :
    /\ h.id # NullHypothesis
    /\ \A i, j \in Refuting(h) : i = j
    /\ \A null \in catalog : null.id = NullHypothesis =>
         \A key \in {"kill_chain_advanced", "decoy_hit"} :
           \E i \in Refuting(null) :
             /\ null.rules[i].key = key /\ null.rules[i].least <= 10
             /\ \A j \in Refuting(h) : h.rules[j].weight < null.rules[i].weight
=============================================================================
