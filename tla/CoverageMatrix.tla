--------------------------- MODULE CoverageMatrix ---------------------------
(***************************************************************************)
(* The matrix of tactics and techniques of tools/coverage.py, loaded from  *)
(* data/attack_coverage.yaml: a tactic's place in the kill chain, a        *)
(* technique's tactic, and the techniques no rule detects.  Names of       *)
(* tactics, scores of data quality and the KPI report are left out.        *)
(***************************************************************************)
EXTENDS Integers, Sequences, FiniteSets, FiniteSetsExt

CONSTANTS
  Matrix,   \* the rows: [tactic, order, covered, planned, uncovered]
  NoTactic  \* tactic_of: a technique outside the matrix

(* The file has one row for a tactic, and no two rows share an order.      *)
ASSUME MatrixAssumption ==
  /\ IsFiniteSet(Matrix)
  /\ \A r \in Matrix : /\ r.order \in Nat \ {0} /\ r.tactic # NoTactic
                      /\ IsFiniteSet(r.covered \cup r.planned \cup r.uncovered)
  /\ \A r, s \in Matrix : r.order = s.order \/ r.tactic = s.tactic => r = s

Techniques(row) == row.covered \cup row.planned \cup row.uncovered

(* None is 0 here: the rows are counted from 1.                            *)
TacticOrder(tactic) ==
  LET rows == {r \in Matrix : r.tactic = tactic}
  IN  IF rows = {} THEN 0 ELSE (CHOOSE r \in rows : TRUE).order

(* The first row in kill chain order that has it.                          *)
RowOf(technique) ==
  LET rows == {r \in Matrix : technique \in Techniques(r)}
  IN  CHOOSE r \in rows : \A s \in rows : r.order <= s.order

Mapped(technique) == \E r \in Matrix : technique \in Techniques(r)

TacticOf(technique) == IF Mapped(technique) THEN RowOf(technique).tactic ELSE NoTactic

MaxTacticOrder(tactics) == Max({TacticOrder(t) : t \in tactics} \cup {0})

(* The one that is furthest down the kill chain.                           *)
Furthest(tactics) ==
  CHOOSE t \in tactics : \A u \in tactics : TacticOrder(u) <= TacticOrder(t)

(* The techniques of the rows within one of a tactic that was reached.     *)
GapsAround(tactics) ==
  LET orders == {TacticOrder(t) : t \in tactics} \ {0}
      near   == {r \in Matrix : \E o \in orders : r.order \in (o - 1)..(o + 1)}
  IN  UNION {{[focus |-> g, order |-> r.order] : g \in r.uncovered} : r \in near}
=============================================================================
