------------------------------- MODULE Totals -------------------------------
(***************************************************************************)
(* Sums over rows, the SELECT SUM(...) of the ledgers, as the number of    *)
(* units the rows hold: what a sum is then follows from counting, without  *)
(* an induction over the rows.                                             *)
(***************************************************************************)
EXTENDS Naturals, FiniteSets

\* The units of the rows S, one by one, when row x holds n[x] of them.
UnitsOf(n, S) == UNION {{x} \X (1..n[x]) : x \in S}

TotalOf(n, S) == Cardinality(UnitsOf(n, S))
=============================================================================
