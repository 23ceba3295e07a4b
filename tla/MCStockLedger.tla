--------------------------- MODULE MCStockLedger ---------------------------
(* Baskets for StockLedger: one row, several units of one, or every row.   *)
EXTENDS StockLedger, Functions
CONSTANTS MaxUnits,
          Plain, Styled   \* a product without variants, one with

\* Counting units is summing.
ASSUME TotalsAreSums ==
  \A n \in [1..3 -> 0..3], S \in SUBSET (1..3) : TotalOf(n, S) = SumFunctionOnSet(n, S)

MCCatalogue == {Plain, Styled}
MCOwner == [r \in Rows |-> IF r \in Products THEN Plain ELSE Styled]

MCBaskets == {[r \in Rows |-> IF r = s THEN MaxUnits ELSE 0] : s \in Rows}
             \cup {[r \in Rows |-> 1]}
=============================================================================
