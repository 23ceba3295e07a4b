--------------------------- MODULE MCRefundLedger ---------------------------
(* Model values and symmetry for RefundLedger.                             *)
EXTENDS RefundLedgerProof, TLC
Symmetry == Permutations(Refunds) \cup Permutations(Operators)
=============================================================================
