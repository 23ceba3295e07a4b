----------------------------- MODULE MCPurchase -----------------------------
(* Model values and symmetry for Purchase.                                 *)
EXTENDS PurchaseProof, TLC
Symmetry == Permutations(Orders) \cup Permutations(Sessions) \cup Permutations(Requests)
=============================================================================
