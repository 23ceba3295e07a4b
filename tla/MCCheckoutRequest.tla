-------------------------- MODULE MCCheckoutRequest --------------------------
(* Model values and symmetry for CheckoutRequest.                          *)
EXTENDS CheckoutRequest, TLC
Symmetry == Permutations(Products) \cup Permutations(Quotes)
              \cup Permutations(Submissions) \cup Permutations(Prices)
=============================================================================
