--------------------------- MODULE MCSellerReview ---------------------------
(* Submissions and reviewers are interchangeable. *)
EXTENDS SellerReview

Symmetry == Permutations(Records) \cup Permutations(Reviewers)
=============================================================================
