---------------------------- MODULE Reservation ----------------------------
(***************************************************************************)
(* What a purchase promises about the stock it reserved: each order's      *)
(* units are sold or go back to the shelf, once; a sale takes every order  *)
(* still held, so after one nothing is left waiting.                       *)
(* (src/backend/lib/inventory.ts, "reserve -> commit xor release".)        *)
(***************************************************************************)
CONSTANT Orders
VARIABLE hold

Init == hold = [o \in Orders |-> "held"]

Held == {o \in Orders : hold[o] = "held"}
Decide(S, fate) == /\ S # {}
                   /\ hold' = [o \in Orders |-> IF o \in S THEN fate ELSE hold[o]]

SellAll   == Decide(Held, "sold")
ReturnAll == Decide(Held, "returned")
ReturnOne == \E o \in Held : Decide({o}, "returned")

Next == SellAll \/ ReturnAll \/ ReturnOne
Spec == Init /\ [][Next]_hold
=============================================================================
