------------------------------- MODULE Shelf -------------------------------
(***************************************************************************)
(* What the stock counters promise a shopper, with no locks, statements or *)
(* transactions in sight: an order takes its whole basket when all of it   *)
(* is available, or nothing; what it took is later sold, or returned, once *)
(* (src/backend/lib/inventory.ts, "the stock validation and the mutation   *)
(* happen in a single statement", "COMMIT+RELEASE ... impossible").        *)
(***************************************************************************)
EXTENDS Integers
CONSTANTS Rows, Orders, Baskets
VARIABLES avail,    \* units of each row a new order may still take
          took      \* "new", or what each order took and what became of it

Init == /\ avail \in [Rows -> Nat]
        /\ took = [o \in Orders |-> [fate |-> "new"]]

Take(o) == \E b \in Baskets :
  /\ took[o].fate = "new"
  /\ \A r \in Rows : b[r] <= avail[r]
  /\ avail' = [r \in Rows |-> avail[r] - b[r]]
  /\ took' = [took EXCEPT ![o] = [fate |-> "open", basket |-> b]]

End(o, fate) ==
  /\ took[o].fate = "open"
  /\ took' = [took EXCEPT ![o] = [fate |-> fate, basket |-> took[o].basket]]

Sell(o)     == End(o, "sold") /\ UNCHANGED avail
GiveBack(o) == End(o, "released") /\ avail' = [r \in Rows |-> avail[r] + took[o].basket[r]]

\* The seller counts a row again: what open orders hold stays theirs.
Recount == \E r \in Rows : /\ avail' \in [Rows -> Nat]
                           /\ \A s \in Rows \ {r} : avail'[s] = avail[s]
                           /\ UNCHANGED took

Next == Recount \/ \E o \in Orders : Take(o) \/ Sell(o) \/ GiveBack(o)
Spec == Init /\ [][Next]_<<avail, took>>
=============================================================================
