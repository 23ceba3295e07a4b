---------------------------- MODULE RefundLedger ----------------------------
(***************************************************************************)
(* The refunds of one captured charge: the operator's refund requests      *)
(* (POST /api/admin/orders/:orderId/refund), the refund objects at Stripe, *)
(* and syncRefundFromStripe, run from the API's own answer and from every  *)
(* refund webhook.  A webhook carries the refund as it was when the event  *)
(* was made; events are handled in any order, and one may be handled again *)
(* when recording its completion failed.                                   *)
(* A definition marked "Mutant of X" is a slip X could have had.           *)
(***************************************************************************)
EXTENDS Naturals, Totals

CONSTANTS Refunds,   \* bound: the refund objects that can exist at Stripe
          Operators, \* bound: requests running at the same time
          Charge,    \* the captured amount, in units
          Amounts,   \* bound: the amounts operators ask for
          NoRefund

ASSUME NoRefundAssumption == NoRefund \notin Refunds
ASSUME AmountsAssumption == Charge \in Nat \ {0} /\ Amounts \subseteq 1..Charge

VARIABLES
  rows,      \* refunds rows, by provider refund id: their status
  recorded,  \* payments.refunded_amount
  told,      \* the orders were projected with a full refund
  stripe,    \* the refunds at Stripe: status, amount, and the key they were made with
  answered,  \* the status Stripe answered a refund's creation with
  events,    \* refund webhooks still to be handled: the refund as it was
  req        \* refund requests in flight
vars == <<rows, recorded, told, stripe, answered, events, req>>

RowStatuses == {"none", "pending", "succeeded", "failed"}
StripeStatuses == RowStatuses \cup {"canceled"}
Events == [refund : Refunds, status : StripeStatuses \ {"none"}]
Idle == [pc |-> "idle", amount |-> 0, position |-> 0, refund |-> NoRefund]

TypeOK ==
  /\ rows \in [Refunds -> RowStatuses]
  /\ recorded \in Nat
  /\ told \in BOOLEAN
  /\ stripe \in [Refunds -> [status : StripeStatuses, amount : 0..Charge, position : 0..Charge]]
  /\ answered \in [Refunds -> {"none", "pending", "succeeded"}]
  /\ events \subseteq Events
  /\ req \in [Operators -> [pc : {"idle", "checked", "create", "record", "sync"},
                            amount : 0..Charge, position : 0..Charge,
                            refund : Refunds \cup {NoRefund}]]

Init ==
  /\ rows = [r \in Refunds |-> "none"]
  /\ recorded = 0
  /\ told = FALSE
  /\ stripe = [r \in Refunds |-> [status |-> "none", amount |-> 0, position |-> 0]]
  /\ answered = [r \in Refunds |-> "none"]
  /\ events = {}
  /\ req = [o \in Operators |-> Idle]

Amount(r) == stripe[r].amount
AmountOf(S) == TotalOf([r \in Refunds |-> Amount(r)], S)
AtStripe(status) == {r \in Refunds : stripe[r].status = status}

-----------------------------------------------------------------------------
\* syncRefundFromStripe: one refund as reported, whatever reported it.
\* Mutant of Recomputed: the reported amount added to what was recorded.
Incremented(counted, r) == recorded + Amount(r)
Recomputed(counted, r) == AmountOf(counted)

\* The INSERT ... ON CONFLICT of a succeeded refund.
\* Mutant of Upserted: only a row the operator's request wrote is updated.
UpdatedOnly(r) == [rows EXCEPT ![r] = IF @ = "none" THEN @ ELSE "succeeded"]
Upserted(r) == [rows EXCEPT ![r] = "succeeded"]

\* How a report that is no success is stored.
\* Mutant of Stored: as it was reported.
StoredAsReported(status) == status
Stored(status) == IF status \in {"failed", "canceled"} THEN "failed" ELSE "pending"

Sync(r, status) ==
  IF status = "succeeded"
  THEN LET counted == {x \in Refunds : Upserted(r)[x] = "succeeded"}
       IN /\ rows' = Upserted(r)
          /\ recorded' = Recomputed(counted, r)
          /\ told' = (told \/ recorded' >= Charge)
  ELSE /\ rows' = [rows EXCEPT ![r] = IF @ = "none" THEN @ ELSE Stored(status)]
       /\ UNCHANGED <<recorded, told>>

-----------------------------------------------------------------------------
(* The operator's request.                                                 *)

\* The payments row is read: what is left to refund bounds the request.
Ask(o, a) ==
  /\ req[o].pc = "idle"
  /\ a <= Charge - recorded
  /\ req' = [req EXCEPT ![o] = [Idle EXCEPT !.pc = "checked", !.amount = a, !.position = recorded]]
  /\ UNCHANGED <<rows, recorded, told, stripe, answered, events>>

\* A pending or succeeded refund of the same amount is answered instead of a new one.
Duplicate(o) == \E r \in Refunds : /\ rows[r] \in {"pending", "succeeded"}
                                   /\ Amount(r) = req[o].amount
CheckDuplicate(o) ==
  /\ req[o].pc = "checked"
  /\ req' = [req EXCEPT ![o] = IF Duplicate(o) THEN Idle ELSE [@ EXCEPT !.pc = "create"]]
  /\ UNCHANGED <<rows, recorded, told, stripe, answered, events>>

\* refunds.create with a key made of the position and the amount: Stripe answers
\* a known key as it did the first time, and refuses to exceed the charge.
SameKey(o, r) == /\ stripe[r].status # "none"
                 /\ Amount(r) = req[o].amount
                 /\ stripe[r].position = req[o].position
Create(o) ==
  /\ req[o].pc = "create"
  /\ \/ \E r \in Refunds : /\ SameKey(o, r)
                           /\ req' = [req EXCEPT ![o].pc = "record", ![o].refund = r]
                           /\ UNCHANGED <<stripe, answered, events>>
     \/ /\ ~ \E r \in Refunds : SameKey(o, r)
        /\ req[o].amount + AmountOf(AtStripe("pending") \cup AtStripe("succeeded")) <= Charge
        /\ \E r \in Refunds, s \in {"pending", "succeeded"} :
             /\ stripe[r].status = "none"
             /\ stripe' = [stripe EXCEPT ![r] = [status |-> s, amount |-> req[o].amount,
                                                 position |-> req[o].position]]
             /\ answered' = [answered EXCEPT ![r] = s]
             /\ events' = events \cup {[refund |-> r, status |-> s]}
             /\ req' = [req EXCEPT ![o].pc = "record", ![o].refund = r]
  /\ UNCHANGED <<rows, recorded, told>>

\* Recorded as pending first; a row a webhook already wrote is left alone.
Record(o) ==
  LET r == req[o].refund
  IN /\ req[o].pc = "record"
     /\ rows' = [rows EXCEPT ![r] = IF @ = "none" THEN "pending" ELSE @]
     /\ req' = [req EXCEPT ![o].pc = "sync"]
     /\ UNCHANGED <<recorded, told, stripe, answered, events>>

SyncAnswer(o) ==
  /\ req[o].pc = "sync"
  /\ Sync(req[o].refund, answered[req[o].refund])
  /\ req' = [req EXCEPT ![o] = Idle]
  /\ UNCHANGED <<stripe, answered, events>>

\* An error from Stripe or the database, a lost connection or a restart.
GiveUp(o) ==
  /\ req[o].pc # "idle"
  /\ req' = [req EXCEPT ![o] = Idle]
  /\ UNCHANGED <<rows, recorded, told, stripe, answered, events>>

Operator(o) == \/ \E a \in Amounts : Ask(o, a)
               \/ CheckDuplicate(o) \/ Create(o) \/ Record(o) \/ SyncAnswer(o) \/ GiveUp(o)

-----------------------------------------------------------------------------
\* Stripe: a pending refund ends.
Finish(r, status) ==
  /\ stripe[r].status = "pending"
  /\ stripe' = [stripe EXCEPT ![r].status = status]
  /\ events' = events \cup {[refund |-> r, status |-> status]}
  /\ UNCHANGED <<rows, recorded, told, answered, req>>

\* charge.refunded, refund.created, refund.updated, refund.failed.
Handle(e) == Sync(e.refund, e.status) /\ UNCHANGED <<stripe, answered, req>>
Deliver(e) == e \in events /\ events' = events \ {e} /\ Handle(e)
DeliverAgain(e) == e \in events /\ UNCHANGED events /\ Handle(e)

Next ==
  \/ \E o \in Operators : Operator(o)
  \/ \E r \in Refunds, s \in {"succeeded", "failed", "canceled"} : Finish(r, s)
  \/ \E e \in events : Deliver(e) \/ DeliverAgain(e)

Spec == Init /\ [][Next]_vars

\* Stripe redelivers until an event is handled; operators owe nothing.
FairSpec == Spec /\ \A e \in Events : WF_vars(Deliver(e))

-----------------------------------------------------------------------------
\* The ledger never claims money back that did not go back: neither the recorded
\* amount nor an order shown as refunded runs ahead of Stripe, whatever is
\* replayed, reordered, retried or lost (stripe.ts:1566-1573).
NeverOverclaims ==
  /\ recorded <= AmountOf(AtStripe("succeeded"))
  /\ told => AmountOf(AtStripe("succeeded")) = Charge

\* And the two tables agree: the refunds shown as succeeded never come to more than
\* the amount recorded, which bounds what may still be refunded (stripe.ts:1670-1681).
Confirmed == {r \in Refunds : rows[r] = "succeeded"}
RowsAreRecorded == AmountOf(Confirmed) <= recorded

\* A refund that succeeded at Stripe reaches the ledger, also when the request that
\* made it died before its row was written.
SucceededRefundIsRecorded ==
  \A r \in Refunds : <>(stripe[r].status = "succeeded") => <>(rows[r] = "succeeded")
=============================================================================
