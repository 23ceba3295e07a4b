------------------------------ MODULE Purchase ------------------------------
(***************************************************************************)
(* One purchase: the per-shop orders one checkout created, the Stripe      *)
(* sessions opened to pay them together, and everything that races over    *)
(* them - pay requests, webhooks, the customer's cancel, the reservation   *)
(* sweep, seller and VelCenter moves, refunds.                             *)
(*                                                                         *)
(* A database transaction that locks the order rows first is one action.   *)
(* A pay request takes no lock, so it is split at every unlocked read and  *)
(* every call to Stripe.  What runs after a commit (closing the session at *)
(* Stripe) is an action of its own and may never happen.                   *)
(*                                                                         *)
(* A definition marked "Mutant of X" is a slip X could have had; no action *)
(* uses it, a run with it in X's place must fail.                          *)
(***************************************************************************)
EXTENDS Naturals, OrderState

CONSTANTS Orders,     \* the member orders of the purchase
          Sessions,   \* bound: the Checkout Sessions that can ever be opened
          Requests,   \* bound: concurrent POST /api/stripe/checkout requests
          StaffTargets, \* bound: the machine statuses staff move an order to
          RefundKinds,  \* bound: what a refund leaves of the charge
          NoSession

ASSUME NoSessionAssumption == NoSession \notin Sessions
ASSUME StaffTargetsAssumption == StaffTargets \subseteq FulfillmentStatuses
ASSUME RefundKindsAssumption == RefundKinds \subseteq {"partially_refunded", "refunded"}

VARIABLES
  orders,     \* orders rows: status, axes, inventory_released
  row,        \* payments rows of the purchase, by the session they were opened with
  intent,     \* provider_payment_id of such a row: the session whose charge it names
  refund,     \* refund_status folded over the purchase's payments rows
  incidents,  \* payment_incidents: the payments rows an incident was raised for
  due,        \* payment_expires_at <= NOW(): one deadline, shared by the orders
  sess,       \* the sessions at Stripe
  events,     \* webhook events Stripe has still to get processed
  req,        \* pay requests in flight
  sweep,      \* the sweep has read this purchase as expirable, and saw these rows active
  closing,    \* sessions to expire at Stripe now that a commit ended the purchase
  commits,    \* history: commitOrderInventory calls per order
  releases    \* history: stock releases per order

dbVars  == <<orders, row, intent, refund, incidents, due>>
envVars == <<sess, events>>
runVars == <<req, sweep, closing>>
history == <<commits, releases>>
vars == <<dbVars, envVars, runVars, history>>

RowStatuses == {"none", "requires_action", "paid", "cancelled"}
SessionStates == {"none", "unseen", "open", "complete", "paid", "failed", "expired"}
EventKinds == {"session_paid", "session_failed", "session_expired",
               "intent_paid", "intent_failed", "intent_canceled"}
Events == [kind : EventKinds, session : Sessions]
RequestStates == {"idle", "checked", "active", "retire", "create", "insert", "mark"}

Abandonable == {"pending", "pending_payment"}
SweepIdle == [on |-> FALSE, saw |-> {}]

CustomerCancelable == {"pending", "pending_payment", "confirmed"}
\* Mutant of ReleasableStatuses: what the sweep ends is not released.
ReleasableUnlessExpired == {"pending", "pending_payment", "cancelled", "payment_failed"}
ReleasableStatuses == {"pending", "pending_payment", "cancelled", "payment_failed", "expired"}

TypeOK ==
  /\ orders \in [Orders -> [status : LegacyStatuses, axes : Axes, released : BOOLEAN]]
  /\ row \in [Sessions -> RowStatuses]
  /\ intent \in [Sessions -> Sessions \cup {NoSession}]
  /\ refund \in {"none", "partially_refunded", "refunded"}
  /\ incidents \in SUBSET Sessions
  /\ due \in BOOLEAN
  /\ sess \in [Sessions -> SessionStates]
  /\ events \in SUBSET Events
  /\ req \in [Requests -> [pc : RequestStates, session : Sessions \cup {NoSession}]]
  /\ sweep \in [on : BOOLEAN, saw : SUBSET Sessions]
  /\ closing \in SUBSET Sessions
  /\ commits \in [Orders -> Nat]
  /\ releases \in [Orders -> Nat]

\* As POST /api/customer/checkout commits it: stock reserved, nothing charged.
Init ==
  /\ orders = [o \in Orders |-> [status |-> "pending", axes |-> AxesFor("pending"),
                                 released |-> FALSE]]
  /\ row = [s \in Sessions |-> "none"]
  /\ intent = [s \in Sessions |-> NoSession]
  /\ refund = "none"
  /\ incidents = {}
  /\ due = FALSE
  /\ sess = [s \in Sessions |-> "none"]
  /\ events = {}
  /\ req = [r \in Requests |-> [pc |-> "idle", session |-> NoSession]]
  /\ sweep = SweepIdle
  /\ closing = {}
  /\ commits = [o \in Orders |-> 0]
  /\ releases = [o \in Orders |-> 0]

-----------------------------------------------------------------------------
(* Reads shared by the handlers.                                           *)

\* The partial unique index keeps at most one row active.
ActiveRows == {s \in Sessions : row[s] = "requires_action"}

\* A covering payment is paid: it outranks every cancellation.  (No writer
\* ever stores the other settled value, 'processing'.)
Settled == \E s \in Sessions : row[s] = "paid"

\* The fold over the covering rows.  An active row is always the newest: no row
\* is inserted while one is active.
LatestPaymentStatus ==
  IF refund # "none" THEN refund
  ELSE IF Settled THEN "paid"
  ELSE IF ActiveRows # {} THEN "requires_action"
  ELSE IF \E s \in Sessions : row[s] = "cancelled" THEN "cancelled"
  ELSE "unpaid"

\* Mutant of Expirable: an order nobody tried to pay is not swept.
ExpirableOnceMarked(o) == orders[o].status = "pending_payment" /\ ~orders[o].released
Expirable(o) == orders[o].status \in Abandonable /\ ~orders[o].released

\* No member blocks: firstBlockingOrder returned null.
PurchaseOpen == ~due /\ \A o \in Orders : Expirable(o)

\* An order row with its payment axis moved, or with both axes moved.
\* Mutant of Pay: the payment axis written over the projection.
PayOverwrites(rec, p) == [rec EXCEPT !.status = p]
Pay(rec, p) == [rec EXCEPT !.status = ProjectOrderStatusSql(p, rec.axes)]
Move(rec, p, axes) == [rec EXCEPT !.status = ProjectOrderStatus(p, axes), !.axes = axes]

\* releaseOrderInventory's claim on an order row already rewritten by its caller.
\* Mutant of ReleaseClaim: the stored flag is not consulted.
ReleaseClaimRepeats(rec) == rec.status \in ReleasableStatuses /\ ~Settled
ReleaseClaim(rec) == /\ ~rec.released
                     /\ rec.status \in ReleasableStatuses
                     /\ ~Settled
Release(rec) == [rec EXCEPT !.released = @ \/ ReleaseClaim(rec)]
ReleaseCount(rec) == IF ReleaseClaim(rec) THEN 1 ELSE 0

-----------------------------------------------------------------------------
(* POST /api/stripe/checkout: openCheckoutGroupSession.                    *)

Goto(r, pc, s) == req' = [req EXCEPT ![r] = [pc |-> pc, session |-> s]]
At(r, pc) == req[r].pc = pc
Emit(kinds, s) == events' = events \cup [kind : kinds, session : {s}]

ReadOrders(r) ==
  /\ At(r, "idle")
  /\ PurchaseOpen
  /\ Goto(r, "checked", NoSession)
  /\ UNCHANGED <<dbVars, envVars, sweep, closing, history>>

ReadActive(r) ==
  /\ At(r, "checked")
  /\ IF ActiveRows = {} THEN Goto(r, "create", NoSession)
     ELSE \E s \in ActiveRows : Goto(r, "active", s)
  /\ UNCHANGED <<dbVars, envVars, sweep, closing, history>>

\* The live session is for the rail asked for: its URL is handed out again.
Reuse(r) ==
  LET s == req[r].session
  IN /\ At(r, "active")
     /\ sess[s] \in {"unseen", "open"}
     /\ sess' = [sess EXCEPT ![s] = "open"]
     /\ Goto(r, "idle", NoSession)
     /\ UNCHANGED <<dbVars, events, sweep, closing, history>>

\* It is for another rail: it is expired at Stripe before its row is retired.
SwitchRail(r) ==
  LET s == req[r].session
  IN /\ At(r, "active")
     /\ sess[s] \in {"unseen", "open"}
     /\ sess' = [sess EXCEPT ![s] = "expired"]
     /\ Emit({"session_expired", "intent_canceled"}, s)
     /\ Goto(r, "retire", s)
     /\ UNCHANGED <<dbVars, sweep, closing, history>>

\* A session that can no longer be paid from its page: expired, or completed
\* without a payment (a delayed rail still pending, or failed).
\* Mutant of Unpayable: the attempt on another rail retired without closing its page.
UnpayableOrOther == {"open", "expired", "complete", "failed"}
Unpayable == {"expired", "complete", "failed"}

FindDead(r) ==
  LET s == req[r].session
  IN /\ At(r, "active")
     /\ sess[s] \in Unpayable
     /\ Goto(r, "retire", s)
     /\ UNCHANGED <<dbVars, envVars, sweep, closing, history>>

\* Mutant of RetiredRow: no status guard.
RetiredBlindly(s) == "cancelled"
RetiredRow(s) == IF row[s] = "requires_action" THEN "cancelled" ELSE row[s]

\* The caller is answered 409 either way; only a later request opens a session.
Retire(r) ==
  LET s == req[r].session
  IN /\ At(r, "retire")
     /\ row' = [row EXCEPT ![s] = RetiredRow(s)]
     /\ Goto(r, "idle", NoSession)
     /\ UNCHANGED <<orders, intent, refund, incidents, due, envVars, sweep, closing, history>>

\* The session exists at Stripe before any row names it; nobody has its URL yet.
CreateSession(r) ==
  /\ At(r, "create")
  /\ \E s \in Sessions : /\ sess[s] = "none"
                         /\ sess' = [sess EXCEPT ![s] = "unseen"]
                         /\ Goto(r, "insert", s)
  /\ UNCHANGED <<dbVars, events, sweep, closing, history>>

\* Stripe may or may not have created the PaymentIntent with the session.
InsertRow(r) ==
  LET s == req[r].session
  IN /\ At(r, "insert")
     /\ ActiveRows = {}
     /\ row' = [row EXCEPT ![s] = "requires_action"]
     /\ \E i \in {NoSession, s} : intent' = [intent EXCEPT ![s] = i]
     /\ Goto(r, "mark", s)
     /\ UNCHANGED <<orders, refund, incidents, due, envVars, sweep, closing, history>>

\* A concurrent request holds the active slot: our own session is closed.
LoseInsert(r) ==
  LET s == req[r].session
  IN /\ At(r, "insert")
     /\ ActiveRows # {}
     /\ \/ /\ sess[s] = "unseen"
           /\ sess' = [sess EXCEPT ![s] = "expired"]
           /\ Emit({"session_expired", "intent_canceled"}, s)
        \/ UNCHANGED envVars
     /\ Goto(r, "idle", NoSession)
     /\ UNCHANGED <<dbVars, sweep, closing, history>>

\* Every pending order shows pending_payment, then the URL is answered.
MarkOrders(r) ==
  LET s == req[r].session
  IN /\ At(r, "mark")
     /\ orders' = [o \in Orders |-> IF orders[o].status = "pending"
                                    THEN Pay(orders[o], "pending") ELSE orders[o]]
     /\ sess' = [sess EXCEPT ![s] = IF @ = "unseen" THEN "open" ELSE @]
     /\ Goto(r, "idle", NoSession)
     /\ UNCHANGED <<row, intent, refund, incidents, due, events, sweep, closing, history>>

\* A 409, a refusal from Stripe, a lost connection or a restart.
GiveUp(r) ==
  /\ ~At(r, "idle")
  /\ Goto(r, "idle", NoSession)
  /\ UNCHANGED <<dbVars, envVars, sweep, closing, history>>

PayRequest(r) ==
  \/ ReadOrders(r) \/ ReadActive(r) \/ Reuse(r) \/ SwitchRail(r) \/ FindDead(r)
  \/ Retire(r) \/ CreateSession(r) \/ InsertRow(r) \/ LoseInsert(r)
  \/ MarkOrders(r) \/ GiveUp(r)

-----------------------------------------------------------------------------
(* The customer at Stripe, and Stripe's own clock.                         *)

SessionMoves(s, from, to, kinds) ==
  /\ sess[s] \in from
  /\ sess' = [sess EXCEPT ![s] = to]
  /\ Emit(kinds, s)
  /\ UNCHANGED <<dbVars, runVars, history>>

CustomerPays(s)  == SessionMoves(s, {"open"}, "paid", {"session_paid", "intent_paid"})
CompletesUnpaid(s) == SessionMoves(s, {"open"}, "complete", {})
AsyncPaid(s)     == SessionMoves(s, {"complete"}, "paid", {"session_paid", "intent_paid"})
AsyncFailed(s)   == SessionMoves(s, {"complete"}, "failed", {"session_failed", "intent_failed"})
CardDeclined(s)  == SessionMoves(s, {"open"}, "open", {"intent_failed"})
TimesOut(s)      == SessionMoves(s, {"unseen", "open"}, "expired",
                                 {"session_expired", "intent_canceled"})

Stripe(s) == \/ CustomerPays(s) \/ CompletesUnpaid(s) \/ AsyncPaid(s)
             \/ AsyncFailed(s) \/ CardDeclined(s) \/ TimesOut(s)

-----------------------------------------------------------------------------
(* terminateCheckoutGroup: all member orders in one locked transaction.    *)

Claims(from) == {o \in Orders : orders[o].status \in from /\ ~orders[o].released}

Terminate(p, axes, from) ==
  IF Settled THEN UNCHANGED <<orders, row, releases>>
  ELSE /\ orders' = [o \in Orders |-> IF o \in Claims(from)
                       THEN Release(Move(orders[o], p, axes)) ELSE orders[o]]
       /\ releases' = [o \in Orders |-> IF o \in Claims(from)
                         THEN releases[o] + ReleaseCount(Move(orders[o], p, axes))
                         ELSE releases[o]]
       /\ row' = [s \in Sessions |-> RetiredRow(s)]

\* PATCH /api/customer/orders/:id/cancel.  Its unlocked read of the order may be
\* of any age and every order starts cancelable, so it excludes nothing here.
CustomerCancel ==
  /\ Terminate("cancelled", AxesFor("cancelled"), CustomerCancelable)
  /\ closing' = IF Settled THEN closing ELSE closing \cup ActiveRows
  /\ UNCHANGED <<intent, refund, incidents, due, envVars, req, sweep, commits>>

DeadlinePasses ==
  /\ ~due
  /\ due' = TRUE
  /\ UNCHANGED <<orders, row, intent, refund, incidents, envVars, runVars, history>>

\* The sweep's scan and its unlocked pre-checks ...
SweepReads ==
  /\ ~sweep.on
  /\ due
  /\ \E o \in Orders : Expirable(o)
  /\ ~Settled
  /\ sweep' = [on |-> TRUE, saw |-> ActiveRows]
  /\ UNCHANGED <<dbVars, envVars, req, closing, history>>

\* ... and its transaction, which does not look at the deadline again.
SweepExpires ==
  /\ sweep.on
  /\ sweep' = SweepIdle
  /\ Terminate("expired", AxesFor("cancelled"), Abandonable)
  /\ closing' = IF Settled \/ Claims(Abandonable) = {} THEN closing
                ELSE closing \cup (IF ActiveRows # {} THEN ActiveRows ELSE sweep.saw)
  /\ UNCHANGED <<intent, refund, incidents, due, envVars, req, commits>>

\* expireStripeCheckoutSession after the commit, best effort.
CloseSession(s) ==
  /\ s \in closing
  /\ closing' = closing \ {s}
  /\ \/ /\ sess[s] \in {"unseen", "open"}
        /\ sess' = [sess EXCEPT ![s] = "expired"]
        /\ Emit({"session_expired", "intent_canceled"}, s)
     \/ UNCHANGED envVars
  /\ UNCHANGED <<dbVars, req, sweep, history>>

-----------------------------------------------------------------------------
(* The webhook: one event, claimed once (the inbox is WebhookInbox's).     *)

OfIntent(e) == e.kind \in {"intent_paid", "intent_failed", "intent_canceled"}

\* checkoutGroupIdForAttempt: by the session id, or by a PaymentIntent some row
\* already names.  An event that resolves to no purchase changes nothing.
Resolves(e) == IF OfIntent(e) THEN \E r \in Sessions : intent[r] = e.session
               ELSE row[e.session] # "none"

\* settleCheckoutGroup's claim on a member order.
\* Mutants of Payable: a paid order is sold again; an unmarked one is left behind.
PayableAgain(o) == orders[o].status \in Abandonable \cup {"paid"} /\ ~orders[o].released
PayableOnceMarked(o) == orders[o].status = "pending_payment" /\ ~orders[o].released
Payable(o) == orders[o].status \in Abandonable /\ ~orders[o].released

\* The rows its UPDATE marks paid: an event that names no session matches all.
\* (No row of a purchase is ever 'failed'.)
\* Mutant of SettledRows: only the active attempt can be settled.
SettledActiveRows(e) == {r \in ActiveRows : OfIntent(e) \/ r = e.session}
SettledRows(e) == {r \in Sessions : row[r] # "none" /\ (OfIntent(e) \/ r = e.session)}

Settle(e) ==
  LET settled == {o \in Orders : Payable(o)}
  IN /\ row' = [r \in Sessions |-> IF r \in SettledRows(e) THEN "paid" ELSE row[r]]
     /\ intent' = [r \in Sessions |-> IF r \in SettledRows(e) THEN e.session ELSE intent[r]]
     /\ orders' = [o \in Orders |-> IF o \in settled THEN Pay(orders[o], "paid") ELSE orders[o]]
     /\ commits' = [o \in Orders |-> IF o \in settled THEN commits[o] + 1 ELSE commits[o]]
     /\ IF settled # {} THEN UNCHANGED incidents
        ELSE \E r \in SettledRows(e) : incidents' = incidents \cup {r}
     /\ UNCHANGED releases

\* failCheckoutGroup: the whole purchase, whichever attempt the event names.
FailPurchase(e) ==
  /\ IF e.kind \in {"session_failed", "intent_failed"}
     THEN Terminate("failed", AxesFor("pending"), Abandonable)
     ELSE Terminate("cancelled", AxesFor("cancelled"), Abandonable)
  /\ UNCHANGED <<intent, incidents, commits>>

Deliver(e) ==
  /\ e \in events
  /\ events' = events \ {e}
  /\ IF ~Resolves(e) THEN UNCHANGED <<orders, row, intent, incidents, history>>
     ELSE IF e.kind \in {"session_paid", "intent_paid"} THEN Settle(e)
     ELSE FailPurchase(e)
  /\ UNCHANGED <<refund, due, sess, runVars>>

-----------------------------------------------------------------------------
(* Staff: the seller's and VelCenter's status routes, and refunds.         *)

\* The three gates, each inside the locked transaction.  The COD rail is off.
\* Mutant of ConfirmationAllowed: no payment gate.
ConfirmationUngated(o) == TRUE
ConfirmationAllowed(o) == Settled
CancellationAllowed(o) == orders[o].status # "paid" /\ ~Settled
Gate(o, to) == /\ to = "confirmed" => ConfirmationAllowed(o)
               /\ to = "cancelled" => CancellationAllowed(o)

\* The UPDATE both routes (and the shipment lifecycle) run, and the release.
WriteMove(o, to) ==
  LET moved == Move(orders[o], LatestPaymentStatus, AxesFor(to))
      ended == to = "cancelled"
  IN /\ orders' = [orders EXCEPT ![o] = IF ended THEN Release(moved) ELSE moved]
     /\ releases' = [releases EXCEPT ![o] = IF ended THEN @ + ReleaseCount(moved) ELSE @]
     /\ UNCHANGED <<row, intent, refund, incidents, due, envVars, runVars, commits>>

StaffMove(o, to) ==
  /\ CanTransition(NormalizeOrderStatus(orders[o].status), to)
  /\ Gate(o, to)
  /\ WriteMove(o, to)

\* VelCenter may re-select the stored status; no gate runs.
CenterReselects(o) ==
  /\ orders[o].status \in FulfillmentStatuses
  /\ WriteMove(o, orders[o].status)

\* A succeeded refund of captured money, partial or full.
SyncRefund(kind) ==
  /\ \E s \in Sessions : row[s] = "paid" /\ sess[s] = "paid"
  /\ refund' = kind
  /\ orders' = [o \in Orders |-> IF kind = "refunded" /\ orders[o].status # "refunded"
                                 THEN Pay(orders[o], "refunded") ELSE orders[o]]
  /\ UNCHANGED <<row, intent, incidents, due, envVars, runVars, history>>

Staff == \/ \E o \in Orders : \/ \E to \in StaffTargets : StaffMove(o, to)
                              \/ CenterReselects(o)
         \/ \E kind \in RefundKinds : SyncRefund(kind)

-----------------------------------------------------------------------------
Next ==
  \/ \E r \in Requests : PayRequest(r)
  \/ \E s \in Sessions : Stripe(s) \/ CloseSession(s)
  \/ \E e \in events : Deliver(e)
  \/ CustomerCancel
  \/ DeadlinePasses \/ SweepReads \/ SweepExpires
  \/ Staff

Spec == Init /\ [][Next]_vars

\* The interval timer keeps sweeping; Stripe redelivers until an event is handled.
\* Nothing obliges customers, staff, requests or a post-commit close to proceed.
Fairness == /\ WF_vars(SweepReads)
            /\ WF_vars(SweepExpires)
            /\ \A e \in Events : WF_vars(Deliver(e))

-----------------------------------------------------------------------------
(* What must hold.                                                         *)

Committed(o) == commits[o] > 0
InFulfilment == {"packing", "shipped", "delivered", "completed"}
DeadStatuses == {"cancelled", "payment_failed", "expired", "refunded"}

\* reserve -> commit xor release: whatever the order of webhooks, cancels, sweeps
\* and staff moves, each order's stock leaves its reservation at most once, and
\* the stored flag tells which way (inventory.ts:71-87).
CommitXorRelease ==
  \A o \in Orders : /\ commits[o] + releases[o] <= 1
                    /\ orders[o].released <=> releases[o] = 1

\* The same as a refinement: the purchase implements the reservation, which also
\* says that a sale or a termination decides every order still held at once.
HoldOf(o) == IF commits[o] = 0 /\ releases[o] = 0 THEN "held"
             ELSE IF releases[o] = 0 /\ commits[o] = 1 THEN "sold"
             ELSE IF commits[o] = 0 /\ releases[o] = 1 THEN "returned"
             ELSE "twice"
Stock == INSTANCE Reservation WITH hold <- [o \in Orders |-> HoldOf(o)]
ImplementsReservation == Stock!Spec

\* Stock is held by exactly the orders that still wait for their money: none is
\* stranded by an order that ended, none is freed under one that can be paid.
HeldWhileWaiting ==
  \A o \in Orders : orders[o].status \in Abandonable <=> HoldOf(o) = "held"

\* Nothing is shown as paid, accepted or moved towards a customer unless money was
\* recorded and this very order's stock was consumed for it.
FulfilledIsSold ==
  \A o \in Orders : orders[o].status \in InFulfilment \cup {"paid", "confirmed"}
                       => Settled /\ Committed(o)

\* Stock that went back to the shelf never belongs to a live order again: a late
\* capture, a late staff move or a re-selection cannot bring the order back.
ReleasedIsDead ==
  \A o \in Orders : orders[o].released => orders[o].status \in DeadStatuses

\* Recorded money either sold some order's stock or raised an incident, and no
\* order still waits to be paid beside it.
RecordedMoneyIsAccountedFor ==
  Settled => /\ incidents # {} \/ \E o \in Orders : Committed(o)
             /\ \A o \in Orders : orders[o].status \notin Abandonable

\* While an order of the purchase can still be paid, a payable page is the page of
\* the one active attempt: rail switches, lost races and retirements leave no
\* second page open beside it (stripe.ts:893-897).
PayablePageIsTheActiveAttempt ==
  (\E o \in Orders : Expirable(o))
     => \A s \in Sessions : sess[s] = "open" => row[s] = "requires_action"

\* A payments row that recorded captured money is never rewritten: not by a
\* retirement racing the webhook, a void, a late failure or a second delivery.
PaidRowIsFinal == [][\A s \in Sessions : row[s] = "paid" => row'[s] = "paid"]_vars

\* From packing on an order only ever advances one step of the machine at a time,
\* whatever money, sweeps or late events do meanwhile.
FulfilmentOnlyAdvances ==
  [][\A o \in Orders : orders[o].status \in InFulfilment
        => \/ orders'[o].status = orders[o].status
           \/ CanTransition(orders[o].status, orders'[o].status)]_vars

\* A due purchase that nobody decided ends: the sweep, a cancel or a payment
\* moves every order out of the statuses that hold stock.
DueReservationEnds == due ~> \A o \in Orders : orders[o].status \notin Abandonable

\* A captured session is eventually recorded as paid, and then sold or reported.
CapturedMoneyIsRecorded ==
  \A s \in Sessions : sess[s] = "paid" ~>
     row[s] = "paid" /\ (incidents # {} \/ \E o \in Orders : Committed(o))

-----------------------------------------------------------------------------
(* What the code's own comments promise and its steps do not keep.         *)

\* Carrying the attempt's identity through "is what keeps one attempt's event
\* from landing on another attempt's row" (stripe.ts:617): the end of one session
\* never voids the row of another.
EventsStayOnTheirAttempt ==
  [][\A e \in events : \A s \in Sessions \ {e.session} :
        (e \notin events' /\ row[s] = "requires_action") => row'[s] # "cancelled"]_vars
=============================================================================
