------------------------------ MODULE Shipment ------------------------------
(***************************************************************************)
(* The parcels of a purchase's orders, composed with the purchase: the     *)
(* shipment machine (lib/order-shipment-states.ts), the one helper that    *)
(* moves a parcel (lib/order-shipment.ts), and the creation that rides on  *)
(* an order's move to `shipped' (ensureShipmentForShipping).               *)
(*                                                                         *)
(* Both writers lock the order row first, so each request is one action.   *)
(* An order has at most one parcel (shipments_order_id_unique).  Left out: *)
(* the timestamps, each set on the one visit to its status, and the events *)
(* and notifications sent after the commit.                                *)
(***************************************************************************)
EXTENDS Purchase

CONSTANTS Carriers, Numbers,  \* the carriers and tracking numbers staff type in
          None                \* a field the request or the row leaves empty

ASSUME NoneAssumption == None \notin Carriers \cup Numbers
\* The status routes offer what the parcels can ask for.
ASSUME ParcelTargetsAssumption == {"shipped", "delivered"} \subseteq StaffTargets

VARIABLE parcel               \* the shipments row of each order

parcelVars == <<vars, parcel>>

ShipmentStatuses == {"pending", "created", "picked_up", "in_transit",
                     "out_for_delivery", "delivered", "returned", "lost", "cancelled"}

Parcels == [at : ShipmentStatuses \cup {"none"}, carrier : Carriers \cup {None},
            tracking : Numbers \cup {None}]

\* No row; or a row of an older build, which carries nothing yet.
NoParcel == [at |-> "none", carrier |-> None, tracking |-> None]
LegacyParcel == [NoParcel EXCEPT !.at = "pending"]

ParcelInit == Init /\ parcel \in [Orders -> {NoParcel, LegacyParcel}]

-----------------------------------------------------------------------------
Handoff == "picked_up"

CanTransitionShipment(from, to) ==
  \/ from = "pending"          /\ to = "created"
  \/ from = "created"          /\ to = "picked_up"
  \/ from = "picked_up"        /\ to = "in_transit"
  \/ from = "in_transit"       /\ to = "out_for_delivery"
  \/ from = "out_for_delivery" /\ to = "delivered"
  \/ /\ from \in {"pending", "created", "picked_up", "in_transit", "out_for_delivery"}
     /\ to \in {"cancelled", "lost"}

\* The statuses at which a parcel is with its carrier.
OnTheWay == {"picked_up", "in_transit", "out_for_delivery"}

\* What a parcel's move says of its order; the others say nothing.
OrderStatusForShipment(to) == IF to \in OnTheWay THEN "shipped" ELSE "delivered"
SpeaksOfTheOrder(to) == to \in OnTheWay \cup {"delivered"}

FulfillmentChain == <<"pending", "confirmed", "packing", "shipped", "delivered", "completed">>
AtOrPast(status, target) ==
  \E i, j \in DOMAIN FulfillmentChain : /\ FulfillmentChain[i] = target
                                        /\ FulfillmentChain[j] = status
                                        /\ i <= j

\* Mutant of AdvanceOrder: no edge, and the parcel moves all the same.
AdvanceIfPossible(o, target) ==
  LET from == NormalizeOrderStatus(orders[o].status)
  IN IF CanTransition(from, target) THEN WriteMove(o, target) ELSE UNCHANGED vars

\* Mutant of AdvanceOrder: the order is set to the target, edge or not.
AdvanceByForce(o, target) ==
  LET from == NormalizeOrderStatus(orders[o].status)
  IN IF AtOrPast(from, target) THEN UNCHANGED vars ELSE WriteMove(o, target)

\* advanceOrderFulfillmentAxis: an order at or past the target stays; one that
\* has no edge to it refuses the parcel's move.
AdvanceOrder(o, target) ==
  LET from == NormalizeOrderStatus(orders[o].status)
  IN \/ AtOrPast(from, target) /\ UNCHANGED vars
     \/ /\ ~AtOrPast(from, target)
        /\ CanTransition(from, target)
        /\ WriteMove(o, target)

-----------------------------------------------------------------------------
Given(new, old) == IF new # None THEN new ELSE old
\* Mutant of Filled: the newest value wins.
FilledLast(old, new) == IF new # None THEN new ELSE old
Filled(old, new) == IF old # None THEN old ELSE new

\* ensureShipmentForShipping.  (Its ON CONFLICT branch needs a second writer
\* between the read and the insert, which the order lock excludes.)
EnsureShipment(o, c, t) ==
  LET p == parcel[o]
  IN /\ Given(c, p.carrier) # None /\ Given(t, p.tracking) # None
     /\ parcel' = [parcel EXCEPT ![o] =
          [at       |-> IF p.at \in {"none", "pending"} THEN "created" ELSE p.at,
           carrier  |-> Given(c, p.carrier),
           tracking |-> Given(t, p.tracking)]]

\* PATCH status: the order moves to shipped, its parcel with it ...
ShipOrder(o, c, t) ==
  /\ StaffMove(o, "shipped")
  /\ EnsureShipment(o, c, t)

\* ... or anywhere else, the parcel not looked at.
MoveOrder(o, to) ==
  /\ to # "shipped"
  /\ StaffMove(o, to)
  /\ UNCHANGED parcel

\* PATCH shipment with `created', for an order that has no parcel: whatever the
\* order's status.
CreateParcel(o, c, t) ==
  /\ parcel[o].at = "none"
  /\ EnsureShipment(o, c, t)
  /\ UNCHANGED vars

\* Mutant of MoveParcel: the handoff asks for nothing.
MoveParcelUnlabelled(o, to, c, t) ==
  LET p == parcel[o]
  IN /\ CanTransitionShipment(p.at, to)
     /\ parcel' = [parcel EXCEPT ![o] = [at |-> to, carrier |-> Filled(p.carrier, c),
                                          tracking |-> Filled(p.tracking, t)]]
     /\ IF SpeaksOfTheOrder(to) THEN AdvanceOrder(o, OrderStatusForShipment(to))
        ELSE UNCHANGED vars

\* PATCH shipment: one edge of the machine, blanks filled and nothing replaced,
\* and the order asked to follow.  (A repeat of the current status does nothing.)
MoveParcel(o, to, c, t) ==
  LET p == parcel[o]
      filled == [at |-> to, carrier |-> Filled(p.carrier, c), tracking |-> Filled(p.tracking, t)]
  IN /\ CanTransitionShipment(p.at, to)
     /\ to = Handoff => filled.carrier # None /\ filled.tracking # None
     /\ parcel' = [parcel EXCEPT ![o] = filled]
     /\ IF SpeaksOfTheOrder(to) THEN AdvanceOrder(o, OrderStatusForShipment(to))
        ELSE UNCHANGED vars

ParcelRequest(o) ==
  \E c \in Carriers \cup {None}, t \in Numbers \cup {None} :
    \/ ShipOrder(o, c, t)
    \/ CreateParcel(o, c, t)
    \/ \E to \in ShipmentStatuses : MoveParcel(o, to, c, t)

\* Everything of the purchase that is not a staff move leaves the parcels alone.
RestOfPurchase ==
  /\ \/ \E r \in Requests : PayRequest(r)
     \/ \E s \in Sessions : Stripe(s) \/ CloseSession(s)
     \/ \E e \in events : Deliver(e)
     \/ CustomerCancel \/ DeadlinePasses \/ SweepReads \/ SweepExpires
     \/ \E o \in Orders : CenterReselects(o)
     \/ \E kind \in RefundKinds : SyncRefund(kind)
  /\ UNCHANGED parcel

ParcelNext ==
  \/ \E o \in Orders : \/ ParcelRequest(o)
                       \/ \E to \in StaffTargets : MoveOrder(o, to)
  \/ RestOfPurchase

ParcelSpec == ParcelInit /\ [][ParcelNext]_parcelVars

\* The purchase's own fairness: nothing obliges anyone to move a parcel.
FairParcelSpec == ParcelSpec /\ Fairness

-----------------------------------------------------------------------------
ParcelsTypeOK == TypeOK /\ parcel \in [Orders -> Parcels]

\* A parcel is never ahead of its order: one that is with the carrier belongs to
\* an order shown as shipped, one that arrived to an order shown as delivered,
\* whatever refunds, cancels, sweeps and late events do to the order afterwards.
ParcelNeverAhead ==
  \A o \in Orders :
    /\ parcel[o].at \in OnTheWay => AtOrPast(orders[o].status, "shipped")
    /\ parcel[o].at = "delivered" => AtOrPast(orders[o].status, "delivered")

\* Nothing leaves the shop unless its order was paid and its stock consumed,
\* whichever of the two routes moved it.
NothingLeavesUnpaid ==
  \A o \in Orders : parcel[o].at \in OnTheWay \cup {"delivered"} => Settled /\ Committed(o)

\* `shipped' is never a placeholder: from there on the order has a parcel with a
\* carrier and a tracking number (order-fulfillment.ts:407-410).
ShippedHasAParcel ==
  \A o \in Orders : AtOrPast(orders[o].status, "shipped")
                      => parcel[o].carrier # None /\ parcel[o].tracking # None

\* The machine reads an order's axes back from its status column, whatever the
\* payment axis shows ("other" stands for NULL and for anything unknown): money
\* shows through only where the purchase itself ended (expired, failed, refunded).
StaffMoveReadsBack ==
  \A o \in Orders, p \in PaymentStates \cup {"other"} :
    LET to == FulfillmentForAxes(orders[o].axes)
        read == NormalizeOrderStatus(ProjectOrderStatus(p, orders[o].axes))
    IN /\ AxesFor(to) = orders[o].axes
       /\ read = to \/ (p \in {"expired", "failed", "refunded"} /\ read = "cancelled")

\* Once a parcel is with its carrier, no request rewrites its carrier or number.
CarriedParcelKeepsItsNumber ==
  [][\A o \in Orders : parcel[o].at \in OnTheWay \cup {"delivered"}
        => /\ parcel'[o].carrier = parcel[o].carrier
           /\ parcel'[o].tracking = parcel[o].tracking]_parcelVars

\* The parcel routes move an order only as the order routes could: every step is
\* a step of the purchase, or leaves it alone (order-state.ts:366-370).
ImplementsPurchase == Spec
=============================================================================
