---------------------------- MODULE ShipmentProof ----------------------------
(***************************************************************************)
(* The parcels refine the purchase, so what is proved of a purchase holds  *)
(* with them; on that rest the properties that relate a parcel to its      *)
(* order, for any number of orders, carriers and tracking numbers.         *)
(***************************************************************************)
EXTENDS Shipment, PurchaseProof

\* Which statuses the chain puts at or past the two targets of a parcel.
LEMMA Chain ==
  ASSUME NEW s
  PROVE  /\ AtOrPast(s, "shipped") <=> s \in {"shipped", "delivered", "completed"}
         /\ AtOrPast(s, "delivered") <=> s \in {"delivered", "completed"}
BY DEF AtOrPast, FulfillmentChain

-----------------------------------------------------------------------------
(* The refinement.                                                         *)

\* A move both routes and parcels make is a staff move: no gate stands before the
\* two statuses a parcel asks for.
LEMMA FollowsAsStaff ==
  ASSUME NEW o \in Orders, NEW to \in {"shipped", "delivered"}, AdvanceOrder(o, to)
  PROVE  UNCHANGED vars \/ StaffMove(o, to)
BY DEF AdvanceOrder, StaffMove, Gate

\* The target a parcel's move names is one of those two.
LEMMA ParcelAsks ==
  ASSUME NEW to, SpeaksOfTheOrder(to)
  PROVE  /\ OrderStatusForShipment(to) \in {"shipped", "delivered"}
         /\ to \in OnTheWay => OrderStatusForShipment(to) = "shipped"
         /\ to = "delivered" => OrderStatusForShipment(to) = "delivered"
BY DEF SpeaksOfTheOrder, OrderStatusForShipment, OnTheWay

\* Every step of the parcels is a step of the purchase or leaves it alone.
LEMMA StepRefines == ASSUME [ParcelNext]_parcelVars PROVE [Next]_vars
<1>1. ASSUME NEW o \in Orders, ParcelRequest(o) PROVE [Next]_vars
  <2>1. PICK c \in Carriers \cup {None}, t \in Numbers \cup {None} :
          \/ ShipOrder(o, c, t)
          \/ CreateParcel(o, c, t)
          \/ \E to \in ShipmentStatuses : MoveParcel(o, to, c, t)
    BY <1>1 DEF ParcelRequest
  <2>2. CASE ShipOrder(o, c, t)
    BY <2>2, ParcelTargetsAssumption DEF ShipOrder, Next, Staff
  <2>3. CASE CreateParcel(o, c, t)
    BY <2>3 DEF CreateParcel
  <2>4. ASSUME NEW to \in ShipmentStatuses, MoveParcel(o, to, c, t) PROVE [Next]_vars
    <3>1. CASE SpeaksOfTheOrder(to)
      <4>1. AdvanceOrder(o, OrderStatusForShipment(to))
        BY <2>4, <3>1 DEF MoveParcel
      <4>2. UNCHANGED vars \/ StaffMove(o, OrderStatusForShipment(to))
        BY <3>1, <4>1, ParcelAsks, FollowsAsStaff
      <4> QED BY <3>1, <4>2, ParcelAsks, ParcelTargetsAssumption DEF Next, Staff
    <3>2. CASE ~SpeaksOfTheOrder(to)
      BY <2>4, <3>2 DEF MoveParcel
    <3> QED BY <3>1, <3>2
  <2> QED BY <2>1, <2>2, <2>3, <2>4
<1>2. ASSUME NEW o \in Orders, NEW to \in StaffTargets, MoveOrder(o, to) PROVE [Next]_vars
  BY <1>2 DEF MoveOrder, Next, Staff
<1>3. CASE RestOfPurchase
  BY <1>3 DEF RestOfPurchase, Next, Staff
<1>4. CASE UNCHANGED parcelVars
  BY <1>4 DEF parcelVars
<1> QED BY <1>1, <1>2, <1>3, <1>4 DEF ParcelNext

\* The parcel routes move an order only as the order routes could.
THEOREM ParcelsRefine == ParcelSpec => ImplementsPurchase
<1>1. ParcelInit => Init
  BY DEF ParcelInit
<1> QED BY <1>1, StepRefines, PTL DEF ParcelSpec, Spec, ImplementsPurchase

-----------------------------------------------------------------------------
(* The parcels.                                                            *)

\* What the purchase promises at every moment.
Base == IInv /\ \A o \in Orders : Coherent(o)

PInv == ParcelsTypeOK /\ ParcelNeverAhead /\ ShippedHasAParcel

Past(o, s) == AtOrPast(orders[o].status, s)

\* An order past a target stays past it.
LEMMA PastStays ==
  ASSUME Base, [Next]_vars, NEW o \in Orders, NEW s \in {"shipped", "delivered"}, Past(o, s)
  PROVE  Past(o, s)'
<1>1. orders[o].status \in {"shipped", "delivered", "completed"}
  BY Chain DEF Past
<1>2. orders[o].status \in InFulfilment
  BY <1>1 DEF InFulfilment
<1>3. Advances(o)
  BY <1>2, StoryStep DEF Base, IInv, StepKeepsStory
<1> QED BY <1>1, <1>3, Chain DEF Past, Advances, CanTransition

\* A move to one of the two targets leaves the order at or past it; a refused one
\* is no step at all.
LEMMA FollowReaches ==
  ASSUME Base, NEW o \in Orders, NEW to \in {"shipped", "delivered"}, AdvanceOrder(o, to)
  PROVE  Past(o, to)'
<1>1. CASE AtOrPast(NormalizeOrderStatus(orders[o].status), to) /\ UNCHANGED vars
  <2>1. NormalizeOrderStatus(orders[o].status) \in {"shipped", "delivered", "completed"}
    BY <1>1, Chain
  <2>2. NormalizeOrderStatus(orders[o].status) = orders[o].status
    BY <2>1 DEF NormalizeOrderStatus
  <2> QED BY <1>1, <2>2 DEF Past, vars, dbVars
<1>2. CASE WriteMove(o, to)
  <2>1. to \in FulfillmentStatuses /\ to \in InFulfilment
    BY DEF FulfillmentStatuses, InFulfilment
  <2>2. orders'[o].status = to
    BY <1>2, <2>1, WriteIsCoherent DEF Base, IInv
  <2> QED BY <2>2, Chain DEF Past
<1> QED BY <1>1, <1>2 DEF AdvanceOrder

\* The pieces of the invariant, order by order.
Behind(o) == /\ parcel[o].at \in OnTheWay => Past(o, "shipped")
             /\ parcel[o].at = "delivered" => Past(o, "delivered")
Labelled(o) == Past(o, "shipped") => parcel[o].carrier # None /\ parcel[o].tracking # None

\* The invariant, order by order.
LEMMA Pieces == PInv <=> ParcelsTypeOK /\ \A o \in Orders : Behind(o) /\ Labelled(o)
BY DEF PInv, ParcelNeverAhead, ShippedHasAParcel, Behind, Labelled, Past

\* An order whose parcel is left alone, and that is not brought past `shipped'.
LEMMA LeftAlone ==
  ASSUME Base, [Next]_vars, NEW o \in Orders, Behind(o), Labelled(o),
         parcel'[o] = parcel[o], Past(o, "shipped")' => Past(o, "shipped")
  PROVE  Behind(o)' /\ Labelled(o)'
<1>1. /\ Past(o, "shipped") => Past(o, "shipped")'
      /\ Past(o, "delivered") => Past(o, "delivered")'
  BY PastStays
<1> QED BY <1>1 DEF Behind, Labelled

\* A request about one order leaves the others as they are.
LEMMA OthersStay ==
  ASSUME Base, [Next]_vars, NEW o \in Orders, NEW x \in Orders \ {o},
         Behind(x), Labelled(x), parcel'[x] = parcel[x],
         \/ UNCHANGED vars
         \/ \E to \in FulfillmentStatuses : WriteMove(o, to)
  PROVE  Behind(x)' /\ Labelled(x)'
<1>1. orders'[x] = orders[x]
  BY WriteIsCoherent DEF Base, IInv, vars, dbVars
<1>2. Past(x, "shipped")' <=> Past(x, "shipped")
  BY <1>1 DEF Past
<1> QED BY <1>2, LeftAlone

\* What a staff move does to its order.
LEMMA StaffMoveShows ==
  ASSUME Base, NEW o \in Orders, NEW to \in FulfillmentStatuses, StaffMove(o, to)
  PROVE  /\ WriteMove(o, to)
         /\ to = "shipped" => Past(o, "shipped")' /\ ~Past(o, "shipped")
         /\ to # "shipped" => (Past(o, "shipped")' => Past(o, "shipped"))
<1>1. WriteMove(o, to) /\ CanTransition(NormalizeOrderStatus(orders[o].status), to)
  BY DEF StaffMove
<1>2. /\ to \in InFulfilment => orders'[o].status = to
      /\ to \notin InFulfilment => orders'[o].status \notin InFulfilment
  BY <1>1, WriteIsCoherent DEF Base, IInv
<1>3. CASE to = "shipped"
  <2>1. NormalizeOrderStatus(orders[o].status) = "packing"
    BY <1>1, <1>3 DEF CanTransition
  <2>2. orders[o].status = "packing"
    BY <2>1 DEF NormalizeOrderStatus
  <2> QED BY <1>1, <1>2, <1>3, <2>2, Chain DEF Past, InFulfilment
<1>4. CASE to \in {"delivered", "completed"}
  <2>1. NormalizeOrderStatus(orders[o].status) \in {"shipped", "delivered"}
    BY <1>1, <1>4 DEF CanTransition
  <2>2. orders[o].status \in {"shipped", "delivered"}
    BY <2>1 DEF NormalizeOrderStatus
  <2> QED BY <1>1, <1>4, <2>2, Chain DEF Past
<1>5. CASE to \notin {"shipped", "delivered", "completed"}
  <2>1. orders'[o].status \notin {"shipped", "delivered", "completed"}
    BY <1>2, <1>5 DEF InFulfilment
  <2> QED BY <1>1, <1>5, <2>1, Chain DEF Past
<1> QED BY <1>3, <1>4, <1>5

\* The parcel ensureShipmentForShipping leaves: labelled, and still with the shop
\* unless it had left before.
LEMMA EnsureWrites ==
  ASSUME ParcelsTypeOK, NEW o \in Orders, NEW c \in Carriers \cup {None},
         NEW t \in Numbers \cup {None}, EnsureShipment(o, c, t)
  PROVE  /\ parcel' \in [Orders -> Parcels]
         /\ parcel'[o].carrier # None /\ parcel'[o].tracking # None
         /\ parcel'[o].at = "created" \/ parcel'[o].at = parcel[o].at
         /\ \A x \in Orders \ {o} : parcel'[x] = parcel[x]
<1> DEFINE p == parcel[o]
           new == [at |-> IF p.at \in {"none", "pending"} THEN "created" ELSE p.at,
                   carrier |-> Given(c, p.carrier), tracking |-> Given(t, p.tracking)]
<1>1. p \in Parcels
  BY DEF ParcelsTypeOK
<1>2. new \in Parcels
  BY <1>1 DEF Parcels, Given, ShipmentStatuses
<1>3. parcel' = [parcel EXCEPT ![o] = new] /\ new.carrier # None /\ new.tracking # None
  BY DEF EnsureShipment
<1>4. new.at = "created" \/ new.at = p.at
  OBVIOUS
<1>5. parcel \in [Orders -> Parcels]
  BY DEF ParcelsTypeOK
<1> HIDE DEF new
<1> QED BY <1>2, <1>3, <1>4, <1>5

\* The parcel a move of the shipment machine leaves.
LEMMA MoveWrites ==
  ASSUME ParcelsTypeOK, NEW o \in Orders, NEW c \in Carriers \cup {None},
         NEW t \in Numbers \cup {None}, NEW to \in ShipmentStatuses, MoveParcel(o, to, c, t)
  PROVE  /\ parcel' \in [Orders -> Parcels]
         /\ parcel'[o].at = to
         /\ parcel[o].carrier # None => parcel'[o].carrier = parcel[o].carrier
         /\ parcel[o].tracking # None => parcel'[o].tracking = parcel[o].tracking
         /\ to = "picked_up" => parcel'[o].carrier # None /\ parcel'[o].tracking # None
         /\ \A x \in Orders \ {o} : parcel'[x] = parcel[x]
<1> DEFINE p == parcel[o]
           new == [at |-> to, carrier |-> Filled(p.carrier, c), tracking |-> Filled(p.tracking, t)]
<1>1. p \in Parcels
  BY DEF ParcelsTypeOK
<1>2. new \in Parcels
  BY <1>1 DEF Parcels, Filled
<1>3. /\ parcel' = [parcel EXCEPT ![o] = new]
      /\ to = "picked_up" => new.carrier # None /\ new.tracking # None
  BY DEF MoveParcel, Handoff
<1>4. /\ p.carrier # None => new.carrier = p.carrier
      /\ p.tracking # None => new.tracking = p.tracking
      /\ new.at = to
  BY DEF Filled
<1>5. parcel \in [Orders -> Parcels]
  BY DEF ParcelsTypeOK
<1> HIDE DEF new
<1> QED BY <1>2, <1>3, <1>4, <1>5

-----------------------------------------------------------------------------
(* Every step.                                                             *)

\* A purchase that moves without its parcels brings no order past `shipped'.
LEMMA RestStep ==
  ASSUME Base, PInv, RestOfPurchase \/ UNCHANGED parcelVars
  PROVE  \A o \in Orders : Behind(o)' /\ Labelled(o)'
<1> SUFFICES ASSUME NEW o \in Orders PROVE Behind(o)' /\ Labelled(o)'
  OBVIOUS
<1>1. [Next]_vars /\ UNCHANGED parcel
  BY DEF RestOfPurchase, parcelVars, Next, Staff
<1>2. QuietStep(o)
  BY RestIsQuiet DEF RestOfPurchase, parcelVars, Base, IInv
<1>3. Past(o, "shipped")' => Past(o, "shipped")
  BY <1>2, Chain DEF QuietStep, Past, InFulfilment
<1> QED BY <1>1, <1>3, LeftAlone, Pieces

\* A staff move to any other status than `shipped'.
LEMMA MoveOrderStep ==
  ASSUME Base, PInv, NEW o \in Orders, NEW to \in StaffTargets, MoveOrder(o, to), [Next]_vars
  PROVE  \A x \in Orders : Behind(x)' /\ Labelled(x)'
<1>1. StaffMove(o, to) /\ to # "shipped" /\ UNCHANGED parcel /\ to \in FulfillmentStatuses
  BY StaffTargetsAssumption DEF MoveOrder
<1>2. WriteMove(o, to) /\ (Past(o, "shipped")' => Past(o, "shipped"))
  BY <1>1, StaffMoveShows
<1>3. \A x \in Orders : Behind(x) /\ Labelled(x) /\ parcel'[x] = parcel[x]
  BY <1>1, Pieces
<1> QED BY <1>1, <1>2, <1>3, LeftAlone, OthersStay

\* The order shipped with its parcel, or a parcel created on its own.
LEMMA EnsureStep ==
  ASSUME Base, PInv, [Next]_vars, NEW o \in Orders, NEW c \in Carriers \cup {None},
         NEW t \in Numbers \cup {None}, ShipOrder(o, c, t) \/ CreateParcel(o, c, t)
  PROVE  \A x \in Orders : Behind(x)' /\ Labelled(x)'
<1>1. EnsureShipment(o, c, t)
  BY DEF ShipOrder, CreateParcel
<1>2. \A x \in Orders : Behind(x) /\ Labelled(x)
  BY Pieces
<1>3. /\ parcel'[o].carrier # None /\ parcel'[o].tracking # None
      /\ parcel'[o].at = "created" \/ parcel'[o].at = parcel[o].at
      /\ \A x \in Orders \ {o} : parcel'[x] = parcel[x]
  BY <1>1, EnsureWrites DEF PInv
<1>4. /\ Past(o, "shipped") => Past(o, "shipped")'
      /\ Past(o, "delivered") => Past(o, "delivered")'
  BY PastStays
<1>5. Behind(o)' /\ Labelled(o)'
  BY <1>2, <1>3, <1>4 DEF Behind, Labelled, OnTheWay
<1>6. UNCHANGED vars \/ \E to \in FulfillmentStatuses : WriteMove(o, to)
  BY DEF ShipOrder, CreateParcel, StaffMove, FulfillmentStatuses
<1>7. ASSUME NEW x \in Orders \ {o} PROVE Behind(x)' /\ Labelled(x)'
  BY <1>2, <1>3, <1>6, OthersStay
<1> QED BY <1>5, <1>7

\* A parcel moved along its machine, its order with it.
LEMMA MoveParcelStep ==
  ASSUME Base, PInv, [Next]_vars, NEW o \in Orders, NEW c \in Carriers \cup {None},
         NEW t \in Numbers \cup {None}, NEW to \in ShipmentStatuses, MoveParcel(o, to, c, t)
  PROVE  \A x \in Orders : Behind(x)' /\ Labelled(x)'
<1>1. \A x \in Orders : Behind(x) /\ Labelled(x)
  BY Pieces
<1>2. /\ parcel'[o].at = to
      /\ parcel[o].carrier # None => parcel'[o].carrier = parcel[o].carrier
      /\ parcel[o].tracking # None => parcel'[o].tracking = parcel[o].tracking
      /\ to = "picked_up" => parcel'[o].carrier # None /\ parcel'[o].tracking # None
      /\ \A x \in Orders \ {o} : parcel'[x] = parcel[x]
  BY MoveWrites DEF PInv
<1>3. CanTransitionShipment(parcel[o].at, to)
  BY DEF MoveParcel
<1>4. /\ Past(o, "shipped") => Past(o, "shipped")'
      /\ Past(o, "delivered") => Past(o, "delivered")'
  BY PastStays
<1>5. CASE SpeaksOfTheOrder(to)
  <2>1. /\ AdvanceOrder(o, OrderStatusForShipment(to))
        /\ OrderStatusForShipment(to) \in {"shipped", "delivered"}
        /\ to \in OnTheWay => OrderStatusForShipment(to) = "shipped"
        /\ to = "delivered" => OrderStatusForShipment(to) = "delivered"
    BY <1>5, ParcelAsks DEF MoveParcel
  <2>2. Past(o, OrderStatusForShipment(to))'
    BY <2>1, FollowReaches
  <2>3. Behind(o)'
    BY <1>2, <2>1, <2>2 DEF Behind, OnTheWay
  <2>4. to # "picked_up" => Past(o, "shipped")
    BY <1>1, <1>3, <1>5 DEF CanTransitionShipment, SpeaksOfTheOrder, OnTheWay, Behind
  <2>5. Labelled(o)'
    BY <1>1, <1>2, <2>4 DEF Labelled
  <2>6. UNCHANGED vars \/ \E s \in FulfillmentStatuses : WriteMove(o, s)
    BY <2>1 DEF AdvanceOrder, FulfillmentStatuses
  <2>7. ASSUME NEW x \in Orders \ {o} PROVE Behind(x)' /\ Labelled(x)'
    BY <1>1, <1>2, <2>6, OthersStay
  <2> QED BY <2>3, <2>5, <2>7
<1>6. CASE ~SpeaksOfTheOrder(to)
  <2>1. UNCHANGED vars
    BY <1>6 DEF MoveParcel
  <2>2. Past(o, "shipped")' <=> Past(o, "shipped")
    BY <2>1 DEF vars, dbVars, Past
  <2>3. Behind(o)' /\ Labelled(o)'
    BY <1>1, <1>2, <1>6, <2>2 DEF SpeaksOfTheOrder, Behind, Labelled
  <2>4. ASSUME NEW x \in Orders \ {o} PROVE Behind(x)' /\ Labelled(x)'
    BY <1>1, <1>2, <2>1, OthersStay
  <2> QED BY <2>3, <2>4
<1> QED BY <1>5, <1>6

\* The parcels keep their type.
LEMMA ParcelTypes ==
  ASSUME PInv, TypeOK', [ParcelNext]_parcelVars
  PROVE  ParcelsTypeOK'
<1>1. CASE \E o \in Orders : ParcelRequest(o)
  <2>1. PICK o \in Orders, c \in Carriers \cup {None}, t \in Numbers \cup {None} :
          \/ EnsureShipment(o, c, t)
          \/ \E to \in ShipmentStatuses : MoveParcel(o, to, c, t)
    BY <1>1 DEF ParcelRequest, ShipOrder, CreateParcel
  <2>2. parcel' \in [Orders -> Parcels]
    BY <2>1, EnsureWrites, MoveWrites DEF PInv
  <2> QED BY <2>2 DEF ParcelsTypeOK
<1>2. CASE UNCHANGED parcel
  BY <1>2 DEF PInv, ParcelsTypeOK
<1> QED BY <1>1, <1>2 DEF ParcelNext, MoveOrder, RestOfPurchase, parcelVars

\* The invariant is inductive.
LEMMA PInvStep == ASSUME Base, Base', PInv, [ParcelNext]_parcelVars PROVE PInv'
<1>1. [Next]_vars
  BY StepRefines
<1>2. ParcelsTypeOK'
  BY ParcelTypes DEF Base, IInv
<1>3. \A o \in Orders : Behind(o)' /\ Labelled(o)'
  <2>1. CASE \E o \in Orders : ParcelRequest(o)
    BY <1>1, <2>1, EnsureStep, MoveParcelStep DEF ParcelRequest
  <2>2. CASE \E o \in Orders, to \in StaffTargets : MoveOrder(o, to)
    BY <1>1, <2>2, MoveOrderStep
  <2>3. CASE RestOfPurchase \/ UNCHANGED parcelVars
    BY <2>3, RestStep
  <2> QED BY <2>1, <2>2, <2>3 DEF ParcelNext
<1> QED BY <1>2, <1>3 DEF PInv, ParcelNeverAhead, ShippedHasAParcel, Behind, Labelled, Past

\* It holds of the parcels an older build may have left.
LEMMA PInvInit == ParcelInit => PInv
<1> SUFFICES ASSUME ParcelInit PROVE PInv
  OBVIOUS
<1>1. /\ TypeOK
      /\ \A o \in Orders : orders[o].status = "pending"
  BY InitHolds DEF ParcelInit, IInv, Init
<1>2. /\ NoParcel \in Parcels /\ LegacyParcel \in Parcels
      /\ NoParcel.at = "none" /\ LegacyParcel.at = "pending"
  BY DEF NoParcel, LegacyParcel, Parcels, ShipmentStatuses
<1>3. parcel \in [Orders -> {NoParcel, LegacyParcel}]
  BY DEF ParcelInit
<1>4. ParcelsTypeOK
  BY <1>1, <1>2, <1>3 DEF ParcelsTypeOK
<1>5. ParcelNeverAhead
  BY <1>2, <1>3 DEF ParcelNeverAhead, OnTheWay
<1>6. ShippedHasAParcel
  BY <1>1, Chain DEF ShippedHasAParcel
<1> QED BY <1>4, <1>5, <1>6 DEF PInv

-----------------------------------------------------------------------------
(* Theorems.                                                               *)

\* What holds of every purchase holds with its parcels.
LEMMA BaseHolds == ParcelSpec => []Base
<1>1. ParcelSpec => Spec
  BY ParcelsRefine DEF ImplementsPurchase
<1> QED BY <1>1, Invariance, Story, PTL DEF Base

\* The invariant holds throughout.
LEMMA PInvHolds == ParcelSpec => []PInv
<1>1. ParcelInit => PInv
  BY PInvInit
<1>2. Base /\ Base' /\ PInv /\ [ParcelNext]_parcelVars => PInv'
  BY PInvStep
<1> QED BY <1>1, <1>2, BaseHolds, PTL DEF ParcelSpec

\* A parcel with its carrier belongs to an order shown as shipped, one that
\* arrived to an order shown as delivered, whatever happens to the order.
THEOREM ParcelsStayBehind == ParcelSpec => []ParcelNeverAhead
<1>1. PInv => ParcelNeverAhead
  BY DEF PInv
<1> QED BY <1>1, PInvHolds, PTL

\* A shipped order has a parcel with a carrier and a tracking number.
THEOREM ShippedIsLabelled == ParcelSpec => []ShippedHasAParcel
<1>1. PInv => ShippedHasAParcel
  BY DEF PInv
<1> QED BY <1>1, PInvHolds, PTL

\* No parcel leaves the shop before its order's money and stock are accounted for.
THEOREM NothingLeavesEarly == ParcelSpec => []NothingLeavesUnpaid
<1>1. Base /\ PInv => NothingLeavesUnpaid
  <2> SUFFICES ASSUME Base, PInv, NEW o \in Orders, parcel[o].at \in OnTheWay \cup {"delivered"}
               PROVE  Settled /\ Committed(o)
    BY DEF NothingLeavesUnpaid
  <2>1. AtOrPast(orders[o].status, "shipped") \/ AtOrPast(orders[o].status, "delivered")
    BY DEF PInv, ParcelNeverAhead
  <2>2. orders[o].status \in InFulfilment
    BY <2>1, Chain DEF InFulfilment
  <2>3. FulfilledIsSold
    BY InvImplies DEF Base
  <2> QED BY <2>2, <2>3 DEF FulfilledIsSold
<1> QED BY <1>1, BaseHolds, PInvHolds, PTL

\* Once a parcel is with its carrier, no request rewrites its carrier or number.
THEOREM CarriedIsFixed == ParcelSpec => CarriedParcelKeepsItsNumber
<1> DEFINE Kept == \A o \in Orders : parcel[o].at \in OnTheWay \cup {"delivered"}
                     => /\ parcel'[o].carrier = parcel[o].carrier
                        /\ parcel'[o].tracking = parcel[o].tracking
<1>1. Base /\ PInv /\ [ParcelNext]_parcelVars => [Kept]_parcelVars
  <2> SUFFICES ASSUME Base, PInv, ParcelNext, NEW o \in Orders,
                      parcel[o].at \in OnTheWay \cup {"delivered"}
               PROVE  /\ parcel'[o].carrier = parcel[o].carrier
                      /\ parcel'[o].tracking = parcel[o].tracking
    OBVIOUS
  <2>1. Past(o, "shipped")
    BY Chain DEF PInv, ParcelNeverAhead, Past
  <2>2. parcel[o].carrier # None /\ parcel[o].tracking # None
    BY <2>1 DEF PInv, ShippedHasAParcel, Past
  <2>3. CASE \E x \in Orders : ParcelRequest(x)
    <3>1. PICK x \in Orders, c \in Carriers \cup {None}, t \in Numbers \cup {None} :
            \/ ShipOrder(x, c, t)
            \/ CreateParcel(x, c, t)
            \/ \E to \in ShipmentStatuses : MoveParcel(x, to, c, t)
      BY <2>3 DEF ParcelRequest
    <3>2. CASE x # o
      BY <3>1, <3>2, EnsureWrites, MoveWrites DEF PInv, ShipOrder, CreateParcel
    <3>3. CASE x = o
      <4>1. ~CreateParcel(o, c, t)
        BY DEF CreateParcel, OnTheWay
      <4>2. ~ShipOrder(o, c, t)
        BY <2>1, StaffMoveShows DEF ShipOrder, FulfillmentStatuses
      <4> QED BY <2>2, <3>1, <3>3, <4>1, <4>2, MoveWrites DEF PInv
    <3> QED BY <3>2, <3>3
  <2>4. CASE UNCHANGED parcel
    BY <2>4
  <2> QED BY <2>3, <2>4 DEF ParcelNext, MoveOrder, RestOfPurchase
<1> QED BY <1>1, BaseHolds, PInvHolds, PTL DEF ParcelSpec, CarriedParcelKeepsItsNumber

\* The axes of a machine status read back as that status, and so does the column
\* they project to, unless the money ended the purchase.
LEMMA ReadsBack ==
  ASSUME NEW s \in FulfillmentStatuses, NEW p
  PROVE  LET read == NormalizeOrderStatus(ProjectOrderStatus(p, AxesFor(s)))
         IN /\ FulfillmentForAxes(AxesFor(s)) = s
            /\ read = s \/ (p \in {"expired", "failed", "refunded"} /\ read = "cancelled")
<1>1. FulfillmentForAxes(AxesFor(s)) = s
  BY DEF FulfillmentStatuses, AxesFor, FulfillmentForAxes, NormalizeFulfillmentAxis,
     NormalizeOrderState, FulfillmentAxis, OrderStates
<1>2. LET read == NormalizeOrderStatus(ProjectOrderStatusSql(p, AxesFor(s)))
      IN read = s \/ (p \in {"expired", "failed", "refunded"} /\ read = "cancelled")
  BY DEF FulfillmentStatuses, AxesFor, ProjectOrderStatusSql, NormalizeOrderStatus
<1> QED BY <1>1, <1>2, SqlMirror

\* Whatever a refund, a sweep or an event did to the payment, staff find every order
\* where its axes say it is, or ended by its money (order-fulfillment.ts:143-166).
THEOREM StaffReadBack == ParcelSpec => []StaffMoveReadsBack
<1>1. (\A o \in Orders : Coherent(o)) => StaffMoveReadsBack
  BY ReadsBack DEF Coherent, StaffMoveReadsBack
<1> QED BY <1>1, ParcelsRefine, Story, PTL DEF ImplementsPurchase
=============================================================================
