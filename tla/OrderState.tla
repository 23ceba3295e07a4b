----------------------------- MODULE OrderState -----------------------------
(***************************************************************************)
(* The pure part of an order's life: the twelve values of the legacy       *)
(* orders.status column, the two axes stored beside it (order_state and    *)
(* fulfillment_status), the payment axis, and the functions every writer   *)
(* goes through (src/backend/lib/order-state.ts, order-fulfillment.ts).    *)
(* No state: the modules that move orders EXTEND this one.                 *)
(* A definition marked "Mutant of X" is a slip X could have had; no        *)
(* specification uses it, a run with it in X's place must fail.            *)
(***************************************************************************)

LegacyStatuses == {"pending", "pending_payment", "paid", "confirmed", "packing",
                   "shipped", "delivered", "completed", "payment_failed",
                   "refunded", "cancelled", "expired"}

OrderStates == {"pending", "confirmed", "processing", "completed", "cancelled"}

FulfillmentAxis == {"unfulfilled", "ready", "picking", "packing", "ready_to_ship",
                    "shipped", "delivered", "failed", "cancelled"}

PaymentStates == {"unpaid", "pending", "requires_action", "processing", "authorized",
                  "paid", "failed", "cancelled", "expired", "partially_refunded",
                  "refunded"}

\* The seven statuses of the one fulfilment machine.
FulfillmentStatuses == {"pending", "confirmed", "packing", "shipped", "delivered",
                        "completed", "cancelled"}

Axes == [ostate : OrderStates, fstat : FulfillmentAxis]

-----------------------------------------------------------------------------
\* An unknown axis value falls in the direction that claims nothing.
NormalizeFulfillmentAxis(f) == IF f \in FulfillmentAxis THEN f ELSE "unfulfilled"
NormalizeOrderState(o) == IF o \in OrderStates THEN o ELSE "pending"
NormalizePaymentState(p) == IF p \in PaymentStates THEN p ELSE "unpaid"

\* The axis pair that records a machine status.
AxesFor(s) ==
  CASE s = "pending"   -> [ostate |-> "pending",    fstat |-> "unfulfilled"]
    [] s = "confirmed" -> [ostate |-> "confirmed",  fstat |-> "ready"]
    [] s = "packing"   -> [ostate |-> "processing", fstat |-> "packing"]
    [] s = "shipped"   -> [ostate |-> "processing", fstat |-> "shipped"]
    [] s = "delivered" -> [ostate |-> "processing", fstat |-> "delivered"]
    [] s = "completed" -> [ostate |-> "completed",  fstat |-> "delivered"]
    [] s = "cancelled" -> [ostate |-> "cancelled",  fstat |-> "cancelled"]

\* Its inverse, total over every stored pair.
FulfillmentForAxes(axes) ==
  LET f == NormalizeFulfillmentAxis(axes.fstat)
      o == NormalizeOrderState(axes.ostate)
  IN CASE f \in {"unfulfilled", "ready"} -> IF o = "confirmed" THEN "confirmed" ELSE "pending"
       [] f \in {"picking", "ready_to_ship"} -> "confirmed"
       [] f \in {"packing", "shipped"} -> f
       [] f = "delivered" -> IF o = "completed" THEN "completed" ELSE "delivered"
       [] f \in {"failed", "cancelled"} -> "cancelled"

\* The fulfilment facts that outrank everything else.
Started == {"picking", "packing", "ready_to_ship", "shipped", "delivered", "failed"}

StartedStatus(o, f) ==
  CASE f = "shipped" -> "shipped"
    [] f = "delivered" -> IF o = "completed" THEN "completed" ELSE "delivered"
    [] f \in {"picking", "packing", "ready_to_ship"} -> "packing"
    [] f = "failed" -> "cancelled"

\* THE projection: fulfilment facts first, then how the order ended, then money.
ProjectNormalized(p, o, f) ==
       IF f \in Started THEN StartedStatus(o, f)
  ELSE IF p = "expired" THEN "expired"
  ELSE IF o = "cancelled" \/ f = "cancelled" THEN "cancelled"
  ELSE IF o = "completed" THEN "completed"
  ELSE IF p = "refunded" THEN "refunded"
  ELSE IF o = "confirmed" THEN "confirmed"
  ELSE IF o = "processing" THEN "packing"
  ELSE IF p \in {"paid", "partially_refunded"} THEN "paid"
  ELSE IF p = "failed" THEN "payment_failed"
  ELSE IF p = "unpaid" THEN "pending"
  ELSE "pending_payment"

ProjectOrderStatus(p, axes) ==
  ProjectNormalized(NormalizePaymentState(p), NormalizeOrderState(axes.ostate),
                    NormalizeFulfillmentAxis(axes.fstat))

\* The CASE expression the UPDATE statements run: it normalises nothing.
ProjectOrderStatusSql(p, axes) ==
  LET f == axes.fstat
      o == axes.ostate
  IN     IF f = "shipped" THEN "shipped"
    ELSE IF f = "delivered" /\ o = "completed" THEN "completed"
    ELSE IF f = "delivered" THEN "delivered"
    ELSE IF f \in {"picking", "packing", "ready_to_ship"} THEN "packing"
    ELSE IF f = "failed" THEN "cancelled"
    ELSE IF p = "expired" THEN "expired"
    ELSE IF o = "cancelled" \/ f = "cancelled" THEN "cancelled"
    ELSE IF o = "completed" THEN "completed"
    ELSE IF p = "refunded" THEN "refunded"
    ELSE IF o = "confirmed" THEN "confirmed"
    ELSE IF o = "processing" THEN "packing"
    ELSE IF p \in {"paid", "partially_refunded"} THEN "paid"
    ELSE IF p = "failed" THEN "payment_failed"
    ELSE IF p \in {"pending", "requires_action", "processing", "authorized", "cancelled"}
         THEN "pending_payment"
    ELSE "pending"

-----------------------------------------------------------------------------
\* What a stored status means to the fulfilment machine.
\* Mutant of NormalizeOrderStatus: an expired order reads as a fresh one.
ForgetsExpired(s) ==
  CASE s \in {"confirmed", "packing", "shipped", "delivered", "completed"} -> s
    [] s \in {"cancelled", "payment_failed", "refunded"} -> "cancelled"
    [] OTHER -> "pending"
NormalizeOrderStatus(s) ==
  CASE s \in {"confirmed", "packing", "shipped", "delivered", "completed"} -> s
    [] s \in {"cancelled", "payment_failed", "refunded", "expired"} -> "cancelled"
    [] OTHER -> "pending"

CanTransition(from, to) ==
  \/ from = "pending"   /\ to \in {"confirmed", "cancelled"}
  \/ from = "confirmed" /\ to \in {"packing", "cancelled"}
  \/ from = "packing"   /\ to = "shipped"
  \/ from = "shipped"   /\ to = "delivered"
  \/ from = "delivered" /\ to = "completed"

=============================================================================
