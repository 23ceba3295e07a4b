SPECIFICATION FairParcelSpec
CONSTANTS
  Orders = {o1}
  Sessions = {s1}
  Requests = {r1}
  StaffTargets = {"confirmed", "packing", "shipped", "delivered", "completed", "cancelled"}
  RefundKinds = {"partially_refunded", "refunded"}
  NoSession = NoSession
  Carriers = {c1}
  Numbers = {n1, n2}
  None = None
INVARIANTS
  ParcelNeverAhead
  ShippedHasAParcel
  StaffMoveReadsBack
PROPERTIES
  CarriedParcelKeepsItsNumber
  ImplementsPurchase
  FulfilmentOnlyAdvances
  DueReservationEnds
  CapturedMoneyIsRecorded
