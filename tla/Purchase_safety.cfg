SPECIFICATION Spec
CONSTANTS
  Orders = {o1, o2}
  Sessions = {s1, s2}
  Requests = {r1}
  StaffTargets = {"confirmed", "packing", "cancelled"}
  RefundKinds = {"refunded"}
  NoSession = NoSession
SYMMETRY Symmetry
INVARIANTS
  CommitXorRelease
  HeldWhileWaiting
  ReleasedIsDead
  RecordedMoneyIsAccountedFor
  FulfilledIsSold
PROPERTIES
  ImplementsReservation
