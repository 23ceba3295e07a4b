SPECIFICATION Spec
CONSTANTS
  Orders = {o1}
  Sessions = {s1, s2}
  Requests = {r1, r2}
  StaffTargets = {"cancelled"}
  RefundKinds = {}
  NoSession = NoSession
SYMMETRY Symmetry
INVARIANTS
  IInv
  PayablePageIsTheActiveAttempt
PROPERTIES
  PaidRowIsFinal
