SPECIFICATION Spec
CONSTANTS
  Orders = {o1}
  Sessions = {s1, s2}
  Requests = {r1}
  StaffTargets = {}
  RefundKinds = {}
  NoSession = NoSession
PROPERTIES
  EventsStayOnTheirAttempt
