SPECIFICATION Spec
CONSTANTS
  Deliveries = {d1, d2}
  MaxHandled = 2
INVARIANTS
  AcknowledgedWasHandled
CHECK_DEADLOCK FALSE
