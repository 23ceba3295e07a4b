SPECIFICATION Spec
CONSTANTS
  Deliveries = {d1, d2, d3, d4}
  MaxHandled = 2
SYMMETRY Symmetry
INVARIANTS
  OneDeliveryWorks
  OnlyFaultsLoseEvents
CHECK_DEADLOCK FALSE
