SPECIFICATION FairSpec
CONSTANTS
  Refunds = {f1, f2}
  Operators = {p1, p2}
  Charge = 3
  Amounts = {1, 2}
  NoRefund = NoRefund
INVARIANTS
  IInv
  NeverOverclaims
PROPERTIES
  SucceededRefundIsRecorded
CHECK_DEADLOCK FALSE
