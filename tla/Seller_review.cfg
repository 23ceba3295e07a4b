SPECIFICATION Spec
CONSTANTS
  Records = {r1, r2, r3, r4}
  Reviewers = {v1, v2}
  None = None
SYMMETRY Symmetry
INVARIANTS
  BadgeHasProof
  PendingBadgeHasASubmission
PROPERTIES
  RejectionHolds
