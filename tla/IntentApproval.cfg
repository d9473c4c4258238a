SPECIFICATION Spec
CONSTANTS
  m1 = m1
  m2 = m2
  g1 = g1
  g2 = g2
  Members = {m1, m2}
  RoleOf <- TwoRoles
  DualControl = {m2}
  Versions = {1, 2, 3}
  Outcome <- ThreeOutcomes
  Required <- ThreeRequired
  Floor = {2}
  Gates = {g1, g2}
  MayAbandon = TRUE
INVARIANTS TypeOK HandoffHasQuorum
PROPERTIES ApprovedByEnough DecisionIsFinal ImplementsApproval
