SPECIFICATION Spec
CONSTANTS
  m1 = m1
  m2 = m2
  g1 = g1
  g2 = g2
  Members = {m1, m2}
  RoleOf <- TwoAdmins
  DualControl = {}
  Versions = {1}
  Outcome <- OneOutcome
  Required <- AdminAndApprover
  Floor = {}
  Gates = {g1}
  MayAbandon = FALSE
INVARIANTS ApprovedPassesGate
