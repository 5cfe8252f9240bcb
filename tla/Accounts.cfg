SPECIFICATION Spec
CONSTANTS
  Clients = {c1, c2}
  Users = {1, 2, 3}
  Sessions = {1, 2}
  States = {s1, s2}
  Claims <- MCClaims
  Seed <- MCSeed
  Expiring = {1}
  MaxRotations = 1
  None = None
SYMMETRY Symmetry
INVARIANTS TypeOK AdminRemains InactiveHoldsNoSession RevocationSeen OneAccountPerIdentity
PROPERTY SessionMovesForward
CHECK_DEADLOCK FALSE
