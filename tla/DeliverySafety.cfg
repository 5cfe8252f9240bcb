SPECIFICATION Spec
CONSTANTS
  Events = {e1}
  Dispatchers = {d1, d2}
  Workers = {w1, w2}
  Tokens = {t1, t2, t3}
  BatchSize = 1
  MaxAttempts = 2
  MaxClaims = 3
  MaxFaults = 2
  MaxRedrives = 1
  None = None
SYMMETRY Symmetry
INVARIANTS TypeOK RecordsAgree DeliveryTellsTruth NoDuplicateWithoutFault
PROPERTIES ResolvedStays
CHECK_DEADLOCK FALSE
