SPECIFICATION Spec
CONSTANTS
  Events = {e1}
  Dispatchers = {d1}
  Workers = {w1}
  Tokens = {t1, t2, t3, t4}
  BatchSize = 1
  MaxAttempts = 2
  MaxClaims = 4
  MaxFaults = 0
  MaxRedrives = 1
  None = None
PROPERTIES HandoffReachesQueue
CHECK_DEADLOCK FALSE
