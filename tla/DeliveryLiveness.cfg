SPECIFICATION FairSpec
CONSTANTS
  Events = {e1}
  Dispatchers = {d1}
  Workers = {w1}
  Tokens = {t1, t2, t3}
  BatchSize = 1
  MaxAttempts = 2
  MaxClaims = 6
  MaxFaults = 1
  MaxRedrives = 1
  None = None
PROPERTIES EventResolves
CHECK_DEADLOCK FALSE
