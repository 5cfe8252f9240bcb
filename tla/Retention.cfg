SPECIFICATION Spec
CONSTANTS
  Replicas = {p1, p2}
  Backlog <- MCBacklog
  LastDay = 2
  Keyless = {2}
  BatchSize = 1
  DrainBatch = 2
  MaxAttempts = 2
  MaxFaults = 1
SYMMETRY Symmetry
INVARIANTS TypeOK EveryRowCounted SucceededDrained RetriesAreEarned WorkerHoldsWindow
CHECK_DEADLOCK FALSE
