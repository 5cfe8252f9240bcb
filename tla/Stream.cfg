SPECIFICATION FairSpec
CONSTANTS
  b1 = b1
  p1 = p1
  Bookings = {b1}
  Partitions = {p1}
  PartitionOf <- OneEach
  Relays = {r1, r2}
  Consumers = {c1}
  BatchSize = 2
  DeleteBatch = 1
  MaxVersion = 2
  MaxFaults = 1
  MaxRebuilds = 1
  Explored <- Moves
  WorkersStopped = TRUE
  None = None
INVARIANTS TypeOK NothingPassedOver
PROPERTIES ImplementsReadModel CatchesUp
CHECK_DEADLOCK FALSE
