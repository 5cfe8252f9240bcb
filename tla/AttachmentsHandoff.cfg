SPECIFICATION Spec
CONSTANTS
  Keys = {k1, k2, k3}
  Rooms = {r1}
  Clients = {u1, u2}
  Cleaners = {c1}
  MaxAlbum = 2
  Offset = 1000
  MaxFaults = 2
  LostReplies = FALSE
  None = None
INVARIANTS AttachedHasObject
CHECK_DEADLOCK FALSE
