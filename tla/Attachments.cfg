SPECIFICATION Spec
CONSTANTS
  Keys = {k1, k2, k3, k4}
  Rooms = {r1}
  Clients = {u1, u2}
  Cleaners = {c1, c2}
  MaxAlbum = 3
  Offset = 1000
  MaxFaults = 2
  LostReplies = FALSE
  None = None
SYMMETRY Symmetry
INVARIANTS LiveIsKept NoOrphan AlbumOrdered
CHECK_DEADLOCK FALSE
