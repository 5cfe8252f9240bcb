SPECIFICATION Spec
CONSTANTS
  Clients = {c1, c2}
  Rooms = {1}
  Windows = {w1, w2}
  w1 = w1
  w2 = w2
  Bookings = {b1}
  Keys = {k1}
  Days = {1, 3, 5}
  Stays <- MCWindowStays
  Ops = {"create", "update", "cancelOwn", "windowCreate", "windowUpdate", "windowDelete", "roomUpdate"}
  StreamEnabled = FALSE
  InitWindows <- MCOneRoom
  MaxVersion = 3
  None = None
SYMMETRY Symmetry
INVARIANTS LiveStayCovered WindowsKept
