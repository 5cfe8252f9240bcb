SPECIFICATION FairSpec
CONSTANTS
  Clients = {c1, c2}
  Rooms = {1, 2}
  Windows = {w1, w2}
  w1 = w1
  w2 = w2
  Bookings = {b1}
  Keys = {k1}
  Days = {1, 2, 3}
  Stays <- MCOneStay
  Ops = {"create", "approve", "update", "reject", "cancelOwn", "cancelAdmin"}
  StreamEnabled = TRUE
  InitWindows <- MCTwoRooms
  MaxVersion = 3
  None = None
INVARIANTS TypeOK HistoryAgrees AnnouncedOnce
PROPERTIES ImplementsLedger RequestsFinish
