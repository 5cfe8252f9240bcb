SPECIFICATION Spec
CONSTANTS
  Clients = {c1, c2}
  Rooms = {1, 2}
  Windows = {w1, w2}
  w1 = w1
  w2 = w2
  Bookings = {b1, b2}
  Keys = {k1}
  Days = {1, 3, 4, 6}
  Stays <- MCCrossedStays
  Ops = {"create", "approve", "update"}
  StreamEnabled = FALSE
  InitWindows <- MCLateRoom
  MaxVersion = 3
  None = None
SYMMETRY Symmetry
INVARIANTS NoDoubleBooking CommitsOnFreshChecks
PROPERTIES OneBookingPerKey
