--------------------------- MODULE MCBookingCore ---------------------------
(* Instances of BookingCore for TLC. *)
EXTENDS BookingCore, TLC

CONSTANTS w1, w2

Win(r, f, t, st) == [room |-> r, from |-> f, to |-> t, status |-> st]

\* Two rooms with one window each over days 1..7.
MCTwoRooms == [w \in Windows |-> IF w = w1 THEN Win(1, 1, 7, "ACTIVE")
                                           ELSE Win(2, 1, 7, "ACTIVE")]
\* The second room is open from day 3 only.
MCLateRoom == [w \in Windows |-> IF w = w1 THEN Win(1, 1, 6, "ACTIVE")
                                           ELSE Win(2, 3, 6, "ACTIVE")]
\* One room: an ACTIVE window and an id no window has used.
MCOneRoom == [w \in Windows |-> IF w = w1 THEN Win(1, 1, 5, "ACTIVE") ELSE NoWin]

MCOneStay     == {<<1, 3>>}
MCWindowStays  == {<<1, 3>>, <<3, 5>>}
\* They share the night of day 3 and no other.
MCCrossedStays == {<<1, 4>>, <<3, 6>>}

Symmetry == Permutations(Clients) \cup Permutations(Bookings) \cup Permutations(Keys)
============================================================================
