------------------------ MODULE BookingTablesProofs ------------------------
(***************************************************************************)
(* Proofs about the tables around the bookings of BookingCore: windows,    *)
(* idempotency keys, and the journals (status history, change history,     *)
(* outbox, stream), and that the core implements BookingLedger, for any    *)
(* number of requests, rooms, windows, bookings.                           *)
(***************************************************************************)
EXTENDS BookingCoreProofs, FiniteSetTheorems

-----------------------------------------------------------------------------
(* Windows.  No window is closed, moved or deleted under a booking that    *)
(* claims it, although the usage the window policy reads is not locked and *)
(* three booking transitions lock no room.  The argument: whoever adds a   *)
(* claim to a window holds its room, and so does whoever changes the       *)
(* window.  What either of them found under the room lock is still so at   *)
(* its commit; steps without a room lock can only take claims away.        *)

\* What a handler found about windows under its room lock, from "check" to "commit".
WindowSound(p) ==
  LET r == req[p]
      w == req[p].window
  IN  /\ r.op \in {"windowUpdate", "windowDelete"} => windows[w].room = r.room
      /\ pc[p] = "commit" =>
           /\ r.op \in {"create", "update"} => Covers(r.dest, r.stay)
           /\ r.op = "windowCreate" /\ r.status = "ACTIVE" =>
                ~ActiveOverlap(r.room, r.stay[1], r.stay[2], None)
           /\ r.op \in {"windowUpdate", "windowDelete"} =>
                windows[w].status \in {"ACTIVE", "INACTIVE"}
           /\ r.op = "windowUpdate" => WindowUpdateAllowed(w, r.stay, r.status)
           /\ r.op = "windowDelete" => BookingCount(w) = {} /\ ChangeHistoryCount(w) = {}

\* The inductive invariant, on top of the one of BookingCoreProofs.
WInv == LiveStayCovered /\ WindowsKept /\ \A p \in Clients : WindowSound(p)

\* What every commit of p does to windows and claims: it changes a window, or adds a
\* claim to one, only in a room it holds.
Confined(p) ==
  /\ \A w \in Windows : windows'[w] # windows[w] =>
       /\ windows'[w].room \in Rooms /\ roomLock[windows'[w].room] = p
       /\ windows[w].status # "NONE" => windows'[w].room = windows[w].room
  /\ \A b \in Bookings : Exists(b)' =>
       \/ /\ Exists(b) /\ bookings'[b].window = bookings[b].window
          /\ bookings'[b].status \in Live => bookings[b].status \in Live
       \/ roomLock[windows[bookings'[b].window].room] = p
  /\ \A c \in changes' : \/ c \in changes
                         \/ /\ \E b \in Bookings : Exists(b) /\ bookings[b].window = c.from
                            /\ roomLock[windows[c.to].room] = p

\* Nobody finds more usage in a window whose room it holds after another's commit.
LEMMA UsageShrinks ==
  ASSUME NEW p \in Clients, NEW q \in Clients \ {p}, Confined(p),
         NEW w \in Windows, roomLock[windows[w].room] = q
  PROVE  /\ BookingCount(w)' \subseteq BookingCount(w)
         /\ ActiveBookingCount(w)' \subseteq ActiveBookingCount(w)
         /\ BookingCount(w) = {} /\ ChangeHistoryCount(w) = {} => ChangeHistoryCount(w)' = {}
<1>1. ASSUME NEW b \in Bookings, Exists(b)', bookings'[b].window = w
      PROVE  /\ Exists(b) /\ bookings[b].window = w
             /\ bookings'[b].status \in Live => bookings[b].status \in Live
  BY <1>1 DEF Confined
<1>2. BookingCount(w)' \subseteq BookingCount(w)
  BY <1>1 DEF BookingCount
<1>3. ActiveBookingCount(w)' \subseteq ActiveBookingCount(w)
  BY <1>1 DEF BookingCount, ActiveBookingCount
<1>4. ASSUME BookingCount(w) = {}, ChangeHistoryCount(w) = {}, NEW c \in changes'
      PROVE  w \notin {c.from, c.to}
  <2>1. CASE c \in changes
    BY <1>4, <2>1 DEF ChangeHistoryCount
  <2>2. CASE c \notin changes
    BY <1>4, <2>2 DEF Confined, BookingCount
  <2> QED
    BY <2>1, <2>2
<1> QED
  BY <1>2, <1>3, <1>4 DEF ChangeHistoryCount

\* A room q holds has the same windows after the commit of p.
LEMMA WindowsStill ==
  ASSUME NEW p \in Clients, NEW q \in Clients \ {p}, Confined(p),
         NEW r \in Rooms, roomLock[r] = q
  PROVE  /\ \A w \in Windows : windows[w].status # "NONE" /\ windows[w].room = r =>
              windows'[w] = windows[w]
         /\ \A w \in Windows : windows'[w].room = r => windows'[w] = windows[w]
         /\ \A from, to, x : ActiveOverlap(r, from, to, x)' => ActiveOverlap(r, from, to, x)
BY DEF Confined, ActiveOverlap

\* So what another handler found stays true through the commit of p.
LEMMA OthersStaySound ==
  ASSUME IInv, NEW p \in Clients, NEW q \in Clients \ {p}, Confined(p),
         WindowSound(q), pc'[q] = pc[q], req'[q] = req[q]
  PROVE  WindowSound(q)'
<1> DEFINE r == req[q]
           w == r.window
<1>1. TypeOK /\ RequestSound(q) /\ LocksHeld(q) /\ ChecksHold(q)
  BY DEF IInv, CommitsOnFreshChecks
<1>2. ASSUME r.op \in {"windowUpdate", "windowDelete"}
      PROVE  w \in Windows /\ windows[w].status # "NONE" /\ windows'[w].room = r.room
  BY <1>1, <1>2 DEF RequestSound, Confined, WindowSound
<1>3. ASSUME pc[q] = "commit", r.op \in RoomOps \ {"approve", "update"}
      PROVE  r.room \in Rooms /\ roomLock[r.room] = q
  BY <1>1, <1>3 DEF RequestSound, LocksHeld, RoomsNeeded
<1>4. ASSUME pc[q] = "commit", r.op = "update"
      PROVE  r.room \in Rooms /\ roomLock[r.room] = q
  BY <1>1, <1>4 DEF RequestSound, LocksHeld, RoomsNeeded, RoomOps, AllOps
<1>5. ASSUME pc[q] = "commit", r.op \in {"create", "update"}
      PROVE  Covers(r.dest, r.stay)'
  <2>1. r.room \in Rooms /\ roomLock[r.room] = q
    BY <1>3, <1>4, <1>5 DEF RoomOps, AllOps
  <2>2. r.dest \in Windows /\ windows[r.dest].status # "NONE" /\ windows[r.dest].room = r.room
    BY <1>1, <1>5 DEF ChecksHold
  <2>3. windows'[r.dest] = windows[r.dest]
    BY <2>1, <2>2, WindowsStill
  <2> QED
    BY <1>5, <2>3 DEF WindowSound, Covers
<1>6. ASSUME pc[q] = "commit", r.op = "windowCreate", r.status = "ACTIVE"
      PROVE  ~ActiveOverlap(r.room, r.stay[1], r.stay[2], None)'
  <2>1. r.room \in Rooms /\ roomLock[r.room] = q
    BY <1>3, <1>6 DEF RoomOps, AllOps
  <2> QED
    BY <1>6, <2>1, WindowsStill DEF WindowSound
<1>7. ASSUME pc[q] = "commit", r.op \in {"windowUpdate", "windowDelete"}
      PROVE  /\ windows'[w].status \in {"ACTIVE", "INACTIVE"}
             /\ r.op = "windowUpdate" => WindowUpdateAllowed(w, r.stay, r.status)'
             /\ r.op = "windowDelete" => BookingCount(w)' = {} /\ ChangeHistoryCount(w)' = {}
  <2>1. r.room \in Rooms /\ roomLock[r.room] = q /\ w \in Windows /\ windows[w].room = r.room
        /\ windows[w].status # "NONE"
    BY <1>2, <1>3, <1>7 DEF RoomOps, AllOps, WindowSound
  <2>2. windows'[w] = windows[w]
    BY <2>1, WindowsStill
  <2>3. /\ BookingCount(w)' \subseteq BookingCount(w)
        /\ ActiveBookingCount(w)' \subseteq ActiveBookingCount(w)
        /\ BookingCount(w) = {} /\ ChangeHistoryCount(w) = {} => ChangeHistoryCount(w)' = {}
    BY <2>1, UsageShrinks
  <2>4. \A from, to, x : ActiveOverlap(r.room, from, to, x)' => ActiveOverlap(r.room, from, to, x)
    BY <2>1, WindowsStill
  <2>5. ASSUME r.op = "windowUpdate" PROVE WindowUpdateAllowed(w, r.stay, r.status)'
    <3>1. WindowUpdateAllowed(w, r.stay, r.status)
      BY <1>7, <2>5 DEF WindowSound
    <3> QED
      BY <2>1, <2>2, <2>3, <2>4, <3>1 DEF WindowUpdateAllowed
  <2> QED
    BY <1>7, <2>2, <2>3, <2>5 DEF WindowSound
<1> QED
  BY <1>2, <1>5, <1>6, <1>7 DEF WindowSound

\* An idle client has found nothing.
LEMMA IdleFoundNothing ==
  ASSUME NEW p \in Clients, pc'[p] = "idle", req'[p] = NoReq
  PROVE  WindowSound(p)'
BY RequestTypes DEF WindowSound

\* A refused or replayed request leaves its client idle.
LEMMA ReturnFoundNothing ==
  ASSUME TypeOK, NEW p \in Clients, EndTransaction(p)
  PROVE  WindowSound(p)'
<1>1. pc'[p] = "idle" /\ req'[p] = NoReq
  BY DEF TypeOK, EndTransaction
<1> QED
  BY <1>1, IdleFoundNothing

\* A step that writes nothing keeps the invariant if its actor has found what it says.
LEMMA QuietKeepsWindows ==
  ASSUME IInv, WInv, NEW p \in Clients, Quiet(p), WindowSound(p)'
  PROVE  WInv'
<1>1. UNCHANGED <<windows, bookings, changes>>
  BY DEF Quiet, dbVars
<1>2. LiveStayCovered' /\ WindowsKept'
  <2>1. LiveStayCovered'
    BY <1>1 DEF WInv, LiveStayCovered, Covers
  <2>2. ReferencedWindowKept'
    BY <1>1 DEF WInv, WindowsKept, ReferencedWindowKept, Exists
  <2>3. NoActiveWindowOverlap'
    BY <1>1 DEF WInv, WindowsKept, NoActiveWindowOverlap
  <2> QED
    BY <2>1, <2>2, <2>3 DEF WindowsKept
<1>3. ASSUME NEW q \in Clients \ {p} PROVE WindowSound(q)'
  <2>1. pc'[q] = pc[q] /\ req'[q] = req[q] /\ WindowSound(q)
    BY QuietFrame DEF IInv, WInv
  <2> QED
    BY <1>1, <2>1 DEF WindowSound, Covers, ActiveOverlap, WindowUpdateAllowed, BookingCount,
                      ActiveBookingCount, ChangeHistoryCount, Exists
<1> QED
  BY <1>2, <1>3 DEF WInv

\* Beginnings: the room of a window request is the room of its window.
LEMMA BeginWindowSound ==
  ASSUME IInv, NEW p \in Clients, BeginAny(p)
  PROVE  WindowSound(p)'
<1>0. req \in [Clients -> Request] /\ pc \in [Clients -> PCs]
  BY DEF IInv, TypeOK
<1>1. ASSUME NEW r, NEW at \in {"key", "room", "booking"}, Begin(p, r, at),
             r.op \in {"windowUpdate", "windowDelete"} => windows[r.window].room = r.room
      PROVE  WindowSound(p)'
  <2>1. req'[p] = r /\ pc'[p] = at /\ windows' = windows
    BY <1>0, <1>1 DEF Begin, dbVars
  <2> QED
    BY <1>1, <2>1 DEF WindowSound
<1> HIDE DEF WindowSound
<1>2. CASE BeginCreate(p)
  BY <1>1, <1>2 DEF BeginCreate, NoReq
<1>3. CASE BeginApprove(p)
  BY <1>1, <1>3 DEF BeginApprove, NoReq
<1>4. CASE BeginUpdate(p)
  BY <1>1, <1>4 DEF BeginUpdate, NoReq
<1>5. ASSUME NEW op \in {"reject", "cancelOwn", "cancelAdmin"}, BeginTransition(p, op)
      PROVE  WindowSound(p)'
  BY <1>1, <1>5 DEF BeginTransition, NoReq
<1>6. CASE BeginWindowCreate(p) \/ BeginRoomUpdate(p)
  BY <1>1, <1>6 DEF BeginWindowCreate, BeginRoomUpdate, NoReq
<1>7. CASE BeginWindowUpdate(p)
  BY <1>1, <1>7 DEF BeginWindowUpdate, NoReq
<1>8. CASE BeginWindowDelete(p)
  BY <1>1, <1>8 DEF BeginWindowDelete, NoReq
<1> QED
  BY <1>2, <1>3, <1>4, <1>5, <1>6, <1>7, <1>8 DEF BeginAny

\* Taking a lock finds nothing new about windows.
LEMMA LockWindowSound ==
  ASSUME IInv, WInv, NEW p \in Clients, Lock(p)
  PROVE  WindowSound(p)'
<1>0. /\ TypeOK /\ req \in [Clients -> Request] /\ pc \in [Clients -> PCs]
      /\ WindowSound(p) /\ RequestSound(p)
  BY DEF IInv, TypeOK, WInv, CommitsOnFreshChecks
<1>1. CASE EndTransaction(p)
  BY <1>0, <1>1, ReturnFoundNothing
<1>2. CASE /\ req' = req /\ windows' = windows
           /\ pc'[p] # "commit" \/ req[p].op \notin {"create", "update", "windowCreate",
                                                     "windowUpdate", "windowDelete"}
  BY <1>0, <1>2 DEF WindowSound
<1>3. CASE LockKey(p)
  BY <1>0, <1>1, <1>2, <1>3 DEF LockKey, Return, dbVars
<1>4. CASE LockRoom(p)
  BY <1>0, <1>2, <1>4 DEF LockRoom, dbVars
<1>5. CASE LockBooking(p)
  <2>1. req[p].op \in BookingOps
    BY <1>0, <1>5 DEF LockBooking, RequestSound
  <2> QED
    BY <1>0, <1>1, <1>2, <1>5, <2>1 DEF LockBooking, Return, dbVars, BookingOps
<1> QED
  BY <1>3, <1>4, <1>5 DEF Lock

\* The checks under the locks are what the commit relies on.
LEMMA CheckWindowSound ==
  ASSUME IInv, WInv, NEW p \in Clients, Check(p)
  PROVE  WindowSound(p)'
<1>0. /\ TypeOK /\ req \in [Clients -> Request] /\ pc \in [Clients -> PCs] /\ req[p] \in Request
      /\ WindowSound(p) /\ RequestSound(p) /\ windows \in [Windows -> WindowRow]
  BY DEF IInv, TypeOK, WInv, CommitsOnFreshChecks
<1>1. ASSUME Return(p) PROVE WindowSound(p)'
  BY <1>0, <1>1, ReturnFoundNothing DEF Return
<1>2. ASSUME NEW r, Advance(p, "commit", r)
      PROVE  req'[p] = r /\ pc'[p] = "commit" /\ UNCHANGED <<windows, bookings, changes>>
  BY <1>0, <1>2 DEF Advance, dbVars
<1>3. CASE (CreateCheck(p) \/ UpdateCheck(p)) /\ ~Return(p)
  <2>1. PICK w \in FindWindows(req[p].room, req[p].stay) :
          Advance(p, "commit", [req[p] EXCEPT !.dest = w])
    BY <1>3 DEF CreateCheck, UpdateCheck
  <2>2. Covers(w, req[p].stay) /\ req[p].op \in {"create", "update"}
    BY <1>3 DEF FindWindows, CreateCheck, UpdateCheck
  <2>3. LET r == [req[p] EXCEPT !.dest = w]
        IN  r.op = req[p].op /\ r.dest = w /\ r.stay = req[p].stay
    BY <1>0 DEF Request
  <2> QED
    BY <1>2, <2>1, <2>2, <2>3 DEF WindowSound, Covers
<1>4. CASE (ApproveCheck(p) \/ RoomUpdateCheck(p)) /\ ~Return(p)
  <2>1. Advance(p, "commit", req[p]) /\ req[p].op \in {"approve", "roomUpdate"}
    BY <1>4 DEF ApproveCheck, RoomUpdateCheck
  <2> QED
    BY <1>2, <2>1 DEF WindowSound
<1>5. CASE (WindowCreateCheck(p) \/ WindowDeleteCheck(p)) /\ ~Return(p)
  <2>1. /\ Advance(p, "commit", req[p]) /\ req[p].op \in {"windowCreate", "windowDelete"}
        /\ req[p].op = "windowCreate" /\ req[p].status = "ACTIVE" =>
             ~ActiveOverlap(req[p].room, req[p].stay[1], req[p].stay[2], None)
        /\ req[p].op = "windowDelete" =>
             /\ windows[req[p].window].status \in {"ACTIVE", "INACTIVE"}
             /\ BookingCount(req[p].window) = {} /\ ChangeHistoryCount(req[p].window) = {}
    BY <1>5 DEF WindowCreateCheck, WindowDeleteCheck
  <2>2. req'[p] = req[p] /\ UNCHANGED <<windows, bookings, changes>>
    BY <1>2, <2>1
  <2> QED
    BY <1>0, <2>1, <2>2 DEF WindowSound, ActiveOverlap, BookingCount, ChangeHistoryCount, Exists
<1>6. CASE WindowUpdateCheck(p) /\ ~Return(p)
  <2> DEFINE w == req[p].window
             range == IF req[p].stay = <<0, 0>> THEN <<windows[w].from, windows[w].to>>
                                                ELSE req[p].stay
             r == [req[p] EXCEPT !.stay = range]
  <2>1. /\ Advance(p, "commit", r) /\ req[p].op = "windowUpdate"
        /\ windows[w].status \in {"ACTIVE", "INACTIVE"}
        /\ WindowUpdateAllowed(w, range, req[p].status)
    BY <1>6 DEF WindowUpdateCheck
  <2> HIDE DEF range
  <2>2. /\ r.op = req[p].op /\ r.window = w /\ r.stay = range /\ r.status = req[p].status
        /\ r.room = req[p].room
    BY <1>0 DEF Request
  <2> HIDE DEF r
  <2>3. req'[p] = r /\ UNCHANGED <<windows, bookings, changes>>
    BY <1>2, <2>1
  <2> QED
    BY <1>0, <2>1, <2>2, <2>3
    DEF WindowSound, WindowUpdateAllowed, ActiveOverlap, BookingCount, ActiveBookingCount,
        ChangeHistoryCount, Exists
<1> QED
  BY <1>1, <1>3, <1>4, <1>5, <1>6 DEF Check

-----------------------------------------------------------------------------
(* The commits. *)

\* A commit confined to the rooms its actor holds keeps the invariant if what it leaves
\* is covered and its windows are kept.
LEMMA ConfinedKeeps ==
  ASSUME IInv, WInv, NEW p \in Clients, EndTransaction(p), Confined(p),
         LiveStayCovered', WindowsKept'
  PROVE  WInv'
<1>1. ASSUME NEW q \in Clients \ {p} PROVE WindowSound(q)'
  <2>1. pc'[q] = pc[q] /\ req'[q] = req[q]
    BY DEF EndTransaction, IInv, TypeOK
  <2> QED
    BY <2>1, OthersStaySound DEF WInv
<1>2. WindowSound(p)'
  BY ReturnFoundNothing DEF IInv
<1> QED
  BY <1>1, <1>2 DEF WInv

\* A decision about a booking moves no stay and opens no claim.
LEMMA DecisionKeeps ==
  ASSUME IInv, WInv, NEW p \in Clients, EndTransaction(p), NEW b \in Bookings, NEW to \in Statuses,
         bookings[b].status \in Live, SaveStatus(b, to), UNCHANGED <<windows, changes>>
  PROVE  WInv'
<1>1. /\ TypeOK /\ bookings'[b].window = bookings[b].window /\ bookings'[b].stay = bookings[b].stay
      /\ bookings'[b].status = to
      /\ \A c \in Bookings \ {b} : bookings'[c] = bookings[c]
  BY SaveTyped DEF IInv
<1>2. \A c \in Bookings : /\ bookings'[c].window = bookings[c].window
                          /\ bookings'[c].stay = bookings[c].stay
                          /\ Exists(c)' => Exists(c)
                          /\ bookings'[c].status \in Live => bookings[c].status \in Live
  BY <1>1 DEF Exists, Live
<1>3. Confined(p)
  BY <1>2 DEF Confined
<1>4. LiveStayCovered'
  BY <1>2 DEF WInv, LiveStayCovered, Covers
<1>5. ReferencedWindowKept'
  BY <1>2 DEF WInv, WindowsKept, ReferencedWindowKept
<1>6. NoActiveWindowOverlap'
  BY DEF WInv, WindowsKept, NoActiveWindowOverlap
<1> QED
  BY <1>3, <1>4, <1>5, <1>6, ConfinedKeeps DEF WindowsKept

\* A booking placed, or moved, into the window its check found.
LEMMA PlacementKeeps ==
  ASSUME IInv, WInv, NEW p \in Clients, EndTransaction(p), NEW b \in Bookings,
         NEW d \in Windows, roomLock[windows[d].room] = p,
         bookings'[b].window = d, Covers(d, bookings'[b].stay),
         \A c \in Bookings \ {b} : bookings'[c] = bookings[c],
         UNCHANGED windows, changes \subseteq changes',
         \A c \in changes' \ changes :
           Exists(b) /\ c.from = bookings[b].window /\ c.to = d
  PROVE  WInv'
<1>1. Confined(p)
  BY DEF Confined, Exists
<1>2. LiveStayCovered'
  BY DEF WInv, LiveStayCovered, Covers
<1>3. ReferencedWindowKept'
  <2> SUFFICES ASSUME NEW w \in Windows,
                      \/ \E c \in Bookings : Exists(c)' /\ bookings'[c].window = w
                      \/ \E c \in changes' : w \in {c.from, c.to}
               PROVE  windows[w].status \in {"ACTIVE", "INACTIVE"}
    BY DEF ReferencedWindowKept
  <2>1. CASE w = d
    BY <2>1 DEF Covers
  <2>2. CASE w # d
    <3>1. \/ \E c \in Bookings : Exists(c) /\ bookings[c].window = w
          \/ \E c \in changes : w \in {c.from, c.to}
      BY <2>2 DEF Exists
    <3> QED
      BY <3>1 DEF WInv, WindowsKept, ReferencedWindowKept
  <2> QED
    BY <2>1, <2>2
<1>4. NoActiveWindowOverlap'
  BY DEF WInv, WindowsKept, NoActiveWindowOverlap
<1> QED
  BY <1>1, <1>2, <1>3, <1>4, ConfinedKeeps DEF WindowsKept

\* A window written in a room its writer holds: no live claim loses its cover, no
\* reference its window, and ACTIVE windows stay apart.
LEMMA WindowWriteKeeps ==
  ASSUME IInv, WInv, NEW p \in Clients, EndTransaction(p), NEW w \in Windows,
         windows' \in [Windows -> WindowRow],
         windows'[w].room \in Rooms, roomLock[windows'[w].room] = p,
         windows[w].status # "NONE" => windows'[w].room = windows[w].room,
         \A v \in Windows \ {w} : windows'[v] = windows[v],
         UNCHANGED <<bookings, changes>>,
         BookingCount(w) # {} \/ ChangeHistoryCount(w) # {} =>
           /\ windows'[w].status \in {"ACTIVE", "INACTIVE"}
           /\ windows'[w].from = windows[w].from /\ windows'[w].to = windows[w].to,
         ActiveBookingCount(w) # {} => windows'[w].status = "ACTIVE",
         windows'[w].status = "ACTIVE" =>
           ~ActiveOverlap(windows'[w].room, windows'[w].from, windows'[w].to, w)
  PROVE  WInv'
<1>1. Confined(p)
  BY DEF Confined, Exists
<1>2. LiveStayCovered'
  <2> SUFFICES ASSUME NEW b \in Bookings, bookings[b].status \in Live
               PROVE  Covers(bookings[b].window, bookings[b].stay)'
    BY DEF LiveStayCovered, Covers
  <2>1. Covers(bookings[b].window, bookings[b].stay) /\ Exists(b) /\ bookings[b].window \in Windows
    BY DEF WInv, LiveStayCovered, IInv, CommitsOnFreshChecks, ReferencesSound, Exists, Live
  <2>2. CASE bookings[b].window # w
    BY <2>1, <2>2 DEF Covers
  <2>3. CASE bookings[b].window = w
    <3>1. b \in BookingCount(w) /\ b \in ActiveBookingCount(w)
      BY <2>1, <2>3 DEF BookingCount, ActiveBookingCount
    <3>2. /\ windows'[w].status = "ACTIVE"
          /\ windows'[w].from = windows[w].from /\ windows'[w].to = windows[w].to
      BY <3>1
    <3> QED
      BY <2>1, <2>3, <3>2 DEF Covers
  <2> QED
    BY <2>2, <2>3
<1>3. ReferencedWindowKept'
  <2> SUFFICES ASSUME NEW v \in Windows,
                      \/ \E c \in Bookings : Exists(c) /\ bookings[c].window = v
                      \/ \E c \in changes : v \in {c.from, c.to}
               PROVE  windows'[v].status \in {"ACTIVE", "INACTIVE"}
    BY DEF ReferencedWindowKept, Exists
  <2>1. CASE v = w
    BY <2>1 DEF BookingCount, ChangeHistoryCount
  <2>2. CASE v # w
    BY <2>2 DEF WInv, WindowsKept, ReferencedWindowKept
  <2> QED
    BY <2>1, <2>2
<1>4. NoActiveWindowOverlap'
  <2> SUFFICES ASSUME NEW u \in Windows, NEW v \in Windows, u # v,
                      windows'[u].room = windows'[v].room,
                      windows'[u].status = "ACTIVE", windows'[v].status = "ACTIVE"
               PROVE  ~Overlap(<<windows'[u].from, windows'[u].to>>,
                               <<windows'[v].from, windows'[v].to>>)
    BY DEF NoActiveWindowOverlap, Overlap
  <2>1. CASE u # w /\ v # w
    BY <2>1 DEF WInv, WindowsKept, NoActiveWindowOverlap
  <2>2. \A x \in Windows : windows'[x].from \in Int /\ windows'[x].to \in Int
    BY DEF WindowRow
  <2>3. ASSUME NEW x \in Windows \ {w}, windows'[w].status = "ACTIVE", windows'[x].status = "ACTIVE",
               windows'[x].room = windows'[w].room
        PROVE  ~(windows'[x].from < windows'[w].to /\ windows'[x].to > windows'[w].from)
    BY <2>3 DEF ActiveOverlap
  <2>4. CASE u = w
    BY <2>2, <2>3, <2>4 DEF Overlap
  <2>5. CASE v = w
    BY <2>2, <2>3, <2>5 DEF Overlap
  <2> QED
    BY <2>1, <2>4, <2>5
<1> QED
  BY <1>1, <1>2, <1>3, <1>4, ConfinedKeeps DEF WindowsKept

\* Every commit keeps the invariant.
LEMMA CommitKeepsWindows ==
  ASSUME IInv, WInv, NEW p \in Clients, Commit(p)
  PROVE  WInv'
<1> DEFINE r == req[p]
           b == r.booking
           w == r.window
<1>0. /\ TypeOK /\ RequestSound(p) /\ LocksHeld(p) /\ StatusSeen(p) /\ ChecksHold(p)
      /\ WindowSound(p) /\ r \in Request
      /\ windows \in [Windows -> WindowRow] /\ bookings \in [Bookings -> BookingRow]
  BY DEF IInv, CommitsOnFreshChecks, WInv, TypeOK
<1>1. pc[p] = "commit" /\ EndTransaction(p)
  BY DEF Commit, CommitCreate, CommitApprove, CommitReject, CommitCancelOwn, CommitCancelAdmin,
         CommitUpdate, CommitWindowCreate, CommitWindowUpdate, CommitWindowDelete,
         CommitRoomUpdate, WindowCommitted
<1>2. r.op \in BookingOps => b \in Bookings /\ Exists(b)
  BY <1>0 DEF RequestSound
<1>3. r.op \in RoomOps => r.room \in Rooms /\ roomLock[r.room] = p
  BY <1>0, <1>1 DEF RequestSound, LocksHeld, RoomsNeeded
<1>4. CASE CommitApprove(p) \/ CommitReject(p) \/ CommitCancelOwn(p) \/ CommitCancelAdmin(p)
  <2>1. /\ b \in Bookings /\ bookings[b].status \in Live
        /\ UNCHANGED <<windows, changes>>
    BY <1>0, <1>1, <1>2, <1>4 DEF CommitApprove, CommitReject, CommitCancelOwn, CommitCancelAdmin,
       StatusSeen, Live, BookingOps
  <2>2. PICK to \in Statuses : SaveStatus(b, to)
    BY <1>4 DEF CommitApprove, CommitReject, CommitCancelOwn, CommitCancelAdmin, Statuses, Live,
                Terminal
  <2> QED
    BY <1>1, <2>1, <2>2, DecisionKeeps
<1>5. ASSUME r.op \in {"create", "update"}
      PROVE  /\ r.dest \in Windows /\ roomLock[windows[r.dest].room] = p
             /\ Covers(r.dest, r.stay)
  BY <1>0, <1>1, <1>3, <1>5 DEF ChecksHold, WindowSound, RoomOps, AllOps
<1>6. CASE CommitCreate(p)
  <2>1. PICK c \in Bookings :
          /\ r.op = "create"
          /\ bookings' = [bookings EXCEPT ![c] = [window |-> r.dest, stay |-> r.stay,
                                                  status |-> "PENDING", version |-> 1]]
          /\ UNCHANGED <<windows, changes>>
    BY <1>6 DEF CommitCreate
  <2>2. /\ bookings'[c].window = r.dest /\ bookings'[c].stay = r.stay
        /\ \A d \in Bookings \ {c} : bookings'[d] = bookings[d]
    BY <1>0, <2>1
  <2> QED
    BY <1>1, <1>5, <2>1, <2>2, PlacementKeeps
<1>7. CASE CommitUpdate(p)
  <2>1. /\ r.op = "update" /\ b \in Bookings /\ Exists(b)
        /\ bookings' = [bookings EXCEPT ![b] =
             [bookings[b] EXCEPT !.window = r.dest, !.stay = r.stay,
                                 !.version = bookings[b].version + 1]]
        /\ changes' = changes \cup {[booking |-> b, version |-> bookings[b].version + 1,
                                     from |-> bookings[b].window, to |-> r.dest]}
        /\ UNCHANGED windows
    BY <1>0, <1>2, <1>7 DEF CommitUpdate, BookingOps
  <2>2. bookings[b] \in BookingRow
    BY <1>0, <2>1
  <2>3. /\ bookings'[b].window = r.dest /\ bookings'[b].stay = r.stay
        /\ \A d \in Bookings \ {b} : bookings'[d] = bookings[d]
    BY <1>0, <2>1, <2>2 DEF BookingRow
  <2>4. \A c \in changes' \ changes : c.from = bookings[b].window /\ c.to = r.dest
    BY <2>1
  <2> QED
    BY <1>1, <1>5, <2>1, <2>3, <2>4, PlacementKeeps
<1>8. CASE CommitWindowCreate(p)
  <2>1. PICK v \in Windows :
          /\ r.op = "windowCreate" /\ windows[v].status = "NONE"
          /\ windows' = [windows EXCEPT ![v] =
               [room |-> r.room, from |-> r.stay[1], to |-> r.stay[2], status |-> r.status]]
          /\ UNCHANGED <<bookings, changes>>
    BY <1>8 DEF CommitWindowCreate, WindowCommitted
  <2> DEFINE new == [room |-> r.room, from |-> r.stay[1], to |-> r.stay[2], status |-> r.status]
  <2>2. r.status \in {"ACTIVE", "INACTIVE"} /\ r.room \in Rooms /\ roomLock[r.room] = p
    BY <1>0, <1>3, <2>1 DEF RequestSound, RoomOps, AllOps
  <2>3. new \in WindowRow /\ new.room = r.room /\ new.from = r.stay[1] /\ new.to = r.stay[2]
        /\ new.status = r.status
    BY <1>0, <2>2 DEF WindowRow, Request
  <2> HIDE DEF new
  <2>4. /\ windows' \in [Windows -> WindowRow] /\ windows'[v] = new
        /\ \A x \in Windows \ {v} : windows'[x] = windows[x]
    BY <1>0, <2>1, <2>3 DEF new
  <2>5. BookingCount(v) = {} /\ ChangeHistoryCount(v) = {} /\ ActiveBookingCount(v) = {}
    <3>1. ReferencedWindowKept
      BY DEF WInv, WindowsKept
    <3> QED
      BY <2>1, <3>1 DEF ReferencedWindowKept, BookingCount, ChangeHistoryCount, ActiveBookingCount
  <2>6. r.status = "ACTIVE" => ~ActiveOverlap(r.room, r.stay[1], r.stay[2], v)
    BY <1>0, <1>1, <2>1, ConstantsAssumption DEF WindowSound, ActiveOverlap
  <2> QED
    BY <1>1, <2>1, <2>2, <2>3, <2>4, <2>5, <2>6, WindowWriteKeeps
<1>9. ASSUME r.op \in {"windowUpdate", "windowDelete"}
      PROVE  /\ w \in Windows /\ windows[w] \in WindowRow
             /\ windows[w].room = r.room /\ r.room \in Rooms /\ roomLock[r.room] = p
             /\ windows[w].status \in {"ACTIVE", "INACTIVE"}
  BY <1>0, <1>1, <1>3, <1>9 DEF RequestSound, WindowSound, RoomOps, AllOps
<1>10. CASE CommitWindowUpdate(p)
  <2> DEFINE new == [windows[w] EXCEPT !.from = r.stay[1], !.to = r.stay[2], !.status = r.status]
  <2>1. /\ r.op = "windowUpdate" /\ windows' = [windows EXCEPT ![w] = new]
        /\ UNCHANGED <<bookings, changes>>
    BY <1>0, <1>10 DEF CommitWindowUpdate, WindowCommitted
  <2>2. r.status \in {"ACTIVE", "INACTIVE"} /\ r.stay = <<r.stay[1], r.stay[2]>>
        /\ r.stay[1] \in Int /\ r.stay[2] \in Int
    BY <1>0, <2>1 DEF RequestSound, Request
  <2>3. new \in WindowRow /\ new.room = r.room /\ new.from = r.stay[1] /\ new.to = r.stay[2]
        /\ new.status = r.status
    BY <1>9, <2>1, <2>2 DEF WindowRow
  <2> HIDE DEF new
  <2>4. /\ windows' \in [Windows -> WindowRow] /\ windows'[w] = new
        /\ \A x \in Windows \ {w} : windows'[x] = windows[x]
    BY <1>0, <1>9, <2>1, <2>3
  <2>5. WindowUpdateAllowed(w, r.stay, r.status)
    BY <1>0, <1>1, <2>1 DEF WindowSound
  <2>6. BookingCount(w) # {} \/ ChangeHistoryCount(w) # {} =>
          r.stay[1] = windows[w].from /\ r.stay[2] = windows[w].to
    BY <2>2, <2>5 DEF WindowUpdateAllowed
  <2>7. ActiveBookingCount(w) # {} => r.status = "ACTIVE"
    <3> SUFFICES ASSUME NEW c \in ActiveBookingCount(w) PROVE r.status = "ACTIVE"
      OBVIOUS
    <3>1. windows[w].status = "ACTIVE"
      BY DEF WInv, LiveStayCovered, Covers, ActiveBookingCount, BookingCount
    <3> QED
      BY <2>2, <2>5, <3>1 DEF WindowUpdateAllowed
  <2>8. r.status = "ACTIVE" => ~ActiveOverlap(r.room, r.stay[1], r.stay[2], w)
    BY <1>9, <2>1, <2>5 DEF WindowUpdateAllowed
  <2> QED
    BY <1>1, <1>9, <2>1, <2>2, <2>3, <2>4, <2>6, <2>7, <2>8, WindowWriteKeeps
<1>11. CASE CommitWindowDelete(p)
  <2> DEFINE new == [windows[w] EXCEPT !.status = "DELETED"]
  <2>1. /\ r.op = "windowDelete" /\ windows' = [windows EXCEPT ![w] = new]
        /\ UNCHANGED <<bookings, changes>>
    BY <1>0, <1>11 DEF CommitWindowDelete, WindowCommitted
  <2>2. new \in WindowRow /\ new.room = r.room /\ new.status = "DELETED"
    BY <1>9, <2>1 DEF WindowRow
  <2> HIDE DEF new
  <2>3. /\ windows' \in [Windows -> WindowRow] /\ windows'[w] = new
        /\ \A x \in Windows \ {w} : windows'[x] = windows[x]
    BY <1>0, <1>9, <2>1, <2>2
  <2>4. BookingCount(w) = {} /\ ChangeHistoryCount(w) = {} /\ ActiveBookingCount(w) = {}
    BY <1>0, <1>1, <2>1 DEF WindowSound, ActiveBookingCount
  <2> QED
    BY <1>1, <1>9, <2>1, <2>2, <2>3, <2>4, WindowWriteKeeps
<1>12. CASE CommitRoomUpdate(p)
  <2>1. UNCHANGED <<windows, bookings, changes>>
    BY <1>12 DEF CommitRoomUpdate
  <2>2. Confined(p)
    BY <2>1 DEF Confined, Exists
  <2>3. LiveStayCovered'
    BY <2>1 DEF WInv, LiveStayCovered, Covers
  <2>4. ReferencedWindowKept'
    BY <2>1 DEF WInv, WindowsKept, ReferencedWindowKept, Exists
  <2>5. NoActiveWindowOverlap'
    BY <2>1 DEF WInv, WindowsKept, NoActiveWindowOverlap
  <2> QED
    BY <1>1, <2>2, <2>3, <2>4, <2>5, ConfinedKeeps DEF WindowsKept
<1> QED
  BY <1>4, <1>6, <1>7, <1>8, <1>10, <1>11, <1>12 DEF Commit

\* The initial database: the windows it starts with are apart, and nothing is claimed.
LEMMA InitWInv == Init => WInv
<1> SUFFICES ASSUME Init PROVE WInv
  OBVIOUS
<1>1. LiveStayCovered
  BY RequestTypes DEF Init, LiveStayCovered, Live
<1>2. ReferencedWindowKept
  BY RequestTypes DEF Init, ReferencedWindowKept, Exists
<1>3. NoActiveWindowOverlap
  <2>1. \A x \in Windows : windows[x].from \in Int /\ windows[x].to \in Int
    BY ConstantsAssumption DEF Init, WindowRow
  <2> QED
    BY <2>1, ConstantsAssumption DEF Init, NoActiveWindowOverlap, Overlap
<1>4. ASSUME NEW p \in Clients PROVE WindowSound(p)
  BY RequestTypes DEF Init, WindowSound
<1> QED
  BY <1>1, <1>2, <1>3, <1>4 DEF WInv, WindowsKept

\* Every step keeps it.
LEMMA NextWInv == IInv /\ WInv /\ [Next]_vars => WInv'
<1> SUFFICES ASSUME IInv, WInv, [Next]_vars PROVE WInv'
  OBVIOUS
<1>1. ASSUME NEW p \in Clients, BeginAny(p) PROVE WInv'
  BY <1>1, BeginSound, BeginWindowSound, QuietKeepsWindows
<1>2. ASSUME NEW p \in Clients, Lock(p) PROVE WInv'
  BY <1>2, LockSound, LockWindowSound, QuietKeepsWindows
<1>3. ASSUME NEW p \in Clients, Check(p) PROVE WInv'
  BY <1>3, CheckSound, CheckWindowSound, QuietKeepsWindows
<1>4. ASSUME NEW p \in Clients, Commit(p) PROVE WInv'
  BY <1>4, CommitKeepsWindows
<1>5. ASSUME NEW p \in Clients, Abort(p) PROVE WInv'
  BY <1>5, ReturnQuiet, ReturnFoundNothing, QuietKeepsWindows DEF Abort, Return, IInv
<1>6. CASE NextDay \/ (\E k \in Keys : PurgeKey(k)) \/ UNCHANGED vars
  <2>1. UNCHANGED <<windows, bookings, changes, req, pc>>
    BY <1>6 DEF NextDay, PurgeKey, vars, dbVars
  <2>2. LiveStayCovered'
    BY <2>1 DEF WInv, LiveStayCovered, Covers
  <2>3. ReferencedWindowKept'
    BY <2>1 DEF WInv, WindowsKept, ReferencedWindowKept, Exists
  <2>4. NoActiveWindowOverlap'
    BY <2>1 DEF WInv, WindowsKept, NoActiveWindowOverlap
  <2>5. ASSUME NEW q \in Clients PROVE WindowSound(q)'
    BY <2>1 DEF WInv, WindowSound, Covers, ActiveOverlap, WindowUpdateAllowed, BookingCount,
                ActiveBookingCount, ChangeHistoryCount, Exists
  <2> QED
    BY <2>2, <2>3, <2>4, <2>5 DEF WInv, WindowsKept
<1> QED
  BY <1>1, <1>2, <1>3, <1>4, <1>5, <1>6 DEF Next

\* What window handlers and booking handlers found about windows under the room lock is
\* true whenever they commit.
LEMMA WindowInvariance == Spec => []WInv
BY InitWInv, NextWInv, Invariance, PTL DEF Spec

\* A PENDING or CONFIRMED stay always lies in an ACTIVE window, for any number of requests,
\* rooms and windows: RoomTimesService never closes one under a booking.
THEOREM LiveStaysCovered == Spec => []LiveStayCovered
<1>1. WInv => LiveStayCovered
  BY DEF WInv
<1> QED
  BY <1>1, WindowInvariance, PTL

\* Windows that bookings or change rows refer to are never deleted, and ACTIVE windows
\* of one room never overlap.
THEOREM WindowsAlwaysKept == Spec => []WindowsKept
<1>1. WInv => WindowsKept
  BY DEF WInv
<1> QED
  BY <1>1, WindowInvariance, PTL
-----------------------------------------------------------------------------
(* Idempotency keys.  Between the locking read that found a key row free   *)
(* and the commit that completes it, the row lock keeps everyone else from *)
(* completing it: two creates with one key cannot both make a booking.     *)

\* Whoever creates a booking under a key still holds the key row, and nobody has
\* completed it.
KeySound(p) ==
  req[p].op = "create" /\ pc[p] \in {"room", "check", "commit"} =>
    keyLock[req[p].key] = p /\ keys[req[p].key] = None

\* The inductive invariant of the keys: every key names a booking that is there, and no
\* two the same.
KInv ==
  /\ \A p \in Clients : KeySound(p)
  /\ \A k \in Keys : keys[k] # None => Exists(keys[k])
  /\ \A k, l \in Keys : k # l /\ keys[k] # None => keys[k] # keys[l]

\* A step that completes no key keeps the invariant if its actor is sound.
LEMMA KeysFrame ==
  ASSUME IInv, KInv, NEW p \in Clients, keys' = keys,
         \A b \in Bookings : Exists(b)' <=> Exists(b),
         \A q \in Clients \ {p} : /\ pc'[q] = pc[q] /\ req'[q] = req[q]
                                  /\ \A k \in Keys : keyLock'[k] = q <=> keyLock[k] = q,
         KeySound(p)'
  PROVE  KInv'
<1>1. ASSUME NEW q \in Clients \ {p} PROVE KeySound(q)'
  BY DEF IInv, CommitsOnFreshChecks, RequestSound, KInv, KeySound
<1>2. ASSUME NEW k \in Keys, keys'[k] # None PROVE Exists(keys[k])'
  <2>1. keys[k] \in Bookings
    BY <1>2 DEF IInv, TypeOK
  <2>2. Exists(keys[k])
    BY <1>2 DEF KInv
  <2> QED
    BY <2>1, <2>2 DEF Exists
<1>3. \A k, l \in Keys : k # l /\ keys'[k] # None => keys'[k] # keys'[l]
  BY DEF KInv
<1> QED
  BY <1>1, <1>2, <1>3 DEF KInv

\* An idle client holds no key.
LEMMA EndKeySound ==
  ASSUME TypeOK, NEW p \in Clients, EndTransaction(p)
  PROVE  KeySound(p)'
<1>1. pc'[p] = "idle"
  BY DEF TypeOK, EndTransaction
<1> QED
  BY <1>1 DEF KeySound

\* Beginning, locking and checking.
LEMMA QuietKeySound ==
  ASSUME IInv, KInv, NEW p \in Clients, BeginAny(p) \/ Lock(p) \/ Check(p) \/ Abort(p)
  PROVE  KeySound(p)'
<1>0. /\ TypeOK /\ RequestSound(p) /\ KeySound(p) /\ req \in [Clients -> Request]
      /\ pc \in [Clients -> PCs] /\ keyLock \in [Keys -> Clients \cup {None}]
      /\ req[p] \in Request
  BY DEF IInv, CommitsOnFreshChecks, KInv, TypeOK
<1>1. CASE EndTransaction(p)
  BY <1>0, <1>1, EndKeySound
<1>2. CASE BeginAny(p)
  <2>1. ASSUME NEW r, NEW at, Begin(p, r, at), r.op # "create" \/ at = "key"
        PROVE  KeySound(p)'
    <3>1. req'[p] = r /\ pc'[p] = at
      BY <1>0, <2>1 DEF Begin
    <3> QED
      BY <2>1, <3>1 DEF KeySound
  <2>2. CASE BeginCreate(p)
    BY <2>1, <2>2 DEF BeginCreate
  <2>3. CASE BeginApprove(p) \/ BeginUpdate(p)
    BY <2>1, <2>3 DEF BeginApprove, BeginUpdate, NoReq
  <2>4. ASSUME NEW op \in {"reject", "cancelOwn", "cancelAdmin"}, BeginTransition(p, op)
        PROVE  KeySound(p)'
    BY <2>1, <2>4 DEF BeginTransition, NoReq
  <2>5. CASE BeginWindowCreate(p) \/ BeginWindowUpdate(p)
    BY <2>1, <2>5 DEF BeginWindowCreate, BeginWindowUpdate, NoReq
  <2>6. CASE BeginWindowDelete(p) \/ BeginRoomUpdate(p)
    BY <2>1, <2>6 DEF BeginWindowDelete, BeginRoomUpdate, NoReq
  <2> QED
    BY <1>2, <2>2, <2>3, <2>4, <2>5, <2>6 DEF BeginAny
<1>3. CASE LockKey(p) /\ ~EndTransaction(p)
  <2>1. req[p].key \in Keys
    BY <1>0, <1>3 DEF LockKey, RequestSound
  <2>2. /\ keyLock' = [keyLock EXCEPT ![req[p].key] = p] /\ keys[req[p].key] = None
        /\ req' = req /\ keys' = keys
    BY <1>3 DEF LockKey, Return, dbVars
  <2> QED
    BY <1>0, <2>1, <2>2 DEF KeySound
<1>4. CASE LockRoom(p)
  <2>1. pc[p] = "room" /\ req' = req /\ keys' = keys /\ keyLock' = keyLock
    BY <1>4 DEF LockRoom, dbVars
  <2> QED
    BY <1>0, <2>1 DEF KeySound
<1>5. CASE LockBooking(p) /\ ~EndTransaction(p)
  <2>1. req[p].op \in BookingOps /\ req' = req
    BY <1>0, <1>5 DEF LockBooking, Return, RequestSound
  <2> QED
    BY <2>1 DEF KeySound, BookingOps
<1>6. CASE Check(p) /\ ~EndTransaction(p)
  <2>1. ASSUME NEW r, Advance(p, "commit", r), pc[p] = "check",
               r.op = req[p].op, r.key = req[p].key
        PROVE  KeySound(p)'
    <3>1. req'[p] = r /\ keys' = keys /\ keyLock' = keyLock
      BY <1>0, <2>1 DEF Advance, dbVars, lockVars
    <3> QED
      BY <1>0, <2>1, <3>1 DEF KeySound
  <2>2. \A w, s : /\ [req[p] EXCEPT !.dest = w].op = req[p].op
                  /\ [req[p] EXCEPT !.dest = w].key = req[p].key
                  /\ [req[p] EXCEPT !.stay = s].op = req[p].op
                  /\ [req[p] EXCEPT !.stay = s].key = req[p].key
    BY <1>0 DEF Request
  <2>3. CASE CreateCheck(p) \/ UpdateCheck(p)
    BY <1>6, <2>1, <2>2, <2>3 DEF CreateCheck, UpdateCheck, Return
  <2>4. CASE WindowUpdateCheck(p)
    BY <1>6, <2>1, <2>2, <2>4 DEF WindowUpdateCheck, Return
  <2>5. CASE ApproveCheck(p) \/ WindowCreateCheck(p) \/ WindowDeleteCheck(p) \/ RoomUpdateCheck(p)
    BY <1>6, <2>1, <2>5 DEF ApproveCheck, WindowCreateCheck, WindowDeleteCheck, RoomUpdateCheck,
                            Return
  <2> QED
    BY <1>6, <2>3, <2>4, <2>5 DEF Check
<1>7. CASE Abort(p)
  BY <1>1, <1>7 DEF Abort, Return
<1> QED
  BY <1>1, <1>2, <1>3, <1>4, <1>5, <1>6, <1>7 DEF Lock

\* What a commit does to keys and to the bookings that exist: a create completes the key
\* it holds with a new booking; every other handler leaves both alone.
KeysAlone == keys' = keys /\ \A c \in Bookings : Exists(c)' <=> Exists(c)
KeyCompleted(p, b) ==
  LET k == req[p].key
  IN  /\ k \in Keys /\ keyLock[k] = p /\ keys[k] = None
      /\ keys' = [keys EXCEPT ![k] = b]
      /\ ~Exists(b) /\ Exists(b)'
      /\ \A c \in Bookings \ {b} : Exists(c)' <=> Exists(c)

LEMMA CommitTouchesKeys ==
  ASSUME IInv, KInv, NEW p \in Clients, Commit(p)
  PROVE  KeysAlone \/ \E b \in Bookings : KeyCompleted(p, b)
<1>0. /\ TypeOK /\ RequestSound(p) /\ KeySound(p) /\ req[p] \in Request
      /\ keys \in [Keys -> Bookings \cup {None}] /\ bookings \in [Bookings -> BookingRow]
  BY DEF IInv, CommitsOnFreshChecks, KInv, TypeOK
<1>1. CASE CommitCreate(p)
  <2>1. PICK b \in Bookings :
          /\ pc[p] = "commit" /\ req[p].op = "create" /\ ~Exists(b)
          /\ bookings' = [bookings EXCEPT ![b] = [window |-> req[p].dest, stay |-> req[p].stay,
                                                  status |-> "PENDING", version |-> 1]]
          /\ keys' = [keys EXCEPT ![req[p].key] = b]
    BY <1>1 DEF CommitCreate
  <2>2. req[p].key \in Keys /\ keyLock[req[p].key] = p /\ keys[req[p].key] = None
    BY <1>0, <2>1 DEF RequestSound, KeySound
  <2>3. /\ Exists(b)' /\ \A c \in Bookings \ {b} : Exists(c)' <=> Exists(c)
    BY <1>0, <2>1 DEF Exists
  <2> QED
    BY <2>1, <2>2, <2>3 DEF KeyCompleted
<1>2. CASE ~CommitCreate(p)
  <2>1. keys' = keys
    BY <1>2 DEF Commit, CommitApprove, CommitReject, CommitCancelOwn, CommitCancelAdmin,
         CommitUpdate, CommitWindowCreate, CommitWindowUpdate, CommitWindowDelete,
         CommitRoomUpdate, WindowCommitted
  <2>2. ASSUME NEW to \in Statuses, SaveStatus(req[p].booking, to), req[p].op \in BookingOps
        PROVE  \A c \in Bookings : Exists(c)' <=> Exists(c)
    <3>1. req[p].booking \in Bookings /\ Exists(req[p].booking)
      BY <1>0, <2>2 DEF RequestSound
    <3> QED
      BY <1>0, <2>2, <3>1, SaveTyped DEF Exists, Statuses, Live, Terminal
  <2>3. \A c \in Bookings : Exists(c)' <=> Exists(c)
    <3>1. CASE CommitApprove(p) \/ CommitReject(p)
      BY <2>2, <3>1 DEF CommitApprove, CommitReject, Statuses, Live, Terminal, BookingOps
    <3>2. CASE CommitCancelOwn(p) \/ CommitCancelAdmin(p)
      BY <2>2, <3>2 DEF CommitCancelOwn, CommitCancelAdmin, Statuses, Live, Terminal, BookingOps
    <3>3. CASE CommitUpdate(p)
      <4> DEFINE b == req[p].booking
      <4>1. b \in Bookings /\ bookings[b] \in BookingRow
        BY <1>0, <3>3 DEF CommitUpdate, RequestSound, BookingOps
      <4>2. bookings' = [bookings EXCEPT ![b] =
               [bookings[b] EXCEPT !.window = req[p].dest, !.stay = req[p].stay,
                                   !.version = bookings[b].version + 1]]
        BY <1>0, <3>3, <4>1 DEF CommitUpdate
      <4>3. bookings'[b].status = bookings[b].status
        BY <1>0, <4>1, <4>2 DEF BookingRow
      <4>4. \A c \in Bookings : Exists(c)' <=> Exists(c)
        BY <1>0, <4>1, <4>2, <4>3 DEF Exists
      <4> QED
        BY <4>4
    <3>4. CASE bookings' = bookings
      BY <3>4 DEF Exists
    <3> QED
      BY <1>2, <3>1, <3>2, <3>3, <3>4 DEF Commit, CommitWindowCreate, CommitWindowUpdate,
         CommitWindowDelete, CommitRoomUpdate, WindowCommitted
  <2> QED
    BY <2>1, <2>3 DEF KeysAlone
<1> QED
  BY <1>1, <1>2

\* Every commit keeps the invariant: a create completes the key it holds with a booking no
\* key names.
LEMMA CommitKeepsKeys ==
  ASSUME IInv, KInv, NEW p \in Clients, Commit(p)
  PROVE  KInv'
<1>0. /\ TypeOK /\ req \in [Clients -> Request] /\ pc \in [Clients -> PCs]
      /\ keys \in [Keys -> Bookings \cup {None}]
  BY DEF IInv, TypeOK
<1>1. EndTransaction(p)
  BY DEF Commit, CommitCreate, CommitApprove, CommitReject, CommitCancelOwn, CommitCancelAdmin,
         CommitUpdate, CommitWindowCreate, CommitWindowUpdate, CommitWindowDelete,
         CommitRoomUpdate, WindowCommitted
<1>2. KeySound(p)'
  BY <1>0, <1>1, EndKeySound
<1>3. \A q \in Clients \ {p} : /\ pc'[q] = pc[q] /\ req'[q] = req[q]
                               /\ \A k \in Keys : keyLock'[k] = q <=> keyLock[k] = q
  BY <1>0, <1>1, EndFacts
<1>4. ASSUME NEW b \in Bookings, KeyCompleted(p, b) PROVE KInv'
  <2> DEFINE k == req[p].key
  <2>1. /\ k \in Keys /\ keyLock[k] = p /\ keys[k] = None /\ ~Exists(b) /\ Exists(b)'
        /\ \A c \in Bookings \ {b} : Exists(c)' <=> Exists(c)
    BY <1>4 DEF KeyCompleted
  <2>2. /\ keys'[k] = b /\ \A l \in Keys \ {k} : keys'[l] = keys[l] /\ keys[l] # b
    BY <1>0, <1>4, <2>1, ConstantsAssumption DEF KInv, KeyCompleted
  <2>3. ASSUME NEW l \in Keys, keys'[l] # None PROVE Exists(keys[l])'
    BY <1>0, <2>1, <2>2, <2>3 DEF KInv, Exists
  <2>4. \A l, m \in Keys : l # m /\ keys'[l] # None => keys'[l] # keys'[m]
    BY <2>1, <2>2 DEF KInv
  <2>5. ASSUME NEW q \in Clients \ {p} PROVE KeySound(q)'
    <3>1. ASSUME req[q].op = "create", pc[q] \in {"room", "check", "commit"}
          PROVE  /\ req[q].key \in Keys /\ keyLock'[req[q].key] = q
                 /\ req[q].key # k /\ keys'[req[q].key] = None
      BY <1>3, <2>1, <2>2, <3>1 DEF KInv, KeySound, IInv, CommitsOnFreshChecks, RequestSound
    <3> QED
      BY <1>3, <3>1 DEF KeySound
  <2> QED
    BY <1>2, <2>3, <2>4, <2>5 DEF KInv
<1>5. CASE KeysAlone
  BY <1>2, <1>3, <1>5, KeysFrame DEF KeysAlone
<1> QED
  BY <1>4, <1>5, CommitTouchesKeys

\* At the start no key is taken and no booking exists.
LEMMA InitKInv == Init => KInv
BY RequestTypes DEF Init, KInv, KeySound, Exists

\* The clock and retention: a deleted key row was held by nobody.
LEMMA TimeKeepsKeys ==
  ASSUME IInv, KInv, NextDay \/ (\E k \in Keys : PurgeKey(k)) \/ UNCHANGED vars
  PROVE  KInv'
<1>1. UNCHANGED <<bookings, req, pc, keyLock>>
  BY DEF NextDay, PurgeKey, vars, dbVars, lockVars
<1>2. ASSUME NEW k \in Keys, PurgeKey(k) PROVE KInv'
  <2>1. /\ keyLock[k] = None /\ keys \in [Keys -> Bookings \cup {None}]
        /\ keys' = [keys EXCEPT ![k] = None]
    BY <1>2 DEF PurgeKey, IInv, TypeOK
  <2>2. keys'[k] = None /\ \A l \in Keys \ {k} : keys'[l] = keys[l]
    BY <2>1
  <2>3. ASSUME NEW q \in Clients PROVE KeySound(q)'
    BY <1>1, <2>1, <2>2, ConstantsAssumption
       DEF KInv, KeySound, IInv, CommitsOnFreshChecks, RequestSound
  <2>4. ASSUME NEW l \in Keys, keys'[l] # None PROVE Exists(keys[l])'
    BY <1>1, <2>2, <2>4 DEF KInv, Exists
  <2>5. \A l, m \in Keys : l # m /\ keys'[l] # None => keys'[l] # keys'[m]
    BY <2>2 DEF KInv
  <2> QED
    BY <2>3, <2>4, <2>5 DEF KInv
<1>3. CASE keys' = keys
  BY <1>1, <1>3 DEF KInv, KeySound, Exists
<1> QED
  BY <1>2, <1>3 DEF NextDay, vars, dbVars

\* Every step keeps it.
LEMMA NextKInv == IInv /\ KInv /\ [Next]_vars => KInv'
<1> SUFFICES ASSUME IInv, KInv, [Next]_vars PROVE KInv'
  OBVIOUS
<1>1. ASSUME NEW p \in Clients, BeginAny(p) \/ Lock(p) \/ Check(p) \/ Abort(p) PROVE KInv'
  <2>1. Quiet(p)
    BY <1>1, BeginSound, LockSound, CheckSound, ReturnQuiet DEF Abort, IInv
  <2>2. keys' = keys /\ \A b \in Bookings : Exists(b)' <=> Exists(b)
    BY <2>1 DEF Quiet, dbVars, Exists
  <2>3. KeySound(p)'
    BY <1>1, QuietKeySound
  <2> QED
    BY <2>1, <2>2, <2>3, QuietFrame, KeysFrame DEF IInv
<1>2. ASSUME NEW p \in Clients, Commit(p) PROVE KInv'
  BY <1>2, CommitKeepsKeys
<1>3. CASE NextDay \/ (\E k \in Keys : PurgeKey(k)) \/ UNCHANGED vars
  BY <1>3, TimeKeepsKeys
<1> QED
  BY <1>1, <1>2, <1>3 DEF Next

\* What a step may do to a key that stands, and how a booking comes to be.
KeyStep ==
  /\ \A k \in Keys : keys[k] # None => keys'[k] \in {keys[k], None}
  /\ \A b \in Bookings : ~Exists(b) /\ Exists(b)' =>
       Cardinality({k \in Keys : keys[k] = None /\ keys'[k] = b}) = 1

\* Only a create under a free key makes a booking, and only retention frees a key.
LEMMA NextKeyStep == IInv /\ KInv /\ [Next]_vars => KeyStep
<1> SUFFICES ASSUME IInv, KInv, [Next]_vars PROVE KeyStep
  OBVIOUS
<1>0. keys \in [Keys -> Bookings \cup {None}]
  BY DEF IInv, TypeOK
<1>1. CASE KeysAlone
  BY <1>1 DEF KeysAlone, KeyStep
<1>2. ASSUME NEW p \in Clients, BeginAny(p) \/ Lock(p) \/ Check(p) \/ Abort(p) PROVE KeysAlone
  <2>1. Quiet(p)
    BY <1>2, BeginSound, LockSound, CheckSound, ReturnQuiet DEF Abort, IInv
  <2> QED
    BY <2>1 DEF Quiet, dbVars, Exists, KeysAlone
<1>3. ASSUME NEW p \in Clients, NEW b \in Bookings, KeyCompleted(p, b) PROVE KeyStep
  <2> DEFINE k == req[p].key
  <2>1. /\ k \in Keys /\ keys[k] = None /\ keys' = [keys EXCEPT ![k] = b]
        /\ \A c \in Bookings \ {b} : Exists(c)' <=> Exists(c)
    BY <1>3 DEF KeyCompleted
  <2> HIDE DEF k
  <2>2. {l \in Keys : keys[l] = None /\ keys'[l] = b} = {k}
    BY <1>0, <2>1, ConstantsAssumption
  <2>3. Cardinality({l \in Keys : keys[l] = None /\ keys'[l] = b}) = 1
    BY <2>2, FS_Singleton
  <2>4. \A l \in Keys : keys[l] # None => keys'[l] = keys[l]
    BY <1>0, <2>1
  <2> QED
    BY <2>1, <2>3, <2>4 DEF KeyStep
<1>4. ASSUME NEW k \in Keys, PurgeKey(k) PROVE KeyStep
  <2>1. bookings' = bookings /\ keys' = [keys EXCEPT ![k] = None]
    BY <1>4 DEF PurgeKey
  <2> QED
    BY <1>0, <2>1 DEF KeyStep, Exists
<1>5. CASE NextDay \/ UNCHANGED vars
  BY <1>1, <1>5 DEF NextDay, vars, dbVars, Exists, KeysAlone
<1> QED
  BY <1>1, <1>2, <1>3, <1>4, <1>5, CommitTouchesKeys DEF Next

\* However many requests share a key, a booking is only made under a key that was free and
\* with the row that replays it, and only retention frees a key again.
THEOREM KeyMakesOneBooking == Spec => OneBookingPerKey
<1>1. IInv /\ KInv /\ [Next]_vars =>
        [/\ \A k \in Keys : keys[k] # None => Exists(keys[k]) /\ keys'[k] \in {keys[k], None}
         /\ \A b \in Bookings : ~Exists(b) /\ Exists(b)' =>
              Cardinality({k \in Keys : keys[k] = None /\ keys'[k] = b}) = 1
         /\ \A k, l \in Keys : k # l /\ keys[k] # None => keys[k] # keys[l]]_vars
  BY NextKeyStep DEF KInv, KeyStep
<1>2. Spec => []KInv
  BY InitKInv, NextKInv, Invariance, PTL DEF Spec
<1> QED
  BY <1>1, <1>2, Invariance, PTL DEF Spec, OneBookingPerKey

-----------------------------------------------------------------------------
(* Journals.  Every change of a booking is written to up to four tables   *)
(* in the transaction that makes it.  The invariant says it of one booking *)
(* at a time, existing or not: creation then is one more transition, from  *)
(* version 0 and status "NONE".  The locked status is what makes the       *)
(* "from" a handler writes the status the row still has (StatusSeen).      *)

\* The status changes of b that an admin decided.
Decisions(b) == {i \in 1..Len(history[b]) : history[b][i].actor = "ADMIN"}

\* The three journals of one booking, whether it exists yet or not.
HistorySound(b) ==
  LET h == history[b]
  IN  /\ Len(h) = 0 => bookings[b].status = "NONE"
      /\ Len(h) > 0 => h[1].from = "NONE" /\ h[Len(h)].to = bookings[b].status
      /\ \A i \in 1..(Len(h) - 1) : h[i].to = h[i + 1].from

CountsSound(b) ==
  /\ IsFiniteSet(ChangesOf(b)) /\ IsFiniteSet(OutboxOf(b))
  /\ bookings[b].version = Len(history[b]) + Cardinality(ChangesOf(b))
  /\ Cardinality(OutboxOf(b)) = Cardinality(Decisions(b)) + Cardinality(ChangesOf(b))
  /\ \A c \in ChangesOf(b) : c.version <= bookings[b].version
  /\ \A e \in OutboxOf(b) : e.version <= bookings[b].version
  /\ \A d, e \in OutboxOf(b) : d.version = e.version => d = e

StreamSound(b) ==
  /\ {e.version : e \in StreamOf(b)} = 1..bookings[b].version
  /\ \A d, e \in StreamOf(b) : d.version = e.version => d = e
  /\ \A d, e \in StreamOf(b) : e.version = d.version + 1 => e.from = d.to
  /\ \A e \in StreamOf(b) : e.version = bookings[b].version => e.to = bookings[b].status

JInv ==
  \A b \in Bookings : /\ HistorySound(b) /\ CountsSound(b)
                      /\ StreamEnabled => StreamSound(b)

\* The entry types of the journals.
Entry == [from : Statuses \cup {"NONE"}, to : Statuses, actor : {"USER", "ADMIN"}]

\* A booking whose row and journals a step leaves alone stays sound.
LEMMA JournalsFrame ==
  ASSUME NEW b \in Bookings, HistorySound(b), CountsSound(b), StreamEnabled => StreamSound(b),
         bookings'[b].status = bookings[b].status, bookings'[b].version = bookings[b].version,
         history'[b] = history[b], ChangesOf(b)' = ChangesOf(b), OutboxOf(b)' = OutboxOf(b),
         StreamOf(b)' = StreamOf(b)
  PROVE  HistorySound(b)' /\ CountsSound(b)' /\ (StreamEnabled => StreamSound(b)')
<1>1. HistorySound(b)'
  BY DEF HistorySound
<1>2. Decisions(b)' = Decisions(b)
  BY DEF Decisions
<1> HIDE DEF ChangesOf, OutboxOf, StreamOf, Decisions
<1>3. CountsSound(b)'
  BY <1>2 DEF CountsSound
<1>4. StreamEnabled => StreamSound(b)'
  BY DEF StreamSound
<1> QED
  BY <1>1, <1>3, <1>4

\* A transition extends the chain of the history by one row.
LEMMA HistoryGrows ==
  ASSUME TypeOK, NEW b \in Bookings, HistorySound(b),
         NEW to \in Statuses, NEW actor \in {"USER", "ADMIN"},
         InsertHistory(b, bookings[b].status, to, actor), bookings'[b].status = to
  PROVE  /\ HistorySound(b)'
         /\ Len(history[b]) \in Nat /\ Len(history'[b]) = Len(history[b]) + 1
         /\ IsFiniteSet(Decisions(b))
         /\ actor = "USER" => Decisions(b)' = Decisions(b)
         /\ actor = "ADMIN" => /\ Decisions(b)' = Decisions(b) \cup {Len(history[b]) + 1}
                               /\ Len(history[b]) + 1 \notin Decisions(b)
         /\ \A c \in Bookings \ {b} : history'[c] = history[c]
<1> DEFINE h == history[b]
           n == Len(h)
           e == [from |-> bookings[b].status, to |-> to, actor |-> actor]
<1>1. history \in [Bookings -> Seq(Entry)] /\ bookings \in [Bookings -> BookingRow]
  BY DEF TypeOK, Entry
<1>2. h \in Seq(Entry) /\ n \in Nat
  BY <1>1
<1>3. e \in Entry
  BY <1>1 DEF Entry, BookingRow
<1>4. history' = [history EXCEPT ![b] = Append(h, e)]
  BY DEF InsertHistory
<1>5. history'[b] = Append(h, e) /\ \A c \in Bookings \ {b} : history'[c] = history[c]
  BY <1>1, <1>4
<1>6. e.from = bookings[b].status /\ e.to = to /\ e.actor = actor
  OBVIOUS
<1> HIDE DEF e
<1>7. /\ Len(Append(h, e)) = n + 1
      /\ \A i \in 1..n : Append(h, e)[i] = h[i]
      /\ Append(h, e)[n + 1] = e
  BY <1>2, <1>3
<1> DEFINE g == Append(h, e)
<1> HIDE DEF g
<1>8. g = history'[b] /\ Len(g) = n + 1 /\ (\A i \in 1..n : g[i] = h[i]) /\ g[n + 1] = e
  BY <1>5, <1>7 DEF g
<1>9. HistorySound(b)'
  <2>1. /\ n = 0 => bookings[b].status = "NONE"
        /\ n > 0 => h[1].from = "NONE" /\ h[n].to = bookings[b].status
        /\ \A i \in 1..(n - 1) : h[i].to = h[i + 1].from
    BY DEF HistorySound
  <2> HIDE DEF h, n
  <2>2. g[1].from = "NONE"
    <3>1. CASE n = 0
      BY <1>6, <1>8, <2>1, <3>1
    <3>2. CASE n > 0
      <4>1. 1 \in 1..n
        BY <1>2, <3>2
      <4> QED
        BY <1>8, <2>1, <3>2, <4>1
    <3> QED
      BY <1>2, <3>1, <3>2
  <2>3. ASSUME NEW i \in 1..n PROVE g[i].to = g[i + 1].from
    <3>1. CASE i = n
      BY <1>2, <1>6, <1>8, <2>1, <2>3, <3>1
    <3>2. CASE i # n
      <4>1. i \in 1..(n - 1) /\ i \in 1..n /\ i + 1 \in 1..n
        BY <1>2, <2>3, <3>2
      <4> QED
        BY <1>8, <2>1, <4>1
    <3> QED
      BY <3>1, <3>2
  <2>4. Len(g) > 0 /\ Len(g) # 0 /\ Len(g) - 1 = n /\ g[Len(g)].to = to
    BY <1>2, <1>6, <1>8
  <2> QED
    BY <1>8, <2>2, <2>3, <2>4 DEF HistorySound
<1>10. IsFiniteSet(Decisions(b))
  <2>1. Decisions(b) \in SUBSET (1..n) /\ IsFiniteSet(1..n)
    BY <1>2, FS_Interval DEF Decisions
  <2> QED
    BY <2>1, FS_Subset
<1>11. Decisions(b)' = {i \in 1..(n + 1) : g[i].actor = "ADMIN"}
  BY <1>8 DEF Decisions
<1>12. n + 1 \notin Decisions(b)
  BY <1>2 DEF Decisions
<1>13. actor = "USER" => Decisions(b)' = Decisions(b)
  BY <1>2, <1>6, <1>8, <1>11 DEF Decisions
<1>14. actor = "ADMIN" => Decisions(b)' = Decisions(b) \cup {n + 1}
  BY <1>2, <1>6, <1>8, <1>11 DEF Decisions
<1> QED
  BY <1>2, <1>5, <1>8, <1>9, <1>10, <1>12, <1>13, <1>14

\* The stream gains the event of the new version.
LEMMA StreamGrows ==
  ASSUME TypeOK, NEW b \in Bookings, StreamEnabled => StreamSound(b),
         NEW to \in Statuses, RecordLifecycle(b, bookings[b].version + 1, bookings[b].status, to),
         bookings'[b].status = to, bookings'[b].version = bookings[b].version + 1
  PROVE  /\ StreamEnabled => StreamSound(b)'
         /\ \A c \in Bookings \ {b} : StreamOf(c)' = StreamOf(c)
<1> DEFINE v == bookings[b].version
           e == [booking |-> b, version |-> v + 1, from |-> bookings[b].status, to |-> to]
           S == StreamOf(b)
<1>1. v \in Nat
  BY DEF TypeOK, BookingRow
<1>2. e.booking = b /\ e.version = v + 1 /\ e.from = bookings[b].status /\ e.to = to
  OBVIOUS
<1>3. stream' = IF StreamEnabled THEN stream \cup {e} ELSE stream
  BY DEF RecordLifecycle
<1> HIDE DEF e
<1>4. \A c \in Bookings \ {b} : StreamOf(c)' = StreamOf(c)
  BY <1>2, <1>3 DEF StreamOf
<1>5. ASSUME StreamEnabled PROVE StreamSound(b)'
  <2>1. StreamOf(b)' = S \cup {e}
    BY <1>2, <1>3, <1>5 DEF StreamOf
  <2>2. StreamSound(b)
    BY <1>5
  <2> HIDE DEF S
  <2>3. \A d \in S : d.version \in 1..v
    BY <2>2 DEF StreamSound, S
  <2>4. {d.version : d \in S} = 1..v
    BY <2>2 DEF StreamSound, S
  <2>5. {d.version : d \in S \cup {e}} = 1..(v + 1)
    <3>1. ASSUME NEW i \in 1..(v + 1) PROVE \E d \in S \cup {e} : d.version = i
      <4>1. CASE i \in 1..v
        <5>1. i \in {d.version : d \in S}
          BY <2>4, <4>1
        <5> QED
          BY <5>1
      <4>2. CASE i = v + 1
        BY <1>2, <4>2
      <4> QED
        BY <1>1, <4>1, <4>2
    <3>2. ASSUME NEW d \in S \cup {e} PROVE d.version \in 1..(v + 1)
      BY <1>1, <1>2, <2>3
    <3> QED
      BY <3>1, <3>2
  <2>6. \A d, f \in S \cup {e} : d.version = f.version => d = f
    <3>1. \A d, f \in S : d.version = f.version => d = f
      BY <2>2 DEF StreamSound, S
    <3> QED
      BY <1>1, <1>2, <2>3, <3>1
  <2>7. \A d, f \in S \cup {e} : f.version = d.version + 1 => f.from = d.to
    <3>1. \A d, f \in S : f.version = d.version + 1 => f.from = d.to
      BY <2>2 DEF StreamSound, S
    <3>2. \A d \in S : d.version = v => d.to = bookings[b].status
      BY <2>2 DEF StreamSound, S
    <3>3. ASSUME NEW d \in S \cup {e}, NEW f \in S \cup {e}, f.version = d.version + 1
          PROVE  f.from = d.to
      <4>1. CASE d = e
        BY <1>1, <1>2, <2>3, <3>3, <4>1
      <4>2. CASE d \in S /\ f = e
        BY <1>1, <1>2, <2>3, <3>2, <3>3, <4>2
      <4>3. CASE d \in S /\ f \in S
        BY <3>1, <3>3, <4>3
      <4> QED
        BY <4>1, <4>2, <4>3
    <3> QED
      BY <3>3
  <2>8. \A d \in S \cup {e} : d.version = v + 1 => d.to = to
    BY <1>1, <1>2, <2>3
  <2> QED
    BY <2>1, <2>5, <2>6, <2>7, <2>8 DEF StreamSound
<1> QED
  BY <1>4, <1>5

\* An outbox row of the new version is the only one of that version.
LEMMA OutboxGrows ==
  ASSUME TypeOK, NEW b \in Bookings, CountsSound(b),
         NEW type \in EventTypes, InsertOutbox(type, b, bookings[b].version + 1)
  PROVE  /\ IsFiniteSet(OutboxOf(b)')
         /\ Cardinality(OutboxOf(b)') = Cardinality(OutboxOf(b)) + 1
         /\ \A e \in OutboxOf(b)' : e.version <= bookings[b].version + 1
         /\ \A d, e \in OutboxOf(b)' : d.version = e.version => d = e
         /\ \A c \in Bookings \ {b} : OutboxOf(c)' = OutboxOf(c)
<1> DEFINE v == bookings[b].version
           e == [type |-> type, booking |-> b, version |-> v + 1]
           S == OutboxOf(b)
<1>1. v \in Nat
  BY DEF TypeOK, BookingRow
<1>2. e.booking = b /\ e.version = v + 1
  OBVIOUS
<1>3. outbox' = outbox \cup {e}
  BY DEF InsertOutbox
<1> HIDE DEF e
<1>4. \A c \in Bookings \ {b} : OutboxOf(c)' = OutboxOf(c)
  BY <1>2, <1>3 DEF OutboxOf
<1>5. OutboxOf(b)' = S \cup {e}
  BY <1>2, <1>3 DEF OutboxOf
<1>6. /\ IsFiniteSet(S) /\ \A d \in S : d.version <= v
      /\ \A d, f \in S : d.version = f.version => d = f
  BY DEF CountsSound
<1>7. \A d \in S : d.version \in Nat
  BY DEF TypeOK, OutboxOf
<1> HIDE DEF S
<1>8. e \notin S
  BY <1>1, <1>2, <1>6
<1>9. IsFiniteSet(S \cup {e}) /\ Cardinality(S \cup {e}) = Cardinality(S) + 1
  BY <1>6, <1>8, FS_AddElement
<1>10. \A d \in S \cup {e} : d.version <= v + 1
  BY <1>1, <1>2, <1>6, <1>7
<1>11. \A d, f \in S \cup {e} : d.version = f.version => d = f
  BY <1>1, <1>2, <1>6, <1>7
<1> QED
  BY <1>4, <1>5, <1>9, <1>10, <1>11 DEF S

\* A transition of b, creation included: one history row, one lifecycle event, and a
\* notification exactly when an admin decided it.
LEMMA TransitionKeepsJournals ==
  ASSUME TypeOK, JInv, NEW b \in Bookings, NEW to \in Statuses, NEW actor \in {"USER", "ADMIN"},
         InsertHistory(b, bookings[b].status, to, actor),
         RecordLifecycle(b, bookings[b].version + 1, bookings[b].status, to),
         actor = "USER" => outbox' = outbox,
         actor = "ADMIN" => \E type \in EventTypes : InsertOutbox(type, b, bookings[b].version + 1),
         changes' = changes,
         bookings'[b].status = to, bookings'[b].version = bookings[b].version + 1,
         \A c \in Bookings \ {b} : bookings'[c] = bookings[c]
  PROVE  JInv'
<1>1. HistorySound(b) /\ CountsSound(b) /\ (StreamEnabled => StreamSound(b))
  BY DEF JInv
<1>2. \A c \in Bookings : ChangesOf(c)' = ChangesOf(c)
  BY DEF ChangesOf
<1>3. \A c \in Bookings \ {b} :
        history'[c] = history[c] /\ StreamOf(c)' = StreamOf(c) /\ OutboxOf(c)' = OutboxOf(c)
  <2>1. \A c \in Bookings \ {b} : history'[c] = history[c]
    BY <1>1, HistoryGrows
  <2>2. \A c \in Bookings \ {b} : StreamOf(c)' = StreamOf(c)
    BY <1>1, StreamGrows
  <2>3. CASE actor = "USER"
    BY <2>1, <2>2, <2>3 DEF OutboxOf
  <2>4. CASE actor = "ADMIN"
    BY <1>1, <2>1, <2>2, <2>4, OutboxGrows
  <2> QED
    BY <2>3, <2>4
<1>4. HistorySound(b)' /\ (StreamEnabled => StreamSound(b)')
  BY <1>1, HistoryGrows, StreamGrows
<1>5. CountsSound(b)'
  <2> DEFINE n == Len(history[b])
             D == Decisions(b)
             v == bookings[b].version
  <2>1. /\ n \in Nat /\ Len(history'[b]) = n + 1 /\ IsFiniteSet(D)
        /\ actor = "USER" => Decisions(b)' = D
        /\ actor = "ADMIN" => Decisions(b)' = D \cup {n + 1} /\ n + 1 \notin D
    BY <1>1, HistoryGrows
  <2>2. /\ v \in Nat /\ Cardinality(ChangesOf(b)) \in Nat /\ Cardinality(D) \in Nat
        /\ Cardinality(OutboxOf(b)) \in Nat
    BY <1>1, <2>1, FS_CardinalityType DEF CountsSound, TypeOK, BookingRow
  <2>3. \A c \in changes : c.version \in Nat
    BY DEF TypeOK
  <2>4. \A c \in ChangesOf(b) : c.version <= v + 1
    BY <1>1, <2>2, <2>3 DEF CountsSound, ChangesOf
  <2>5. Cardinality(Decisions(b)') = IF actor = "ADMIN" THEN Cardinality(D) + 1 ELSE Cardinality(D)
    <3>1. Cardinality(D \cup {n + 1}) = IF n + 1 \in D THEN Cardinality(D) ELSE Cardinality(D) + 1
      BY <2>1, FS_AddElement
    <3> QED
      BY <2>1, <3>1
  <2>6. /\ IsFiniteSet(OutboxOf(b)')
        /\ Cardinality(OutboxOf(b)') =
             IF actor = "ADMIN" THEN Cardinality(OutboxOf(b)) + 1 ELSE Cardinality(OutboxOf(b))
        /\ \A e \in OutboxOf(b)' : e.version <= v + 1
        /\ \A d, e \in OutboxOf(b)' : d.version = e.version => d = e
    <3>1. CASE actor = "ADMIN"
      BY <1>1, <3>1, OutboxGrows
    <3>2. CASE actor = "USER"
      <4>1. OutboxOf(b)' = OutboxOf(b)
        BY <3>2 DEF OutboxOf
      <4>2. \A e \in OutboxOf(b) : e.version \in Nat
        BY DEF TypeOK, OutboxOf
      <4> QED
        BY <1>1, <2>2, <3>2, <4>1, <4>2 DEF CountsSound
    <3> QED
      BY <3>1, <3>2
  <2>7. /\ v = n + Cardinality(ChangesOf(b)) /\ IsFiniteSet(ChangesOf(b))
        /\ Cardinality(OutboxOf(b)) = Cardinality(D) + Cardinality(ChangesOf(b))
    BY <1>1 DEF CountsSound
  <2>8. ChangesOf(b)' = ChangesOf(b)
    BY <1>2
  <2> HIDE DEF n, D, v
  <2>9. /\ v + 1 = Len(history'[b]) + Cardinality(ChangesOf(b))
        /\ Cardinality(OutboxOf(b)') = Cardinality(Decisions(b)') + Cardinality(ChangesOf(b))
    BY <2>1, <2>2, <2>5, <2>6, <2>7
  <2> QED
    BY <2>4, <2>6, <2>7, <2>8, <2>9 DEF CountsSound, v
<1>6. ASSUME NEW c \in Bookings \ {b}
      PROVE  HistorySound(c)' /\ CountsSound(c)' /\ (StreamEnabled => StreamSound(c)')
  <2>1. HistorySound(c) /\ CountsSound(c) /\ (StreamEnabled => StreamSound(c))
    BY DEF JInv
  <2> QED
    BY <1>2, <1>3, <2>1, JournalsFrame
<1> QED
  BY <1>4, <1>5, <1>6 DEF JInv

\* An edit of b: one change row, one lifecycle event that keeps the status, one notification.
LEMMA EditKeepsJournals ==
  ASSUME TypeOK, JInv, NEW b \in Bookings, bookings[b].status \in Statuses,
         NEW change, change.booking = b, change.version = bookings[b].version + 1,
         changes' = changes \cup {change}, history' = history,
         RecordLifecycle(b, bookings[b].version + 1, bookings[b].status, bookings[b].status),
         NEW type \in EventTypes, InsertOutbox(type, b, bookings[b].version + 1),
         bookings'[b].status = bookings[b].status,
         bookings'[b].version = bookings[b].version + 1,
         \A c \in Bookings \ {b} : bookings'[c] = bookings[c]
  PROVE  JInv'
<1> DEFINE v == bookings[b].version
           S == ChangesOf(b)
<1>1. HistorySound(b) /\ CountsSound(b) /\ (StreamEnabled => StreamSound(b))
  BY DEF JInv
<1>2. \A c \in Bookings \ {b} : ChangesOf(c)' = ChangesOf(c)
  BY DEF ChangesOf
<1>3. ChangesOf(b)' = S \cup {change}
  BY DEF ChangesOf
<1>4. /\ IsFiniteSet(OutboxOf(b)') /\ Cardinality(OutboxOf(b)') = Cardinality(OutboxOf(b)) + 1
      /\ \A e \in OutboxOf(b)' : e.version <= v + 1
      /\ \A d, e \in OutboxOf(b)' : d.version = e.version => d = e
      /\ \A c \in Bookings \ {b} : OutboxOf(c)' = OutboxOf(c)
  BY <1>1, OutboxGrows
<1>5. /\ StreamEnabled => StreamSound(b)'
      /\ \A c \in Bookings \ {b} : StreamOf(c)' = StreamOf(c)
  BY <1>1, StreamGrows
<1>6. HistorySound(b)'
  BY <1>1 DEF HistorySound
<1>7. CountsSound(b)'
  <2>1. /\ IsFiniteSet(S) /\ \A c \in S : c.version <= v
        /\ v = Len(history[b]) + Cardinality(S)
        /\ Cardinality(OutboxOf(b)) = Cardinality(Decisions(b)) + Cardinality(S)
    BY <1>1 DEF CountsSound
  <2>2. v \in Nat /\ \A c \in S : c.version \in Nat
    BY DEF TypeOK, BookingRow, ChangesOf
  <2>3. Len(history[b]) \in Nat
    BY DEF TypeOK
  <2>4. IsFiniteSet(Decisions(b))
    <3>1. Decisions(b) \in SUBSET (1..Len(history[b])) /\ IsFiniteSet(1..Len(history[b]))
      BY <2>3, FS_Interval DEF Decisions
    <3> QED
      BY <3>1, FS_Subset
  <2>5. Cardinality(S) \in Nat /\ Cardinality(Decisions(b)) \in Nat
    BY <2>1, <2>4, FS_CardinalityType
  <2>6. change \notin S
    BY <2>1, <2>2
  <2>7. IsFiniteSet(S \cup {change}) /\ Cardinality(S \cup {change}) = Cardinality(S) + 1
    BY <2>1, <2>6, FS_AddElement
  <2>8. \A c \in S \cup {change} : c.version <= v + 1
    BY <2>1, <2>2
  <2>9. Decisions(b)' = Decisions(b)
    BY DEF Decisions
  <2> HIDE DEF S
  <2>10. /\ v + 1 = Len(history'[b]) + Cardinality(S \cup {change})
         /\ Cardinality(OutboxOf(b)') = Cardinality(Decisions(b)) + Cardinality(S \cup {change})
    BY <1>4, <2>1, <2>2, <2>3, <2>5, <2>7
  <2> QED
    BY <1>3, <1>4, <2>7, <2>8, <2>9, <2>10 DEF CountsSound
<1>8. ASSUME NEW c \in Bookings \ {b}
      PROVE  HistorySound(c)' /\ CountsSound(c)' /\ (StreamEnabled => StreamSound(c)')
  <2>1. HistorySound(c) /\ CountsSound(c) /\ (StreamEnabled => StreamSound(c))
    BY DEF JInv
  <2> QED
    BY <1>2, <1>4, <1>5, <2>1, JournalsFrame
<1> QED
  BY <1>5, <1>6, <1>7, <1>8 DEF JInv

\* A step that writes no booking and no journal keeps the invariant.
LEMMA IdleKeepsJournals ==
  ASSUME JInv, UNCHANGED <<bookings, history, changes, outbox, stream>>
  PROVE  JInv'
<1>1. \A b \in Bookings : /\ ChangesOf(b)' = ChangesOf(b) /\ OutboxOf(b)' = OutboxOf(b)
                          /\ StreamOf(b)' = StreamOf(b)
  BY DEF ChangesOf, OutboxOf, StreamOf
<1>2. ASSUME NEW b \in Bookings
      PROVE  HistorySound(b)' /\ CountsSound(b)' /\ (StreamEnabled => StreamSound(b)')
  <2>1. HistorySound(b) /\ CountsSound(b) /\ (StreamEnabled => StreamSound(b))
    BY DEF JInv
  <2> QED
    BY <1>1, <2>1, JournalsFrame
<1> QED
  BY <1>2 DEF JInv

\* Every commit keeps it.
LEMMA CommitKeepsJournals ==
  ASSUME IInv, JInv, NEW p \in Clients, Commit(p)
  PROVE  JInv'
<1> DEFINE r == req[p]
           b == r.booking
<1>0. /\ TypeOK /\ RequestSound(p) /\ StatusSeen(p) /\ ReferencesSound
      /\ bookings \in [Bookings -> BookingRow]
  BY DEF IInv, CommitsOnFreshChecks, TypeOK
<1>1. ASSUME r.op \in BookingOps PROVE b \in Bookings /\ bookings[b] \in BookingRow
  BY <1>0, <1>1 DEF RequestSound
<1>2. Statuses = {"PENDING", "CONFIRMED", "REJECTED", "CANCELLED_BY_USER", "CANCELLED_BY_ADMIN"}
  BY DEF Statuses, Live, Terminal
<1>3. CASE CommitCreate(p)
  <2>1. PICK c \in Bookings :
          /\ ~Exists(c)
          /\ bookings' = [bookings EXCEPT ![c] = [window |-> r.dest, stay |-> r.stay,
                                                  status |-> "PENDING", version |-> 1]]
          /\ InsertHistory(c, "NONE", "PENDING", "USER")
          /\ RecordLifecycle(c, 1, "NONE", "PENDING")
          /\ UNCHANGED <<changes, outbox>>
    BY <1>3 DEF CommitCreate
  <2>2. bookings[c].status = "NONE" /\ bookings[c].version = 0
    BY <1>0, <2>1 DEF Exists, ReferencesSound
  <2>3. /\ bookings'[c].status = "PENDING" /\ bookings'[c].version = bookings[c].version + 1
        /\ bookings[c].version + 1 = 1
        /\ \A d \in Bookings \ {c} : bookings'[d] = bookings[d]
    BY <1>0, <2>1, <2>2
  <2> QED
    BY <1>0, <1>2, <2>1, <2>2, <2>3, TransitionKeepsJournals
<1>4. CASE CommitApprove(p) \/ CommitReject(p)
  <2>1. PICK to \in Statuses, type \in EventTypes :
          SaveStatus(b, to) /\ AppendTransitionAndOutbox(b, to, type)
    BY <1>2, <1>4 DEF CommitApprove, CommitReject, EventTypes
  <2>2. b \in Bookings /\ bookings[b].status = "PENDING" /\ changes' = changes
    BY <1>0, <1>1, <1>4 DEF CommitApprove, CommitReject, StatusSeen, BookingOps
  <2>3. /\ bookings'[b].status = to /\ bookings'[b].version = bookings[b].version + 1
        /\ \A c \in Bookings \ {b} : bookings'[c] = bookings[c]
    BY <1>0, <2>1, <2>2, SaveTyped
  <2> QED
    BY <1>0, <2>1, <2>2, <2>3, TransitionKeepsJournals DEF AppendTransitionAndOutbox
<1>5. CASE CommitCancelOwn(p)
  <2>1. /\ SaveStatus(b, "CANCELLED_BY_USER") /\ UNCHANGED <<changes, outbox>>
        /\ InsertHistory(b, "PENDING", "CANCELLED_BY_USER", "USER")
        /\ RecordLifecycle(b, bookings[b].version + 1, "PENDING", "CANCELLED_BY_USER")
    BY <1>5 DEF CommitCancelOwn
  <2>2. b \in Bookings /\ bookings[b].status = "PENDING"
    BY <1>0, <1>1, <1>5 DEF CommitCancelOwn, StatusSeen, BookingOps
  <2>3. /\ bookings'[b].status = "CANCELLED_BY_USER"
        /\ bookings'[b].version = bookings[b].version + 1
        /\ \A c \in Bookings \ {b} : bookings'[c] = bookings[c]
    BY <1>0, <1>2, <2>1, <2>2, SaveTyped
  <2> QED
    BY <1>0, <1>2, <2>1, <2>2, <2>3, TransitionKeepsJournals
<1>6. CASE CommitCancelAdmin(p)
  <2>1. /\ SaveStatus(b, "CANCELLED_BY_ADMIN") /\ changes' = changes
        /\ InsertHistory(b, bookings[b].status, "CANCELLED_BY_ADMIN", "ADMIN")
        /\ RecordLifecycle(b, bookings[b].version + 1, bookings[b].status, "CANCELLED_BY_ADMIN")
        /\ InsertOutbox("booking.cancelled_by_admin", b, bookings[b].version + 1)
    BY <1>6 DEF CommitCancelAdmin
  <2>2. b \in Bookings
    BY <1>0, <1>1, <1>6 DEF CommitCancelAdmin, BookingOps
  <2>3. /\ bookings'[b].status = "CANCELLED_BY_ADMIN"
        /\ bookings'[b].version = bookings[b].version + 1
        /\ \A c \in Bookings \ {b} : bookings'[c] = bookings[c]
    BY <1>0, <1>2, <2>1, <2>2, SaveTyped
  <2>4. \E type \in EventTypes : InsertOutbox(type, b, bookings[b].version + 1)
    BY <2>1 DEF EventTypes
  <2> QED
    BY <1>0, <1>2, <2>1, <2>2, <2>3, <2>4, TransitionKeepsJournals
<1>7. CASE CommitUpdate(p)
  <2> DEFINE change == [booking |-> b, version |-> bookings[b].version + 1,
                        from |-> bookings[b].window, to |-> r.dest]
  <2>1. b \in Bookings /\ bookings[b] \in BookingRow /\ bookings[b].status \in Statuses
    BY <1>0, <1>1, <1>7 DEF CommitUpdate, BookingOps, StatusSeen, Statuses
  <2>2. bookings' = [bookings EXCEPT ![b] =
           [bookings[b] EXCEPT !.window = r.dest, !.stay = r.stay,
                               !.version = bookings[b].version + 1]]
    BY <1>0, <1>7, <2>1 DEF CommitUpdate
  <2>3. /\ bookings'[b].status = bookings[b].status
        /\ bookings'[b].version = bookings[b].version + 1
        /\ \A c \in Bookings \ {b} : bookings'[c] = bookings[c]
    BY <1>0, <2>1, <2>2 DEF BookingRow
  <2>4. /\ changes' = changes \cup {change} /\ history' = history
        /\ RecordLifecycle(b, bookings[b].version + 1, bookings[b].status, bookings[b].status)
        /\ InsertOutbox("booking.changed", b, bookings[b].version + 1)
    BY <1>7 DEF CommitUpdate
  <2>5. change.booking = b /\ change.version = bookings[b].version + 1
    OBVIOUS
  <2>6. "booking.changed" \in EventTypes
    BY DEF EventTypes
  <2> HIDE DEF change
  <2> QED
    BY <1>0, <2>1, <2>3, <2>4, <2>5, <2>6, EditKeepsJournals
<1>8. CASE CommitWindowCreate(p) \/ CommitWindowUpdate(p) \/ CommitWindowDelete(p)
           \/ CommitRoomUpdate(p)
  <2>1. UNCHANGED <<bookings, history, changes, outbox, stream>>
    BY <1>8 DEF CommitWindowCreate, CommitWindowUpdate, CommitWindowDelete, CommitRoomUpdate,
                WindowCommitted
  <2> QED
    BY <2>1, IdleKeepsJournals
<1> QED
  BY <1>3, <1>4, <1>5, <1>6, <1>7, <1>8 DEF Commit

\* Nothing is recorded of bookings that do not exist.
LEMMA InitJInv == Init => JInv
<1> SUFFICES ASSUME Init, NEW b \in Bookings
             PROVE  HistorySound(b) /\ CountsSound(b) /\ StreamSound(b)
  BY DEF JInv
<1>1. /\ history[b] = <<>> /\ Len(history[b]) = 0
      /\ bookings[b].status = "NONE" /\ bookings[b].version = 0
  BY RequestTypes DEF Init
<1>2. ChangesOf(b) = {} /\ OutboxOf(b) = {} /\ StreamOf(b) = {} /\ Decisions(b) = {}
  BY <1>1 DEF Init, ChangesOf, OutboxOf, StreamOf, Decisions
<1>3. HistorySound(b)
  BY <1>1 DEF HistorySound
<1>4. CountsSound(b)
  BY <1>1, <1>2, FS_EmptySet DEF CountsSound
<1>5. StreamSound(b)
  BY <1>1, <1>2 DEF StreamSound
<1> QED
  BY <1>3, <1>4, <1>5

\* Every step keeps it.
LEMMA NextJInv == IInv /\ JInv /\ [Next]_vars => JInv'
<1> SUFFICES ASSUME IInv, JInv, [Next]_vars PROVE JInv'
  OBVIOUS
<1>1. ASSUME NEW p \in Clients, BeginAny(p) \/ Lock(p) \/ Check(p) \/ Abort(p) PROVE JInv'
  <2>1. Quiet(p)
    BY <1>1, BeginSound, LockSound, CheckSound, ReturnQuiet DEF Abort, IInv
  <2> QED
    BY <2>1, IdleKeepsJournals DEF Quiet, dbVars
<1>2. ASSUME NEW p \in Clients, Commit(p) PROVE JInv'
  BY <1>2, CommitKeepsJournals
<1>3. CASE NextDay \/ (\E k \in Keys : PurgeKey(k)) \/ UNCHANGED vars
  BY <1>3, IdleKeepsJournals DEF NextDay, PurgeKey, vars, dbVars
<1> QED
  BY <1>1, <1>2, <1>3 DEF Next

\* The journals of every booking, existing or not, are sound at all times.
LEMMA JournalInvariance == Spec => []JInv
BY InitJInv, NextJInv, Invariance, PTL DEF Spec

\* The status history of a booking is an unbroken chain up to its current status, and
\* its version counts its transitions and edits, however requests interleave.
THEOREM HistoryAlwaysAgrees == Spec => []HistoryAgrees
<1>1. IInv /\ JInv => HistoryAgrees
  <2> SUFFICES ASSUME IInv, JInv, NEW b \in Bookings, Exists(b)
               PROVE  LET h == history[b]
                      IN  /\ Len(h) > 0 /\ h[1].from = "NONE" /\ h[Len(h)].to = bookings[b].status
                          /\ \A i \in 1..(Len(h) - 1) : h[i].to = h[i + 1].from
                          /\ bookings[b].version = Len(h) + Cardinality(ChangesOf(b))
    BY DEF HistoryAgrees
  <2>1. HistorySound(b) /\ CountsSound(b)
    BY DEF JInv
  <2>2. Len(history[b]) \in Nat
    BY DEF IInv, TypeOK
  <2> QED
    BY <2>1, <2>2 DEF HistorySound, CountsSound, Exists
<1> QED
  BY <1>1, Invariance, JournalInvariance, PTL

\* Every admin decision has exactly one notification event, of its own version, and with
\* the stream on the lifecycle events of a booking are gapless, unique and chained.
THEOREM AlwaysAnnouncedOnce == Spec => []AnnouncedOnce
<1>1. JInv => AnnouncedOnce
  <2> SUFFICES ASSUME JInv PROVE AnnouncedOnce
    OBVIOUS
  <2>1. NotifiedOncePerDecision
    BY DEF JInv, CountsSound, Decisions, NotifiedOncePerDecision
  <2>2. StreamGapless
    BY DEF JInv, StreamSound, StreamGapless
  <2> QED
    BY <2>1, <2>2 DEF AnnouncedOnce
<1> QED
  BY <1>1, JournalInvariance, PTL

-----------------------------------------------------------------------------
(* The ledger.  Seen through the bookings and the keys alone, every step    *)
(* of the system is one step of BookingLedger, taken at a commit, or none. *)
(* The guards of the ledger's step are what the handler established some   *)
(* steps earlier: the other invariants keep all of it but what an edit     *)
(* asks for, which is added here.                                          *)

\* What a create or an edit asks for: a stay that is one, and for an edit, from the
\* moment its booking is locked, a place other than the one the booking has.
AskSound(p) ==
  LET r == req[p]
      b == bookings[req[p].booking]
  IN  /\ r.op \in {"create", "update"} => r.stay \in Stays
      /\ r.op = "create" /\ pc[p] \in {"room", "check", "commit"} => r.stay[1] < r.stay[2]
      /\ r.op = "update" =>
           /\ r.window \in Windows /\ windows[r.window].status # "NONE"
           /\ windows[r.window].room = r.source
      /\ r.op = "update" /\ pc[p] \in {"check", "commit"} =>
           /\ r.stay[1] < r.stay[2]
           /\ b.window = r.window /\ <<r.room, r.stay>> # <<r.source, b.stay>>

AInv == \A p \in Clients : AskSound(p)

\* What another client asked for stays so: its booking is locked, windows keep their rooms.
LEMMA OthersAsk ==
  ASSUME IInv, AInv, NEW q \in Clients, pc'[q] = pc[q], req'[q] = req[q],
         \A w \in Windows : windows[w].status # "NONE" =>
           windows'[w].status # "NONE" /\ windows'[w].room = windows[w].room,
         \A b \in Bookings : Exists(b) /\ bookingLock[b] = q => bookings'[b] = bookings[b]
  PROVE  AskSound(q)'
<1>1. AskSound(q) /\ RequestSound(q) /\ LocksHeld(q)
  BY DEF AInv, IInv, CommitsOnFreshChecks
<1>2. req[q].op = "update" /\ pc[q] \in {"check", "commit"} =>
        bookings'[req[q].booking] = bookings[req[q].booking]
  BY <1>1 DEF RequestSound, LocksHeld, BookingOps
<1> QED
  BY <1>1, <1>2 DEF AskSound

\* An idle client asks for nothing.
LEMMA EndAsk ==
  ASSUME TypeOK, NEW p \in Clients, EndTransaction(p)
  PROVE  AskSound(p)'
<1>1. pc'[p] = "idle" /\ req'[p] = NoReq
  BY DEF TypeOK, EndTransaction
<1> QED
  BY <1>1 DEF AskSound, NoReq

\* A request begins: an edit names the place its booking had.
LEMMA BeginAsk ==
  ASSUME IInv, NEW p \in Clients, BeginAny(p)
  PROVE  AskSound(p)'
<1>0. TypeOK /\ ReferencesSound
  BY DEF IInv, CommitsOnFreshChecks
<1>1. ASSUME NEW r, NEW at \in {"key", "room", "booking"}, Begin(p, r, at),
             r.op = "create" => at = "key" /\ r.stay \in Stays,
             r.op = "update" => /\ r.stay \in Stays /\ r.window \in Windows
                                /\ windows[r.window].status # "NONE"
                                /\ windows[r.window].room = r.source
      PROVE  AskSound(p)'
  <2>1. req'[p] = r /\ pc'[p] = at /\ windows' = windows
    BY <1>0, <1>1 DEF Begin, TypeOK, dbVars
  <2> QED
    BY <1>1, <2>1 DEF AskSound
<1>2. CASE BeginCreate(p)
  BY <1>1, <1>2 DEF BeginCreate, NoReq
<1>3. CASE BeginApprove(p)
  BY <1>1, <1>3 DEF BeginApprove, NoReq
<1>4. CASE BeginUpdate(p)
  <2>1. PICK b \in Bookings, r \in Rooms, s \in Stays :
          /\ Exists(b)
          /\ Begin(p, [NoReq EXCEPT !.op = "update", !.booking = b, !.room = r,
                         !.source = RoomOf(b), !.window = bookings[b].window, !.stay = s,
                         !.version = bookings[b].version], "room")
    BY <1>4 DEF BeginUpdate
  <2>2. bookings[b].window \in Windows /\ windows[bookings[b].window].status # "NONE"
    BY <1>0, <2>1 DEF ReferencesSound
  <2> QED
    BY <1>1, <2>1, <2>2 DEF NoReq, RoomOf
<1>5. ASSUME NEW op \in {"reject", "cancelOwn", "cancelAdmin"}, BeginTransition(p, op)
      PROVE  AskSound(p)'
  BY <1>1, <1>5 DEF BeginTransition, NoReq
<1>6. CASE BeginWindowCreate(p) \/ BeginWindowUpdate(p)
  BY <1>1, <1>6 DEF BeginWindowCreate, BeginWindowUpdate, NoReq
<1>7. CASE BeginWindowDelete(p) \/ BeginRoomUpdate(p)
  BY <1>1, <1>7 DEF BeginWindowDelete, BeginRoomUpdate, NoReq
<1> QED
  BY <1>2, <1>3, <1>4, <1>5, <1>6, <1>7 DEF BeginAny

\* Locks and checks: the dates, and the place the locked booking really has, are checked
\* under the lock of the key or the booking.
LEMMA LockAsk ==
  ASSUME IInv, AInv, NEW p \in Clients, Lock(p) \/ Check(p) \/ Abort(p)
  PROVE  AskSound(p)'
<1>0. /\ TypeOK /\ RequestSound(p) /\ AskSound(p) /\ req[p] \in Request
      /\ req \in [Clients -> Request] /\ pc \in [Clients -> PCs]
  BY DEF IInv, CommitsOnFreshChecks, AInv, TypeOK
<1>1. CASE EndTransaction(p)
  BY <1>0, <1>1, EndAsk
<1>2. CASE LockKey(p) /\ ~EndTransaction(p)
  <2>1. /\ AssertBookingDates(req[p].stay) /\ pc[p] = "key" /\ pc' = [pc EXCEPT ![p] = "room"]
        /\ UNCHANGED <<windows, bookings, req>>
    BY <1>2 DEF LockKey, Return, dbVars
  <2>2. req[p].op = "create" /\ pc'[p] = "room"
    BY <1>0, <2>1 DEF RequestSound
  <2> QED
    BY <1>0, <2>1, <2>2 DEF AskSound, AssertBookingDates
<1>3. CASE LockRoom(p)
  <2>1. /\ pc[p] = "room" /\ UNCHANGED <<windows, bookings, req>>
        /\ pc' = [pc EXCEPT ![p] = pc'[p]] /\ (pc'[p] = "check" => req[p].booking = None)
    BY <1>0, <1>3 DEF LockRoom, dbVars
  <2>2. req[p].op = "update" => req[p].booking # None
    BY <1>0, ConstantsAssumption DEF RequestSound, BookingOps
  <2>3. pc'[p] \in {"room", "booking", "check"}
    BY <1>0, <1>3 DEF LockRoom
  <2> QED
    BY <1>0, <2>1, <2>2, <2>3 DEF AskSound
<1>4. CASE LockBooking(p) /\ ~EndTransaction(p)
  <2>1. /\ pc[p] = "booking" /\ UNCHANGED <<windows, bookings, req>>
        /\ req[p].op = "update" => UpdateAllowed(p)
    BY <1>4 DEF LockBooking, Return, dbVars
  <2>2. req[p].op \in BookingOps
    BY <1>0, <2>1 DEF RequestSound
  <2> QED
    BY <1>0, <2>1, <2>2 DEF AskSound, UpdateAllowed, AssertBookingDates, BookingOps
<1>5. CASE Check(p) /\ ~EndTransaction(p)
  <2>1. ASSUME NEW r, Advance(p, "commit", r), pc[p] = "check",
               \/ r = req[p]
               \/ \E w : r = [req[p] EXCEPT !.dest = w]
               \/ req[p].op = "windowUpdate" /\ \E s : r = [req[p] EXCEPT !.stay = s]
        PROVE  AskSound(p)'
    <3>1. /\ req'[p] = r /\ pc'[p] = "commit" /\ UNCHANGED <<windows, bookings>>
      BY <1>0, <2>1 DEF Advance, dbVars
    <3>2. /\ r.op = req[p].op /\ r.booking = req[p].booking /\ r.room = req[p].room
          /\ r.window = req[p].window /\ r.source = req[p].source
          /\ r.op # "windowUpdate" => r.stay = req[p].stay
      BY <1>0, <2>1 DEF Request
    <3> QED
      BY <1>0, <2>1, <3>1, <3>2 DEF AskSound
  <2>2. CASE CreateCheck(p) \/ UpdateCheck(p)
    BY <1>5, <2>1, <2>2 DEF CreateCheck, UpdateCheck, Return
  <2>3. CASE WindowUpdateCheck(p)
    BY <1>5, <2>1, <2>3 DEF WindowUpdateCheck, Return
  <2>4. CASE ApproveCheck(p) \/ WindowCreateCheck(p) \/ WindowDeleteCheck(p) \/ RoomUpdateCheck(p)
    BY <1>5, <2>1, <2>4 DEF ApproveCheck, WindowCreateCheck, WindowDeleteCheck, RoomUpdateCheck,
                            Return
  <2> QED
    BY <1>5, <2>2, <2>3, <2>4 DEF Check
<1>6. CASE Abort(p)
  BY <1>1, <1>6 DEF Abort, Return
<1> QED
  BY <1>1, <1>2, <1>3, <1>4, <1>5, <1>6 DEF Lock

LEMMA InitAInv == Init => AInv
BY DEF Init, AInv, AskSound, NoReq

LEMMA NextAInv == IInv /\ AInv /\ [Next]_vars => AInv'
<1> SUFFICES ASSUME IInv, AInv, [Next]_vars PROVE AInv'
  OBVIOUS
<1>1. ASSUME NEW p \in Clients, BeginAny(p) \/ Lock(p) \/ Check(p) \/ Abort(p) PROVE AInv'
  <2>1. Quiet(p)
    BY <1>1, BeginSound, LockSound, CheckSound, ReturnQuiet DEF Abort, IInv
  <2>2. UNCHANGED <<windows, bookings>>
    BY <2>1 DEF Quiet, dbVars
  <2>3. \A q \in Clients \ {p} : pc'[q] = pc[q] /\ req'[q] = req[q]
    BY <2>1, QuietFrame DEF IInv
  <2>4. \A q \in Clients \ {p} : AskSound(q)'
    BY <2>2, <2>3, OthersAsk
  <2>5. AskSound(p)'
    BY <1>1, BeginAsk, LockAsk
  <2> QED
    BY <2>4, <2>5 DEF AInv
<1>2. ASSUME NEW p \in Clients, Commit(p) PROVE AInv'
  <2>1. Writes(p) /\ TypeOK
    BY <1>2, CommitWrites DEF IInv
  <2>2. \A q \in Clients \ {p} : pc'[q] = pc[q] /\ req'[q] = req[q]
    <3>1. EndTransaction(p)
      BY <2>1 DEF Writes
    <3>2. pc' = [pc EXCEPT ![p] = "idle"] /\ req' = [req EXCEPT ![p] = NoReq]
      BY <3>1 DEF EndTransaction
    <3> QED
      BY <2>1, <3>2 DEF TypeOK
  <2>3. \A q \in Clients \ {p} : AskSound(q)'
    BY <2>1, <2>2, OthersAsk DEF Writes
  <2>4. AskSound(p)'
    BY <2>1, EndAsk DEF Writes
  <2> QED
    BY <2>3, <2>4 DEF AInv
<1>3. CASE NextDay \/ (\E k \in Keys : PurgeKey(k)) \/ UNCHANGED vars
  <2>1. UNCHANGED <<windows, bookings, req, pc>>
    BY <1>3 DEF NextDay, PurgeKey, vars, dbVars, lockVars
  <2> QED
    BY <2>1 DEF AInv, AskSound
<1> QED
  BY <1>1, <1>2, <1>3 DEF Next


\* The invariant of the refinement.
LInv == IInv /\ KInv /\ AInv

\* A booking a commit leaves alone keeps its entry: no window changes its room.
LEMMA EntriesKept ==
  ASSUME IInv, NEW p \in Clients, Writes(p), NEW c \in Bookings, bookings'[c] = bookings[c]
  PROVE  LedgerEntry(c)' = LedgerEntry(c)
<1>1. Exists(c) => bookings[c].window \in Windows /\ windows[bookings[c].window].status # "NONE"
  BY DEF IInv, CommitsOnFreshChecks, ReferencesSound
<1>2. Exists(c) => RoomOf(c)' = RoomOf(c)
  BY <1>1 DEF Writes, RoomOf
<1> QED
  BY <1>2 DEF LedgerEntry, Exists

LedgerRow == [status : Statuses \cup {"NONE"}, stay : Int \X Int, version : Nat,
              room : Rooms \cup {0}]

\* Entries are such rows, before a commit and after it.
LEMMA EntryTyped ==
  ASSUME IInv, NEW b \in Bookings
  PROVE  LedgerEntry(b) \in LedgerRow
<1>1. bookings[b] \in BookingRow /\ (Exists(b) => RoomOf(b) \in Rooms)
  BY DEF IInv, TypeOK, CommitsOnFreshChecks, ReferencesSound, RoomOf
<1> QED
  BY <1>1 DEF LedgerEntry, LedgerRow, BookingRow

LEMMA EntryStaysTyped ==
  ASSUME NEW p \in Clients, Writes(p), NEW b \in Bookings
  PROVE  LedgerEntry(b)' \in LedgerRow
<1>1. bookings'[b] \in BookingRow /\ (Exists(b)' => RoomOf(b)' \in Rooms)
  BY DEF Writes, TypeOK, ReferencesSound, RoomOf, Exists
<1> QED
  BY <1>1 DEF LedgerEntry, LedgerRow, BookingRow

\* A turned row, column by column.
LEMMA TurnedRow ==
  ASSUME NEW x \in LedgerRow, NEW y \in LedgerRow, NEW to \in Statuses,
         y.status = to, y.version = x.version + 1, y.stay = x.stay, y.room = x.room
  PROVE  y = [x EXCEPT !.status = to, !.version = @ + 1]
<1> DEFINE z == [x EXCEPT !.status = to, !.version = @ + 1]
<1>1. /\ z \in LedgerRow
      /\ z.status = to /\ z.version = x.version + 1 /\ z.stay = x.stay /\ z.room = x.room
  BY DEF LedgerRow
<1> HIDE DEF z
<1>2. y = z
  BY <1>1 DEF LedgerRow
<1> QED
  BY <1>2 DEF z

\* A commit that changes one booking changes one entry.
LEMMA OneEntryChanges ==
  ASSUME IInv, NEW p \in Clients, Writes(p), NEW b \in Bookings,
         \A c \in Bookings \ {b} : bookings'[c] = bookings[c]
  PROVE  [c \in Bookings |-> LedgerEntry(c)]' =
           [[c \in Bookings |-> LedgerEntry(c)] EXCEPT ![b] = LedgerEntry(b)']
<1>1. \A c \in Bookings \ {b} : LedgerEntry(c)' = LedgerEntry(c)
  BY EntriesKept
<1> HIDE DEF LedgerEntry
<1> QED
  BY <1>1

\* A commit that changes no booking and no key is no step of the ledger.
LEMMA LedgerStill ==
  ASSUME IInv, NEW p \in Clients, Writes(p), bookings' = bookings, keys' = keys
  PROVE  UNCHANGED Ledger!vars
<1>1. \A c \in Bookings : LedgerEntry(c)' = LedgerEntry(c)
  BY EntriesKept
<1>2. [c \in Bookings |-> LedgerEntry(c)]' = [c \in Bookings |-> LedgerEntry(c)]
  BY <1>1
<1> QED
  BY <1>2 DEF Ledger!vars

\* A status save under the booking's lock turns its entry.
LEMMA SaveTurns ==
  ASSUME IInv, NEW p \in Clients, Writes(p), NEW b \in Bookings, Exists(b),
         NEW to \in Statuses, SaveStatus(b, to), windows' = windows, keys' = keys
  PROVE  Ledger!Turn(b, to)
<1>1. /\ bookings'[b].status = to /\ bookings'[b].window = bookings[b].window
      /\ bookings'[b].stay = bookings[b].stay
      /\ bookings'[b].version = bookings[b].version + 1
      /\ \A c \in Bookings \ {b} : bookings'[c] = bookings[c]
  BY SaveTyped DEF IInv
<1>2. to # "NONE"
  BY DEF Statuses, Live, Terminal
<1>3. LedgerEntry(b)' = [LedgerEntry(b) EXCEPT !.status = to, !.version = @ + 1]
  <2>1. Exists(b)' /\ RoomOf(b)' = RoomOf(b)
    BY <1>1, <1>2 DEF Exists, RoomOf
  <2>2. /\ LedgerEntry(b).status = bookings[b].status /\ LedgerEntry(b).stay = bookings[b].stay
        /\ LedgerEntry(b).version = bookings[b].version /\ LedgerEntry(b).room = RoomOf(b)
    BY DEF LedgerEntry
  <2>3. /\ LedgerEntry(b)'.status = to /\ LedgerEntry(b)'.stay = bookings[b].stay
        /\ LedgerEntry(b)'.version = bookings[b].version + 1 /\ LedgerEntry(b)'.room = RoomOf(b)
    BY <1>1, <2>1 DEF LedgerEntry
  <2>4. LedgerEntry(b) \in LedgerRow /\ LedgerEntry(b)' \in LedgerRow
    BY EntryTyped, EntryStaysTyped
  <2>5. PICK x, y : x = LedgerEntry(b) /\ y = LedgerEntry(b)'
    OBVIOUS
  <2>6. y = [x EXCEPT !.status = to, !.version = @ + 1]
    <3>1. /\ x \in LedgerRow /\ y \in LedgerRow
          /\ y.status = to /\ y.version = x.version + 1 /\ y.stay = x.stay /\ y.room = x.room
      BY <2>2, <2>3, <2>4, <2>5
    <3> QED
      BY <3>1, TurnedRow
  <2> QED
    BY <2>5, <2>6
<1>4. [c \in Bookings |-> LedgerEntry(c)]' =
        [[c \in Bookings |-> LedgerEntry(c)] EXCEPT ![b] = LedgerEntry(b)']
  BY <1>1, OneEntryChanges
<1> HIDE DEF LedgerEntry
<1>5. [[c \in Bookings |-> LedgerEntry(c)] EXCEPT ![b].status = to, ![b].version = @ + 1] =
        [[c \in Bookings |-> LedgerEntry(c)] EXCEPT ![b] =
          [LedgerEntry(b) EXCEPT !.status = to, !.version = @ + 1]]
  OBVIOUS
<1> QED
  BY <1>3, <1>4, <1>5 DEF Ledger!Turn

\* The entries of the bookings the code finds CONFIRMED in a room are those the ledger
\* compares with: no overlap found under the room lock means the entry fits.
LEMMA NoOverlapFits ==
  ASSUME IInv, NEW b \in Bookings, NEW r \in Rooms, NEW s \in Int \X Int,
         ConfirmedOverlaps(r, b, s) = {}
  PROVE  Ledger!Fits(b, r, s)
<1> SUFFICES ASSUME NEW c \in Bookings \ {b}, LedgerEntry(c).status = "CONFIRMED",
                    LedgerEntry(c).room = r
             PROVE  Ledger!Apart(LedgerEntry(c).stay, s)
  BY DEF Ledger!Fits
<1>1. bookings[c].status = "CONFIRMED" /\ RoomOf(c) = r /\ LedgerEntry(c).stay = bookings[c].stay
  BY DEF LedgerEntry, Exists
<1>2. bookings[c].stay \in Int \X Int
  BY DEF IInv, TypeOK, BookingRow
<1>3. ~Overlap(bookings[c].stay, s)
  BY <1>1 DEF ConfirmedOverlaps
<1> QED
  BY <1>1, <1>2, <1>3 DEF Overlap, Ledger!Apart


\* The rows a commit starts from, and what it changes them to: a create and the edit.
LEMMA CreateMakes ==
  ASSUME LInv, NEW p \in Clients, Writes(p), CommitCreate(p)
  PROVE  Ledger!Next
<1> DEFINE k == req[p].key
           r == req[p].room
           s == req[p].stay
<1>0. /\ TypeOK /\ RequestSound(p) /\ ChecksHold(p) /\ KeySound(p) /\ AskSound(p)
      /\ ReferencesSound
  BY DEF LInv, IInv, CommitsOnFreshChecks, KInv, AInv
<1>1. PICK b \in Bookings :
        /\ pc[p] = "commit" /\ req[p].op = "create" /\ ~Exists(b)
        /\ bookings' = [bookings EXCEPT ![b] = [window |-> req[p].dest, stay |-> s,
                                                status |-> "PENDING", version |-> 1]]
        /\ keys' = [keys EXCEPT ![k] = b] /\ windows' = windows
  BY DEF CommitCreate
<1>2. /\ k \in Keys /\ r \in Rooms /\ keys[k] = None
      /\ s \in Stays /\ s[1] < s[2]
      /\ req[p].dest \in Windows /\ windows[req[p].dest].room = r
  BY <1>0, <1>1 DEF RequestSound, ChecksHold, KeySound, AskSound, RoomOps, AllOps
<1>3. /\ bookings'[b] = [window |-> req[p].dest, stay |-> s, status |-> "PENDING", version |-> 1]
      /\ \A c \in Bookings \ {b} : bookings'[c] = bookings[c]
  BY <1>0, <1>1 DEF TypeOK
<1>4. LedgerEntry(b)' = [status |-> "PENDING", room |-> r, stay |-> s, version |-> 1]
  BY <1>1, <1>2, <1>3 DEF LedgerEntry, Exists, RoomOf
<1>5. [c \in Bookings |-> LedgerEntry(c)]' =
        [[c \in Bookings |-> LedgerEntry(c)] EXCEPT ![b] = LedgerEntry(b)']
  BY <1>3, OneEntryChanges DEF LInv
<1>6. LedgerEntry(b).status = "NONE"
  BY <1>1 DEF LedgerEntry, Exists
<1> HIDE DEF k, r, s
<1>7. Ledger!Make(k, b)
  <2> HIDE DEF LedgerEntry
  <2> QED
    BY <1>1, <1>2, <1>4, <1>5, <1>6 DEF Ledger!Make
<1> QED
  BY <1>2, <1>7 DEF Ledger!Next

LEMMA EditMoves ==
  ASSUME LInv, NEW p \in Clients, Writes(p), CommitUpdate(p)
  PROVE  Ledger!Next
<1>r. PICK b, r, s : b = req[p].booking /\ r = req[p].room /\ s = req[p].stay
  OBVIOUS
<1>0. /\ TypeOK /\ RequestSound(p) /\ ChecksHold(p) /\ StatusSeen(p) /\ AskSound(p)
      /\ ReferencesSound
  BY DEF LInv, IInv, CommitsOnFreshChecks, KInv, AInv
<1>1. /\ pc[p] = "commit" /\ req[p].op = "update" /\ windows' = windows /\ keys' = keys
      /\ bookings' = [bookings EXCEPT ![b].window = req[p].dest, ![b].stay = s,
                                      ![b].version = bookings[b].version + 1]
  BY <1>r DEF CommitUpdate
<1>2. /\ b \in Bookings /\ r \in Rooms /\ s \in Stays /\ s[1] < s[2] /\ s \in Int \X Int
      /\ bookings[b].status \in Live /\ bookings[b] \in BookingRow
      /\ req[p].dest \in Windows /\ windows[req[p].dest].room = r
      /\ <<r, s>> # <<req[p].source, bookings[b].stay>>
      /\ RoomOf(b) = req[p].source
  BY <1>r, <1>0, <1>1, ConstantsAssumption
  DEF TypeOK, RequestSound, ChecksHold, StatusSeen, AskSound, BookingOps, RoomOps, AllOps, RoomOf
<1>3. bookings[b].status = "CONFIRMED" => ConfirmedOverlaps(r, b, s) = {}
  BY <1>r, <1>0, <1>1 DEF ChecksHold
<1>4. /\ bookings'[b].window = req[p].dest /\ bookings'[b].stay = s
      /\ bookings'[b].version = bookings[b].version + 1
      /\ bookings'[b].status = bookings[b].status
      /\ \A c \in Bookings \ {b} : bookings'[c] = bookings[c]
  <2> DEFINE row == [bookings[b] EXCEPT !.window = req[p].dest, !.stay = s,
                                        !.version = bookings[b].version + 1]
  <2>1. bookings \in [Bookings -> BookingRow]
    BY <1>0 DEF TypeOK
  <2>2. bookings' = [bookings EXCEPT ![b] = row]
    BY <1>1, <1>2, <2>1
  <2>3. /\ row.window = req[p].dest /\ row.stay = s /\ row.status = bookings[b].status
        /\ row.version = bookings[b].version + 1
    BY <1>2 DEF BookingRow
  <2> HIDE DEF row
  <2> QED
    BY <1>2, <2>1, <2>2, <2>3
<1>5. /\ LedgerEntry(b).status = bookings[b].status /\ LedgerEntry(b).stay = bookings[b].stay
      /\ LedgerEntry(b).version = bookings[b].version /\ LedgerEntry(b).room = req[p].source
  BY <1>2 DEF LedgerEntry, Exists, Live
<1>6. LedgerEntry(b)' = [LedgerEntry(b) EXCEPT !.room = r, !.stay = s,
                                                !.version = LedgerEntry(b).version + 1]
  <2>1. Exists(b)' /\ RoomOf(b)' = r
    BY <1>1, <1>2, <1>4 DEF Exists, RoomOf, Live
  <2>2. /\ LedgerEntry(b)'.status = bookings[b].status /\ LedgerEntry(b)'.stay = s
        /\ LedgerEntry(b)'.version = bookings[b].version + 1 /\ LedgerEntry(b)'.room = r
    BY <1>4, <2>1 DEF LedgerEntry
  <2>3. LedgerEntry(b) \in LedgerRow /\ LedgerEntry(b)' \in LedgerRow
    BY <1>2, EntryTyped, EntryStaysTyped DEF LInv
  <2>4. PICK x, y : x = LedgerEntry(b) /\ y = LedgerEntry(b)'
    OBVIOUS
  <2>5. y = [x EXCEPT !.room = r, !.stay = s, !.version = y.version]
    <3>1. /\ x \in LedgerRow /\ y \in LedgerRow
          /\ y.room = r /\ y.stay = s /\ y.version = x.version + 1 /\ y.status = x.status
      <4>1. x \in LedgerRow /\ y \in LedgerRow
        BY <2>3, <2>4
      <4>2. /\ y.room = r /\ y.stay = s /\ y.version = bookings[b].version + 1
            /\ y.status = bookings[b].status
        BY <2>2, <2>4
      <4>3. x.version = bookings[b].version /\ x.status = bookings[b].status
        BY <1>5, <2>4
      <4> QED
        BY <4>1, <4>2, <4>3
    <3>2. r \in Rooms /\ s \in Int \X Int
      BY <1>2
    <3> DEFINE z == [x EXCEPT !.room = r, !.stay = s, !.version = y.version]
    <3>3. /\ z \in LedgerRow
          /\ z.room = r /\ z.stay = s /\ z.version = y.version /\ z.status = x.status
      BY <3>1, <3>2 DEF LedgerRow
    <3> HIDE DEF z
    <3>4. y = z
      BY <3>1, <3>3 DEF LedgerRow
    <3> QED
      BY <3>4 DEF z
  <2>6. y.version = LedgerEntry(b).version + 1
    BY <1>5, <2>2, <2>4
  <2> QED
    BY <2>4, <2>5, <2>6
<1>7. [c \in Bookings |-> LedgerEntry(c)]' =
        [[c \in Bookings |-> LedgerEntry(c)] EXCEPT ![b] = LedgerEntry(b)']
  BY <1>2, <1>4, OneEntryChanges DEF LInv
<1>8. /\ <<r, s>> # <<LedgerEntry(b).room, LedgerEntry(b).stay>>
      /\ LedgerEntry(b).status \in {"PENDING", "CONFIRMED"}
  BY <1>2, <1>5 DEF Live
<1>9. LedgerEntry(b).status = "CONFIRMED" => Ledger!Fits(b, r, s)
  BY <1>2, <1>3, <1>5, NoOverlapFits DEF LInv
<1>10. Ledger!Move(b)
  <2> HIDE DEF LedgerEntry
  <2>1. [[c \in Bookings |-> LedgerEntry(c)] EXCEPT ![b].room = r, ![b].stay = s,
                                                    ![b].version = @ + 1] =
          [[c \in Bookings |-> LedgerEntry(c)] EXCEPT ![b] =
            [LedgerEntry(b) EXCEPT !.room = r, !.stay = s,
                                   !.version = LedgerEntry(b).version + 1]]
    BY <1>2
  <2> QED
    <3>1. [c \in Bookings |-> LedgerEntry(c)]' =
            [[c \in Bookings |-> LedgerEntry(c)] EXCEPT ![b].room = r, ![b].stay = s,
                                                       ![b].version = @ + 1]
      BY <1>6, <1>7, <2>1
    <3>2. [c \in Bookings |-> LedgerEntry(c)][b] = LedgerEntry(b)
      BY <1>2
    <3>3. keys' = keys
      BY <1>1
    <3>4. /\ r \in Rooms /\ s \in Stays /\ s[1] < s[2]
      BY <1>2
    <3> QED
      BY <1>8, <1>9, <3>1, <3>2, <3>3, <3>4, Zenon DEF Ledger!Move
<1> QED
  BY <1>2, <1>10 DEF Ledger!Next

\* The four decisions: the status the handler found under the booking's lock is the one
\* the ledger's step asks for, and an approval fits.
LEMMA DecisionTurns ==
  ASSUME LInv, NEW p \in Clients, Writes(p),
         CommitApprove(p) \/ CommitReject(p) \/ CommitCancelOwn(p) \/ CommitCancelAdmin(p)
  PROVE  Ledger!Next
<1> DEFINE b == req[p].booking
<1>0. TypeOK /\ RequestSound(p) /\ ChecksHold(p) /\ StatusSeen(p) /\ ReferencesSound /\ IInv
  BY DEF LInv, IInv, CommitsOnFreshChecks
<1>1. /\ pc[p] = "commit" /\ req[p].op \in {"approve", "reject", "cancelOwn", "cancelAdmin"}
      /\ windows' = windows /\ keys' = keys
  BY DEF CommitApprove, CommitReject, CommitCancelOwn, CommitCancelAdmin
<1>2. b \in Bookings /\ Exists(b)
  BY <1>0, <1>1 DEF RequestSound, BookingOps
<1>3. ASSUME NEW to \in Statuses, SaveStatus(b, to) PROVE Ledger!Turn(b, to)
  BY <1>0, <1>1, <1>2, <1>3, SaveTurns
<1>4. LedgerEntry(b).status = bookings[b].status /\ LedgerEntry(b).stay = bookings[b].stay
      /\ LedgerEntry(b).room = RoomOf(b)
  BY <1>2 DEF LedgerEntry
<1> HIDE DEF LedgerEntry
<1>5. CASE CommitApprove(p)
  <2>1. /\ bookings[b].status = "PENDING" /\ SaveStatus(b, "CONFIRMED") /\ RoomOf(b) = req[p].room
        /\ ConfirmedOverlaps(RoomOf(b), b, bookings[b].stay) = {}
    BY <1>0, <1>5 DEF CommitApprove, StatusSeen, ChecksHold
  <2>2. RoomOf(b) \in Rooms /\ bookings[b].stay \in Int \X Int
    BY <1>0, <1>2 DEF ReferencesSound, RoomOf, TypeOK, BookingRow
  <2>3. Ledger!Fits(b, RoomOf(b), bookings[b].stay)
    BY <1>0, <1>2, <2>1, <2>2, NoOverlapFits
  <2>4. Ledger!Turn(b, "CONFIRMED")
    BY <1>3, <2>1 DEF Statuses, Live
  <2>5. Ledger!Confirm(b)
    BY <1>2, <1>4, <2>1, <2>3, <2>4 DEF Ledger!Confirm
  <2> QED
    BY <1>2, <2>5 DEF Ledger!Next
<1>6. CASE CommitReject(p) \/ CommitCancelOwn(p)
  <2>1. PICK to \in {"REJECTED", "CANCELLED_BY_USER"} :
          bookings[b].status = "PENDING" /\ SaveStatus(b, to)
    BY <1>0, <1>6 DEF CommitReject, CommitCancelOwn, StatusSeen
  <2>2. Ledger!Turn(b, to)
    BY <1>3, <2>1 DEF Statuses, Terminal
  <2>3. Ledger!Refuse(b)
    BY <1>2, <1>4, <2>1, <2>2 DEF Ledger!Refuse
  <2> QED
    BY <1>2, <2>3 DEF Ledger!Next
<1>7. CASE CommitCancelAdmin(p)
  <2>1. bookings[b].status \in Live /\ SaveStatus(b, "CANCELLED_BY_ADMIN")
    BY <1>0, <1>7 DEF CommitCancelAdmin, StatusSeen
  <2>2. Ledger!Turn(b, "CANCELLED_BY_ADMIN")
    BY <1>3, <2>1 DEF Statuses, Terminal
  <2>3. Ledger!Cancel(b)
    BY <1>2, <1>4, <2>1, <2>2 DEF Ledger!Cancel, Live
  <2> QED
    BY <1>2, <2>3 DEF Ledger!Next
<1> QED
  BY <1>5, <1>6, <1>7

LEMMA LedgerInit == Init => Ledger!Init
<1> SUFFICES ASSUME Init PROVE Ledger!Init
  OBVIOUS
<1>1. \A b \in Bookings : LedgerEntry(b) = Ledger!Absent
  BY DEF Init, LedgerEntry, Exists, NoRow, Ledger!Absent
<1>2. keys = [k \in Keys |-> None]
  BY DEF Init
<1> HIDE DEF LedgerEntry
<1> QED
  BY <1>1, <1>2 DEF Ledger!Init

LEMMA LedgerNext == LInv /\ [Next]_vars => [Ledger!Next]_(Ledger!vars)
<1> SUFFICES ASSUME LInv, [Next]_vars PROVE Ledger!Next \/ UNCHANGED Ledger!vars
  OBVIOUS
<1>1. ASSUME UNCHANGED <<bookings, windows, keys>> PROVE UNCHANGED Ledger!vars
  BY <1>1 DEF Ledger!vars, LedgerEntry, Exists, RoomOf
<1>2. ASSUME NEW p \in Clients, BeginAny(p) \/ Lock(p) \/ Check(p) \/ Abort(p)
      PROVE  UNCHANGED Ledger!vars
  <2>1. Quiet(p)
    BY <1>2, BeginSound, LockSound, CheckSound, ReturnQuiet DEF Abort, LInv, IInv
  <2> QED
    BY <1>1, <2>1 DEF Quiet, dbVars
<1>3. ASSUME NEW p \in Clients, Commit(p) PROVE Ledger!Next \/ UNCHANGED Ledger!vars
  <2>1. Writes(p)
    BY <1>3, CommitWrites DEF LInv
  <2>2. CASE CommitCreate(p)
    BY <2>1, <2>2, CreateMakes
  <2>3. CASE CommitUpdate(p)
    BY <2>1, <2>3, EditMoves
  <2>4. CASE CommitApprove(p) \/ CommitReject(p) \/ CommitCancelOwn(p) \/ CommitCancelAdmin(p)
    BY <2>1, <2>4, DecisionTurns
  <2>5. CASE \/ CommitWindowCreate(p) \/ CommitWindowUpdate(p) \/ CommitWindowDelete(p)
             \/ CommitRoomUpdate(p)
    <3>1. bookings' = bookings /\ keys' = keys
      BY <2>5 DEF CommitWindowCreate, CommitWindowUpdate, CommitWindowDelete, CommitRoomUpdate,
                  WindowCommitted
    <3> QED
      BY <2>1, <3>1, LedgerStill DEF LInv
  <2> QED
    BY <1>3, <2>2, <2>3, <2>4, <2>5 DEF Commit
<1>4. CASE NextDay \/ UNCHANGED vars
  BY <1>1, <1>4 DEF NextDay, vars, dbVars
<1>5. ASSUME NEW k \in Keys, PurgeKey(k) PROVE Ledger!Forget(k)
  <2>1. keys[k] # None /\ keys' = [keys EXCEPT ![k] = None] /\ UNCHANGED <<bookings, windows>>
    BY <1>5 DEF PurgeKey
  <2>2. \A b \in Bookings : LedgerEntry(b)' = LedgerEntry(b)
    BY <2>1 DEF LedgerEntry, Exists, RoomOf
  <2> HIDE DEF LedgerEntry
  <2> QED
    BY <2>1, <2>2 DEF Ledger!Forget
<1> QED
  BY <1>2, <1>3, <1>4, <1>5 DEF Next, Ledger!Next

\* The booking core is one ledger: for any number of requests, rooms, windows, bookings and
\* keys, what guests see changes as if requests were served one at a time at their commits,
\* each under the guards of the ledger's own step.
THEOREM CoreImplementsLedger == Spec => ImplementsLedger
<1>1. Init => LInv /\ Ledger!Init
  BY InitIInv, InitKInv, InitAInv, LedgerInit DEF LInv
<1>2. LInv /\ [Next]_vars => LInv' /\ [Ledger!Next]_(Ledger!vars)
  BY NextIInv, NextKInv, NextAInv, LedgerNext DEF LInv
<1> QED
  BY <1>1, <1>2, PTL DEF Spec, ImplementsLedger, Ledger!Spec

=============================================================================
