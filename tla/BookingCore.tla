---------------------------- MODULE BookingCore ----------------------------
(***************************************************************************)
(* The booking core of the hotel API: bookings.service.ts, the idempotency *)
(* repository it shares, the room lock and the window (room-time)          *)
(* administration that competes with it for the same rows.                 *)
(*                                                                         *)
(* A client is one HTTP request being served.  A handler is cut where it   *)
(* waits: at the plain read it makes before its transaction, at every row  *)
(* lock (SELECT ... FOR UPDATE) it takes, and between the checks it makes  *)
(* under those locks and the commit that publishes its writes.  Reads and  *)
(* checks made under locks already held form one step; the writes of a     *)
(* transaction form one step because nobody sees them before the commit.   *)
(*                                                                         *)
(* A window row is only ever locked by a transaction that already holds    *)
(* its room, so its own lock adds no waiting and is left out.  Users,      *)
(* prices, reasons and response bodies are data no property tells apart.   *)
(***************************************************************************)
EXTENDS Integers, Sequences, FiniteSets

CONSTANTS
  Clients,      \* requests that may be in flight together
  Rooms,        \* room ids: the lock order compares them
  Windows,      \* room_times ids
  Bookings,     \* booking ids
  Keys,         \* (actor, Idempotency-Key) pairs
  Days,         \* hotel dates
  Stays,        \* <<checkIn, checkOut>> pairs the requests name
  Ops,          \* operations the requests use
  StreamEnabled,\* BOOKING_STREAM enabled: BookingLifecycleRecorder writes
  InitWindows,  \* the windows before the first request
  MaxVersion,   \* bound: no admin edit starts at or above this version
  None          \* no key, booking, window or lock holder

AllOps == {"create", "approve", "reject", "update", "cancelOwn", "cancelAdmin",
           "windowCreate", "windowUpdate", "windowDelete", "roomUpdate"}

\* booking.enums.ts also names COMPLETED: no handler gives a booking that status.
Live       == {"PENDING", "CONFIRMED"}
Terminal   == {"REJECTED", "CANCELLED_BY_USER", "CANCELLED_BY_ADMIN"}
Statuses   == Live \cup Terminal
EventTypes == {"booking.confirmed", "booking.rejected", "booking.changed",
               "booking.cancelled_by_admin"}

\* A row that is not in its table has status "NONE"; ids are never reused, so
\* a deleted window keeps its id.  A request names the booking, key or window it
\* is about, the room and stay (or window range and status) it asks for, what its
\* handler read before the transaction (window, source room, version), and the
\* window its checks found (dest).
NoRow == [window |-> None, stay |-> <<0, 0>>, status |-> "NONE", version |-> 0]
NoWin == [room |-> 0, from |-> 0, to |-> 0, status |-> "NONE"]
NoReq == [op |-> "none", key |-> None, booking |-> None, window |-> None,
          dest |-> None, source |-> 0, room |-> 0, stay |-> <<0, 0>>,
          version |-> 0, status |-> "NONE"]

BookingRow == [window : Windows \cup {None}, stay : Int \X Int,
               status : Statuses \cup {"NONE"}, version : Nat]
WindowRow  == [room : Rooms \cup {0}, from : Int, to : Int,
               status : {"ACTIVE", "INACTIVE", "DELETED", "NONE"}]
Request    == [op : AllOps \cup {"none"}, key : Keys \cup {None},
               booking : Bookings \cup {None}, window : Windows \cup {None},
               dest : Windows \cup {None}, source : Rooms \cup {0},
               room : Rooms \cup {0}, stay : Int \X Int, version : Nat,
               status : {"ACTIVE", "INACTIVE", "NONE"}]

ASSUME ConstantsAssumption ==
  /\ Rooms \subseteq Nat \ {0}
  /\ Days \subseteq Int
  /\ Stays \subseteq Days \X Days
  /\ Ops \subseteq AllOps
  /\ StreamEnabled \in BOOLEAN
  /\ MaxVersion \in Nat
  /\ None \notin Clients \cup Windows \cup Bookings \cup Keys
  /\ InitWindows \in [Windows -> WindowRow]
  /\ \A w \in Windows : InitWindows[w].status # "NONE" => InitWindows[w].room \in Rooms
  /\ \A v, w \in Windows :
       /\ v # w /\ InitWindows[v].room = InitWindows[w].room
       /\ InitWindows[v].status = "ACTIVE" /\ InitWindows[w].status = "ACTIVE"
       => InitWindows[v].to <= InitWindows[w].from \/ InitWindows[w].to <= InitWindows[v].from

VARIABLES
  rooms,       \* room id -> status column
  windows,     \* room_times rows
  bookings,    \* bookings rows
  history,     \* booking id -> its booking_status_history rows, oldest first
  changes,     \* booking_change_history rows, by booking and resulting version
  outbox,      \* notification rows of outbox_events, by their idempotency key
  stream,      \* booking.lifecycle rows of outbox_events, by their key
  keys,        \* idempotency key -> the booking its COMPLETED row replays, or None (no row)
  today,       \* the hotel date
  roomLock,    \* room id -> the client whose transaction holds the row
  bookingLock, \* booking id -> holder
  keyLock,     \* idempotency row -> holder
  req,         \* client -> the request it serves
  pc           \* client -> where its handler stands

dbVars   == <<rooms, windows, bookings, history, changes, outbox, stream, keys>>
lockVars == <<roomLock, bookingLock, keyLock>>
vars     == <<dbVars, today, lockVars, req, pc>>

PCs == {"idle", "key", "room", "booking", "check", "commit"}

(***************************************************************************)
(* Predicates of the code.                                                 *)
(***************************************************************************)
Exists(b)  == bookings[b].status # "NONE"
RoomOf(b)  == windows[bookings[b].window].room

\* Mutant: the last night is taken for the checkout day.
Overlap_LastNightFree(s, t) == s[1] < t[2] - 1 /\ s[2] - 1 > t[1]

\* booking-overlap.ts: checkout is exclusive.
Overlap(s, t) == s[1] < t[2] /\ s[2] > t[1]

Covers(w, s) == /\ windows[w].status = "ACTIVE"
                /\ windows[w].from <= s[1]
                /\ windows[w].to >= s[2]

\* Mutant: only a stay that begins inside the other one is seen.
ConfirmedOverlaps_BeginsInside(r, b, s) ==
  {c \in Bookings \ {b} : /\ bookings[c].status = "CONFIRMED"
                          /\ RoomOf(c) = r
                          /\ bookings[c].stay[1] <= s[1] /\ s[1] < bookings[c].stay[2]}

\* confirmedOverlapCondition joined to the room: the other CONFIRMED bookings.
ConfirmedOverlaps(r, b, s) ==
  {c \in Bookings \ {b} : /\ bookings[c].status = "CONFIRMED"
                          /\ RoomOf(c) = r
                          /\ Overlap(bookings[c].stay, s)}

\* The ACTIVE window findOne returns: the earliest that contains the stay.
FindWindows(r, s) ==
  LET found == {w \in Windows : windows[w].room = r /\ Covers(w, s)}
  IN  {w \in found : \A v \in found : windows[w].from <= windows[v].from}

AssertBookingDates(s) == s[1] < s[2] /\ s[1] >= today

\* room-time-policy.ts and the usage port it is fed from.
BookingCount(w)       == {b \in Bookings : Exists(b) /\ bookings[b].window = w}
\* Mutants: only CONFIRMED claims the window; only the destination column is counted.
ActiveBookingCount_Confirmed(w) ==
  {b \in Bookings : bookings[b].window = w /\ bookings[b].status = "CONFIRMED"}
ChangeHistoryCount_ToOnly(w) == {c \in changes : w = c.to}

ActiveBookingCount(w) == {b \in BookingCount(w) : bookings[b].status \in Live}
ChangeHistoryCount(w) == {c \in changes : w \in {c.from, c.to}}

ActiveOverlap(r, from, to, w) ==
  \E v \in Windows \ {w} : /\ windows[v].room = r
                           /\ windows[v].status = "ACTIVE"
                           /\ windows[v].from < to
                           /\ windows[v].to > from
(***************************************************************************)
(* Handlers: beginning, locking, refusing.                                 *)
(***************************************************************************)
Begin(p, r, at) ==
  /\ pc[p] = "idle"
  /\ r.op \in Ops
  /\ req' = [req EXCEPT ![p] = r]
  /\ pc'  = [pc EXCEPT ![p] = at]
  /\ UNCHANGED <<dbVars, today, lockVars>>

Free(lock, p) == [x \in DOMAIN lock |-> IF lock[x] = p THEN None ELSE lock[x]]

\* The transaction ends, committed or rolled back: every row lock is released.
EndTransaction(p) ==
  /\ pc'  = [pc EXCEPT ![p] = "idle"]
  /\ req' = [req EXCEPT ![p] = NoReq]
  /\ roomLock'    = Free(roomLock, p)
  /\ bookingLock' = Free(bookingLock, p)
  /\ keyLock'     = Free(keyLock, p)

\* Leave with an error or a replayed answer: nothing was written.
Return(p) == EndTransaction(p) /\ UNCHANGED <<dbVars, today>>

Advance(p, at, r) ==
  /\ pc'  = [pc EXCEPT ![p] = at]
  /\ req' = [req EXCEPT ![p] = r]
  /\ UNCHANGED <<dbVars, today, lockVars>>

\* create: idempotency key and input; the key row is locked first.
BeginCreate(p) ==
  \E k \in Keys, r \in Rooms, s \in Stays :
    Begin(p, [NoReq EXCEPT !.op = "create", !.key = k, !.room = r, !.stay = s], "key")

\* approve: reads the booking's window, room and version outside the transaction.
BeginApprove(p) ==
  \E b \in Bookings :
    /\ Exists(b)
    /\ Begin(p, [NoReq EXCEPT !.op = "approve", !.booking = b, !.room = RoomOf(b),
                   !.source = RoomOf(b), !.window = bookings[b].window,
                   !.version = bookings[b].version], "room")

\* updateAdmin: the same pre-read; an If-Match version other than the one just read
\* is refused at once, so the expected version is the one read.  A room or date the
\* body leaves out stands for the one read.
BeginUpdate(p) ==
  \E b \in Bookings, r \in Rooms, s \in Stays :
    /\ Exists(b) /\ bookings[b].version < MaxVersion
    /\ Begin(p, [NoReq EXCEPT !.op = "update", !.booking = b, !.room = r,
                   !.source = RoomOf(b), !.window = bookings[b].window, !.stay = s,
                   !.version = bookings[b].version], "room")

\* reject, cancelOwn and cancelAdmin lock the booking row and no room.
BeginTransition(p, op) ==
  \E b \in Bookings :
    Exists(b) /\ Begin(p, [NoReq EXCEPT !.op = op, !.booking = b], "booking")

BeginWindowCreate(p) ==
  \E r \in Rooms, s \in Stays, st \in {"ACTIVE", "INACTIVE"} :
    /\ s[1] < s[2]
    /\ Begin(p, [NoReq EXCEPT !.op = "windowCreate", !.room = r, !.stay = s,
                   !.status = st], "room")

\* The stay <<0, 0>> stands for a body without dates.
BeginWindowUpdate(p) ==
  \E w \in Windows, s \in Stays \cup {<<0, 0>>}, st \in {"ACTIVE", "INACTIVE"} :
    /\ windows[w].status \in {"ACTIVE", "INACTIVE"}
    /\ Begin(p, [NoReq EXCEPT !.op = "windowUpdate", !.window = w,
                   !.room = windows[w].room, !.stay = s, !.status = st], "room")

BeginWindowDelete(p) ==
  \E w \in Windows :
    /\ windows[w].status \in {"ACTIVE", "INACTIVE"}
    /\ Begin(p, [NoReq EXCEPT !.op = "windowDelete", !.window = w,
                   !.room = windows[w].room], "room")

\* RoomsService.update, as far as the booking core can see: the status column.
BeginRoomUpdate(p) ==
  \E r \in Rooms, st \in {"ACTIVE", "INACTIVE"} :
    Begin(p, [NoReq EXCEPT !.op = "roomUpdate", !.room = r, !.status = st], "room")

\* Mutant: the row is read without FOR UPDATE.
LockKey_PlainRead(p) ==
  /\ pc[p] = "key"
  /\ IF keys[req[p].key] = None /\ AssertBookingDates(req[p].stay)
     THEN /\ pc' = [pc EXCEPT ![p] = "room"]
          /\ UNCHANGED <<dbVars, today, lockVars, req>>
     ELSE Return(p)

\* IdempotencyRepository.lock, then the early returns of createInTransaction: the insert
\* makes a row where none stands; a committed row is COMPLETED, so it is replayed (same
\* fingerprint) or refused: nothing is written either way, so the fingerprint and the
\* stored response are left out.  lock does not read expires_at.
LockKey(p) ==
  LET k == req[p].key
  IN  /\ pc[p] = "key"
      /\ keyLock[k] = None
      /\ IF keys[k] = None /\ AssertBookingDates(req[p].stay)
         THEN /\ keyLock' = [keyLock EXCEPT ![k] = p]
              /\ pc' = [pc EXCEPT ![p] = "room"]
              /\ UNCHANGED <<dbVars, today, roomLock, bookingLock, req>>
         ELSE Return(p)

\* Mutant: an edit locks only the room the booking leaves.
RoomsNeeded_SourceOnly(p) == IF req[p].op \in {"approve", "update"}
                             THEN {req[p].source} ELSE {req[p].room}

\* orderedUniqueRoomIds: the rooms a handler locks, smallest id first.
RoomsNeeded(p) == IF req[p].op \in {"approve", "update"}
                  THEN {req[p].source, req[p].room} ELSE {req[p].room}
RoomsMissing(p) == {r \in RoomsNeeded(p) : roomLock[r] # p}
\* Mutant: the rooms in the order the request meets them, source first.
NextRoom_SourceFirst(p, r) ==
  r = IF req[p].source \in RoomsMissing(p) THEN req[p].source ELSE req[p].room

NextRoom(p, r)  == r \in RoomsMissing(p) /\ \A q \in RoomsMissing(p) : r <= q

LockRoom(p) ==
  \E r \in Rooms :
    /\ pc[p] = "room"
    /\ NextRoom(p, r)
    /\ roomLock[r] = None
    /\ roomLock' = [roomLock EXCEPT ![r] = p]
    /\ pc' = [pc EXCEPT ![p] = IF RoomsMissing(p) # {r} THEN "room"
                               ELSE IF req[p].booking # None THEN "booking" ELSE "check"]
    /\ UNCHANGED <<dbVars, today, bookingLock, keyLock, req>>

\* Mutants: the locked status is not looked at.
UpdateAllowed_AnyStatus(p) ==
  LET b == bookings[req[p].booking]
  IN  /\ b.version = req[p].version /\ b.window = req[p].window
      /\ <<req[p].room, req[p].stay>> # <<req[p].source, b.stay>>
      /\ AssertBookingDates(req[p].stay)
TransitionAllowed_Unchecked(p) == Exists(req[p].booking)

\* What the handler requires of the booking row once it holds it.
ApproveAllowed(p) ==
  LET b == bookings[req[p].booking]
  IN  b.status = "PENDING" /\ b.window = req[p].window /\ b.version = req[p].version

UpdateAllowed(p) ==
  LET b == bookings[req[p].booking]
  IN  /\ b.version = req[p].version
      /\ b.window = req[p].window
      /\ b.status \in Live
      /\ <<req[p].room, req[p].stay>> # <<req[p].source, b.stay>>
      /\ AssertBookingDates(req[p].stay)

TransitionAllowed(p) ==
  bookings[req[p].booking].status \in
    (IF req[p].op = "cancelAdmin" THEN Live ELSE {"PENDING"})

\* The locking read of the booking row; anything else is a replay or a conflict.
LockBooking(p) ==
  LET b == req[p].booking
      allowed == CASE req[p].op = "approve" -> ApproveAllowed(p)
                   [] req[p].op = "update"  -> UpdateAllowed(p)
                   [] OTHER                 -> TransitionAllowed(p)
  IN  /\ pc[p] = "booking"
      /\ bookingLock[b] = None
      /\ IF allowed
         THEN /\ bookingLock' = [bookingLock EXCEPT ![b] = p]
              /\ pc' = [pc EXCEPT ![p] = IF req[p].op \in {"approve", "update"}
                                         THEN "check" ELSE "commit"]
              /\ UNCHANGED <<dbVars, today, roomLock, keyLock, req>>
         ELSE Return(p)
(***************************************************************************)
(* Checks made under the locks, and the commits.                           *)
(***************************************************************************)
\* lockBookingTarget (and the price bound, which only refuses: see Abort).
CreateCheck(p) ==
  /\ pc[p] = "check" /\ req[p].op = "create"
  /\ LET found == FindWindows(req[p].room, req[p].stay)
     IN  IF rooms[req[p].room] = "ACTIVE" /\ found # {}
         THEN \E w \in found : Advance(p, "commit", [req[p] EXCEPT !.dest = w])
         ELSE Return(p)

\* assertNoConfirmedOverlap is a locking probe: it waits for the rows it finds.
ProbeReady(p, r, s) ==
  \A c \in ConfirmedOverlaps(r, req[p].booking, s) : bookingLock[c] = None

ApproveCheck(p) ==
  LET b == req[p].booking
  IN  /\ pc[p] = "check" /\ req[p].op = "approve"
      /\ ProbeReady(p, req[p].room, bookings[b].stay)
      /\ IF /\ RoomOf(b) = req[p].room
            /\ Covers(bookings[b].window, bookings[b].stay)
            /\ ConfirmedOverlaps(req[p].room, b, bookings[b].stay) = {}
         THEN Advance(p, "commit", req[p])
         ELSE Return(p)

\* Only a CONFIRMED booking is probed: a PENDING one promises nothing yet.
UpdateCheck(p) ==
  LET b == req[p].booking
      found == FindWindows(req[p].room, req[p].stay)
      probed == bookings[b].status = "CONFIRMED"
  IN  /\ pc[p] = "check" /\ req[p].op = "update"
      /\ probed => ProbeReady(p, req[p].room, req[p].stay)
      /\ IF /\ rooms[req[p].room] = "ACTIVE"
            /\ found # {}
            /\ probed => ConfirmedOverlaps(req[p].room, b, req[p].stay) = {}
         THEN \E w \in found : Advance(p, "commit", [req[p] EXCEPT !.dest = w])
         ELSE Return(p)

\* RoomTimesService.create: the range was checked before the transaction.
WindowCreateCheck(p) ==
  /\ pc[p] = "check" /\ req[p].op = "windowCreate"
  /\ IF req[p].status = "ACTIVE" =>
          ~ActiveOverlap(req[p].room, req[p].stay[1], req[p].stay[2], None)
     THEN Advance(p, "commit", req[p])
     ELSE Return(p)

\* Mutant: the overlap is checked only when the dates change.
WindowUpdateAllowed_DatesOnly(w, range, status) ==
  /\ range[1] < range[2]
  /\ range # <<windows[w].from, windows[w].to>> =>
       /\ BookingCount(w) = {} /\ ChangeHistoryCount(w) = {}
       /\ status = "ACTIVE" => ~ActiveOverlap(windows[w].room, range[1], range[2], w)
  /\ windows[w].status = "ACTIVE" /\ status = "INACTIVE" => ActiveBookingCount(w) = {}

\* assertRoomTimeUpdateAllowed on the usage counted in this transaction, then
\* assertNoActiveOverlap.  The usage is not locked: it is stale by the commit.
WindowUpdateAllowed(w, range, status) ==
  /\ range[1] < range[2]
  /\ range # <<windows[w].from, windows[w].to>> =>
       BookingCount(w) = {} /\ ChangeHistoryCount(w) = {}
  /\ windows[w].status = "ACTIVE" /\ status = "INACTIVE" => ActiveBookingCount(w) = {}
  /\ status = "ACTIVE" => ~ActiveOverlap(windows[w].room, range[1], range[2], w)

WindowUpdateCheck(p) ==
  LET w     == req[p].window
      range == IF req[p].stay = <<0, 0>> THEN <<windows[w].from, windows[w].to>>
                                         ELSE req[p].stay
  IN  /\ pc[p] = "check" /\ req[p].op = "windowUpdate"
      /\ IF /\ windows[w].status \in {"ACTIVE", "INACTIVE"}
            /\ WindowUpdateAllowed(w, range, req[p].status)
         THEN Advance(p, "commit", [req[p] EXCEPT !.stay = range])
         ELSE Return(p)

WindowDeleteCheck(p) ==
  LET w == req[p].window
  IN  /\ pc[p] = "check" /\ req[p].op = "windowDelete"
      /\ IF /\ windows[w].status \in {"ACTIVE", "INACTIVE"}
            /\ BookingCount(w) = {} /\ ChangeHistoryCount(w) = {}
         THEN Advance(p, "commit", req[p])
         ELSE Return(p)

RoomUpdateCheck(p) ==
  /\ pc[p] = "check" /\ req[p].op = "roomUpdate"
  /\ Advance(p, "commit", req[p])

\* BookingLifecycleRecorder.record.
RecordLifecycle(b, version, from, to) ==
  stream' = IF StreamEnabled
            THEN stream \cup {[booking |-> b, version |-> version, from |-> from, to |-> to]}
            ELSE stream

\* Mutant: the row goes in under the stream's event type.
InsertOutbox_WrongType(type, b, version) ==
  outbox' = outbox \cup {[type |-> "booking.lifecycle", booking |-> b, version |-> version]}

\* insertOutbox: the idempotency key is <eventType>:<publicId>:<resultingVersion>.
InsertOutbox(type, b, version) ==
  outbox' = outbox \cup {[type |-> type, booking |-> b, version |-> version]}

InsertHistory(b, from, to, actor) ==
  history' = [history EXCEPT ![b] = Append(@, [from |-> from, to |-> to, actor |-> actor])]

\* manager.save of a changed status: the @VersionColumn moves with it.
SaveStatus(b, to) ==
  bookings' = [bookings EXCEPT ![b].status = to, ![b].version = @ + 1]

CommitCreate(p) ==
  \E b \in Bookings :
    LET r == req[p]
    IN  /\ pc[p] = "commit" /\ r.op = "create"
        /\ ~Exists(b)
        /\ bookings' = [bookings EXCEPT ![b] = [window |-> r.dest, stay |-> r.stay,
                                                status |-> "PENDING", version |-> 1]]
        /\ InsertHistory(b, "NONE", "PENDING", "USER")
        /\ RecordLifecycle(b, 1, "NONE", "PENDING")
        /\ keys' = [keys EXCEPT ![r.key] = b]
        /\ EndTransaction(p)
        /\ UNCHANGED <<rooms, windows, changes, outbox, today>>

\* Mutant: the key carries the version before the save.
AppendTransitionAndOutbox_OldVersion(b, to, type) ==
  /\ InsertHistory(b, "PENDING", to, "ADMIN")
  /\ RecordLifecycle(b, bookings[b].version + 1, "PENDING", to)
  /\ InsertOutbox(type, b, bookings[b].version)

\* approve and reject share appendTransitionAndOutbox.
AppendTransitionAndOutbox(b, to, type) ==
  /\ InsertHistory(b, "PENDING", to, "ADMIN")
  /\ RecordLifecycle(b, bookings[b].version + 1, "PENDING", to)
  /\ InsertOutbox(type, b, bookings[b].version + 1)

CommitApprove(p) ==
  LET b == req[p].booking
  IN  /\ pc[p] = "commit" /\ req[p].op = "approve"
      /\ SaveStatus(b, "CONFIRMED")
      /\ AppendTransitionAndOutbox(b, "CONFIRMED", "booking.confirmed")
      /\ EndTransaction(p)
      /\ UNCHANGED <<rooms, windows, changes, keys, today>>

CommitReject(p) ==
  LET b == req[p].booking
  IN  /\ pc[p] = "commit" /\ req[p].op = "reject"
      /\ SaveStatus(b, "REJECTED")
      /\ AppendTransitionAndOutbox(b, "REJECTED", "booking.rejected")
      /\ EndTransaction(p)
      /\ UNCHANGED <<rooms, windows, changes, keys, today>>

\* Mutant: the one transition that has to read its room first forgets the stream.
CommitCancelOwn_NoRecord(p) ==
  LET b == req[p].booking
  IN  /\ pc[p] = "commit" /\ req[p].op = "cancelOwn"
      /\ SaveStatus(b, "CANCELLED_BY_USER")
      /\ InsertHistory(b, "PENDING", "CANCELLED_BY_USER", "USER")
      /\ EndTransaction(p)
      /\ UNCHANGED <<rooms, windows, changes, outbox, stream, keys, today>>

\* cancelOwn notifies nobody: no outbox row.
CommitCancelOwn(p) ==
  LET b == req[p].booking
  IN  /\ pc[p] = "commit" /\ req[p].op = "cancelOwn"
      /\ SaveStatus(b, "CANCELLED_BY_USER")
      /\ InsertHistory(b, "PENDING", "CANCELLED_BY_USER", "USER")
      /\ RecordLifecycle(b, bookings[b].version + 1, "PENDING", "CANCELLED_BY_USER")
      /\ EndTransaction(p)
      /\ UNCHANGED <<rooms, windows, changes, outbox, keys, today>>

CommitCancelAdmin(p) ==
  LET b == req[p].booking
      from == bookings[b].status
  IN  /\ pc[p] = "commit" /\ req[p].op = "cancelAdmin"
      /\ SaveStatus(b, "CANCELLED_BY_ADMIN")
      /\ InsertHistory(b, from, "CANCELLED_BY_ADMIN", "ADMIN")
      /\ RecordLifecycle(b, bookings[b].version + 1, from, "CANCELLED_BY_ADMIN")
      /\ InsertOutbox("booking.cancelled_by_admin", b, bookings[b].version + 1)
      /\ EndTransaction(p)
      /\ UNCHANGED <<rooms, windows, changes, keys, today>>

CommitUpdate(p) ==
  LET b == req[p].booking
      next == bookings[b].version + 1
  IN  /\ pc[p] = "commit" /\ req[p].op = "update"
      /\ bookings' = [bookings EXCEPT ![b].window = req[p].dest, ![b].stay = req[p].stay,
                                      ![b].version = next]
      /\ changes' = changes \cup {[booking |-> b, version |-> next,
                                   from |-> bookings[b].window, to |-> req[p].dest]}
      /\ RecordLifecycle(b, next, bookings[b].status, bookings[b].status)
      /\ InsertOutbox("booking.changed", b, next)
      /\ EndTransaction(p)
      /\ UNCHANGED <<rooms, windows, history, keys, today>>

WindowCommitted(p) ==
  /\ EndTransaction(p)
  /\ UNCHANGED <<rooms, bookings, history, changes, outbox, stream, keys, today>>

CommitWindowCreate(p) ==
  \E w \in Windows :
    /\ pc[p] = "commit" /\ req[p].op = "windowCreate"
    /\ windows[w].status = "NONE"
    /\ windows' = [windows EXCEPT ![w] =
         [room |-> req[p].room, from |-> req[p].stay[1], to |-> req[p].stay[2],
          status |-> req[p].status]]
    /\ WindowCommitted(p)

CommitWindowUpdate(p) ==
  LET w == req[p].window
  IN  /\ pc[p] = "commit" /\ req[p].op = "windowUpdate"
      /\ windows' = [windows EXCEPT ![w].from = req[p].stay[1], ![w].to = req[p].stay[2],
                                    ![w].status = req[p].status]
      /\ WindowCommitted(p)

CommitWindowDelete(p) ==
  /\ pc[p] = "commit" /\ req[p].op = "windowDelete"
  /\ windows' = [windows EXCEPT ![req[p].window].status = "DELETED"]
  /\ WindowCommitted(p)

CommitRoomUpdate(p) ==
  /\ pc[p] = "commit" /\ req[p].op = "roomUpdate"
  /\ rooms' = [rooms EXCEPT ![req[p].room] = req[p].status]
  /\ EndTransaction(p)
  /\ UNCHANGED <<windows, bookings, history, changes, outbox, stream, keys, today>>

\* The transaction rolls back: a lock wait times out, the connection or the process
\* dies, or a check on data left out here (the price bound, a room's own version) refuses.
Abort(p) == pc[p] # "idle" /\ Return(p)

\* Retention deletes the idempotency_keys rows past expires_at, at least a day after the
\* create; its DELETE waits for a row that a transaction holds.  A later request inserts
\* the row anew.  Bound: only while every create that may follow has a booking id left.
PurgeKey(k) ==
  /\ keys[k] # None /\ keyLock[k] = None
  /\ Cardinality({b \in Bookings : ~Exists(b)}) > Cardinality({l \in Keys : keys[l] = None})
  /\ keys' = [keys EXCEPT ![k] = None]
  /\ UNCHANGED <<rooms, windows, bookings, history, changes, outbox, stream, today, lockVars,
                 req, pc>>

NextDay ==
  /\ today + 1 \in Days
  /\ today' = today + 1
  /\ UNCHANGED <<dbVars, lockVars, req, pc>>

(***************************************************************************)
(* The specification.                                                      *)
(***************************************************************************)
Init ==
  /\ rooms = [r \in Rooms |-> "ACTIVE"]
  /\ windows = InitWindows
  /\ bookings = [b \in Bookings |-> NoRow]
  /\ history = [b \in Bookings |-> <<>>]
  /\ changes = {} /\ outbox = {} /\ stream = {}
  /\ keys = [k \in Keys |-> None]
  /\ today \in Days /\ \A d \in Days : today <= d
  /\ roomLock = [r \in Rooms |-> None]
  /\ bookingLock = [b \in Bookings |-> None]
  /\ keyLock = [k \in Keys |-> None]
  /\ req = [p \in Clients |-> NoReq]
  /\ pc = [p \in Clients |-> "idle"]

BeginAny(p) ==
  \/ BeginCreate(p) \/ BeginApprove(p) \/ BeginUpdate(p)
  \/ \E op \in {"reject", "cancelOwn", "cancelAdmin"} : BeginTransition(p, op)
  \/ BeginWindowCreate(p) \/ BeginWindowUpdate(p) \/ BeginWindowDelete(p)
  \/ BeginRoomUpdate(p)

Lock(p) == LockKey(p) \/ LockRoom(p) \/ LockBooking(p)

Check(p) ==
  \/ CreateCheck(p) \/ ApproveCheck(p) \/ UpdateCheck(p)
  \/ WindowCreateCheck(p) \/ WindowUpdateCheck(p) \/ WindowDeleteCheck(p)
  \/ RoomUpdateCheck(p)

Commit(p) ==
  \/ CommitCreate(p) \/ CommitApprove(p) \/ CommitReject(p)
  \/ CommitCancelOwn(p) \/ CommitCancelAdmin(p) \/ CommitUpdate(p)
  \/ CommitWindowCreate(p) \/ CommitWindowUpdate(p) \/ CommitWindowDelete(p)
  \/ CommitRoomUpdate(p)

Next == \/ \E p \in Clients : BeginAny(p) \/ Lock(p) \/ Check(p) \/ Commit(p) \/ Abort(p)
        \/ \E k \in Keys : PurgeKey(k)
        \/ NextDay

Spec == Init /\ [][Next]_vars
\* InnoDB queues lock waiters first come, first served, and a handler that can go on
\* does: every lock a request waits for again and again is granted.  Nothing is
\* assumed of new requests, of the clock or of failures.
Step(p)  == Lock(p) \/ Check(p) \/ Commit(p)
Fairness == \A p \in Clients : SF_vars(Step(p))
FairSpec == Spec /\ Fairness

(***************************************************************************)
(* Properties.                                                             *)
(***************************************************************************)
\* The type invariant: every row, lock, request and handler position has its shape.
TypeOK ==
  /\ rooms \in [Rooms -> {"ACTIVE", "INACTIVE"}]
  /\ windows \in [Windows -> WindowRow]
  /\ bookings \in [Bookings -> BookingRow]
  /\ history \in [Bookings -> Seq([from : Statuses \cup {"NONE"}, to : Statuses,
                                   actor : {"USER", "ADMIN"}])]
  /\ changes \subseteq [booking : Bookings, version : Nat, from : Windows, to : Windows]
  /\ outbox \subseteq [type : EventTypes, booking : Bookings, version : Nat]
  /\ stream \subseteq [booking : Bookings, version : Nat,
                       from : Statuses \cup {"NONE"}, to : Statuses]
  /\ keys \in [Keys -> Bookings \cup {None}]
  /\ today \in Days
  /\ roomLock \in [Rooms -> Clients \cup {None}]
  /\ bookingLock \in [Bookings -> Clients \cup {None}]
  /\ keyLock \in [Keys -> Clients \cup {None}]
  /\ req \in [Clients -> Request]
  /\ pc \in [Clients -> PCs]

\* The nights of a stay: the checkout day is not one of them.
Nights(s) == s[1]..(s[2] - 1)

\* No night of a room is promised twice: two CONFIRMED bookings of one physical room share
\* none, whichever windows they were booked through, however approvals, edits and window
\* changes interleave.  Only the room lock, and the check under it that the booking still
\* is where it was read (bookings.service.ts approve, updateAdmin), keep this.
NoDoubleBooking ==
  \A b, c \in Bookings :
    /\ b # c
    /\ bookings[b].status = "CONFIRMED" /\ bookings[c].status = "CONFIRMED"
    /\ RoomOf(b) = RoomOf(c)
    => Nights(bookings[b].stay) \cap Nights(bookings[c].stay) = {}

\* A PENDING or CONFIRMED stay lies in an ACTIVE window: no window is deactivated,
\* shortened or deleted under a booking that still claims it, although the usage the
\* window policy reads is not locked and three transitions take no room lock.
LiveStayCovered ==
  \A b \in Bookings : bookings[b].status \in Live =>
    Covers(bookings[b].window, bookings[b].stay)

\* A window that a booking or a change row refers to is never deleted: the code's own
\* check agrees with the foreign keys, so ER_ROW_IS_REFERENCED_2 is never raised.
ReferencedWindowKept ==
  \A w \in Windows :
    \/ \E b \in Bookings : Exists(b) /\ bookings[b].window = w
    \/ \E c \in changes : w \in {c.from, c.to}
    => windows[w].status \in {"ACTIVE", "INACTIVE"}

\* ACTIVE windows of one room never overlap, so the window found for a stay is unique.
NoActiveWindowOverlap ==
  \A v, w \in Windows :
    /\ v # w /\ windows[v].room = windows[w].room
    /\ windows[v].status = "ACTIVE" /\ windows[w].status = "ACTIVE"
    => ~Overlap(<<windows[v].from, windows[v].to>>, <<windows[w].from, windows[w].to>>)

\* Windows stay what bookings and guests rely on: referenced ones exist, ACTIVE ones
\* of a room are disjoint, whatever window administration races with.
WindowsKept == ReferencedWindowKept /\ NoActiveWindowOverlap

ChangesOf(b) == {c \in changes : c.booking = b}
OutboxOf(b)  == {e \in outbox : e.booking = b}
StreamOf(b)  == {e \in stream : e.booking = b}

\* The status history is an unbroken chain from creation to the current status (the
\* handlers write the "from" they believe in, not the one in the row), and the version
\* counts exactly the accepted transitions and edits.
HistoryAgrees ==
  \A b \in Bookings : Exists(b) =>
    LET h == history[b]
    IN  /\ Len(h) > 0 /\ h[1].from = "NONE" /\ h[Len(h)].to = bookings[b].status
        /\ \A i \in 1..(Len(h) - 1) : h[i].to = h[i + 1].from
        /\ bookings[b].version = Len(h) + Cardinality(ChangesOf(b))

\* Every admin decision about a booking has exactly one notification event and every
\* event its own version: the unique idempotency key never collides and none is lost.
NotifiedOncePerDecision ==
  \A b \in Bookings : Exists(b) =>
    /\ Cardinality(OutboxOf(b)) =
         Cardinality({i \in 1..Len(history[b]) : history[b][i].actor = "ADMIN"})
         + Cardinality(ChangesOf(b))
    /\ \A d, e \in OutboxOf(b) : d.version = e.version => d = e

\* With the stream on, each booking has exactly one lifecycle event per version, from
\* 1 to the current one, and they chain: a consumer that orders them by version sees
\* every change and ends in the booking's status.
StreamGapless ==
  StreamEnabled => \A b \in Bookings : Exists(b) =>
    /\ {e.version : e \in StreamOf(b)} = 1..bookings[b].version
    /\ \A d, e \in StreamOf(b) : d.version = e.version => d = e
    /\ \A d, e \in StreamOf(b) : e.version = d.version + 1 => e.from = d.to
    /\ \A e \in StreamOf(b) : e.version = bookings[b].version => e.to = bookings[b].status

\* A change is announced once: to the guest when an admin decided it, and on the stream.
AnnouncedOnce == NotifiedOncePerDecision /\ StreamGapless

\* While a key row stands it replays the booking it was completed with, that booking
\* exists, and a booking is only ever made together with a key row where none stood when
\* it was made: of several creates under one key, one makes a booking until retention has
\* deleted the row.  (After that a retry does make a second one.)
OneBookingPerKey ==
  [][/\ \A k \in Keys : keys[k] # None => Exists(keys[k]) /\ keys'[k] \in {keys[k], None}
     /\ \A b \in Bookings : ~Exists(b) /\ Exists(b)' =>
          Cardinality({k \in Keys : keys[k] = None /\ keys'[k] = b}) = 1
     /\ \A k, l \in Keys : k # l /\ keys[k] # None => keys[k] # keys[l]]_vars

\* No row lock outlives the transaction that took it.
IdleHoldsNothing ==
  \A p \in Clients : pc[p] = "idle" =>
    /\ \A r \in Rooms : roomLock[r] # p
    /\ \A b \in Bookings : bookingLock[b] # p
    /\ \A k \in Keys : keyLock[k] # p

BookingOps == {"approve", "update", "reject", "cancelOwn", "cancelAdmin"}
RoomOps    == AllOps \ {"reject", "cancelOwn", "cancelAdmin"}

\* What a request names exists, and its handler stands where its operation leads.
RequestSound(p) ==
  LET r == req[p]
  IN  /\ r.op \in BookingOps => r.booking \in Bookings /\ Exists(r.booking)
      /\ r.op \notin BookingOps => r.booking = None
      /\ r.op = "create" => r.key \in Keys
      /\ r.op \in RoomOps => r.room \in Rooms
      /\ r.op \in {"approve", "update"} => r.source \in Rooms
      /\ r.op \in {"windowUpdate", "windowDelete"} =>
           r.window \in Windows /\ windows[r.window].status # "NONE"
      /\ r.op \in {"windowCreate", "windowUpdate", "roomUpdate"} =>
           r.status \in {"ACTIVE", "INACTIVE"}
      /\ pc[p] = "key" => r.op = "create"
      /\ pc[p] = "room" => r.op \in RoomOps
      /\ pc[p] = "booking" => r.op \in BookingOps

\* Every handler holds the rows its position needs: all its rooms once past "room",
\* its booking once past "booking".
LocksHeld(p) ==
  /\ pc[p] \in {"booking", "check", "commit"} /\ req[p].op \in RoomOps =>
       \A r \in RoomsNeeded(p) : roomLock[r] = p
  /\ pc[p] \in {"check", "commit"} /\ req[p].op \in BookingOps =>
       bookingLock[req[p].booking] = p

\* The status a handler found when it locked its booking is the one it will replace.
StatusSeen(p) ==
  pc[p] \in {"check", "commit"} =>
    /\ req[p].op \in {"approve", "reject", "cancelOwn"} =>
         bookings[req[p].booking].status = "PENDING"
    /\ req[p].op \in {"update", "cancelAdmin"} => bookings[req[p].booking].status \in Live

\* Whatever other requests committed since the check, what the handler saw under its
\* locks is still so when it commits: a promise it is about to make meets no other.
ChecksHold(p) ==
  LET b == req[p].booking
      d == req[p].dest
  IN  pc[p] = "commit" =>
        /\ req[p].op = "approve" =>
             /\ RoomOf(b) = req[p].room
             /\ ConfirmedOverlaps(req[p].room, b, bookings[b].stay) = {}
        /\ req[p].op \in {"create", "update"} =>
             /\ d \in Windows
             /\ windows[d].status # "NONE" /\ windows[d].room = req[p].room
        /\ req[p].op = "update" /\ bookings[b].status = "CONFIRMED" =>
             ConfirmedOverlaps(req[p].room, b, req[p].stay) = {}

\* A window id that was ever used has its room, a booking refers to such a window, and
\* an id no booking has used yet starts from version 0.
ReferencesSound ==
  /\ \A w \in Windows : windows[w].status # "NONE" => windows[w].room \in Rooms
  /\ \A b \in Bookings : Exists(b) => /\ bookings[b].window \in Windows
                                      /\ windows[bookings[b].window].status # "NONE"
  /\ \A b \in Bookings : ~Exists(b) => bookings[b].version = 0

\* The inductive invariant behind NoDoubleBooking: the locks a handler holds at each
\* position, and the checks those locks keep true from "check" to "commit" although the
\* rows were first read outside the transaction (approve and updateAdmin).
CommitsOnFreshChecks ==
  /\ ReferencesSound
  /\ \A p \in Clients : RequestSound(p) /\ LocksHeld(p) /\ StatusSeen(p) /\ ChecksHold(p)

StatusMoves ==
  {<<"NONE", "PENDING">>, <<"PENDING", "CONFIRMED">>, <<"PENDING", "REJECTED">>,
   <<"PENDING", "CANCELLED_BY_USER">>, <<"PENDING", "CANCELLED_BY_ADMIN">>,
   <<"CONFIRMED", "CANCELLED_BY_ADMIN">>}

MovesForward(b) ==
  bookings'[b] # bookings[b] =>
    /\ bookings'[b].version = bookings[b].version + 1
    /\ bookings[b].status \notin Terminal
    /\ bookings'[b].status # bookings[b].status =>
         <<bookings[b].status, bookings'[b].status>> \in StatusMoves

\* A booking only ever moves along the lifecycle, a change of any column raises its
\* version by exactly one, and a terminal booking never changes again.
BookingMovesForward == [][\A b \in Bookings : MovesForward(b)]_vars

\* The ledger the handlers keep between them: a booking's room is its window's.
LedgerEntry(b) == [status |-> bookings[b].status, stay |-> bookings[b].stay,
             version |-> bookings[b].version,
             room |-> IF Exists(b) THEN RoomOf(b) ELSE 0]

Ledger == INSTANCE BookingLedger WITH
  ledger <- [b \in Bookings |-> LedgerEntry(b)], made <- keys

\* However handlers interleave, abort or run on what they read before their transaction,
\* the bookings change as if each request were served at once, at its commit: creations,
\* decisions, cancellations and edits are the ledger's, everything else leaves it alone
\* (no window change moves a booking to another room).
ImplementsLedger == Ledger!Spec

\* Everyone waiting on everyone never happens: the room order, and taking rooms before
\* the booking, let every request finish without any lock wait being broken off.
RequestsFinish == \A p \in Clients : pc[p] # "idle" ~> pc[p] = "idle"
============================================================================
