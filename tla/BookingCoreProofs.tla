------------------------- MODULE BookingCoreProofs -------------------------
(***************************************************************************)
(* Proofs about BookingCore, for any number of requests, rooms, windows,   *)
(* bookings, keys and days.                                                *)
(***************************************************************************)
EXTENDS BookingCore, TLAPS

\* NoDoubleBooking in the terms of the code's own check.
NoConfirmedOverlap ==
  \A b, c \in Bookings :
    /\ b # c
    /\ bookings[b].status = "CONFIRMED" /\ bookings[c].status = "CONFIRMED"
    /\ RoomOf(b) = RoomOf(c)
    => ~Overlap(bookings[b].stay, bookings[c].stay)

\* The inductive invariant.
IInv == /\ TypeOK
        /\ CommitsOnFreshChecks
        /\ IdleHoldsNothing
        /\ NoConfirmedOverlap

\* The stay of a request that names none.
LEMMA ZeroStay == <<0, 0>> \in Int \X Int
OBVIOUS

\* The request types: what a handler begins with has the shape of a request.
LEMMA RequestTypes ==
  /\ NoReq \in Request
  /\ NoReq.op = "none" /\ NoReq.booking = None
  /\ NoRow \in BookingRow /\ NoRow.status = "NONE" /\ NoRow.version = 0
BY DEF NoReq, Request, NoRow, BookingRow

\* The initial database satisfies the inductive invariant.
LEMMA InitIInv == Init => IInv
<1> SUFFICES ASSUME Init PROVE IInv
  OBVIOUS
<1>1. TypeOK
  BY ConstantsAssumption, RequestTypes DEF Init, TypeOK, PCs
<1>2. CommitsOnFreshChecks
  BY ConstantsAssumption, RequestTypes
  DEF Init, CommitsOnFreshChecks, ReferencesSound, RequestSound, LocksHeld, StatusSeen, ChecksHold,
      Exists, BookingOps, RoomOps, AllOps
<1>3. IdleHoldsNothing
  BY ConstantsAssumption DEF Init, IdleHoldsNothing
<1>4. NoConfirmedOverlap
  BY RequestTypes DEF Init, NoConfirmedOverlap
<1> QED
  BY <1>1, <1>2, <1>3, <1>4 DEF IInv

\* A transaction that ends frees what its own request held and nothing else.
LEMMA FreeKeeps ==
  ASSUME NEW D, NEW lock \in [D -> Clients \cup {None}], NEW p \in Clients
  PROVE  /\ Free(lock, p) \in [D -> Clients \cup {None}]
         /\ \A x \in D : Free(lock, p)[x] # p
         /\ \A x \in D, q \in Clients \ {p} : Free(lock, p)[x] = q <=> lock[x] = q
BY ConstantsAssumption DEF Free

\* Ending the transaction leaves the client idle, its locks free, all others alone.
LEMMA EndFacts ==
  ASSUME TypeOK, NEW p \in Clients, EndTransaction(p)
  PROVE  /\ pc' = [pc EXCEPT ![p] = "idle"]
         /\ req' = [req EXCEPT ![p] = NoReq]
         /\ roomLock' \in [Rooms -> Clients \cup {None}]
         /\ bookingLock' \in [Bookings -> Clients \cup {None}]
         /\ keyLock' \in [Keys -> Clients \cup {None}]
         /\ \A r \in Rooms : roomLock'[r] # p
         /\ \A b \in Bookings : bookingLock'[b] # p
         /\ \A k \in Keys : keyLock'[k] # p
         /\ \A q \in Clients \ {p} :
              /\ \A r \in Rooms : roomLock'[r] = q <=> roomLock[r] = q
              /\ \A b \in Bookings : bookingLock'[b] = q <=> bookingLock[b] = q
              /\ \A k \in Keys : keyLock'[k] = q <=> keyLock[k] = q
<1>1. /\ roomLock \in [Rooms -> Clients \cup {None}]
      /\ bookingLock \in [Bookings -> Clients \cup {None}]
      /\ keyLock \in [Keys -> Clients \cup {None}]
  BY DEF TypeOK
<1>2. /\ roomLock' = Free(roomLock, p)
      /\ bookingLock' = Free(bookingLock, p)
      /\ keyLock' = Free(keyLock, p)
      /\ pc' = [pc EXCEPT ![p] = "idle"]
      /\ req' = [req EXCEPT ![p] = NoReq]
  BY DEF EndTransaction
<1>3. /\ roomLock' \in [Rooms -> Clients \cup {None}]
      /\ \A r \in Rooms : roomLock'[r] # p
      /\ \A r \in Rooms, q \in Clients \ {p} : roomLock'[r] = q <=> roomLock[r] = q
  BY <1>1, <1>2, FreeKeeps
<1>4. /\ bookingLock' \in [Bookings -> Clients \cup {None}]
      /\ \A b \in Bookings : bookingLock'[b] # p
      /\ \A b \in Bookings, q \in Clients \ {p} : bookingLock'[b] = q <=> bookingLock[b] = q
  BY <1>1, <1>2, FreeKeeps
<1>5. /\ keyLock' \in [Keys -> Clients \cup {None}]
      /\ \A k \in Keys : keyLock'[k] # p
      /\ \A k \in Keys, q \in Clients \ {p} : keyLock'[k] = q <=> keyLock[k] = q
  BY <1>1, <1>2, FreeKeeps
<1> QED
  BY <1>2, <1>3, <1>4, <1>5

\* What a step of p that writes no row looks like: it returns, or moves p on with at
\* most one more lock that was free.
Quiet(p) ==
  /\ UNCHANGED <<dbVars, today>>
  /\ \/ EndTransaction(p)
     \/ \E at \in PCs \ {"idle"}, r \in Request :
          /\ pc' = [pc EXCEPT ![p] = at]
          /\ req' = [req EXCEPT ![p] = r]
          /\ \/ UNCHANGED lockVars
             \/ \E k \in Keys : /\ keyLock[k] = None /\ keyLock' = [keyLock EXCEPT ![k] = p]
                                /\ UNCHANGED <<roomLock, bookingLock>>
             \/ \E x \in Rooms : /\ roomLock[x] = None /\ roomLock' = [roomLock EXCEPT ![x] = p]
                                 /\ UNCHANGED <<keyLock, bookingLock>>
             \/ \E b \in Bookings : /\ bookingLock[b] = None
                                    /\ bookingLock' = [bookingLock EXCEPT ![b] = p]
                                    /\ UNCHANGED <<keyLock, roomLock>>

\* What the actor of a step owes the invariant about itself.
ActorSound(p) == RequestSound(p) /\ LocksHeld(p) /\ StatusSeen(p) /\ ChecksHold(p)

\* An idle client owes nothing.
LEMMA IdleSound ==
  ASSUME NEW p \in Clients, pc'[p] = "idle", req'[p] = NoReq
  PROVE  ActorSound(p)'
BY RequestTypes
DEF ActorSound, RequestSound, LocksHeld, StatusSeen, ChecksHold, BookingOps, RoomOps, AllOps

\* A quiet step leaves the other clients, and the locks they hold, as they are.
LEMMA QuietFrame ==
  ASSUME TypeOK, NEW p \in Clients, Quiet(p)
  PROVE  /\ TypeOK'
         /\ pc'[p] = "idle" =>
              /\ \A r \in Rooms : roomLock'[r] # p
              /\ \A b \in Bookings : bookingLock'[b] # p
              /\ \A k \in Keys : keyLock'[k] # p
         /\ \A q \in Clients \ {p} :
              /\ pc'[q] = pc[q] /\ req'[q] = req[q]
              /\ \A r \in Rooms : roomLock'[r] = q <=> roomLock[r] = q
              /\ \A b \in Bookings : bookingLock'[b] = q <=> bookingLock[b] = q
              /\ \A k \in Keys : keyLock'[k] = q <=> keyLock[k] = q
<1> DEFINE Others == \A q \in Clients \ {p} :
              /\ \A x \in Rooms : roomLock'[x] = q <=> roomLock[x] = q
              /\ \A b \in Bookings : bookingLock'[b] = q <=> bookingLock[b] = q
              /\ \A k \in Keys : keyLock'[k] = q <=> keyLock[k] = q
           LocksTyped == /\ roomLock' \in [Rooms -> Clients \cup {None}]
                         /\ bookingLock' \in [Bookings -> Clients \cup {None}]
                         /\ keyLock' \in [Keys -> Clients \cup {None}]
           Freed == /\ \A r \in Rooms : roomLock'[r] # p
                    /\ \A b \in Bookings : bookingLock'[b] # p
                    /\ \A k \in Keys : keyLock'[k] # p
<1>0. pc \in [Clients -> PCs] /\ req \in [Clients -> Request]
  BY DEF TypeOK
<1>1. /\ Others /\ LocksTyped
      /\ pc'[p] = "idle" => Freed
      /\ \E at \in PCs, r \in Request : /\ pc' = [pc EXCEPT ![p] = at]
                                        /\ req' = [req EXCEPT ![p] = r]
  <2>1. CASE EndTransaction(p)
    <3>1. Others /\ LocksTyped /\ Freed /\ pc' = [pc EXCEPT ![p] = "idle"]
          /\ req' = [req EXCEPT ![p] = NoReq]
      BY <2>1, EndFacts
    <3> QED
      BY <3>1, RequestTypes DEF PCs
  <2>2. CASE ~EndTransaction(p)
    <3>1. PICK at \in PCs \ {"idle"}, r \in Request :
            /\ pc' = [pc EXCEPT ![p] = at]
            /\ req' = [req EXCEPT ![p] = r]
      BY <2>2 DEF Quiet
    <3>2. Others /\ LocksTyped
      <4>0. /\ roomLock \in [Rooms -> Clients \cup {None}]
            /\ bookingLock \in [Bookings -> Clients \cup {None}]
            /\ keyLock \in [Keys -> Clients \cup {None}]
        BY DEF TypeOK
      <4>1. CASE UNCHANGED lockVars
        BY <4>0, <4>1 DEF lockVars
      <4>2. ASSUME NEW k \in Keys, keyLock[k] = None, keyLock' = [keyLock EXCEPT ![k] = p],
                   UNCHANGED <<roomLock, bookingLock>>
            PROVE  Others /\ LocksTyped
        BY <4>0, <4>2, ConstantsAssumption
      <4>3. ASSUME NEW x \in Rooms, roomLock[x] = None, roomLock' = [roomLock EXCEPT ![x] = p],
                   UNCHANGED <<keyLock, bookingLock>>
            PROVE  Others /\ LocksTyped
        BY <4>0, <4>3, ConstantsAssumption
      <4>4. ASSUME NEW b \in Bookings, bookingLock[b] = None,
                   bookingLock' = [bookingLock EXCEPT ![b] = p],
                   UNCHANGED <<keyLock, roomLock>>
            PROVE  Others /\ LocksTyped
        BY <4>0, <4>4, ConstantsAssumption
      <4> HIDE DEF Others, LocksTyped
      <4> QED
        BY <2>2, <4>1, <4>2, <4>3, <4>4 DEF Quiet
    <3> QED
      BY <3>1, <3>2, <1>0
  <2> QED
    BY <2>1, <2>2
<1>2. pc' \in [Clients -> PCs] /\ req' \in [Clients -> Request]
  BY <1>0, <1>1
<1>3. \A q \in Clients \ {p} : pc'[q] = pc[q] /\ req'[q] = req[q]
  BY <1>0, <1>1
<1>4. TypeOK'
  BY <1>1, <1>2 DEF TypeOK, Quiet, dbVars
<1> QED
  BY <1>1, <1>3, <1>4

\* A quiet step preserves the invariant if the actor keeps its own part of it.
LEMMA QuietKeeps ==
  ASSUME IInv, NEW p \in Clients, Quiet(p), ActorSound(p)'
  PROVE  IInv'
<1>1. TypeOK /\ CommitsOnFreshChecks /\ IdleHoldsNothing /\ NoConfirmedOverlap
  BY DEF IInv
<1>2. UNCHANGED <<windows, bookings>>
  BY DEF Quiet, dbVars
<1>3. TypeOK'
  BY <1>1, QuietFrame
<1>4. IdleHoldsNothing'
  BY <1>1, QuietFrame DEF IdleHoldsNothing
<1>5. NoConfirmedOverlap'
  BY <1>1, <1>2 DEF NoConfirmedOverlap, RoomOf
<1>6. ReferencesSound'
  BY <1>1, <1>2 DEF CommitsOnFreshChecks, ReferencesSound, Exists
<1>7. ASSUME NEW q \in Clients \ {p} PROVE ActorSound(q)'
  <2>1. ActorSound(q)
    BY <1>1 DEF CommitsOnFreshChecks, ActorSound
  <2>2. /\ pc'[q] = pc[q] /\ req'[q] = req[q]
        /\ \A r \in Rooms : roomLock'[r] = q <=> roomLock[r] = q
        /\ \A b \in Bookings : bookingLock'[b] = q <=> bookingLock[b] = q
    BY <1>1, QuietFrame
  <2>3. RequestSound(q)'
    BY <2>1, <2>2, <1>2 DEF ActorSound, RequestSound, Exists
  <2>4. LocksHeld(q)'
    BY <2>1, <2>2 DEF ActorSound, LocksHeld, RoomsNeeded, RequestSound, RoomOps, AllOps
  <2>5. ChecksHold(q)'
    BY <2>1, <2>2, <1>2 DEF ActorSound, ChecksHold, RoomOf, ConfirmedOverlaps
  <2>6. StatusSeen(q)'
    BY <2>1, <2>2, <1>2 DEF ActorSound, StatusSeen
  <2> QED
    BY <2>3, <2>4, <2>5, <2>6 DEF ActorSound
<1>8. CommitsOnFreshChecks'
  BY <1>6, <1>7 DEF CommitsOnFreshChecks, ActorSound
<1> QED
  BY <1>3, <1>4, <1>5, <1>8 DEF IInv

\* Beginning and advancing a request are quiet.
LEMMA MoveQuiet ==
  ASSUME TypeOK, NEW p \in Clients, NEW r \in Request, NEW at \in PCs \ {"idle"},
         Begin(p, r, at) \/ Advance(p, at, r)
  PROVE  Quiet(p) /\ pc'[p] = at /\ req'[p] = r
BY DEF TypeOK, Begin, Advance, Quiet

\* A request refused or replayed is quiet and leaves its client idle.
LEMMA ReturnQuiet ==
  ASSUME TypeOK, NEW p \in Clients, Return(p)
  PROVE  Quiet(p) /\ ActorSound(p)'
<1>1. Quiet(p)
  BY DEF Return, Quiet
<1>2. pc' = [pc EXCEPT ![p] = "idle"] /\ req' = [req EXCEPT ![p] = NoReq]
  BY EndFacts DEF Return
<1>3. pc'[p] = "idle" /\ req'[p] = NoReq
  BY <1>2 DEF TypeOK
<1> QED
  BY <1>1, <1>3, IdleSound

\* Every way a request begins, with what its handler read before its transaction.
LEMMA BeginSound ==
  ASSUME IInv, NEW p \in Clients, BeginAny(p)
  PROVE  Quiet(p) /\ ActorSound(p)'
<1> DEFINE Goal == Quiet(p) /\ ActorSound(p)'
<1>0. TypeOK /\ ReferencesSound
  BY DEF IInv, CommitsOnFreshChecks
<1>1. ASSUME NEW b \in Bookings, Exists(b)
      PROVE  /\ bookings[b].window \in Windows /\ RoomOf(b) \in Rooms
             /\ bookings[b].version \in Nat
  BY <1>0, <1>1 DEF ReferencesSound, RoomOf, Exists, TypeOK, BookingRow
<1>2. dbVars' = dbVars
  BY DEF BeginAny, BeginCreate, BeginApprove, BeginUpdate, BeginTransition,
         BeginWindowCreate, BeginWindowUpdate, BeginWindowDelete, BeginRoomUpdate, Begin
<1>3. CASE BeginCreate(p)
  <2>1. PICK k \in Keys, r \in Rooms, s \in Stays :
          Begin(p, [NoReq EXCEPT !.op = "create", !.key = k, !.room = r, !.stay = s], "key")
    BY <1>3 DEF BeginCreate
  <2>2. [NoReq EXCEPT !.op = "create", !.key = k, !.room = r, !.stay = s] \in Request
    BY ConstantsAssumption DEF NoReq, Request, AllOps
  <2>3. Quiet(p) /\ pc'[p] = "key"
        /\ req'[p] = [NoReq EXCEPT !.op = "create", !.key = k, !.room = r, !.stay = s]
    BY <1>0, <2>1, <2>2, MoveQuiet DEF PCs
  <2> QED
    BY <2>3 DEF ActorSound, RequestSound, LocksHeld, StatusSeen, ChecksHold, BookingOps, NoReq
<1>4. CASE BeginApprove(p)
  <2>1. PICK b \in Bookings :
          /\ Exists(b)
          /\ Begin(p, [NoReq EXCEPT !.op = "approve", !.booking = b, !.room = RoomOf(b),
                         !.source = RoomOf(b), !.window = bookings[b].window,
                         !.version = bookings[b].version], "room")
    BY <1>4 DEF BeginApprove
  <2> DEFINE r == [NoReq EXCEPT !.op = "approve", !.booking = b, !.room = RoomOf(b),
                         !.source = RoomOf(b), !.window = bookings[b].window,
                         !.version = bookings[b].version]
  <2>2. r \in Request
    BY <1>1, <2>1, ZeroStay DEF NoReq, Request, AllOps
  <2>3. Quiet(p) /\ pc'[p] = "room" /\ req'[p] = r
    BY <1>0, <2>1, <2>2, MoveQuiet DEF PCs
  <2>4. Exists(b)'
    BY <1>2, <2>1 DEF Exists, dbVars
  <2> QED
    BY <1>1, <2>1, <2>3, <2>4
    DEF ActorSound, RequestSound, LocksHeld, StatusSeen, ChecksHold, BookingOps, RoomOps, AllOps, NoReq
<1>5. CASE BeginUpdate(p)
  <2>1. PICK b \in Bookings, x \in Rooms, s \in Stays :
          /\ Exists(b)
          /\ Begin(p, [NoReq EXCEPT !.op = "update", !.booking = b, !.room = x,
                         !.source = RoomOf(b), !.window = bookings[b].window, !.stay = s,
                         !.version = bookings[b].version], "room")
    BY <1>5 DEF BeginUpdate
  <2> DEFINE r == [NoReq EXCEPT !.op = "update", !.booking = b, !.room = x,
                         !.source = RoomOf(b), !.window = bookings[b].window, !.stay = s,
                         !.version = bookings[b].version]
  <2>2. r \in Request
    BY <1>1, <2>1, ConstantsAssumption DEF NoReq, Request, AllOps
  <2>3. Quiet(p) /\ pc'[p] = "room" /\ req'[p] = r
    BY <1>0, <2>1, <2>2, MoveQuiet DEF PCs
  <2>4. Exists(b)'
    BY <1>2, <2>1 DEF Exists, dbVars
  <2> QED
    BY <1>1, <2>1, <2>3, <2>4
    DEF ActorSound, RequestSound, LocksHeld, StatusSeen, ChecksHold, BookingOps, RoomOps, AllOps, NoReq
<1>6. ASSUME NEW op \in {"reject", "cancelOwn", "cancelAdmin"}, BeginTransition(p, op)
      PROVE  Goal
  <2>1. PICK b \in Bookings :
          Exists(b) /\ Begin(p, [NoReq EXCEPT !.op = op, !.booking = b], "booking")
    BY <1>6 DEF BeginTransition
  <2>2. [NoReq EXCEPT !.op = op, !.booking = b] \in Request
    BY <2>1, ZeroStay DEF NoReq, Request, AllOps
  <2>3. Quiet(p) /\ pc'[p] = "booking" /\ req'[p] = [NoReq EXCEPT !.op = op, !.booking = b]
    BY <1>0, <2>1, <2>2, MoveQuiet DEF PCs
  <2>4. Exists(b)'
    BY <1>2, <2>1 DEF Exists, dbVars
  <2> QED
    BY <2>1, <2>3, <2>4
    DEF ActorSound, RequestSound, LocksHeld, StatusSeen, ChecksHold, BookingOps, RoomOps, AllOps, NoReq
<1>7. CASE BeginWindowCreate(p)
  <2>1. PICK x \in Rooms, s \in Stays, st \in {"ACTIVE", "INACTIVE"} :
          Begin(p, [NoReq EXCEPT !.op = "windowCreate", !.room = x, !.stay = s,
                      !.status = st], "room")
    BY <1>7 DEF BeginWindowCreate
  <2> DEFINE r == [NoReq EXCEPT !.op = "windowCreate", !.room = x, !.stay = s, !.status = st]
  <2>2. r \in Request
    BY <2>1, ConstantsAssumption DEF NoReq, Request, AllOps
  <2>3. Quiet(p) /\ pc'[p] = "room" /\ req'[p] = r
    BY <1>0, <2>1, <2>2, MoveQuiet DEF PCs
  <2> QED
    BY <2>1, <2>3
    DEF ActorSound, RequestSound, LocksHeld, StatusSeen, ChecksHold, BookingOps, RoomOps, AllOps, NoReq
<1>8. CASE BeginWindowUpdate(p)
  <2>1. PICK w \in Windows, s \in Stays \cup {<<0, 0>>}, st \in {"ACTIVE", "INACTIVE"} :
          /\ windows[w].status \in {"ACTIVE", "INACTIVE"}
          /\ Begin(p, [NoReq EXCEPT !.op = "windowUpdate", !.window = w,
                         !.room = windows[w].room, !.stay = s, !.status = st], "room")
    BY <1>8 DEF BeginWindowUpdate
  <2> DEFINE r == [NoReq EXCEPT !.op = "windowUpdate", !.window = w,
                         !.room = windows[w].room, !.stay = s, !.status = st]
  <2>2. windows[w].room \in Rooms
    BY <1>0, <2>1 DEF ReferencesSound
  <2>3. r \in Request
    BY <2>1, <2>2, ConstantsAssumption, ZeroStay DEF NoReq, Request, AllOps
  <2>4. Quiet(p) /\ pc'[p] = "room" /\ req'[p] = r
    BY <1>0, <2>1, <2>3, MoveQuiet DEF PCs
  <2>5. windows' = windows
    BY <1>2 DEF dbVars
  <2> QED
    BY <2>1, <2>2, <2>4, <2>5
    DEF ActorSound, RequestSound, LocksHeld, StatusSeen, ChecksHold, BookingOps, RoomOps, AllOps, NoReq
<1>9. CASE BeginWindowDelete(p)
  <2>1. PICK w \in Windows :
          /\ windows[w].status \in {"ACTIVE", "INACTIVE"}
          /\ Begin(p, [NoReq EXCEPT !.op = "windowDelete", !.window = w,
                         !.room = windows[w].room], "room")
    BY <1>9 DEF BeginWindowDelete
  <2> DEFINE r == [NoReq EXCEPT !.op = "windowDelete", !.window = w, !.room = windows[w].room]
  <2>2. windows[w].room \in Rooms
    BY <1>0, <2>1 DEF ReferencesSound
  <2>3. r \in Request
    BY <2>1, <2>2, ZeroStay DEF NoReq, Request, AllOps
  <2>4. Quiet(p) /\ pc'[p] = "room" /\ req'[p] = r
    BY <1>0, <2>1, <2>3, MoveQuiet DEF PCs
  <2>5. windows' = windows
    BY <1>2 DEF dbVars
  <2> QED
    BY <2>1, <2>2, <2>4, <2>5
    DEF ActorSound, RequestSound, LocksHeld, StatusSeen, ChecksHold, BookingOps, RoomOps, AllOps, NoReq
<1>10. CASE BeginRoomUpdate(p)
  <2>1. PICK x \in Rooms, st \in {"ACTIVE", "INACTIVE"} :
          Begin(p, [NoReq EXCEPT !.op = "roomUpdate", !.room = x, !.status = st], "room")
    BY <1>10 DEF BeginRoomUpdate
  <2>2. [NoReq EXCEPT !.op = "roomUpdate", !.room = x, !.status = st] \in Request
    BY <2>1, ZeroStay DEF NoReq, Request, AllOps
  <2>3. Quiet(p) /\ pc'[p] = "room"
        /\ req'[p] = [NoReq EXCEPT !.op = "roomUpdate", !.room = x, !.status = st]
    BY <1>0, <2>1, <2>2, MoveQuiet DEF PCs
  <2> QED
    BY <2>1, <2>3
    DEF ActorSound, RequestSound, LocksHeld, StatusSeen, ChecksHold, BookingOps, RoomOps, AllOps, NoReq
<1> HIDE DEF Goal
<1>11. Goal
  BY <1>3, <1>4, <1>5, <1>6, <1>7, <1>8, <1>9, <1>10 DEF BeginAny, Goal
<1> QED
  BY <1>11 DEF Goal

\* Every row lock a handler takes: the idempotency key, its rooms in order, its booking.
LEMMA LockSound ==
  ASSUME IInv, NEW p \in Clients, Lock(p)
  PROVE  Quiet(p) /\ ActorSound(p)'
<1> DEFINE Goal == Quiet(p) /\ ActorSound(p)'
<1>0. TypeOK /\ RequestSound(p) /\ LocksHeld(p)
  BY DEF IInv, CommitsOnFreshChecks
<1>1. /\ req \in [Clients -> Request] /\ pc \in [Clients -> PCs]
      /\ req[p] \in Request
      /\ roomLock \in [Rooms -> Clients \cup {None}]
      /\ bookingLock \in [Bookings -> Clients \cup {None}]
      /\ keyLock \in [Keys -> Clients \cup {None}]
  BY <1>0 DEF TypeOK
<1>2. req = [req EXCEPT ![p] = req[p]]
  BY <1>1
<1>3. ASSUME Return(p) PROVE Goal
  BY <1>0, <1>3, ReturnQuiet
<1>4. CASE LockKey(p) /\ ~Return(p)
  <2>1. /\ req[p].op = "create" /\ req[p].key \in Keys
        /\ keyLock[req[p].key] = None
        /\ keyLock' = [keyLock EXCEPT ![req[p].key] = p]
        /\ pc' = [pc EXCEPT ![p] = "room"]
        /\ UNCHANGED <<dbVars, today, roomLock, bookingLock, req>>
    BY <1>0, <1>4 DEF LockKey, RequestSound
  <2>2. Quiet(p)
    BY <1>1, <1>2, <2>1 DEF Quiet, PCs
  <2>3. ActorSound(p)'
    BY <1>0, <1>1, <2>1
    DEF ActorSound, RequestSound, LocksHeld, StatusSeen, ChecksHold, BookingOps, RoomOps, AllOps
  <2> QED
    BY <2>2, <2>3
<1>5. CASE LockRoom(p)
  <2>1. PICK x \in Rooms :
          /\ pc[p] = "room"
          /\ NextRoom(p, x)
          /\ roomLock[x] = None
          /\ roomLock' = [roomLock EXCEPT ![x] = p]
          /\ pc' = [pc EXCEPT ![p] = IF RoomsMissing(p) # {x} THEN "room"
                       ELSE IF req[p].booking # None THEN "booking" ELSE "check"]
          /\ UNCHANGED <<dbVars, today, bookingLock, keyLock, req>>
    BY <1>5 DEF LockRoom
  <2>2. Quiet(p)
    BY <1>1, <1>2, <2>1 DEF Quiet, PCs
  <2>3. req[p].op \in RoomOps /\ req'[p] = req[p]
    BY <1>0, <2>1 DEF RequestSound
  <2>4. RoomsNeeded(p) \subseteq Rooms
    BY <1>0, <2>3 DEF RequestSound, RoomsNeeded
  <2>5. pc'[p] # "room" => \A r \in RoomsNeeded(p) : roomLock'[r] = p
    BY <1>1, <2>1, <2>4 DEF RoomsMissing
  <2>6. pc'[p] \in {"room", "booking", "check"}
        /\ (pc'[p] = "booking" => req[p].op \in BookingOps)
        /\ (pc'[p] = "check" => req[p].op \notin BookingOps)
    BY <1>0, <1>1, <2>1, ConstantsAssumption DEF RequestSound
  <2>7. RequestSound(p)'
    BY <1>0, <2>1, <2>3, <2>6 DEF RequestSound, Exists, dbVars
  <2>8. LocksHeld(p)'
    BY <2>1, <2>3, <2>5, <2>6 DEF LocksHeld, RoomsNeeded
  <2>9. StatusSeen(p)' /\ ChecksHold(p)'
    BY <2>3, <2>6 DEF StatusSeen, ChecksHold, BookingOps
  <2> QED
    BY <2>2, <2>7, <2>8, <2>9 DEF ActorSound
<1>6. CASE LockBooking(p) /\ ~Return(p)
  <2> DEFINE b == req[p].booking
  <2>1. /\ pc[p] = "booking"
        /\ bookingLock[b] = None
        /\ bookingLock' = [bookingLock EXCEPT ![b] = p]
        /\ pc' = [pc EXCEPT ![p] = IF req[p].op \in {"approve", "update"}
                                   THEN "check" ELSE "commit"]
        /\ UNCHANGED <<dbVars, today, roomLock, keyLock, req>>
    BY <1>6 DEF LockBooking
  <2>2. req[p].op \in BookingOps /\ b \in Bookings /\ req'[p] = req[p]
    BY <1>0, <2>1 DEF RequestSound
  <2>3. Quiet(p)
    BY <1>1, <1>2, <2>1, <2>2 DEF Quiet, PCs
  <2>4. bookingLock'[b] = p
    BY <1>1, <2>1, <2>2
  <2>5. pc'[p] = IF req[p].op \in {"approve", "update"} THEN "check" ELSE "commit"
    BY <1>1, <2>1
  <2>6. RequestSound(p)'
    BY <1>0, <2>1, <2>2, <2>5 DEF RequestSound, Exists, dbVars
  <2>7. LocksHeld(p)'
    BY <1>0, <2>1, <2>2, <2>4, <2>5 DEF LocksHeld, RoomsNeeded
  <2>8. ChecksHold(p)'
    BY <2>2, <2>5 DEF ChecksHold, BookingOps
  <2>9. StatusSeen(p)'
    <3>1. /\ req[p].op \in {"approve", "reject", "cancelOwn"} => bookings[b].status = "PENDING"
          /\ req[p].op \in {"update", "cancelAdmin"} => bookings[b].status \in Live
      BY <1>6 DEF LockBooking, ApproveAllowed, UpdateAllowed, TransitionAllowed
    <3> QED
      BY <2>1, <2>2, <3>1 DEF StatusSeen, dbVars
  <2> QED
    BY <2>3, <2>6, <2>7, <2>8, <2>9 DEF ActorSound
<1> HIDE DEF Goal
<1>7. Goal
  BY <1>3, <1>4, <1>5, <1>6 DEF Lock, Goal
<1> QED
  BY <1>7 DEF Goal

\* Every check made under the locks: what the handler found is true when it goes on.
LEMMA CheckSound ==
  ASSUME IInv, NEW p \in Clients, Check(p)
  PROVE  Quiet(p) /\ ActorSound(p)'
<1> DEFINE Goal == Quiet(p) /\ ActorSound(p)'
<1>0. TypeOK /\ RequestSound(p) /\ LocksHeld(p) /\ StatusSeen(p) /\ ReferencesSound
  BY DEF IInv, CommitsOnFreshChecks
<1>1. req[p] \in Request /\ pc[p] = "check" /\ windows \in [Windows -> WindowRow]
  BY <1>0 DEF TypeOK, Check, CreateCheck, ApproveCheck, UpdateCheck, WindowCreateCheck,
              WindowUpdateCheck, WindowDeleteCheck, RoomUpdateCheck
<1>2. ASSUME Return(p) PROVE Goal
  BY <1>0, <1>2, ReturnQuiet
<1>3. ASSUME NEW r \in Request, Advance(p, "commit", r),
             r.op = req[p].op, r.booking = req[p].booking, r.room = req[p].room,
             r.source = req[p].source, r.key = req[p].key, r.window = req[p].window,
             r.status = req[p].status
      PROVE  /\ Quiet(p) /\ pc'[p] = "commit" /\ req'[p] = r
             /\ UNCHANGED <<windows, bookings>>
             /\ RequestSound(p)' /\ LocksHeld(p)' /\ StatusSeen(p)'
  <2>1. Quiet(p) /\ pc'[p] = "commit" /\ req'[p] = r
    BY <1>0, <1>3, MoveQuiet DEF PCs
  <2>2. UNCHANGED <<windows, bookings, roomLock, bookingLock>>
    BY <1>3 DEF Advance, dbVars, lockVars
  <2>3. RequestSound(p)'
    BY <1>0, <1>3, <2>1, <2>2 DEF RequestSound, Exists
  <2>4. LocksHeld(p)'
    BY <1>0, <1>1, <1>3, <2>1, <2>2 DEF LocksHeld, RoomsNeeded
  <2>5. StatusSeen(p)'
    BY <1>0, <1>1, <1>3, <2>1, <2>2 DEF StatusSeen
  <2> QED
    BY <2>1, <2>2, <2>3, <2>4, <2>5
<1>4. CASE CreateCheck(p) /\ ~Return(p)
  <2>1. PICK w \in FindWindows(req[p].room, req[p].stay) :
          Advance(p, "commit", [req[p] EXCEPT !.dest = w])
    BY <1>4 DEF CreateCheck
  <2>2. /\ w \in Windows /\ windows[w].room = req[p].room /\ windows[w].status # "NONE"
        /\ req[p].op = "create"
    BY <1>4 DEF FindWindows, Covers, CreateCheck
  <2>3. [req[p] EXCEPT !.dest = w] \in Request
    BY <1>1, <2>2 DEF Request
  <2>4. ChecksHold(p)'
    BY <1>1, <1>3, <2>1, <2>2, <2>3 DEF ChecksHold, Request
  <2> QED
    BY <1>1, <1>3, <2>1, <2>3, <2>4 DEF ActorSound, Request
<1>5. CASE ApproveCheck(p) /\ ~Return(p)
  <2>1. /\ Advance(p, "commit", req[p])
        /\ req[p].op = "approve"
        /\ RoomOf(req[p].booking) = req[p].room
        /\ ConfirmedOverlaps(req[p].room, req[p].booking, bookings[req[p].booking].stay) = {}
    BY <1>5 DEF ApproveCheck
  <2>2. /\ Quiet(p) /\ req'[p] = req[p] /\ UNCHANGED <<windows, bookings>>
        /\ RequestSound(p)' /\ LocksHeld(p)' /\ StatusSeen(p)'
    BY <1>1, <1>3, <2>1
  <2>3. ChecksHold(p)'
    BY <2>1, <2>2 DEF ChecksHold, RoomOf, ConfirmedOverlaps
  <2> QED
    BY <2>2, <2>3 DEF ActorSound
<1>6. CASE UpdateCheck(p) /\ ~Return(p)
  <2>1. PICK w \in FindWindows(req[p].room, req[p].stay) :
          Advance(p, "commit", [req[p] EXCEPT !.dest = w])
    BY <1>6 DEF UpdateCheck
  <2>2. /\ w \in Windows /\ windows[w].room = req[p].room /\ windows[w].status # "NONE"
        /\ req[p].op = "update"
        /\ bookings[req[p].booking].status = "CONFIRMED" =>
             ConfirmedOverlaps(req[p].room, req[p].booking, req[p].stay) = {}
    BY <1>6 DEF FindWindows, Covers, UpdateCheck
  <2>3. /\ [req[p] EXCEPT !.dest = w] \in Request
        /\ [req[p] EXCEPT !.dest = w].dest = w
        /\ [req[p] EXCEPT !.dest = w].op = req[p].op
        /\ [req[p] EXCEPT !.dest = w].booking = req[p].booking
        /\ [req[p] EXCEPT !.dest = w].room = req[p].room
        /\ [req[p] EXCEPT !.dest = w].source = req[p].source
        /\ [req[p] EXCEPT !.dest = w].key = req[p].key
        /\ [req[p] EXCEPT !.dest = w].window = req[p].window
        /\ [req[p] EXCEPT !.dest = w].status = req[p].status
        /\ [req[p] EXCEPT !.dest = w].stay = req[p].stay
    BY <1>1, <2>2 DEF Request
  <2>4. /\ Quiet(p) /\ req'[p] = [req[p] EXCEPT !.dest = w] /\ UNCHANGED <<windows, bookings>>
        /\ RequestSound(p)' /\ LocksHeld(p)' /\ StatusSeen(p)'
    BY <1>3, <2>1, <2>3
  <2>5. ChecksHold(p)'
    BY <2>2, <2>3, <2>4 DEF ChecksHold, RoomOf, ConfirmedOverlaps
  <2> QED
    BY <2>4, <2>5 DEF ActorSound
<1>7. CASE (WindowCreateCheck(p) \/ WindowDeleteCheck(p) \/ RoomUpdateCheck(p)) /\ ~Return(p)
  <2>1. /\ Advance(p, "commit", req[p])
        /\ req[p].op \in {"windowCreate", "windowDelete", "roomUpdate"}
    BY <1>7 DEF WindowCreateCheck, WindowDeleteCheck, RoomUpdateCheck
  <2>2. /\ Quiet(p) /\ req'[p] = req[p]
        /\ RequestSound(p)' /\ LocksHeld(p)' /\ StatusSeen(p)'
    BY <1>1, <1>3, <2>1
  <2> QED
    BY <2>1, <2>2 DEF ActorSound, ChecksHold
<1>8. CASE WindowUpdateCheck(p) /\ ~Return(p)
  <2> DEFINE w == req[p].window
             range == IF req[p].stay = <<0, 0>> THEN <<windows[w].from, windows[w].to>>
                                                ELSE req[p].stay
             r == [req[p] EXCEPT !.stay = range]
  <2>1. Advance(p, "commit", r) /\ req[p].op = "windowUpdate"
    BY <1>8 DEF WindowUpdateCheck
  <2>2. range \in Int \X Int
    BY <1>0, <1>1, <2>1 DEF RequestSound, Request, WindowRow
  <2>3. r \in Request /\ r.op = req[p].op /\ r.booking = req[p].booking
        /\ r.room = req[p].room /\ r.source = req[p].source /\ r.key = req[p].key
        /\ r.window = req[p].window /\ r.status = req[p].status
    BY <1>1, <2>2 DEF Request
  <2>4. /\ Quiet(p) /\ req'[p] = r
        /\ RequestSound(p)' /\ LocksHeld(p)' /\ StatusSeen(p)'
    BY <1>3, <2>1, <2>3
  <2> QED
    BY <2>1, <2>3, <2>4 DEF ActorSound, ChecksHold
<1> HIDE DEF Goal
<1>9. Goal
  BY <1>2, <1>4, <1>5, <1>6, <1>7, <1>8 DEF Check, Goal
<1> QED
  BY <1>9 DEF Goal

\* What every commit of p does to the rows, as far as the invariant goes: windows keep
\* their rooms and bookings stay, only the booking p has locked changes, and a promise
\* is only made in a room p has locked and beside no other that overlaps it.
Writes(p) ==
  /\ EndTransaction(p)
  /\ TypeOK' /\ ReferencesSound'
  /\ \A w \in Windows : windows[w].status # "NONE" =>
       windows'[w].status # "NONE" /\ windows'[w].room = windows[w].room
  /\ \A c \in Bookings : Exists(c) => Exists(c)'
  /\ \A c \in Bookings : Exists(c) /\ bookings'[c] # bookings[c] => bookingLock[c] = p
  /\ \A c \in Bookings : bookings'[c] # bookings[c] /\ bookings'[c].status = "CONFIRMED" =>
       /\ roomLock[RoomOf(c)'] = p
       /\ \A d \in Bookings \ {c} :
            /\ bookings'[d] = bookings[d]
            /\ bookings[d].status = "CONFIRMED" /\ RoomOf(d) = RoomOf(c)' =>
                 ~Overlap(bookings[d].stay, bookings'[c].stay)

\* Such a commit preserves the invariant.
LEMMA WritesKeep ==
  ASSUME IInv, NEW p \in Clients, Writes(p)
  PROVE  IInv'
<1>1. TypeOK /\ CommitsOnFreshChecks /\ IdleHoldsNothing /\ NoConfirmedOverlap
  BY DEF IInv
<1>2. TypeOK' /\ ReferencesSound' /\ EndTransaction(p)
  BY DEF Writes
<1>3. /\ pc' = [pc EXCEPT ![p] = "idle"] /\ req' = [req EXCEPT ![p] = NoReq]
      /\ \A r \in Rooms : roomLock'[r] # p
      /\ \A b \in Bookings : bookingLock'[b] # p
      /\ \A k \in Keys : keyLock'[k] # p
      /\ \A q \in Clients \ {p} :
           /\ \A r \in Rooms : roomLock'[r] = q <=> roomLock[r] = q
           /\ \A b \in Bookings : bookingLock'[b] = q <=> bookingLock[b] = q
           /\ \A k \in Keys : keyLock'[k] = q <=> keyLock[k] = q
  BY <1>1, <1>2, EndFacts
<1>4. /\ pc'[p] = "idle" /\ req'[p] = NoReq
      /\ \A q \in Clients \ {p} : pc'[q] = pc[q] /\ req'[q] = req[q]
  BY <1>1, <1>3 DEF TypeOK
<1>5. \A c \in Bookings : Exists(c) =>
        /\ bookings[c].window \in Windows /\ RoomOf(c) \in Rooms
        /\ bookings'[c] = bookings[c] => RoomOf(c)' = RoomOf(c)
  BY <1>1 DEF CommitsOnFreshChecks, ReferencesSound, Writes, RoomOf
<1>6. IdleHoldsNothing'
  BY <1>1, <1>3, <1>4 DEF IdleHoldsNothing
<1>7. NoConfirmedOverlap'
  <2> SUFFICES ASSUME NEW b \in Bookings, NEW c \in Bookings, b # c,
                      bookings'[b].status = "CONFIRMED", bookings'[c].status = "CONFIRMED",
                      RoomOf(b)' = RoomOf(c)'
               PROVE  ~Overlap(bookings'[b].stay, bookings'[c].stay)
    BY DEF NoConfirmedOverlap, Overlap
  <2>1. \A d \in Bookings : bookings'[d] = bookings[d] /\ bookings'[d].status = "CONFIRMED"
          => RoomOf(d)' = RoomOf(d)
    BY <1>5 DEF Exists
  <2>2. CASE bookings'[b] = bookings[b] /\ bookings'[c] = bookings[c]
    BY <1>1, <2>1, <2>2 DEF NoConfirmedOverlap
  <2>3. CASE bookings'[c] # bookings[c]
    <3>1. /\ bookings'[b] = bookings[b]
          /\ RoomOf(b) = RoomOf(c)' => ~Overlap(bookings[b].stay, bookings'[c].stay)
      BY <2>3 DEF Writes
    <3> QED
      BY <2>1, <3>1
  <2>4. CASE bookings'[b] # bookings[b]
    <3>1. /\ bookings'[c] = bookings[c]
          /\ RoomOf(c) = RoomOf(b)' => ~Overlap(bookings[c].stay, bookings'[b].stay)
      BY <2>4 DEF Writes
    <3>2. ~Overlap(bookings'[c].stay, bookings'[b].stay)
      BY <2>1, <3>1
    <3>3. bookings'[c].stay \in Int \X Int /\ bookings'[b].stay \in Int \X Int
      BY <1>2 DEF TypeOK, BookingRow
    <3> QED
      BY <3>2, <3>3 DEF Overlap
  <2> QED
    BY <2>2, <2>3, <2>4
<1>8. ASSUME NEW q \in Clients \ {p} PROVE ActorSound(q)'
  <2>1. ActorSound(q)
    BY <1>1 DEF CommitsOnFreshChecks, ActorSound
  <2>2. pc'[q] = pc[q] /\ req'[q] = req[q]
    BY <1>4
  <2>3. RequestSound(q)'
    BY <2>1, <2>2 DEF ActorSound, RequestSound, Writes
  <2>4. LocksHeld(q)'
    BY <1>3, <2>1, <2>2 DEF ActorSound, LocksHeld, RoomsNeeded, RequestSound, RoomOps, AllOps
  <2>5. pc[q] \in {"check", "commit"} /\ req[q].op \in BookingOps =>
          bookings'[req[q].booking] = bookings[req[q].booking]
    BY <2>1 DEF ActorSound, RequestSound, LocksHeld, Writes
  <2>6. StatusSeen(q)'
    BY <2>1, <2>2, <2>5 DEF ActorSound, StatusSeen, BookingOps
  <2> DEFINE Clash(c, t) == /\ bookings'[c].status = "CONFIRMED" /\ RoomOf(c)' = req[q].room
                            /\ Overlap(bookings'[c].stay, t)
  <2>7. ASSUME pc[q] = "commit", req[q].op \in {"approve", "update"}, NEW t,
               ConfirmedOverlaps(req[q].room, req[q].booking, t) = {},
               NEW c \in Bookings \ {req[q].booking}
        PROVE  ~Clash(c, t)
    <3>1. roomLock[req[q].room] = q
      BY <2>1, <2>7 DEF ActorSound, LocksHeld, RoomsNeeded, RoomOps, AllOps
    <3>2. ASSUME bookings'[c].status = "CONFIRMED", RoomOf(c)' = req[q].room
          PROVE  bookings'[c] = bookings[c] /\ RoomOf(c) = req[q].room
      <4>1. bookings'[c] = bookings[c]
        BY <3>1, <3>2 DEF Writes
      <4> QED
        BY <1>5, <3>2, <4>1 DEF Exists
    <3> QED
      BY <2>7, <3>2 DEF ConfirmedOverlaps
  <2>8. ChecksHold(q)'
    <3> SUFFICES ASSUME pc'[q] = "commit" PROVE ChecksHold(q)'
      BY DEF ChecksHold
    <3>1. ASSUME req[q].op = "approve"
          PROVE  /\ windows'[bookings'[req[q].booking].window].room = req[q].room
                 /\ \A c \in Bookings \ {req[q].booking} :
                      ~Clash(c, bookings'[req[q].booking].stay)
      <4>1. /\ RoomOf(req[q].booking) = req[q].room
            /\ ConfirmedOverlaps(req[q].room, req[q].booking, bookings[req[q].booking].stay) = {}
        BY <2>1, <2>2, <3>1 DEF ActorSound, ChecksHold
      <4>2. bookings'[req[q].booking] = bookings[req[q].booking] /\ Exists(req[q].booking)
            /\ req[q].booking \in Bookings
        BY <2>1, <2>2, <2>5, <3>1 DEF ActorSound, RequestSound, BookingOps
      <4>3. windows'[bookings'[req[q].booking].window].room = req[q].room
        BY <1>5, <4>1, <4>2 DEF RoomOf
      <4>4. \A c \in Bookings \ {req[q].booking} : ~Clash(c, bookings[req[q].booking].stay)
        BY <2>2, <2>7, <3>1, <4>1
      <4> QED
        BY <4>2, <4>3, <4>4
    <3>2. ASSUME req[q].op \in {"create", "update"}
          PROVE  /\ req[q].dest \in Windows
                 /\ windows'[req[q].dest].status # "NONE"
                 /\ windows'[req[q].dest].room = req[q].room
      BY <2>1, <2>2, <3>2 DEF ActorSound, ChecksHold, Writes
    <3>3. ASSUME req[q].op = "update", bookings'[req[q].booking].status = "CONFIRMED"
          PROVE  \A c \in Bookings \ {req[q].booking} : ~Clash(c, req[q].stay)
      <4>1. bookings'[req[q].booking] = bookings[req[q].booking]
        BY <2>2, <2>5, <3>3 DEF BookingOps
      <4>2. ConfirmedOverlaps(req[q].room, req[q].booking, req[q].stay) = {}
        BY <2>1, <2>2, <3>3, <4>1 DEF ActorSound, ChecksHold
      <4> QED
        BY <2>2, <2>7, <3>3, <4>2
    <3> QED
      BY <2>2, <3>1, <3>2, <3>3 DEF ChecksHold, ConfirmedOverlaps, RoomOf
  <2> QED
    BY <2>3, <2>4, <2>6, <2>8 DEF ActorSound
<1>9. ActorSound(p)'
  BY <1>4, IdleSound
<1>10. CommitsOnFreshChecks'
  BY <1>2, <1>8, <1>9 DEF CommitsOnFreshChecks, ActorSound
<1> QED
  BY <1>2, <1>6, <1>7, <1>10 DEF IInv

\* The tables part of TypeOK.
RowsTyped ==
  /\ rooms \in [Rooms -> {"ACTIVE", "INACTIVE"}]
  /\ windows \in [Windows -> WindowRow]
  /\ bookings \in [Bookings -> BookingRow]
  /\ history \in [Bookings -> Seq([from : Statuses \cup {"NONE"}, to : Statuses,
                                   actor : {"USER", "ADMIN"}])]
  /\ changes \subseteq [booking : Bookings, version : Nat, from : Windows, to : Windows]
  /\ outbox \subseteq [type : EventTypes, booking : Bookings, version : Nat]
  /\ stream \subseteq [booking : Bookings, version : Nat,
                       from : Statuses \cup {"NONE"}, to : Statuses]
  /\ keys \in [Keys -> Bookings \cup {None}]
  /\ today \in Days

\* A commit that leaves well-typed rows leaves a well-typed state.
LEMMA CommitTyped ==
  ASSUME TypeOK, NEW p \in Clients, EndTransaction(p), RowsTyped'
  PROVE  TypeOK'
<1>1. /\ pc' = [pc EXCEPT ![p] = "idle"]
      /\ req' = [req EXCEPT ![p] = NoReq]
      /\ roomLock' \in [Rooms -> Clients \cup {None}]
      /\ bookingLock' \in [Bookings -> Clients \cup {None}]
      /\ keyLock' \in [Keys -> Clients \cup {None}]
  BY EndFacts
<1>2. pc' \in [Clients -> PCs] /\ req' \in [Clients -> Request]
  BY <1>1, RequestTypes DEF TypeOK, PCs
<1> QED
  BY <1>1, <1>2 DEF RowsTyped, TypeOK

\* The journal rows a transition appends are well typed.
LEMMA JournalTyped ==
  ASSUME TypeOK, NEW b \in Bookings, NEW from \in Statuses \cup {"NONE"}, NEW to \in Statuses,
         NEW version \in Nat
  PROVE  /\ \A actor \in {"USER", "ADMIN"} : InsertHistory(b, from, to, actor) =>
              history' \in [Bookings -> Seq([from : Statuses \cup {"NONE"}, to : Statuses,
                                             actor : {"USER", "ADMIN"}])]
         /\ RecordLifecycle(b, version, from, to) =>
              stream' \subseteq [booking : Bookings, version : Nat,
                                 from : Statuses \cup {"NONE"}, to : Statuses]
         /\ \A type \in EventTypes : InsertOutbox(type, b, version) =>
              outbox' \subseteq [type : EventTypes, booking : Bookings, version : Nat]
<1>1. ASSUME NEW actor \in {"USER", "ADMIN"}, InsertHistory(b, from, to, actor)
      PROVE  history' \in [Bookings -> Seq([from : Statuses \cup {"NONE"}, to : Statuses,
                                            actor : {"USER", "ADMIN"}])]
  <2> DEFINE E == [from : Statuses \cup {"NONE"}, to : Statuses, actor : {"USER", "ADMIN"}]
             e == [from |-> from, to |-> to, actor |-> actor]
  <2>1. e \in E
    OBVIOUS
  <2>2. history \in [Bookings -> Seq(E)]
    BY DEF TypeOK
  <2>3. history' = [history EXCEPT ![b] = Append(history[b], e)]
    BY <1>1 DEF InsertHistory
  <2> HIDE DEF E, e
  <2>4. Append(history[b], e) \in Seq(E)
    BY <2>1, <2>2
  <2>5. history' \in [Bookings -> Seq(E)]
    BY <2>2, <2>3, <2>4
  <2> QED
    BY <2>5 DEF E
<1>2. ASSUME RecordLifecycle(b, version, from, to)
      PROVE  stream' \subseteq [booking : Bookings, version : Nat,
                                from : Statuses \cup {"NONE"}, to : Statuses]
  BY <1>2 DEF RecordLifecycle, TypeOK
<1>3. ASSUME NEW type \in EventTypes, InsertOutbox(type, b, version)
      PROVE  outbox' \subseteq [type : EventTypes, booking : Bookings, version : Nat]
  BY <1>3 DEF InsertOutbox, TypeOK
<1> QED
  BY <1>1, <1>2, <1>3

\* A status save writes one well-typed booking row.
LEMMA SaveTyped ==
  ASSUME TypeOK, NEW b \in Bookings, NEW to \in Statuses, SaveStatus(b, to)
  PROVE  /\ bookings' \in [Bookings -> BookingRow]
         /\ bookings[b].version + 1 \in Nat
         /\ bookings'[b].status = to /\ bookings'[b].window = bookings[b].window
         /\ bookings'[b].stay = bookings[b].stay
         /\ bookings'[b].version = bookings[b].version + 1
         /\ \A c \in Bookings \ {b} : bookings'[c] = bookings[c]
<1>1. bookings \in [Bookings -> BookingRow] /\ bookings[b] \in BookingRow
  BY DEF TypeOK
<1>2. bookings' = [bookings EXCEPT ![b] = [bookings[b] EXCEPT !.status = to,
                                             !.version = bookings[b].version + 1]]
  BY <1>1 DEF SaveStatus, BookingRow
<1>3. bookings[b].version + 1 \in Nat
  BY <1>1 DEF BookingRow
<1>4. ASSUME NEW v \in Nat
      PROVE  [bookings[b] EXCEPT !.status = to, !.version = v] \in BookingRow
  BY <1>1 DEF BookingRow
<1> QED
  BY <1>1, <1>2, <1>3, <1>4 DEF BookingRow

\* The four transitions: a status save of the locked booking, windows untouched.
LEMMA TransitionWrites ==
  ASSUME IInv, NEW p \in Clients, pc[p] = "commit", req[p].op \in BookingOps,
         NEW to \in Statuses, SaveStatus(req[p].booking, to),
         to = "CONFIRMED" => req[p].op = "approve",
         EndTransaction(p), windows' = windows, RowsTyped'
  PROVE  Writes(p)
<1> DEFINE b == req[p].booking
<1>0. TypeOK /\ RequestSound(p) /\ LocksHeld(p) /\ ChecksHold(p) /\ ReferencesSound
  BY DEF IInv, CommitsOnFreshChecks
<1>1. b \in Bookings /\ Exists(b) /\ bookingLock[b] = p
  BY <1>0 DEF RequestSound, LocksHeld
<1>2. /\ bookings'[b].status = to /\ bookings'[b].window = bookings[b].window
      /\ bookings'[b].stay = bookings[b].stay
      /\ \A c \in Bookings \ {b} : bookings'[c] = bookings[c]
  BY <1>0, <1>1, SaveTyped
<1>3. TypeOK'
  BY <1>0, CommitTyped
<1>4. ReferencesSound'
  <2>1. bookings'[b].status # "NONE"
    BY <1>2 DEF Statuses, Live, Terminal
  <2> QED
    BY <1>0, <1>1, <1>2, <2>1 DEF ReferencesSound, Exists
<1>5. \A c \in Bookings : Exists(c) => Exists(c)'
  BY <1>1, <1>2 DEF Exists, Statuses, Live, Terminal
<1>6. \A c \in Bookings : RoomOf(c)' = RoomOf(c)
  BY <1>1, <1>2 DEF RoomOf
<1>7. to = "CONFIRMED" =>
        /\ roomLock[RoomOf(b)] = p
        /\ \A d \in Bookings \ {b} :
             bookings[d].status = "CONFIRMED" /\ RoomOf(d) = RoomOf(b) =>
               ~Overlap(bookings[d].stay, bookings[b].stay)
  <2> SUFFICES ASSUME to = "CONFIRMED"
               PROVE  /\ roomLock[RoomOf(b)] = p
                      /\ \A d \in Bookings \ {b} :
                           bookings[d].status = "CONFIRMED" /\ RoomOf(d) = RoomOf(b) =>
                             ~Overlap(bookings[d].stay, bookings[b].stay)
    OBVIOUS
  <2>1. /\ req[p].op = "approve" /\ RoomOf(b) = req[p].room
        /\ ConfirmedOverlaps(req[p].room, b, bookings[b].stay) = {}
    BY <1>0 DEF ChecksHold
  <2>2. roomLock[req[p].room] = p
    BY <1>0, <2>1 DEF LocksHeld, RoomsNeeded, RoomOps, AllOps
  <2> QED
    BY <2>1, <2>2 DEF ConfirmedOverlaps
<1> QED
  BY <1>1, <1>2, <1>3, <1>4, <1>5, <1>6, <1>7 DEF Writes

\* Every commit.
LEMMA CommitWrites ==
  ASSUME IInv, NEW p \in Clients, Commit(p)
  PROVE  Writes(p)
<1> DEFINE b == req[p].booking
<1>0. /\ TypeOK /\ RequestSound(p) /\ LocksHeld(p) /\ StatusSeen(p) /\ ChecksHold(p)
      /\ ReferencesSound /\ RowsTyped
  BY DEF IInv, CommitsOnFreshChecks, TypeOK, RowsTyped
<1>1. pc[p] = "commit" /\ EndTransaction(p) /\ today' = today /\ req[p] \in Request
  BY <1>0 DEF TypeOK, Commit, CommitCreate, CommitApprove, CommitReject, CommitCancelOwn,
         CommitCancelAdmin, CommitUpdate, CommitWindowCreate, CommitWindowUpdate,
         CommitWindowDelete, CommitRoomUpdate, WindowCommitted
<1>2. ASSUME req[p].op \in BookingOps
      PROVE  /\ b \in Bookings /\ Exists(b) /\ bookingLock[b] = p
             /\ bookings[b].status \in Statuses /\ bookings[b].version + 1 \in Nat
             /\ bookings[b].window \in Windows
  BY <1>0, <1>1, <1>2
  DEF RequestSound, LocksHeld, ReferencesSound, Exists, RowsTyped, BookingRow
<1>3. CASE CommitApprove(p)
  <2>1. /\ req[p].op \in BookingOps /\ SaveStatus(b, "CONFIRMED")
        /\ InsertHistory(b, "PENDING", "CONFIRMED", "ADMIN")
        /\ RecordLifecycle(b, bookings[b].version + 1, "PENDING", "CONFIRMED")
        /\ InsertOutbox("booking.confirmed", b, bookings[b].version + 1)
        /\ UNCHANGED <<rooms, windows, changes, keys, today>>
        /\ req[p].op = "approve"
    BY <1>3 DEF CommitApprove, AppendTransitionAndOutbox, BookingOps
  <2>2. "PENDING" \in Statuses /\ "CONFIRMED" \in Statuses /\ "booking.confirmed" \in EventTypes
    BY DEF Statuses, Live, EventTypes
  <2>3. RowsTyped'
    <3>1. bookings' \in [Bookings -> BookingRow]
      BY <1>0, <1>2, <2>1, <2>2, SaveTyped
    <3>2. /\ history' \in [Bookings -> Seq([from : Statuses \cup {"NONE"}, to : Statuses,
                                            actor : {"USER", "ADMIN"}])]
          /\ stream' \subseteq [booking : Bookings, version : Nat,
                                from : Statuses \cup {"NONE"}, to : Statuses]
          /\ outbox' \subseteq [type : EventTypes, booking : Bookings, version : Nat]
      BY <1>0, <1>2, <2>1, <2>2, JournalTyped
    <3> QED
      BY <1>0, <2>1, <3>1, <3>2 DEF RowsTyped
  <2> QED
    BY <1>1, <2>1, <2>2, <2>3, TransitionWrites
<1>4. CASE CommitReject(p)
  <2>1. /\ req[p].op \in BookingOps /\ SaveStatus(b, "REJECTED")
        /\ InsertHistory(b, "PENDING", "REJECTED", "ADMIN")
        /\ RecordLifecycle(b, bookings[b].version + 1, "PENDING", "REJECTED")
        /\ InsertOutbox("booking.rejected", b, bookings[b].version + 1)
        /\ UNCHANGED <<rooms, windows, changes, keys, today>>
    BY <1>4 DEF CommitReject, AppendTransitionAndOutbox, BookingOps
  <2>2. "PENDING" \in Statuses /\ "REJECTED" \in Statuses /\ "booking.rejected" \in EventTypes
    BY DEF Statuses, Live, Terminal, EventTypes
  <2>3. RowsTyped'
    <3>1. bookings' \in [Bookings -> BookingRow]
      BY <1>0, <1>2, <2>1, <2>2, SaveTyped
    <3>2. /\ history' \in [Bookings -> Seq([from : Statuses \cup {"NONE"}, to : Statuses,
                                            actor : {"USER", "ADMIN"}])]
          /\ stream' \subseteq [booking : Bookings, version : Nat,
                                from : Statuses \cup {"NONE"}, to : Statuses]
          /\ outbox' \subseteq [type : EventTypes, booking : Bookings, version : Nat]
      BY <1>0, <1>2, <2>1, <2>2, JournalTyped
    <3> QED
      BY <1>0, <2>1, <3>1, <3>2 DEF RowsTyped
  <2> QED
    BY <1>1, <2>1, <2>2, <2>3, TransitionWrites
<1>5. CASE CommitCancelOwn(p)
  <2>1. /\ req[p].op \in BookingOps /\ SaveStatus(b, "CANCELLED_BY_USER")
        /\ InsertHistory(b, "PENDING", "CANCELLED_BY_USER", "USER")
        /\ RecordLifecycle(b, bookings[b].version + 1, "PENDING", "CANCELLED_BY_USER")
        /\ UNCHANGED <<rooms, windows, changes, outbox, keys, today>>
    BY <1>5 DEF CommitCancelOwn, BookingOps
  <2>2. "PENDING" \in Statuses /\ "CANCELLED_BY_USER" \in Statuses
    BY DEF Statuses, Live, Terminal
  <2>3. RowsTyped'
    <3>1. bookings' \in [Bookings -> BookingRow]
      BY <1>0, <1>2, <2>1, <2>2, SaveTyped
    <3>2. /\ history' \in [Bookings -> Seq([from : Statuses \cup {"NONE"}, to : Statuses,
                                            actor : {"USER", "ADMIN"}])]
          /\ stream' \subseteq [booking : Bookings, version : Nat,
                                from : Statuses \cup {"NONE"}, to : Statuses]
      BY <1>0, <1>2, <2>1, <2>2, JournalTyped
    <3> QED
      BY <1>0, <2>1, <3>1, <3>2 DEF RowsTyped
  <2> QED
    BY <1>1, <2>1, <2>2, <2>3, TransitionWrites
<1>6. CASE CommitCancelAdmin(p)
  <2>1. /\ req[p].op \in BookingOps /\ SaveStatus(b, "CANCELLED_BY_ADMIN")
        /\ InsertHistory(b, bookings[b].status, "CANCELLED_BY_ADMIN", "ADMIN")
        /\ RecordLifecycle(b, bookings[b].version + 1, bookings[b].status, "CANCELLED_BY_ADMIN")
        /\ InsertOutbox("booking.cancelled_by_admin", b, bookings[b].version + 1)
        /\ UNCHANGED <<rooms, windows, changes, keys, today>>
    BY <1>6 DEF CommitCancelAdmin, BookingOps
  <2>2. "CANCELLED_BY_ADMIN" \in Statuses /\ "booking.cancelled_by_admin" \in EventTypes
    BY DEF Statuses, Terminal, EventTypes
  <2>3. RowsTyped'
    <3>1. bookings' \in [Bookings -> BookingRow]
      BY <1>0, <1>2, <2>1, <2>2, SaveTyped
    <3>2. /\ history' \in [Bookings -> Seq([from : Statuses \cup {"NONE"}, to : Statuses,
                                            actor : {"USER", "ADMIN"}])]
          /\ stream' \subseteq [booking : Bookings, version : Nat,
                                from : Statuses \cup {"NONE"}, to : Statuses]
          /\ outbox' \subseteq [type : EventTypes, booking : Bookings, version : Nat]
      BY <1>0, <1>2, <2>1, <2>2, JournalTyped
    <3> QED
      BY <1>0, <2>1, <3>1, <3>2 DEF RowsTyped
  <2> QED
    BY <1>1, <2>1, <2>2, <2>3, TransitionWrites
<1>7. CASE CommitCreate(p)
  <2> DEFINE r == req[p]
  <2>1. PICK c \in Bookings :
          /\ r.op = "create" /\ ~Exists(c)
          /\ bookings' = [bookings EXCEPT ![c] = [window |-> r.dest, stay |-> r.stay,
                                                  status |-> "PENDING", version |-> 1]]
          /\ InsertHistory(c, "NONE", "PENDING", "USER")
          /\ RecordLifecycle(c, 1, "NONE", "PENDING")
          /\ keys' = [keys EXCEPT ![r.key] = c]
          /\ UNCHANGED <<rooms, windows, changes, outbox, today>>
    BY <1>7 DEF CommitCreate
  <2>2. /\ r.dest \in Windows /\ windows[r.dest].status # "NONE"
        /\ r.stay \in Int \X Int /\ r.room \in Rooms \cup {0}
    BY <1>0, <1>1, <2>1 DEF ChecksHold, Request
  <2>3. "PENDING" \in Statuses
    BY DEF Statuses, Live
  <2>4. [window |-> r.dest, stay |-> r.stay, status |-> "PENDING", version |-> 1] \in BookingRow
    BY <2>2, <2>3 DEF BookingRow
  <2>5. /\ history' \in [Bookings -> Seq([from : Statuses \cup {"NONE"}, to : Statuses,
                                          actor : {"USER", "ADMIN"}])]
        /\ stream' \subseteq [booking : Bookings, version : Nat,
                              from : Statuses \cup {"NONE"}, to : Statuses]
    BY <1>0, <2>1, <2>3, JournalTyped
  <2>6. bookings' \in [Bookings -> BookingRow] /\ keys' \in [Keys -> Bookings \cup {None}]
    BY <1>0, <2>1, <2>4 DEF RowsTyped
  <2>7. RowsTyped'
    BY <1>0, <2>1, <2>5, <2>6 DEF RowsTyped
  <2>8. TypeOK'
    BY <1>0, <1>1, <2>7, CommitTyped
  <2>9. /\ bookings'[c].window = r.dest /\ bookings'[c].status = "PENDING"
        /\ \A d \in Bookings \ {c} : bookings'[d] = bookings[d]
    BY <1>0, <2>1 DEF RowsTyped
  <2>10. ReferencesSound'
    BY <1>0, <2>1, <2>2, <2>9 DEF ReferencesSound, Exists
  <2> QED
    BY <1>1, <2>1, <2>8, <2>9, <2>10 DEF Writes, Exists
<1>8. CASE CommitUpdate(p)
  <2> DEFINE r == req[p]
             next == bookings[b].version + 1
  <2>1. /\ r.op = "update"
        /\ bookings' = [bookings EXCEPT ![b].window = r.dest, ![b].stay = r.stay,
                                        ![b].version = next]
        /\ changes' = changes \cup {[booking |-> b, version |-> next,
                                     from |-> bookings[b].window, to |-> r.dest]}
        /\ RecordLifecycle(b, next, bookings[b].status, bookings[b].status)
        /\ InsertOutbox("booking.changed", b, next)
        /\ UNCHANGED <<rooms, windows, history, keys, today>>
    BY <1>8 DEF CommitUpdate
  <2>2. /\ b \in Bookings /\ Exists(b) /\ bookingLock[b] = p
        /\ bookings[b].status \in Statuses /\ next \in Nat /\ bookings[b].window \in Windows
    BY <1>2, <2>1 DEF BookingOps
  <2> HIDE DEF next
  <2>3. /\ r.dest \in Windows /\ windows[r.dest].status # "NONE"
        /\ windows[r.dest].room = r.room /\ r.stay \in Int \X Int
        /\ bookings[b].status = "CONFIRMED" => ConfirmedOverlaps(r.room, b, r.stay) = {}
    BY <1>0, <1>1, <2>1 DEF ChecksHold, Request
  <2>4. roomLock[r.room] = p
    BY <1>0, <1>1, <2>1 DEF LocksHeld, RoomsNeeded, RoomOps, AllOps
  <2>5. /\ stream' \subseteq [booking : Bookings, version : Nat,
                              from : Statuses \cup {"NONE"}, to : Statuses]
        /\ outbox' \subseteq [type : EventTypes, booking : Bookings, version : Nat]
    BY <1>0, <2>1, <2>2, JournalTyped DEF EventTypes
  <2>6. changes' \subseteq [booking : Bookings, version : Nat, from : Windows, to : Windows]
    BY <1>0, <2>1, <2>2, <2>3 DEF RowsTyped
  <2>7. bookings \in [Bookings -> BookingRow] /\ bookings[b] \in BookingRow
    BY <1>0, <2>2 DEF RowsTyped
  <2> DEFINE row == [bookings[b] EXCEPT !.window = r.dest, !.stay = r.stay, !.version = next]
  <2>8. bookings' = [bookings EXCEPT ![b] = row]
    BY <2>1
  <2>9. /\ row \in BookingRow /\ row.window = r.dest /\ row.stay = r.stay
        /\ row.status = bookings[b].status
    BY <2>2, <2>3, <2>7 DEF BookingRow
  <2> HIDE DEF row
  <2>10. /\ bookings' \in [Bookings -> BookingRow]
         /\ bookings'[b].window = r.dest /\ bookings'[b].stay = r.stay
         /\ bookings'[b].status = bookings[b].status
         /\ \A d \in Bookings \ {b} : bookings'[d] = bookings[d]
    BY <2>2, <2>7, <2>8, <2>9
  <2>11. RowsTyped'
    BY <1>0, <2>1, <2>5, <2>6, <2>10 DEF RowsTyped
  <2>12. TypeOK'
    BY <1>0, <1>1, <2>11, CommitTyped
  <2>13. ReferencesSound'
    BY <1>0, <2>1, <2>2, <2>3, <2>10 DEF ReferencesSound, Exists
  <2>14. \A d \in Bookings \ {b} : RoomOf(d)' = RoomOf(d)
    BY <2>1, <2>10 DEF RoomOf
  <2>15. \A c \in Bookings : c = b => RoomOf(c)' = r.room
    BY <2>1, <2>3, <2>10 DEF RoomOf
  <2>16. bookings[b].status = "CONFIRMED" => \A d \in Bookings \ {b} :
           bookings[d].status = "CONFIRMED" /\ RoomOf(d) = r.room =>
             ~Overlap(bookings[d].stay, r.stay)
    BY <2>3 DEF ConfirmedOverlaps
  <2>17. \A c \in Bookings : Exists(c) => Exists(c)'
    BY <2>2, <2>10 DEF Exists
  <2>18. windows' = windows
    BY <2>1
  <2> QED
    BY <1>1, <2>2, <2>4, <2>10, <2>12, <2>13, <2>15, <2>16, <2>17, <2>18 DEF Writes
<1>9. ASSUME req[p].op \notin BookingOps, bookings' = bookings, RowsTyped',
             \A w \in Windows : windows[w].status # "NONE" =>
               windows'[w].status # "NONE" /\ windows'[w].room = windows[w].room,
             \A w \in Windows : windows'[w].status # "NONE" => windows'[w].room \in Rooms
      PROVE  Writes(p)
  <2>1. TypeOK'
    BY <1>0, <1>1, <1>9, CommitTyped
  <2>2. ReferencesSound'
    BY <1>0, <1>9 DEF ReferencesSound, Exists
  <2> QED
    BY <1>1, <1>9, <2>1, <2>2 DEF Writes, Exists
<1>10. CASE CommitWindowCreate(p)
  <2>1. PICK w \in Windows :
          /\ req[p].op = "windowCreate" /\ windows[w].status = "NONE"
          /\ windows' = [windows EXCEPT ![w] =
               [room |-> req[p].room, from |-> req[p].stay[1], to |-> req[p].stay[2],
                status |-> req[p].status]]
          /\ UNCHANGED <<rooms, bookings, history, changes, outbox, stream, keys, today>>
    BY <1>10 DEF CommitWindowCreate, WindowCommitted
  <2>2. req[p].room \in Rooms /\ req[p].status \in {"ACTIVE", "INACTIVE"}
        /\ req[p].stay[1] \in Int /\ req[p].stay[2] \in Int
    BY <1>0, <1>1, <2>1 DEF RequestSound, Request, RoomOps, AllOps
  <2>3. [room |-> req[p].room, from |-> req[p].stay[1], to |-> req[p].stay[2],
         status |-> req[p].status] \in WindowRow
    BY <2>2 DEF WindowRow
  <2>4. /\ windows' \in [Windows -> WindowRow]
        /\ \A v \in Windows \ {w} : windows'[v] = windows[v]
        /\ windows'[w].room = req[p].room
    BY <1>0, <2>1, <2>3 DEF RowsTyped
  <2>5. RowsTyped'
    BY <1>0, <2>1, <2>4 DEF RowsTyped
  <2> QED
    BY <1>0, <1>9, <2>1, <2>2, <2>4, <2>5 DEF BookingOps, ReferencesSound
<1>11. CASE CommitWindowUpdate(p)
  <2> DEFINE w == req[p].window
  <2>1. /\ req[p].op = "windowUpdate"
        /\ windows' = [windows EXCEPT ![w].from = req[p].stay[1], ![w].to = req[p].stay[2],
                                      ![w].status = req[p].status]
        /\ UNCHANGED <<rooms, bookings, history, changes, outbox, stream, keys, today>>
    BY <1>11 DEF CommitWindowUpdate, WindowCommitted
  <2>2. w \in Windows /\ req[p].status \in {"ACTIVE", "INACTIVE"}
        /\ req[p].stay[1] \in Int /\ req[p].stay[2] \in Int
    BY <1>0, <1>1, <2>1 DEF RequestSound, Request
  <2>3. windows[w] \in WindowRow
    BY <1>0, <2>2 DEF RowsTyped
  <2> DEFINE row == [windows[w] EXCEPT !.from = req[p].stay[1], !.to = req[p].stay[2],
                                       !.status = req[p].status]
  <2>4. windows' = [windows EXCEPT ![w] = row]
    BY <2>1
  <2>5. row \in WindowRow /\ row.room = windows[w].room /\ row.status # "NONE"
    BY <2>2, <2>3 DEF WindowRow
  <2> HIDE DEF row
  <2>6. /\ windows' \in [Windows -> WindowRow]
        /\ \A v \in Windows \ {w} : windows'[v] = windows[v]
        /\ windows'[w].room = windows[w].room /\ windows'[w].status # "NONE"
    BY <1>0, <2>2, <2>4, <2>5 DEF RowsTyped
  <2>7. RowsTyped'
    BY <1>0, <2>1, <2>6 DEF RowsTyped
  <2>8. windows[w].status # "NONE"
    BY <1>0, <1>1, <2>1 DEF RequestSound
  <2> QED
    BY <1>0, <1>9, <2>1, <2>2, <2>6, <2>7, <2>8 DEF BookingOps, ReferencesSound
<1>12. CASE CommitWindowDelete(p)
  <2> DEFINE w == req[p].window
  <2>1. /\ req[p].op = "windowDelete"
        /\ windows' = [windows EXCEPT ![w].status = "DELETED"]
        /\ UNCHANGED <<rooms, bookings, history, changes, outbox, stream, keys, today>>
    BY <1>12 DEF CommitWindowDelete, WindowCommitted
  <2>2. w \in Windows /\ windows[w] \in WindowRow /\ windows[w].status # "NONE"
    BY <1>0, <2>1 DEF RequestSound, RowsTyped
  <2> DEFINE row == [windows[w] EXCEPT !.status = "DELETED"]
  <2>3. windows' = [windows EXCEPT ![w] = row]
    BY <2>1
  <2>4. row \in WindowRow /\ row.room = windows[w].room /\ row.status # "NONE"
    BY <2>2 DEF WindowRow
  <2> HIDE DEF row
  <2>5. /\ windows' \in [Windows -> WindowRow]
        /\ \A v \in Windows \ {w} : windows'[v] = windows[v]
        /\ windows'[w].room = windows[w].room /\ windows'[w].status # "NONE"
    BY <1>0, <2>2, <2>3, <2>4 DEF RowsTyped
  <2>6. RowsTyped'
    BY <1>0, <2>1, <2>5 DEF RowsTyped
  <2> QED
    BY <1>0, <1>9, <2>1, <2>2, <2>5, <2>6 DEF BookingOps, ReferencesSound
<1>13. CASE CommitRoomUpdate(p)
  <2>1. /\ req[p].op = "roomUpdate"
        /\ rooms' = [rooms EXCEPT ![req[p].room] = req[p].status]
        /\ UNCHANGED <<windows, bookings, history, changes, outbox, stream, keys, today>>
    BY <1>13 DEF CommitRoomUpdate
  <2>2. req[p].status \in {"ACTIVE", "INACTIVE"}
    BY <1>0, <2>1 DEF RequestSound
  <2>3. RowsTyped'
    BY <1>0, <2>1, <2>2 DEF RowsTyped
  <2> QED
    BY <1>0, <1>9, <2>1, <2>3 DEF BookingOps, ReferencesSound
<1> QED
  BY <1>3, <1>4, <1>5, <1>6, <1>7, <1>8, <1>10, <1>11, <1>12, <1>13 DEF Commit


\* Every step of the system preserves the inductive invariant.
LEMMA NextIInv == IInv /\ [Next]_vars => IInv'
<1> SUFFICES ASSUME IInv, [Next]_vars PROVE IInv'
  OBVIOUS
<1>1. ASSUME NEW p \in Clients, BeginAny(p) \/ Lock(p) \/ Check(p) PROVE IInv'
  BY <1>1, BeginSound, LockSound, CheckSound, QuietKeeps
<1>2. ASSUME NEW p \in Clients, Commit(p) PROVE IInv'
  BY <1>2, CommitWrites, WritesKeep
<1>3. ASSUME NEW p \in Clients, Abort(p) PROVE IInv'
  <2>1. TypeOK /\ Return(p)
    BY <1>3 DEF IInv, Abort
  <2> QED
    BY <2>1, ReturnQuiet, QuietKeeps
<1>4. ASSUME UNCHANGED <<rooms, windows, bookings, history, changes, outbox, stream, lockVars,
                         req, pc>>,
             keys' \in [Keys -> Bookings \cup {None}], today' \in Days
      PROVE  IInv'
  <2>1. TypeOK'
    BY <1>4 DEF IInv, TypeOK, lockVars
  <2>2. CommitsOnFreshChecks' /\ IdleHoldsNothing' /\ NoConfirmedOverlap'
    BY <1>4 DEF IInv, lockVars, CommitsOnFreshChecks, ReferencesSound,
                RequestSound, LocksHeld, StatusSeen, ChecksHold, RoomsNeeded, Exists, RoomOf,
                ConfirmedOverlaps, IdleHoldsNothing, NoConfirmedOverlap
  <2> QED
    BY <2>1, <2>2 DEF IInv
<1>6. CASE NextDay
  BY <1>4, <1>6 DEF IInv, TypeOK, NextDay, dbVars
<1>7. ASSUME NEW k \in Keys, PurgeKey(k) PROVE IInv'
  <2>1. keys' \in [Keys -> Bookings \cup {None}]
    BY <1>7 DEF IInv, TypeOK, PurgeKey
  <2> QED
    BY <1>4, <1>7, <2>1 DEF IInv, TypeOK, PurgeKey
<1>5. CASE UNCHANGED vars
  <2>1. TypeOK'
    BY <1>5 DEF IInv, vars, TypeOK, dbVars, lockVars
  <2>2. CommitsOnFreshChecks' /\ IdleHoldsNothing' /\ NoConfirmedOverlap'
    BY <1>5 DEF IInv, vars, dbVars, lockVars, CommitsOnFreshChecks, ReferencesSound,
                RequestSound, LocksHeld, StatusSeen, ChecksHold, RoomsNeeded, Exists, RoomOf,
                ConfirmedOverlaps, IdleHoldsNothing, NoConfirmedOverlap
  <2> QED
    BY <2>1, <2>2 DEF IInv
<1> QED
  BY <1>1, <1>2, <1>3, <1>5, <1>6, <1>7 DEF Next

\* The inductive invariant holds in every reachable state.
THEOREM Invariance == Spec => []IInv
BY InitIInv, NextIInv, PTL DEF Spec

\* Every row, lock, request and handler position keeps its shape, through every handler
\* of bookings.service.ts and room-times.service.ts.
THEOREM TypeCorrect == Spec => []TypeOK
<1>1. IInv => TypeOK
  BY DEF IInv
<1> QED
  BY <1>1, Invariance, PTL

\* No night of a room is promised to two CONFIRMED bookings, however many requests, rooms,
\* windows and bookings there are: approve and updateAdmin promise a room only under its
\* lock and only on what they re-read there.
THEOREM RoomNeverPromisedTwice == Spec => []NoDoubleBooking
<1>1. IInv => NoDoubleBooking
  <2> SUFFICES ASSUME IInv, NEW b \in Bookings, NEW c \in Bookings, b # c,
                      bookings[b].status = "CONFIRMED", bookings[c].status = "CONFIRMED",
                      RoomOf(b) = RoomOf(c), NEW n \in Nights(bookings[b].stay),
                      n \in Nights(bookings[c].stay)
               PROVE  FALSE
    BY DEF NoDoubleBooking
  <2>1. /\ bookings[b].stay[1] \in Int /\ bookings[b].stay[2] \in Int
        /\ bookings[c].stay[1] \in Int /\ bookings[c].stay[2] \in Int
    BY DEF IInv, TypeOK, BookingRow
  <2>2. ~Overlap(bookings[b].stay, bookings[c].stay)
    BY DEF IInv, NoConfirmedOverlap
  <2> QED
    BY <2>1, <2>2 DEF Overlap, Nights
<1> QED
  BY <1>1, Invariance, PTL

\* Every handler commits on locks it still holds and on checks that are still true.
THEOREM ChecksStayFresh == Spec => []CommitsOnFreshChecks
<1>1. IInv => CommitsOnFreshChecks
  BY DEF IInv
<1> QED
  BY <1>1, Invariance, PTL

\* No row lock outlives the transaction that took it.
THEOREM LocksReleased == Spec => []IdleHoldsNothing
<1>1. IInv => IdleHoldsNothing
  BY DEF IInv
<1> QED
  BY <1>1, Invariance, PTL

\* A status save that follows one of the lifecycle's arrows moves forward.
LEMMA SaveMoves ==
  ASSUME TypeOK, NEW b \in Bookings, NEW to \in Statuses, SaveStatus(b, to),
         bookings[b].status \notin Terminal,
         <<bookings[b].status, to>> \in StatusMoves
  PROVE  \A c \in Bookings : MovesForward(c)
<1>1. /\ bookings'[b].status = to /\ bookings'[b].version = bookings[b].version + 1
      /\ \A c \in Bookings \ {b} : bookings'[c] = bookings[c]
  BY SaveTyped
<1> QED
  BY <1>1 DEF MovesForward

\* Every commit moves the bookings it touches forward.
LEMMA CommitMoves ==
  ASSUME IInv, NEW p \in Clients, Commit(p)
  PROVE  \A c \in Bookings : MovesForward(c)
<1> DEFINE b == req[p].booking
<1>0. TypeOK /\ RequestSound(p) /\ StatusSeen(p) /\ ReferencesSound
  BY DEF IInv, CommitsOnFreshChecks
<1>1. req[p].op \in BookingOps => b \in Bookings
  BY <1>0 DEF RequestSound
<1>2. CASE CommitApprove(p)
  <2>1. b \in Bookings /\ bookings[b].status = "PENDING" /\ SaveStatus(b, "CONFIRMED")
    BY <1>0, <1>1, <1>2 DEF CommitApprove, StatusSeen, BookingOps
  <2> QED
    BY <1>0, <2>1, SaveMoves DEF Statuses, Live, Terminal, StatusMoves
<1>3. CASE CommitReject(p)
  <2>1. b \in Bookings /\ bookings[b].status = "PENDING" /\ SaveStatus(b, "REJECTED")
    BY <1>0, <1>1, <1>3 DEF CommitReject, StatusSeen, BookingOps
  <2> QED
    BY <1>0, <2>1, SaveMoves DEF Statuses, Live, Terminal, StatusMoves
<1>4. CASE CommitCancelOwn(p)
  <2>1. b \in Bookings /\ bookings[b].status = "PENDING" /\ SaveStatus(b, "CANCELLED_BY_USER")
    BY <1>0, <1>1, <1>4 DEF CommitCancelOwn, StatusSeen, BookingOps
  <2> QED
    BY <1>0, <2>1, SaveMoves DEF Statuses, Live, Terminal, StatusMoves
<1>5. CASE CommitCancelAdmin(p)
  <2>1. b \in Bookings /\ bookings[b].status \in Live /\ SaveStatus(b, "CANCELLED_BY_ADMIN")
    BY <1>0, <1>1, <1>5 DEF CommitCancelAdmin, StatusSeen, BookingOps
  <2> QED
    BY <1>0, <2>1, SaveMoves DEF Statuses, Live, Terminal, StatusMoves
<1>6. CASE CommitCreate(p)
  <2>1. PICK c \in Bookings :
          /\ ~Exists(c)
          /\ bookings' = [bookings EXCEPT ![c] = [window |-> req[p].dest, stay |-> req[p].stay,
                                                  status |-> "PENDING", version |-> 1]]
    BY <1>6 DEF CommitCreate
  <2>2. bookings[c].status = "NONE" /\ bookings[c].version = 0
    BY <1>0, <2>1 DEF Exists, ReferencesSound
  <2>3. /\ bookings'[c].status = "PENDING" /\ bookings'[c].version = 1
        /\ \A d \in Bookings \ {c} : bookings'[d] = bookings[d]
    BY <1>0, <2>1 DEF TypeOK
  <2> QED
    BY <2>2, <2>3 DEF MovesForward, StatusMoves, Terminal
<1>7. CASE CommitUpdate(p)
  <2>1. /\ b \in Bookings /\ bookings[b].status \in Live
        /\ bookings' = [bookings EXCEPT ![b].window = req[p].dest, ![b].stay = req[p].stay,
                                        ![b].version = bookings[b].version + 1]
    BY <1>0, <1>1, <1>7 DEF CommitUpdate, StatusSeen, BookingOps
  <2>2. bookings \in [Bookings -> BookingRow] /\ bookings[b] \in BookingRow
    BY <1>0, <2>1 DEF TypeOK
  <2> DEFINE row == [bookings[b] EXCEPT !.window = req[p].dest, !.stay = req[p].stay,
                                        !.version = bookings[b].version + 1]
  <2>3. bookings' = [bookings EXCEPT ![b] = row]
    BY <2>1
  <2>4. row.version = bookings[b].version + 1 /\ row.status = bookings[b].status
    BY <2>2 DEF BookingRow
  <2> HIDE DEF row
  <2>5. /\ bookings'[b] = row
        /\ \A d \in Bookings \ {b} : bookings'[d] = bookings[d]
    BY <2>1, <2>2, <2>3
  <2> QED
    BY <2>1, <2>4, <2>5 DEF MovesForward, Live, Terminal
<1>8. CASE \/ CommitWindowCreate(p) \/ CommitWindowUpdate(p) \/ CommitWindowDelete(p)
           \/ CommitRoomUpdate(p)
  BY <1>8 DEF CommitWindowCreate, CommitWindowUpdate, CommitWindowDelete, CommitRoomUpdate,
              WindowCommitted, MovesForward
<1> QED
  BY <1>2, <1>3, <1>4, <1>5, <1>6, <1>7, <1>8 DEF Commit

\* No step of any handler moves a booking off its lifecycle, skips a version or touches
\* a terminal booking.
THEOREM LifecycleForward == Spec => BookingMovesForward
<1>1. IInv /\ [Next]_vars => [\A b \in Bookings : MovesForward(b)]_vars
  <2> SUFFICES ASSUME IInv, Next PROVE \A b \in Bookings : MovesForward(b)
    OBVIOUS
  <2>1. ASSUME NEW p \in Clients, BeginAny(p) \/ Lock(p) \/ Check(p)
        PROVE  bookings' = bookings
    BY <2>1, BeginSound, LockSound, CheckSound DEF Quiet, dbVars
  <2>2. ASSUME NEW p \in Clients, Abort(p) PROVE bookings' = bookings
    BY <2>2 DEF Abort, Return, dbVars
  <2>3. CASE NextDay \/ \E k \in Keys : PurgeKey(k)
    BY <2>3 DEF NextDay, PurgeKey, dbVars, MovesForward
  <2>4. ASSUME bookings' = bookings PROVE \A b \in Bookings : MovesForward(b)
    BY <2>4 DEF MovesForward
  <2> QED
    BY <2>1, <2>2, <2>3, <2>4, CommitMoves DEF Next
<1> QED
  BY <1>1, Invariance, PTL DEF Spec, BookingMovesForward
============================================================================
