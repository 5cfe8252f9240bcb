--------------------------- MODULE AccountsProofs ---------------------------
(***************************************************************************)
(* Proofs about Accounts, for any number of concurrent requests, users,    *)
(* sessions, OAuth states and rotations.                                   *)
(*                                                                         *)
(* The argument is the lock discipline.  What a transaction has read stays *)
(* true while it holds the row: a request is sound (ReqSound) when what it *)
(* carries agrees with the rows it has locked, and no step of another      *)
(* request changes a row that is locked (Respects).                        *)
(*                                                                         *)
(* Only requests under way hold rows, so a chain of waits ends or returns. *)
(***************************************************************************)
EXTENDS Accounts, FiniteSetTheorems, TLAPS

Request == {Idle} \cup Login \cup Rotation \cup Bearer \cup Status \cup Revoking

\* A sign-in that found its account holds the row, and the account is active.
LoginSound(c) ==
  req[c].op = "login" /\ req[c].user # None =>
    /\ req[c].user \in Known /\ Active(req[c].user)
    /\ userLock[req[c].user] = c

\* A refresh names a session that exists; once it has read the row it holds it.
RotationSound(c) ==
  req[c].op = "refresh" =>
    /\ req[c].session \in Issued /\ req[c].token < MaxRotations
    /\ req[c].pc = "user" => /\ sessLock[req[c].session] = c
                             /\ req[c].row = sessions[req[c].session]

\* The session of a stale bearer request is over for good, and none is served.
BearerSound(c) ==
  req[c].op = "bearer" =>
    /\ req[c].session \in Issued
    /\ req[c].stale = TRUE => /\ sessions[req[c].session].revoked = TRUE \/ req[c].session \in expired
                              /\ req[c].pc # "logout"

\* A status change holds its target; a deactivation that passed the count of admins
\* holds another active admin, and one about to commit every session it will revoke.
StatusSound(c) ==
  req[c].op = "status" =>
    /\ req[c].stale = FALSE
    /\ req[c].pc # "target" => req[c].target \in Known /\ userLock[req[c].target] = c
    /\ req[c].pc \in {"sessions", "save"} /\ req[c].status = "INACTIVE"
         /\ users[req[c].target].role = "ADMIN" =>
           \E v \in ActiveAdmins \ {req[c].target} : userLock[v] = c
    /\ req[c].pc = "save" /\ req[c].status = "INACTIVE" =>
         \A s \in SessionsOf(req[c].target) : sessLock[s] = c

\* What is still to be marked in Redis has been revoked in MySQL.
RevokingSound(c) ==
  req[c].op = "revoking" => \A s \in req[c].marks : s \in Issued /\ sessions[s].revoked = TRUE

ReqSound(c) ==
  LoginSound(c) /\ RotationSound(c) /\ BearerSound(c) /\ StatusSound(c) /\ RevokingSound(c)

\* The tables: sessions belong to accounts, marks are true, and a refresh token that
\* is current or still to come was never accepted, one before it at most once.
SessionsOwned == \A s \in Issued : sessions[s].user \in Known
MarksTrue == \A s \in cache : s \in Issued /\ sessions[s].revoked = TRUE
TokensSpentOnce ==
  \A s \in Sessions, t \in 0..MaxRotations :
    /\ uses[s][t] <= 1
    /\ s \notin Issued \/ t >= sessions[s].token => uses[s][t] = 0

\* Only rows that exist are locked.
LocksOnRows ==
  /\ \A u \in Users : userLock[u] # None => u \in Known
  /\ \A s \in Sessions : sessLock[s] # None => s \in Issued

\* The inductive invariant.
IInv ==
  /\ TypeOK
  /\ AdminRemains /\ InactiveHoldsNoSession /\ OneAccountPerIdentity
  /\ SessionsOwned /\ MarksTrue /\ TokensSpentOnce /\ LocksOnRows
  /\ \A c \in Clients : ReqSound(c)

-----------------------------------------------------------------------------
(* Lock discipline. *)

\* The step leaves request d and every row it holds alone: the rows and locks of d
\* stay, sessions keep their user and their revocation, and no session is issued to a
\* user whose row d holds.
Respects(d) ==
  /\ req'[d] = req[d]
  /\ \A u \in Users : userLock[u] = d => userLock'[u] = d /\ users'[u] = users[u]
  /\ \A s \in Sessions : sessLock[s] = d => sessLock'[s] = d /\ sessions'[s] = sessions[s]
  /\ \A s \in Issued : /\ sessions'[s] # None /\ sessions'[s].user = sessions[s].user
                       /\ sessions[s].revoked = TRUE => sessions'[s].revoked = TRUE
  /\ \A s \in Sessions \ Issued : sessions'[s] # None => userLock[sessions'[s].user] # d
  /\ expired \subseteq expired'

\* The step moves request c alone.
OwnMove(c) == req' \in [Clients -> Request] /\ \A d \in Clients \ {c} : req'[d] = req[d]

\* The step takes for c locks of rows that were free, and frees none but c's.
OwnLocks(c) ==
  /\ userLock' \in [Users -> Clients \cup {None}]
  /\ sessLock' \in [Sessions -> Clients \cup {None}]
  /\ \A u \in Users : userLock[u] \notin {None, c} => userLock'[u] = userLock[u]
  /\ \A s \in Sessions : sessLock[s] \notin {None, c} => sessLock'[s] = sessLock[s]
  /\ \A u \in Users : userLock'[u] \in {None, userLock[u]} \/ u \in Known
  /\ \A s \in Sessions : sessLock'[s] \in {None, sessLock[s]} \/ s \in Issued

\* The position of a request tells its operation, and so what it carries.
LEMMA Shapes ==
  ASSUME TypeOK, NEW c \in Clients
  PROVE  /\ req[c] \in Request
         /\ req[c].pc \in {"identity", "email", "commit"} \/ req[c].op = "login" =>
              req[c] \in Login
         /\ req[c].pc \in {"session", "user"} \/ req[c].op = "refresh" => req[c] \in Rotation
         /\ req[c].pc \in {"cache", "database", "logout"} \/ req[c].op = "bearer" =>
              req[c] \in Bearer
         /\ req[c].pc \in {"target", "admins", "sessions", "save"} \/ req[c].op = "status" =>
              req[c] \in Status
         /\ req[c].pc = "mark" \/ req[c].op = "revoking" => req[c] \in Revoking
         /\ req[c].op = "idle" => req[c] = Idle
<1>1. req[c] \in Request
  BY DEF TypeOK, Request
<1>2. CASE req[c] = Idle
  BY <1>1, <1>2 DEF Idle
<1>3. CASE req[c] \in Login
  BY <1>1, <1>3 DEF Login
<1>4. CASE req[c] \in Rotation
  BY <1>1, <1>4 DEF Rotation
<1>5. CASE req[c] \in Bearer
  BY <1>1, <1>5 DEF Bearer
<1>6. CASE req[c] \in Status
  BY <1>1, <1>6 DEF Status
<1>7. CASE req[c] \in Revoking
  BY <1>1, <1>7 DEF Revoking
<1> QED
  BY <1>1, <1>2, <1>3, <1>4, <1>5, <1>6, <1>7 DEF Request

\* A request stays sound through every step that respects it.
LEMMA SoundKept ==
  ASSUME TypeOK, NEW d \in Clients, ReqSound(d), Respects(d)
  PROVE  ReqSound(d)'
<1> USE DEF Respects
<1>1. /\ users \in [Users -> UserRow \cup {None}]
      /\ sessions \in [Sessions -> SessionRow \cup {None}]
  BY DEF TypeOK
<1>2. LoginSound(d)'
  BY Shapes DEF ReqSound, LoginSound, Known, Active, Login
<1>3. RotationSound(d)'
  BY Shapes DEF ReqSound, RotationSound, Issued, Rotation
<1>4. BearerSound(d)'
  BY Shapes DEF ReqSound, BearerSound, Issued, Bearer
<1>5. StatusSound(d)'
  <2> SUFFICES ASSUME req[d].op = "status" PROVE StatusSound(d)'
    BY DEF StatusSound
  <2> DEFINE u == req[d].target
  <2>1. req[d] \in Status /\ u \in Users /\ StatusSound(d) /\ req'[d] = req[d]
    BY Shapes DEF ReqSound, Status
  <2>2. req[d].pc # "target" => u \in Known' /\ userLock'[u] = d /\ users'[u] = users[u]
    BY <2>1 DEF StatusSound, Known
  <2>3. ASSUME NEW v \in ActiveAdmins \ {u}, userLock[v] = d
        PROVE  v \in ActiveAdmins' \ {u} /\ userLock'[v] = d
    BY <2>3 DEF ActiveAdmins, Known, Active
  <2>4. ASSUME req[d].pc = "save", req[d].status = "INACTIVE", NEW s \in SessionsOf(u)'
        PROVE  sessLock'[s] = d
    <3>1. s \in Sessions /\ sessions'[s] # None /\ sessions'[s].user = u /\ ~sessions'[s].revoked
      BY <2>1, <2>4 DEF SessionsOf, Issued
    <3>2. userLock[u] = d
      BY <2>1, <2>4 DEF StatusSound
    <3>3. s \in Issued
      BY <3>1, <3>2
    <3>4. sessions[s] \in SessionRow
      BY <1>1, <3>3 DEF Issued
    <3>5. sessions[s].revoked \in BOOLEAN
      BY <3>4 DEF SessionRow
    <3>6. sessions[s].user = u /\ ~sessions[s].revoked
      BY <3>1, <3>3, <3>5
    <3>7. s \in SessionsOf(u)
      BY <3>3, <3>6 DEF SessionsOf
    <3> QED
      BY <2>1, <2>4, <3>7, <3>1 DEF StatusSound
  <2>5. req[d].stale = FALSE
    BY <2>1 DEF StatusSound
  <2>6. ASSUME req[d].pc \in {"sessions", "save"}, req[d].status = "INACTIVE",
               users'[u].role = "ADMIN"
        PROVE  \E v \in ActiveAdmins' \ {u} : userLock'[v] = d
    BY <2>1, <2>2, <2>3, <2>6 DEF StatusSound
  <2> QED
    BY <2>1, <2>2, <2>4, <2>5, <2>6 DEF StatusSound
<1>6. RevokingSound(d)'
  BY Shapes DEF ReqSound, RevokingSound, Issued, Revoking
<1> QED
  BY <1>2, <1>3, <1>4, <1>5, <1>6 DEF ReqSound

\* A step of one request that writes no table keeps the invariant, if it leaves its own
\* request sound and marks nothing that is not revoked.
LEMMA QuietKeeps ==
  ASSUME IInv, NEW c \in Clients, OwnMove(c), OwnLocks(c),
         UNCHANGED <<users, sessions, expired, uses>>,
         oauth' \in [States -> {"unused", "stored", "consumed"}],
         cache' \subseteq Sessions, MarksTrue', ReqSound(c)'
  PROVE  IInv'
<1>1. ASSUME NEW d \in Clients, d # c PROVE ReqSound(d)'
  <2>1. Respects(d)
    BY <1>1, AccountsAssumption DEF Respects, OwnMove, OwnLocks, Issued
  <2> QED
    BY <2>1, SoundKept DEF IInv
<1>2. TypeOK'
  BY DEF IInv, TypeOK, OwnMove, OwnLocks, Request, Issued
<1>3. /\ AdminRemains' /\ InactiveHoldsNoSession' /\ OneAccountPerIdentity'
      /\ SessionsOwned' /\ TokensSpentOnce' /\ LocksOnRows'
  BY DEF IInv, AdminRemains, InactiveHoldsNoSession, OneAccountPerIdentity, SessionsOwned,
         TokensSpentOnce, ActiveAdmins, Known, Issued, Active, LocksOnRows, OwnLocks
<1> QED
  BY <1>1, <1>2, <1>3 DEF IInv

\* A request moved to a well-formed one, and the locks a step takes or frees.
LEMMA MoveTo ==
  ASSUME TypeOK, NEW c \in Clients, NEW r \in Request, req' = [req EXCEPT ![c] = r]
  PROVE  OwnMove(c) /\ req'[c] = r
BY DEF TypeOK, OwnMove, Request

LEMMA NoLock ==
  ASSUME TypeOK, NEW c \in Clients, UNCHANGED <<userLock, sessLock>>
  PROVE  OwnLocks(c)
BY DEF TypeOK, OwnLocks

LEMMA OneUserLock ==
  ASSUME TypeOK, NEW c \in Clients, NEW u \in Known,
         CanLockUser(c, u), TakeUser(c, u), UNCHANGED sessLock
  PROVE  /\ OwnLocks(c) /\ userLock'[u] = c
         /\ \A v \in Users : userLock[v] = c => userLock'[v] = c
BY DEF TypeOK, OwnLocks, CanLockUser, TakeUser, Known

LEMMA OneSessionLock ==
  ASSUME TypeOK, NEW c \in Clients, NEW s \in Issued,
         CanLockSession(c, s), TakeSession(c, s), UNCHANGED userLock
  PROVE  /\ OwnLocks(c) /\ sessLock'[s] = c
         /\ \A r \in Sessions : sessLock[r] = c => sessLock'[r] = c
BY DEF TypeOK, OwnLocks, CanLockSession, TakeSession, Issued

\* The end of a transaction frees its own locks alone.
LEMMA ReleaseOwn ==
  ASSUME TypeOK, NEW c \in Clients, Release(c)
  PROVE  OwnLocks(c)
BY DEF TypeOK, OwnLocks, Release

\* A request that is over is sound.
LEMMA FinishSound ==
  ASSUME TypeOK, NEW c \in Clients, Finish(c)
  PROVE  OwnMove(c) /\ OwnLocks(c) /\ ReqSound(c)'
<1>1. Idle \in Request /\ Idle.op = "idle"
  BY DEF Request, Idle
<1>2. OwnMove(c) /\ req'[c] = Idle
  BY <1>1, MoveTo DEF Finish
<1>3. OwnLocks(c)
  BY ReleaseOwn DEF Finish
<1> QED
  BY <1>1, <1>2, <1>3 DEF ReqSound, LoginSound, RotationSound, BearerSound, StatusSound,
                          RevokingSound

\* A request that has committed a revocation is sound.
LEMMA FinishRevokingSound ==
  ASSUME TypeOK, NEW c \in Clients, NEW ss \in SUBSET Sessions, FinishRevoking(c, ss),
         \A s \in ss : s \in Issued' /\ sessions'[s].revoked = TRUE
  PROVE  OwnMove(c) /\ OwnLocks(c) /\ ReqSound(c)'
<1> DEFINE r == IF ss = {} THEN Idle ELSE [op |-> "revoking", pc |-> "mark", marks |-> ss]
<1>1. r \in Request /\ (r.op = "idle" \/ (r.op = "revoking" /\ r.marks = ss))
  BY DEF Request, Idle, Revoking
<1> HIDE DEF r
<1>2. OwnMove(c) /\ req'[c] = r
  BY <1>1, MoveTo DEF FinishRevoking, r
<1>3. OwnLocks(c)
  BY ReleaseOwn DEF FinishRevoking
<1> QED
  BY <1>1, <1>2, <1>3 DEF ReqSound, LoginSound, RotationSound, BearerSound, StatusSound,
                          RevokingSound

\* Steps that end the request and write nothing.
LEMMA RefusalKeeps ==
  ASSUME IInv, NEW c \in Clients, Finish(c),
         UNCHANGED <<users, sessions, expired, oauth, cache, uses>>
  PROVE  IInv'
<1>1. TypeOK /\ MarksTrue
  BY DEF IInv
<1>2. MarksTrue' /\ cache' \subseteq Sessions /\ oauth' \in [States -> {"unused", "stored", "consumed"}]
  BY <1>1 DEF MarksTrue, Issued, TypeOK
<1> QED
  BY <1>1, <1>2, FinishSound, QuietKeeps

\* Steps that change neither a table nor Redis, and leave the request sound.
LEMMA ReadKeeps ==
  ASSUME IInv, NEW c \in Clients, OwnMove(c), OwnLocks(c), ReqSound(c)',
         UNCHANGED <<users, sessions, expired, oauth, cache, uses>>
  PROVE  IInv'
<1>1. TypeOK /\ MarksTrue
  BY DEF IInv
<1>2. MarksTrue' /\ cache' \subseteq Sessions /\ oauth' \in [States -> {"unused", "stored", "consumed"}]
  BY <1>1 DEF MarksTrue, Issued, TypeOK
<1> QED
  BY <1>2, QuietKeeps

-----------------------------------------------------------------------------
(* The steps of a sign-in. *)

\* A sign-in is sound when the account it found is active and held.
LEMMA LoginIsSound ==
  ASSUME NEW c \in Clients, req'[c] \in Login, LoginSound(c)'
  PROVE  ReqSound(c)'
BY DEF Login, ReqSound, RotationSound, BearerSound, StatusSound, RevokingSound

LEMMA CompleteGoogleLoginKeeps ==
  ASSUME IInv, NEW c \in Clients, NEW st \in States, NEW claim \in Claims,
         CompleteGoogleLogin(c, st, claim)
  PROVE  IInv'
<1>1. TypeOK /\ MarksTrue /\ ReqSound(c)
  BY DEF IInv
<1>2. /\ oauth' \in [States -> {"unused", "stored", "consumed"}]
      /\ UNCHANGED <<users, sessions, expired, cache, userLock, sessLock, uses>>
  BY <1>1 DEF CompleteGoogleLogin, ConsumeOAuthTransaction, TypeOK
<1>3. MarksTrue' /\ cache' \subseteq Sessions /\ OwnLocks(c)
  BY <1>1, <1>2, NoLock DEF MarksTrue, Issued, TypeOK
<1>4. CASE UNCHANGED req
  <2>1. OwnMove(c)
    BY <1>1, <1>4 DEF OwnMove, TypeOK, Request
  <2>2. Respects(c)
    BY <1>2, <1>4 DEF Respects, Issued
  <2> QED
    BY <1>1, <1>2, <1>3, <2>1, <2>2, SoundKept, QuietKeeps
<1> DEFINE r == [op |-> "login", pc |-> "identity", subject |-> claim[1], email |-> claim[2],
                 user |-> None, attempt |-> 1]
<1>5. CASE req' = [req EXCEPT ![c] = r]
  <2>1. r \in Login /\ r.user = None
    BY DEF Login, Subjects, Emails, MaxIdentityAttempts
  <2>2. OwnMove(c) /\ req'[c] = r
    BY <1>1, <1>5, <2>1, MoveTo DEF Request
  <2>3. ReqSound(c)'
    BY <2>1, <2>2, LoginIsSound DEF LoginSound
  <2> QED
    BY <1>2, <1>3, <2>2, <2>3, QuietKeeps
<1> QED
  BY <1>4, <1>5 DEF CompleteGoogleLogin

LEMMA ResolveIdentityKeeps ==
  ASSUME IInv, NEW c \in Clients, ResolveIdentity(c)
  PROVE  IInv'
<1>1. TypeOK /\ ReqSound(c) /\ req[c] \in Login
  BY Shapes DEF IInv, ResolveIdentity
<1>2. UNCHANGED <<users, sessions, expired, oauth, cache, uses>>
  BY DEF ResolveIdentity
<1>3. CASE Goto(c, "email") /\ UNCHANGED <<userLock, sessLock>>
  <2> DEFINE r == [req[c] EXCEPT !.pc = "email"]
  <2>1. r \in Login /\ r.user = req[c].user /\ r.op = "login" /\ req' = [req EXCEPT ![c] = r]
    BY <1>1, <1>3 DEF Login, Goto
  <2>2. OwnMove(c) /\ req'[c] = r
    BY <1>1, <2>1, MoveTo DEF Request
  <2>3. LoginSound(c)'
    BY <1>1, <1>2, <1>3, <2>1, <2>2 DEF ReqSound, LoginSound, Known, Active, Login
  <2> QED
    BY <1>1, <1>2, <1>3, <2>1, <2>2, <2>3, LoginIsSound, NoLock, ReadKeeps
<1>4. ASSUME NEW u \in HolderOf(req[c].subject), CanLockUser(c, u), Active(u), TakeUser(c, u),
             req' = [req EXCEPT ![c].user = u, ![c].pc =
                       IF users[u].email = req[c].email THEN "commit" ELSE "email"],
             UNCHANGED sessLock
      PROVE  IInv'
  <2> DEFINE r == [req[c] EXCEPT !.user = u, !.pc =
                     IF users[u].email = req[c].email THEN "commit" ELSE "email"]
  <2>1. u \in Known /\ u \in Users
    BY DEF HolderOf, Known
  <2>2. r \in Login /\ r.user = u /\ r.op = "login"
    BY <1>1, <2>1 DEF Login
  <2>3. req' = [req EXCEPT ![c] = r]
    BY <1>1, <1>4 DEF TypeOK
  <2>4. OwnMove(c) /\ req'[c] = r
    BY <1>1, <2>2, <2>3, MoveTo DEF Request
  <2>5. OwnLocks(c) /\ userLock'[u] = c
    BY <1>1, <1>4, <2>1, OneUserLock
  <2>6. LoginSound(c)'
    BY <1>2, <1>4, <2>1, <2>2, <2>4, <2>5 DEF LoginSound, Known, Active
  <2> QED
    BY <1>2, <2>2, <2>4, <2>5, <2>6, LoginIsSound, ReadKeeps
<1> QED
  BY <1>2, <1>3, <1>4, RefusalKeeps DEF ResolveIdentity

LEMMA CheckEmailOwnerKeeps ==
  ASSUME IInv, NEW c \in Clients, CheckEmailOwner(c)
  PROVE  IInv'
<1>1. TypeOK /\ ReqSound(c) /\ req[c] \in Login
  BY Shapes DEF IInv, CheckEmailOwner
<1>2. UNCHANGED <<users, sessions, expired, oauth, cache, uses>>
  BY DEF CheckEmailOwner
<1>3. CASE Goto(c, "commit") /\ UNCHANGED <<userLock, sessLock>>
  <2> DEFINE r == [req[c] EXCEPT !.pc = "commit"]
  <2>1. r \in Login /\ r.user = req[c].user /\ r.op = "login" /\ req' = [req EXCEPT ![c] = r]
    BY <1>1, <1>3 DEF Login, Goto
  <2>2. OwnMove(c) /\ req'[c] = r
    BY <1>1, <2>1, MoveTo DEF Request
  <2>3. LoginSound(c)'
    BY <1>1, <1>2, <1>3, <2>1, <2>2 DEF ReqSound, LoginSound, Known, Active, Login
  <2> QED
    BY <1>1, <1>2, <1>3, <2>1, <2>2, <2>3, LoginIsSound, NoLock, ReadKeeps
<1> QED
  BY <1>2, <1>3, RefusalKeeps DEF CheckEmailOwner

\* The sign-in that lost a race, or was the victim of a wait cycle, starts over with
\* nothing in hand, or gives up.
LEMMA RetryKeeps ==
  ASSUME IInv, NEW c \in Clients, req[c].op = "login", RetryIdentity(c),
         UNCHANGED <<users, sessions, expired, oauth, cache, uses>>
  PROVE  IInv'
<1>1. TypeOK /\ req[c] \in Login
  BY Shapes DEF IInv
<1>2. CASE req' = [req EXCEPT ![c] = Idle] /\ Release(c)
  BY <1>2, RefusalKeeps DEF Finish
<1>3. CASE /\ req[c].attempt < MaxIdentityAttempts /\ Release(c)
           /\ req' = [req EXCEPT ![c].pc = "identity", ![c].user = None, ![c].attempt = @ + 1]
  <2> DEFINE r == [req[c] EXCEPT !.pc = "identity", !.user = None, !.attempt = @ + 1]
  <2>0. req[c].attempt + 1 \in 1..MaxIdentityAttempts
    BY <1>1, <1>3 DEF Login, MaxIdentityAttempts
  <2>1. r \in Login /\ r.user = None
    BY <1>1, <2>0 DEF Login
  <2>2. req' = [req EXCEPT ![c] = r]
    BY <1>1, <1>3 DEF TypeOK
  <2>3. OwnMove(c) /\ req'[c] = r
    BY <1>1, <2>1, <2>2, MoveTo DEF Request
  <2> QED
    BY <1>1, <1>3, <2>1, <2>3, LoginIsSound, ReleaseOwn, ReadKeeps DEF LoginSound
<1> QED
  BY <1>2, <1>3 DEF RetryIdentity

\* The account a sign-in inserts or renames, with the session it opens: the unique keys
\* keep accounts apart, and the row it holds cannot be deactivated under it.
LEMMA CreateSessionKeeps ==
  ASSUME IInv, NEW c \in Clients, CreateSession(c)
  PROVE  IInv'
<1>1. TypeOK /\ ReqSound(c) /\ req[c] \in Login /\ req[c].op = "login"
  BY Shapes DEF IInv, CreateSession
<1>2. PICK s \in Sessions \ Issued,
           u \in IF req[c].user = None THEN Users \ Known ELSE {req[c].user} :
        /\ users' = [users EXCEPT ![u] = SignedIn(c, u)]
        /\ sessions' = [sessions EXCEPT ![s] = [user |-> u, token |-> 0, revoked |-> FALSE]]
  BY DEF CreateSession
<1>3. Finish(c) /\ UNCHANGED <<expired, oauth, cache, uses>> /\ Unclaimed(c)
  BY DEF CreateSession
<1>4. /\ users \in [Users -> UserRow \cup {None}]
      /\ sessions \in [Sessions -> SessionRow \cup {None}]
      /\ userLock \in [Users -> Clients \cup {None}]
      /\ sessLock \in [Sessions -> Clients \cup {None}]
  BY <1>1 DEF TypeOK
<1>5. u \in Users /\ (req[c].user = None => users[u] = None)
      /\ (req[c].user # None => u = req[c].user /\ u \in Known /\ Active(u) /\ userLock[u] = c)
  BY <1>1, <1>2 DEF ReqSound, LoginSound, Known, Login
<1> DEFINE row == SignedIn(c, u)
           ses == [user |-> u, token |-> 0, revoked |-> FALSE]
<1>6. /\ row \in UserRow /\ row # None /\ row.email = req[c].email /\ row.status = "ACTIVE"
      /\ req[c].user = None => row.subject = req[c].subject
      /\ req[c].user # None => row.subject = users[u].subject /\ row.role = users[u].role
  <2>1. CASE req[c].user = None
    <3>1. req[c].subject \in Subjects /\ req[c].email \in Emails
      BY <1>1 DEF Login
    <3>2. row = [subject |-> req[c].subject, email |-> req[c].email, role |-> "USER",
                 status |-> "ACTIVE"]
      BY <2>1 DEF SignedIn
    <3>3. row \in UserRow
      BY <3>1, <3>2 DEF UserRow
    <3> QED
      BY <2>1, <3>2, <3>3, AccountsAssumption
  <2>2. CASE req[c].user # None
    <3>1. users[u] \in UserRow /\ users[u].status = "ACTIVE"
      BY <1>4, <1>5, <2>2 DEF Known, Active
    <3>2. row = [users[u] EXCEPT !.email = req[c].email]
      BY <2>2 DEF SignedIn
    <3>3. req[c].email \in Emails
      BY <1>1 DEF Login
    <3> QED
      BY <2>2, <3>1, <3>2, <3>3, AccountsAssumption DEF UserRow
  <2> QED
    BY <2>1, <2>2
<1>7. ses \in SessionRow /\ ses # None /\ ses.user = u /\ ses.token = 0 /\ ses.revoked = FALSE
  <2>1. 0 \in 0..MaxRotations
    BY AccountsAssumption
  <2>2. ses \in SessionRow
    BY <1>5, <2>1 DEF SessionRow
  <2> QED
    BY <2>2, AccountsAssumption
<1> HIDE DEF row, ses
<1>8. /\ users' = [users EXCEPT ![u] = row] /\ users'[u] = row
      /\ \A v \in Users \ {u} : users'[v] = users[v]
      /\ sessions' = [sessions EXCEPT ![s] = ses] /\ sessions'[s] = ses
      /\ \A r \in Sessions \ {s} : sessions'[r] = sessions[r]
  BY <1>2, <1>4, <1>5 DEF row, ses
<1>9. s \in Sessions /\ sessions[s] = None
  BY <1>2 DEF Issued
<1>10. Known' = Known \cup {u} /\ Issued' = Issued \cup {s}
  BY <1>4, <1>5, <1>6, <1>7, <1>8, <1>9 DEF Known, Issued
<1>11. OwnMove(c) /\ OwnLocks(c) /\ ReqSound(c)'
  BY <1>1, <1>3, FinishSound
<1>12. TypeOK'
  <2>1. users' \in [Users -> UserRow \cup {None}] /\ sessions' \in [Sessions -> SessionRow \cup {None}]
    BY <1>4, <1>6, <1>7, <1>8
  <2> QED
    BY <1>1, <1>3, <1>10, <1>11, <2>1 DEF TypeOK, OwnMove, OwnLocks, Request
<1>13. AdminRemains'
  <2>1. PICK a \in ActiveAdmins : TRUE
    BY DEF IInv, AdminRemains
  <2>2. a \in ActiveAdmins'
    BY <1>4, <1>5, <1>6, <1>8, <1>10, <2>1 DEF ActiveAdmins, Known, Active
  <2> QED
    BY <2>2 DEF AdminRemains
<1>14. InactiveHoldsNoSession' /\ SessionsOwned'
  <2> SUFFICES ASSUME NEW r \in Issued'
               PROVE  /\ users'[sessions'[r].user].status # "ACTIVE" => sessions'[r].revoked
                      /\ sessions'[r].user \in Known'
    BY DEF InactiveHoldsNoSession, SessionsOwned, Active
  <2>1. CASE r = s
    BY <1>6, <1>7, <1>8, <1>10, <2>1
  <2>2. CASE r # s
    <3>1. r \in Issued /\ sessions'[r] = sessions[r] /\ sessions[r].user \in Known
      BY <1>8, <1>10, <2>2 DEF IInv, SessionsOwned, Issued
    <3>2. sessions[r].user # u => users'[sessions[r].user] = users[sessions[r].user]
      BY <1>8, <3>1 DEF Known
    <3> QED
      BY <1>6, <1>8, <1>10, <3>1, <3>2 DEF IInv, InactiveHoldsNoSession, Active
  <2> QED
    BY <2>1, <2>2
<1>15. OneAccountPerIdentity'
  <2>1. ASSUME NEW v \in Known, v # u
        PROVE  users'[v] = users[v] /\ users[v].subject # row.subject /\ users[v].email # row.email
    <3>1. v \in Users /\ users'[v] = users[v]
      BY <1>8, <2>1 DEF Known
    <3>2. v # req[c].user
      BY <1>5, <2>1, <3>1, AccountsAssumption
    <3>3. users[v].email # req[c].email /\ users[v].subject # req[c].subject
      BY <1>3, <2>1, <3>2 DEF Unclaimed, OwnerOf, HolderOf
    <3>4. req[c].user # None => users[v].subject # users[u].subject
      BY <1>5, <2>1 DEF IInv, OneAccountPerIdentity
    <3> QED
      BY <1>6, <3>1, <3>3, <3>4
  <2> QED
    BY <1>8, <1>10, <2>1 DEF IInv, OneAccountPerIdentity
<1>16. MarksTrue'
  BY <1>3, <1>8, <1>9, <1>10 DEF IInv, MarksTrue, Issued
<1>17. TokensSpentOnce'
  <2> SUFFICES ASSUME NEW r \in Sessions, NEW t \in 0..MaxRotations
               PROVE  /\ uses[r][t] <= 1
                      /\ r \notin Issued' \/ t >= sessions'[r].token => uses[r][t] = 0
    BY <1>3 DEF TokensSpentOnce
  <2>1. CASE r = s
    BY <1>2, <1>9, <2>1 DEF IInv, TokensSpentOnce
  <2>2. CASE r # s
    BY <1>8, <1>10, <2>2 DEF IInv, TokensSpentOnce
  <2> QED
    BY <2>1, <2>2
<1>18. LocksOnRows'
  BY <1>10, <1>11 DEF IInv, LocksOnRows, OwnLocks
<1>19. ASSUME NEW d \in Clients, d # c PROVE Respects(d)
  <2>1. d # None /\ userLock[u] # d /\ sessLock[s] # d
    BY <1>5, <1>9, <1>19, AccountsAssumption DEF IInv, LocksOnRows, Known, Issued
  <2>2. \A v \in Users : userLock[v] = d => userLock'[v] = d /\ users'[v] = users[v]
    BY <1>8, <1>11, <1>19, <2>1 DEF OwnLocks
  <2>3. \A r \in Sessions : sessLock[r] = d => sessLock'[r] = d /\ sessions'[r] = sessions[r]
    BY <1>8, <1>11, <1>19, <2>1 DEF OwnLocks
  <2>4. \A r \in Issued : r # s /\ r \in Sessions /\ sessions[r] # None
    BY <1>9 DEF Issued
  <2>5. \A r \in Sessions \ Issued : sessions'[r] # None => r = s /\ sessions'[r].user = u
    BY <1>7, <1>8 DEF Issued
  <2> QED
    BY <1>3, <1>8, <1>11, <1>19, <2>1, <2>2, <2>3, <2>4, <2>5 DEF Respects, OwnMove
<1> QED
  BY <1>11, <1>12, <1>13, <1>14, <1>15, <1>16, <1>17, <1>18, <1>19, SoundKept DEF IInv

-----------------------------------------------------------------------------
(* The steps of a refresh. *)

\* A refresh is sound when its session exists and the row it read is held.
LEMMA RotationIsSound ==
  ASSUME NEW c \in Clients, req'[c] \in Rotation, RotationSound(c)'
  PROVE  ReqSound(c)'
BY DEF Rotation, ReqSound, LoginSound, BearerSound, StatusSound, RevokingSound

LEMMA BeginRefreshKeeps ==
  ASSUME IInv, NEW c \in Clients, NEW s \in Sessions, NEW t \in 0..MaxRotations,
         BeginRefresh(c, s, t)
  PROVE  IInv'
<1> DEFINE r == [op |-> "refresh", pc |-> "session", session |-> s, token |-> t, row |-> None]
<1>1. TypeOK
  BY DEF IInv
<1>2. r \in Rotation /\ r.session = s /\ r.token = t /\ r.pc = "session"
  BY DEF Rotation
<1>3. OwnMove(c) /\ req'[c] = r
  BY <1>1, <1>2, MoveTo DEF BeginRefresh, Request
<1>4. RotationSound(c)'
  BY <1>2, <1>3 DEF BeginRefresh, RotationSound, Issued
<1>5. ReqSound(c)' /\ OwnLocks(c)
  BY <1>1, <1>2, <1>3, <1>4, RotationIsSound, NoLock DEF BeginRefresh
<1> QED
  BY <1>3, <1>5, ReadKeeps DEF BeginRefresh

LEMMA LockSessionKeeps ==
  ASSUME IInv, NEW c \in Clients, LockSession(c)
  PROVE  IInv'
<1>1. TypeOK /\ RotationSound(c) /\ req[c] \in Rotation
  BY Shapes DEF IInv, LockSession, ReqSound
<1> DEFINE s == req[c].session
           r == [req[c] EXCEPT !.pc = "user", !.row = sessions[s]]
<1>2. s \in Issued /\ s \in Sessions /\ req[c].token < MaxRotations
  BY <1>1 DEF RotationSound, LockSession, Issued
<1>3. sessions[s] \in SessionRow \cup {None}
  BY <1>1, <1>2 DEF TypeOK
<1>4. r \in Rotation /\ r.session = s /\ r.token = req[c].token /\ r.row = sessions[s]
  BY <1>1, <1>3 DEF Rotation
<1>5. req' = [req EXCEPT ![c] = r]
  BY <1>1 DEF LockSession, TypeOK
<1>6. OwnMove(c) /\ req'[c] = r
  BY <1>1, <1>4, <1>5, MoveTo DEF Request
<1>7. OwnLocks(c) /\ sessLock'[s] = c
  BY <1>1, <1>2, OneSessionLock DEF LockSession
<1>8. RotationSound(c)'
  BY <1>2, <1>4, <1>6, <1>7 DEF RotationSound, LockSession, Issued
<1> QED
  BY <1>4, <1>6, <1>7, <1>8, RotationIsSound, ReadKeeps DEF LockSession

\* Writes of one session row that its writer holds, or that nobody holds: the row keeps
\* its user, a revocation is not undone, and the number only grows.
LEMMA SessionWriteKeeps ==
  ASSUME IInv, NEW c \in Clients, NEW s \in Issued, NEW row \in SessionRow,
         SaveSession(s, row), CanLockSession(c, s),
         row.user = sessions[s].user, sessions[s].revoked = TRUE => row.revoked = TRUE,
         row.revoked = TRUE \/ Active(row.user),
         OwnMove(c), OwnLocks(c), ReqSound(c)',
         UNCHANGED <<users, expired, oauth, cache>>,
         uses' \in [Sessions -> [0..MaxRotations -> Nat]], TokensSpentOnce'
  PROVE  IInv'
<1>1. /\ TypeOK /\ s \in Sessions
      /\ sessions \in [Sessions -> SessionRow \cup {None}]
      /\ row # None
  BY AccountsAssumption DEF IInv, TypeOK, Issued
<1>2. sessions' = [sessions EXCEPT ![s] = row] /\ sessions'[s] = row
      /\ \A r \in Sessions \ {s} : sessions'[r] = sessions[r]
  BY <1>1 DEF SaveSession
<1>3. Known' = Known /\ Issued' = Issued
  BY <1>1, <1>2 DEF Known, Issued
<1>4. TypeOK'
  BY <1>1, <1>2, <1>3 DEF TypeOK, OwnMove, OwnLocks, Request
<1>5. AdminRemains' /\ OneAccountPerIdentity'
  BY DEF IInv, AdminRemains, OneAccountPerIdentity, ActiveAdmins, Known, Active
<1>6. InactiveHoldsNoSession'
  <2> SUFFICES ASSUME NEW r \in Issued, ~Active(sessions'[r].user) PROVE sessions'[r].revoked
    BY <1>3 DEF InactiveHoldsNoSession, Active
  <2>1. CASE r = s
    BY <1>2, <2>1
  <2>2. CASE r # s
    BY <1>2, <2>2 DEF IInv, InactiveHoldsNoSession, Issued
  <2> QED
    BY <2>1, <2>2
<1>7. SessionsOwned' /\ MarksTrue' /\ LocksOnRows'
  BY <1>1, <1>2, <1>3 DEF IInv, SessionsOwned, MarksTrue, LocksOnRows, OwnLocks, Issued
<1>8. ASSUME NEW d \in Clients, d # c PROVE Respects(d)
  <2>1. d # None /\ sessLock[s] # d
    BY <1>8, AccountsAssumption DEF CanLockSession
  <2> QED
    BY <1>1, <1>2, <1>3, <1>8, <2>1 DEF Respects, OwnMove, OwnLocks, Issued
<1> QED
  BY <1>1, <1>4, <1>5, <1>6, <1>7, <1>8, SoundKept DEF IInv

\* A counter counted up is one more, and the others stay.
LEMMA CountOneMore ==
  ASSUME NEW S, NEW g \in [S -> Nat], NEW k \in S
  PROVE  /\ [g EXCEPT ![k] = g[k] + 1] \in [S -> Nat]
         /\ [g EXCEPT ![k] = g[k] + 1][k] = g[k] + 1
         /\ \A t \in S : t # k => [g EXCEPT ![k] = g[k] + 1][t] = g[t]
OBVIOUS

\* The refresh decides on rows it holds: it refuses, revokes, or spends the newest token.
LEMMA RefreshKeeps ==
  ASSUME IInv, NEW c \in Clients, Refresh(c)
  PROVE  IInv'
<1> DEFINE s == req[c].session
           row == req[c].row
<1>1. TypeOK /\ RotationSound(c) /\ req[c] \in Rotation /\ req[c].pc = "user" /\ req[c].op = "refresh"
  BY Shapes DEF IInv, Refresh, ReqSound, Rotation
<1>2. /\ s \in Issued /\ s \in Sessions /\ sessLock[s] = c /\ row = sessions[s]
      /\ req[c].token \in 0..MaxRotations /\ req[c].token < MaxRotations
  BY <1>1 DEF RotationSound, Issued, Rotation
<1>3. row \in SessionRow /\ row.token \in 0..MaxRotations
  BY <1>1, <1>2 DEF TypeOK, Issued, SessionRow
<1>4. UNCHANGED <<users, expired, oauth, cache>> /\ Rotate(c)
  BY DEF Refresh
<1>5. CASE Finish(c) /\ UNCHANGED <<sessions, uses>>
  BY <1>4, <1>5, RefusalKeeps
<1>6. CASE /\ SaveSession(s, [row EXCEPT !.revoked = TRUE])
           /\ FinishRevoking(c, {s})
           /\ UNCHANGED uses
  <2> DEFINE new == [row EXCEPT !.revoked = TRUE]
  <2>1. new \in SessionRow /\ new.user = row.user /\ new.token = row.token /\ new.revoked = TRUE
    BY <1>3 DEF SessionRow
  <2> HIDE DEF new
  <2>2. sessions'[s] = new /\ new # None /\ \A r \in Sessions \ {s} : sessions'[r] = sessions[r]
    BY <1>1, <1>2, <1>6, <2>1, AccountsAssumption DEF SaveSession, TypeOK, new
  <2>3. Issued' = Issued
    BY <1>2, <2>2 DEF Issued
  <2>4. OwnMove(c) /\ OwnLocks(c) /\ ReqSound(c)'
    <3>1. {s} \in SUBSET Sessions /\ \A x \in {s} : x \in Issued' /\ sessions'[x].revoked = TRUE
      BY <1>2, <2>1, <2>2, <2>3
    <3> QED
      BY <1>1, <1>6, <3>1, FinishRevokingSound
  <2>5. TokensSpentOnce'
    BY <1>2, <1>6, <2>1, <2>2, <2>3 DEF IInv, TokensSpentOnce
  <2> QED
    BY <1>1, <1>2, <1>4, <1>6, <2>1, <2>4, <2>5, SessionWriteKeeps DEF CanLockSession, TypeOK, new
<1>7. CASE /\ ~(row.revoked \/ s \in expired) /\ Matches(row, req[c].token) /\ Active(row.user)
           /\ SaveSession(s, [row EXCEPT !.token = @ + 1])
           /\ uses' = [uses EXCEPT ![s][req[c].token] = @ + 1]
           /\ Finish(c)
  <2> DEFINE new == [row EXCEPT !.token = @ + 1]
             k == req[c].token
  <2>1. row.token = k /\ k + 1 \in 0..MaxRotations
    BY <1>2, <1>3, <1>7, AccountsAssumption DEF Matches
  <2>2. new \in SessionRow /\ new.user = row.user /\ new.token = k + 1 /\ new.revoked = row.revoked
    BY <1>3, <2>1 DEF SessionRow
  <2> HIDE DEF new
  <2>3. sessions'[s] = new /\ new # None /\ \A r \in Sessions \ {s} : sessions'[r] = sessions[r]
    BY <1>1, <1>2, <1>7, <2>2, AccountsAssumption DEF SaveSession, TypeOK, new
  <2>4. Issued' = Issued
    BY <1>2, <2>3 DEF Issued
  <2>5. /\ uses' \in [Sessions -> [0..MaxRotations -> Nat]]
        /\ uses'[s][k] = uses[s][k] + 1
        /\ \A r \in Sessions, t \in 0..MaxRotations :
             r # s \/ t # k => uses'[r][t] = uses[r][t]
    <3> DEFINE f == [uses[s] EXCEPT ![k] = @ + 1]
    <3>1. uses \in [Sessions -> [0..MaxRotations -> Nat]] /\ uses' = [uses EXCEPT ![s] = f]
      <4>1. uses \in [Sessions -> [0..MaxRotations -> Nat]]
        BY <1>1 DEF TypeOK
      <4>2. uses' = [uses EXCEPT ![s][k] = @ + 1]
        BY <1>7
      <4> QED
        BY <4>1, <4>2
    <3>2. uses[s] \in [0..MaxRotations -> Nat] /\ k \in 0..MaxRotations /\ s \in Sessions
      BY <1>2, <3>1
    <3>3. /\ f \in [0..MaxRotations -> Nat] /\ f[k] = uses[s][k] + 1
          /\ \A t \in 0..MaxRotations : t # k => f[t] = uses[s][t]
      <4> DEFINE S == 0..MaxRotations
                 g == uses[s]
      <4>1. g \in [S -> Nat] /\ k \in S
        BY <3>2
      <4> HIDE DEF S, g
      <4>2. /\ [g EXCEPT ![k] = g[k] + 1] \in [S -> Nat]
            /\ [g EXCEPT ![k] = g[k] + 1][k] = g[k] + 1
            /\ \A t \in S : t # k => [g EXCEPT ![k] = g[k] + 1][t] = g[t]
        BY <4>1, CountOneMore, Zenon
      <4> QED
        BY <4>2 DEF S, g
    <3> HIDE DEF f
    <3> QED
      BY <3>1, <3>2, <3>3
  <2>6. uses[s][k] = 0
    BY <1>2, <1>3, <2>1 DEF IInv, TokensSpentOnce
  <2>7. TokensSpentOnce'
    <3> SUFFICES ASSUME NEW r \in Sessions, NEW t \in 0..MaxRotations
                 PROVE  /\ uses'[r][t] <= 1
                        /\ r \notin Issued' \/ t >= sessions'[r].token => uses'[r][t] = 0
      BY DEF TokensSpentOnce
    <3>1. /\ uses[r][t] <= 1
          /\ r \notin Issued \/ t >= sessions[r].token => uses[r][t] = 0
      BY DEF IInv, TokensSpentOnce
    <3>2. CASE r # s
      BY <2>3, <2>4, <2>5, <3>1, <3>2
    <3>3. CASE r = s
      BY <1>2, <2>1, <2>2, <2>3, <2>4, <2>5, <2>6, <3>1, <3>3
    <3> QED
      BY <3>2, <3>3
  <2>8. OwnMove(c) /\ OwnLocks(c) /\ ReqSound(c)'
    BY <1>1, <1>7, FinishSound
  <2>9. /\ SaveSession(s, new) /\ CanLockSession(c, s) /\ new.user = sessions[s].user
        /\ sessions[s].revoked = TRUE => new.revoked = TRUE
        /\ Active(new.user)
    BY <1>2, <1>7, <2>2 DEF CanLockSession, new
  <2> QED
    BY <1>2, <1>4, <2>2, <2>5, <2>7, <2>8, <2>9, SessionWriteKeeps
<1> QED
  BY <1>4, <1>5, <1>6, <1>7 DEF Rotate

-----------------------------------------------------------------------------
(* The steps of a bearer request. *)

\* A bearer request is sound when its session exists and a stale one is not served.
LEMMA BearerIsSound ==
  ASSUME NEW c \in Clients, req'[c] \in Bearer, BearerSound(c)'
  PROVE  ReqSound(c)'
BY DEF Bearer, ReqSound, LoginSound, RotationSound, StatusSound, RevokingSound

\* A session that is not live is revoked or has expired: a deactivated user holds none.
LEMMA NotLive ==
  ASSUME IInv, NEW s \in Issued, ~Live(s)
  PROVE  sessions[s].revoked = TRUE \/ s \in expired
<1>1. sessions[s] \in SessionRow
  BY DEF IInv, TypeOK, Issued
<1>2. sessions[s].revoked \in BOOLEAN
  BY <1>1 DEF SessionRow
<1>3. CASE sessions[s].revoked
  BY <1>2, <1>3
<1>4. CASE ~sessions[s].revoked
  BY <1>4 DEF Live, IInv, InactiveHoldsNoSession
<1> QED
  BY <1>3, <1>4

LEMMA BeginRequestKeeps ==
  ASSUME IInv, NEW c \in Clients, NEW s \in Sessions, BeginRequest(c, s)
  PROVE  IInv'
<1> DEFINE r == [op |-> "bearer", pc |-> "cache", session |-> s, stale |-> ~Live(s)]
<1>1. TypeOK /\ s \in Issued
  BY DEF IInv, BeginRequest, Verified
<1>2. r \in Bearer /\ r.session = s /\ r.pc = "cache" /\ (r.stale = TRUE => ~Live(s))
  BY DEF Bearer
<1> HIDE DEF r
<1>3. OwnMove(c) /\ req'[c] = r
  BY <1>1, <1>2, MoveTo DEF BeginRequest, Request, r
<1>4. BearerSound(c)'
  BY <1>1, <1>2, <1>3, NotLive DEF BeginRequest, BearerSound, Issued
<1>5. ReqSound(c)' /\ OwnLocks(c)
  BY <1>1, <1>2, <1>3, <1>4, BearerIsSound, NoLock DEF BeginRequest
<1> QED
  BY <1>3, <1>5, ReadKeeps DEF BeginRequest

LEMMA IsRevokedKeeps ==
  ASSUME IInv, NEW c \in Clients, IsRevoked(c)
  PROVE  IInv'
<1>1. TypeOK /\ BearerSound(c) /\ req[c] \in Bearer
  BY Shapes DEF IInv, IsRevoked, ReqSound
<1>2. UNCHANGED <<users, sessions, expired, oauth, cache, uses>>
  BY DEF IsRevoked
<1>3. CASE Goto(c, "database") /\ UNCHANGED <<userLock, sessLock>>
  <2> DEFINE r == [req[c] EXCEPT !.pc = "database"]
  <2>1. /\ r \in Bearer /\ r.op = "bearer" /\ r.session = req[c].session /\ r.stale = req[c].stale
        /\ r.pc = "database" /\ req[c].op = "bearer" /\ req' = [req EXCEPT ![c] = r]
    BY <1>1, <1>3 DEF Bearer, Goto
  <2> HIDE DEF r
  <2>2. OwnMove(c) /\ req'[c] = r
    BY <1>1, <2>1, MoveTo DEF Request
  <2>3. BearerSound(c)'
    BY <1>1, <1>2, <2>1, <2>2 DEF BearerSound, Issued
  <2> QED
    BY <1>1, <1>2, <1>3, <2>1, <2>2, <2>3, BearerIsSound, NoLock, ReadKeeps
<1> QED
  BY <1>2, <1>3, RefusalKeeps DEF IsRevoked

\* MySQL decides: a session that is accepted is live, so the request is not stale.
LEMMA AuthenticateKeeps ==
  ASSUME IInv, NEW c \in Clients, AuthenticateAccessToken(c)
  PROVE  IInv'
<1>1. TypeOK /\ BearerSound(c) /\ req[c] \in Bearer /\ req[c].op = "bearer"
  BY Shapes DEF IInv, AuthenticateAccessToken, ReqSound, Bearer
<1>2. UNCHANGED <<users, sessions, expired, oauth, cache, uses>>
  BY DEF AuthenticateAccessToken
<1>3. ASSUME Accepted(c) PROVE req[c].stale = FALSE
  <2>1. req[c].stale \in BOOLEAN
    BY <1>1 DEF Bearer
  <2>2. req[c].stale # TRUE
    BY <1>1, <1>3 DEF BearerSound, Accepted, Live
  <2> QED
    BY <2>1, <2>2
<1>4. CASE Accepted(c) /\ Goto(c, "logout") /\ UNCHANGED <<userLock, sessLock>>
  <2> DEFINE r == [req[c] EXCEPT !.pc = "logout"]
  <2>1. /\ r \in Bearer /\ r.session = req[c].session /\ r.stale = req[c].stale
        /\ req' = [req EXCEPT ![c] = r]
    BY <1>1, <1>4 DEF Bearer, Goto
  <2> HIDE DEF r
  <2>2. OwnMove(c) /\ req'[c] = r
    BY <1>1, <2>1, MoveTo DEF Request
  <2>3. BearerSound(c)'
    BY <1>1, <1>2, <1>3, <1>4, <2>1, <2>2 DEF BearerSound, Issued
  <2> QED
    BY <1>1, <1>2, <1>4, <2>1, <2>2, <2>3, BearerIsSound, NoLock, ReadKeeps
<1>5. ASSUME Accepted(c), UNCHANGED <<userLock, sessLock>>,
             NEW u \in Users, NEW st \in {"ACTIVE", "INACTIVE"},
             req' = [req EXCEPT ![c] =
                       [op |-> "status", pc |-> "target", actor |-> sessions[req[c].session].user,
                        target |-> u, status |-> st, stale |-> req[c].stale]]
      PROVE  IInv'
  <2> DEFINE r == [op |-> "status", pc |-> "target", actor |-> sessions[req[c].session].user,
                   target |-> u, status |-> st, stale |-> req[c].stale]
  <2>1. sessions[req[c].session].user \in Users
    <3>1. req[c].session \in Issued
      BY <1>1 DEF BearerSound
    <3> QED
      BY <1>1, <3>1 DEF TypeOK, Issued, SessionRow
  <2>2. r \in Status /\ r.op = "status" /\ r.pc = "target" /\ r.stale = FALSE
    BY <1>3, <1>5, <2>1 DEF Status
  <2> HIDE DEF r
  <2>3. OwnMove(c) /\ req'[c] = r
    BY <1>1, <1>5, <2>2, MoveTo DEF Request, r
  <2>4. ReqSound(c)'
    BY <2>2, <2>3 DEF ReqSound, LoginSound, RotationSound, BearerSound, StatusSound, RevokingSound
  <2> QED
    BY <1>1, <1>2, <1>5, <2>3, <2>4, NoLock, ReadKeeps
<1> QED
  BY <1>2, <1>4, <1>5, RefusalKeeps DEF AuthenticateAccessToken

LEMMA RevokeKeeps ==
  ASSUME IInv, NEW c \in Clients, Revoke(c)
  PROVE  IInv'
<1> DEFINE s == req[c].session
           new == [sessions[s] EXCEPT !.revoked = TRUE]
<1>1. TypeOK /\ BearerSound(c) /\ req[c] \in Bearer /\ req[c].op = "bearer"
  BY Shapes DEF IInv, Revoke, ReqSound, Bearer
<1>2. s \in Issued /\ s \in Sessions
  BY <1>1 DEF BearerSound, Issued
<1>3. sessions[s] \in SessionRow
  BY <1>1, <1>2 DEF TypeOK, Issued
<1>4. /\ new \in SessionRow /\ new.user = sessions[s].user /\ new.token = sessions[s].token
      /\ new.revoked = TRUE /\ new # None
  BY <1>3, AccountsAssumption DEF SessionRow
<1> HIDE DEF new
<1>5. sessions'[s] = new /\ \A r \in Sessions \ {s} : sessions'[r] = sessions[r]
  BY <1>1, <1>2 DEF Revoke, SaveSession, TypeOK, new
<1>6. Issued' = Issued
  BY <1>2, <1>4, <1>5 DEF Issued
<1>7. OwnMove(c) /\ OwnLocks(c) /\ ReqSound(c)'
  <2>1. {s} \in SUBSET Sessions /\ \A x \in {s} : x \in Issued' /\ sessions'[x].revoked = TRUE
    BY <1>2, <1>4, <1>5, <1>6
  <2> QED
    BY <1>1, <2>1, FinishRevokingSound DEF Revoke
<1>8. TokensSpentOnce' /\ uses' \in [Sessions -> [0..MaxRotations -> Nat]]
  <2>1. uses' = uses /\ uses \in [Sessions -> [0..MaxRotations -> Nat]]
    BY <1>1 DEF Revoke, TypeOK
  <2>2. \A r \in Issued : sessions'[r].token = sessions[r].token
    BY <1>2, <1>4, <1>5 DEF Issued
  <2> QED
    BY <1>6, <2>1, <2>2 DEF IInv, TokensSpentOnce
<1>9. /\ SaveSession(s, new) /\ CanLockSession(c, s)
      /\ UNCHANGED <<users, expired, oauth, cache>>
  BY DEF Revoke, new
<1> QED
  BY <1>2, <1>4, <1>7, <1>8, <1>9, SessionWriteKeeps

\* Only what MySQL has revoked is marked.
LEMMA MarkRevokedKeeps ==
  ASSUME IInv, NEW c \in Clients, MarkRevoked(c)
  PROVE  IInv'
<1>1. TypeOK /\ RevokingSound(c) /\ req[c] \in Revoking /\ req[c].op = "revoking" /\ MarksTrue
  BY Shapes DEF IInv, MarkRevoked, ReqSound, Revoking
<1>2. PICK ss \in SUBSET req[c].marks : cache' = cache \cup ss
  BY DEF MarkRevoked
<1>3. UNCHANGED <<users, sessions, expired, oauth, uses>> /\ Finish(c)
  BY DEF MarkRevoked
<1>4. MarksTrue' /\ cache' \subseteq Sessions
  BY <1>1, <1>2, <1>3 DEF MarksTrue, RevokingSound, Issued, TypeOK
<1>5. oauth' \in [States -> {"unused", "stored", "consumed"}]
  BY <1>1, <1>3 DEF TypeOK
<1> QED
  BY <1>1, <1>3, <1>4, <1>5, FinishSound, QuietKeeps

-----------------------------------------------------------------------------
(* The steps of a status change. *)

\* A status change is sound when StatusSound says so.
LEMMA StatusIsSound ==
  ASSUME NEW c \in Clients, req'[c] \in Status, StatusSound(c)'
  PROVE  ReqSound(c)'
BY DEF Status, ReqSound, LoginSound, RotationSound, BearerSound, RevokingSound

\* A status change that moves on keeps what it carries.
LEMMA StatusGoto ==
  ASSUME TypeOK, NEW c \in Clients, req[c] \in Status,
         NEW at \in {"target", "admins", "sessions", "save"}, Goto(c, at)
  PROVE  /\ OwnMove(c) /\ req'[c] \in Status /\ req'[c].pc = at
         /\ req'[c].target = req[c].target /\ req'[c].status = req[c].status
         /\ req'[c].stale = req[c].stale
<1> DEFINE r == [req[c] EXCEPT !.pc = at]
<1>1. /\ r \in Status /\ r.pc = at /\ r.target = req[c].target /\ r.status = req[c].status
      /\ r.stale = req[c].stale
  BY DEF Status
<1>2. req' = [req EXCEPT ![c] = r]
  BY DEF Goto
<1> HIDE DEF r
<1>3. OwnMove(c) /\ req'[c] = r
  BY <1>1, <1>2, MoveTo DEF Request
<1> QED
  BY <1>1, <1>3

LEMMA LockTargetKeeps ==
  ASSUME IInv, NEW c \in Clients, LockTarget(c)
  PROVE  IInv'
<1> DEFINE u == req[c].target
           at == CASE req[c].status = "ACTIVE"               -> "save"
                   [] users[req[c].target].role = "ADMIN"   -> "admins"
                   [] OTHER                                 -> "sessions"
<1>1. TypeOK /\ StatusSound(c) /\ req[c] \in Status /\ req[c].op = "status"
  BY Shapes DEF IInv, LockTarget, ReqSound, Status
<1>2. UNCHANGED <<users, sessions, expired, oauth, cache, uses>> /\ CanLockUser(c, u)
  BY DEF LockTarget
<1>3. CASE ChangesStatus(c) /\ TakeUser(c, u) /\ Goto(c, at) /\ UNCHANGED sessLock
  <2>1. u \in Known /\ u \in Users
    BY <1>3 DEF ChangesStatus, Known
  <2>2. /\ at \in {"target", "admins", "sessions", "save"} /\ at # "target"
        /\ at = "save" => req[c].status = "ACTIVE"
        /\ at = "sessions" => users[u].role # "ADMIN"
    OBVIOUS
  <2> HIDE DEF at
  <2>3. OwnLocks(c) /\ userLock'[u] = c
    BY <1>1, <1>2, <1>3, <2>1, OneUserLock
  <2>4. /\ OwnMove(c) /\ req'[c] \in Status /\ req'[c].pc = at
        /\ req'[c].target = u /\ req'[c].status = req[c].status /\ req'[c].stale = req[c].stale
    BY <1>1, <1>3, <2>2, StatusGoto
  <2>5. StatusSound(c)'
    <3>1. req[c].stale = FALSE /\ u \in Known'
      BY <1>1, <1>2, <2>1 DEF StatusSound, Known
    <3>2. users'[u].role = "ADMIN" /\ req[c].status = "INACTIVE" => at \notin {"sessions", "save"}
      BY <1>2, <2>2
    <3>3. req[c].status = "INACTIVE" => at # "save"
      BY <2>2
    <3> QED
      BY <2>2, <2>3, <2>4, <3>1, <3>2, <3>3 DEF StatusSound
  <2> QED
    BY <1>2, <2>3, <2>4, <2>5, StatusIsSound, ReadKeeps
<1> QED
  BY <1>2, <1>3, RefusalKeeps DEF LockTarget

\* More than one active admin, all of them held: another one than the target is.
LEMMA AnotherAdmin ==
  ASSUME NEW S, NEW u, Cardinality(S) > 1
  PROVE  \E v \in S : v # u
<1> SUFFICES ASSUME \A v \in S : v = u PROVE FALSE
  OBVIOUS
<1>1. S = {} \/ S = {u}
  OBVIOUS
<1>2. Cardinality({}) = 0 /\ Cardinality({u}) = 1
  BY FS_EmptySet, FS_Singleton
<1> QED
  BY <1>1, <1>2

LEMMA LockActiveAdminsKeeps ==
  ASSUME IInv, NEW c \in Clients, LockActiveAdmins(c)
  PROVE  IInv'
<1> DEFINE u == req[c].target
<1>1. TypeOK /\ StatusSound(c) /\ req[c] \in Status /\ req[c].op = "status" /\ req[c].pc = "admins"
  BY Shapes DEF IInv, LockActiveAdmins, ReqSound, Status
<1>2. UNCHANGED <<users, sessions, expired, oauth, cache, uses>>
  BY DEF LockActiveAdmins
<1>3. u \in Known /\ u \in Users /\ userLock[u] = c /\ req[c].stale = FALSE
  BY <1>1 DEF StatusSound, Known
<1>4. CASE /\ AdminsToLock(c) = {} /\ Cardinality(ActiveAdmins) > 1
           /\ Goto(c, "sessions") /\ UNCHANGED <<userLock, sessLock>>
  <2>1. /\ OwnMove(c) /\ req'[c] \in Status /\ req'[c].pc = "sessions"
        /\ req'[c].target = u /\ req'[c].status = req[c].status /\ req'[c].stale = req[c].stale
    BY <1>1, <1>4, StatusGoto
  <2>2. PICK v \in ActiveAdmins : v # u
    BY <1>4, AnotherAdmin
  <2>3. v \in ActiveAdmins' \ {u} /\ userLock'[v] = c
    BY <1>2, <1>4, <2>2 DEF AdminsToLock, ActiveAdmins, Known, Active
  <2>4. StatusSound(c)'
    BY <1>2, <1>3, <1>4, <2>1, <2>3 DEF StatusSound, Known
  <2> QED
    BY <1>1, <1>2, <1>4, <2>1, <2>4, StatusIsSound, NoLock, ReadKeeps
<1>5. ASSUME NEW v \in AdminsToLock(c), CanLockUser(c, v), TakeUser(c, v), UNCHANGED <<req, sessLock>>
      PROVE  IInv'
  <2>1. v \in Known
    BY DEF AdminsToLock, ActiveAdmins
  <2>2. OwnLocks(c) /\ userLock'[u] = c
    BY <1>1, <1>3, <1>5, <2>1, OneUserLock
  <2>3. OwnMove(c) /\ req'[c] = req[c]
    BY <1>1, <1>5 DEF OwnMove, TypeOK, Request
  <2>4. StatusSound(c)'
    BY <1>1, <1>2, <1>3, <2>2, <2>3 DEF StatusSound, Known
  <2> QED
    BY <1>1, <1>2, <2>2, <2>3, <2>4, StatusIsSound, ReadKeeps
<1> QED
  BY <1>2, <1>4, <1>5, RefusalKeeps DEF LockActiveAdmins

LEMMA LockTargetSessionsKeeps ==
  ASSUME IInv, NEW c \in Clients, LockTargetSessions(c)
  PROVE  IInv'
<1> DEFINE u == req[c].target
<1>1. TypeOK /\ StatusSound(c) /\ req[c] \in Status /\ req[c].op = "status" /\ req[c].pc = "sessions"
  BY Shapes DEF IInv, LockTargetSessions, ReqSound, Status
<1>2. UNCHANGED <<users, sessions, expired, oauth, cache, uses, userLock>>
  BY DEF LockTargetSessions
<1>3. u \in Known /\ u \in Users /\ userLock[u] = c /\ req[c].stale = FALSE
  BY <1>1 DEF StatusSound, Known
<1>4. ASSUME req[c].status = "INACTIVE", users'[u].role = "ADMIN"
      PROVE  \E v \in ActiveAdmins' \ {u} : userLock'[v] = c
  BY <1>1, <1>2, <1>4 DEF StatusSound, ActiveAdmins, Known, Active
<1>5. CASE SessionsToLock(c) = {} /\ Goto(c, "save") /\ UNCHANGED sessLock
  <2>1. /\ OwnMove(c) /\ req'[c] \in Status /\ req'[c].pc = "save"
        /\ req'[c].target = u /\ req'[c].status = req[c].status /\ req'[c].stale = req[c].stale
    BY <1>1, <1>5, StatusGoto
  <2>2. \A s \in SessionsOf(u)' : sessLock'[s] = c
    BY <1>2, <1>5, <2>1 DEF SessionsToLock, SessionsOf, Issued
  <2>3. StatusSound(c)'
    BY <1>2, <1>3, <1>4, <2>1, <2>2 DEF StatusSound, Known, SessionsOf, Issued
  <2> QED
    BY <1>1, <1>2, <1>5, <2>1, <2>3, StatusIsSound, NoLock, ReadKeeps
<1>6. ASSUME NEW s \in SessionsToLock(c), CanLockSession(c, s), TakeSession(c, s), UNCHANGED req
      PROVE  IInv'
  <2>1. s \in Issued
    BY DEF SessionsToLock, SessionsOf
  <2>2. OwnLocks(c)
    BY <1>1, <1>2, <1>6, <2>1, OneSessionLock
  <2>3. OwnMove(c) /\ req'[c] = req[c]
    BY <1>1, <1>6 DEF OwnMove, TypeOK, Request
  <2>4. StatusSound(c)'
    BY <1>1, <1>2, <1>3, <1>4, <2>3 DEF StatusSound, Known
  <2> QED
    BY <1>1, <1>2, <2>2, <2>3, <2>4, StatusIsSound, ReadKeeps
<1> QED
  BY <1>5, <1>6 DEF LockTargetSessions

\* The commit of a status change: the sessions it revokes are all held, the admin it
\* may deactivate is not the last, and a deactivated user keeps no session.
LEMMA SaveStatusKeeps ==
  ASSUME IInv, NEW c \in Clients, SaveStatus(c)
  PROVE  IInv'
<1> DEFINE u == req[c].target
           st == req[c].status
           ss == IF st = "INACTIVE" THEN SessionsOf(u) ELSE {}
           row == [users[u] EXCEPT !.status = st]
<1>1. TypeOK /\ StatusSound(c) /\ req[c] \in Status /\ req[c].op = "status" /\ req[c].pc = "save"
  BY Shapes DEF IInv, SaveStatus, ReqSound, Status
<1>2. /\ users' = [users EXCEPT ![u] = row]
      /\ sessions' = [s \in Sessions |->
                        IF s \in ss THEN [sessions[s] EXCEPT !.revoked = TRUE] ELSE sessions[s]]
      /\ FinishRevoking(c, ss)
      /\ UNCHANGED <<expired, oauth, cache, uses>>
  BY DEF SaveStatus
<1>3. u \in Known /\ u \in Users /\ userLock[u] = c /\ st \in {"ACTIVE", "INACTIVE"}
  BY <1>1 DEF StatusSound, Known, Status
<1>4. /\ users \in [Users -> UserRow \cup {None}]
      /\ sessions \in [Sessions -> SessionRow \cup {None}]
  BY <1>1 DEF TypeOK
<1>5. /\ row \in UserRow /\ row # None /\ row.status = st /\ row.role = users[u].role
      /\ row.subject = users[u].subject /\ row.email = users[u].email
  <2>1. users[u] \in UserRow
    BY <1>3, <1>4 DEF Known
  <2> QED
    BY <1>3, <2>1, AccountsAssumption DEF UserRow
<1>6. /\ ss \subseteq Issued /\ ss \in SUBSET Sessions
      /\ \A s \in ss : sessLock[s] = c
      /\ \A s \in ss : sessions[s].user = u
  BY <1>1 DEF StatusSound, SessionsOf, Issued
<1>7. ASSUME NEW s \in Issued, sessions[s].user = u, st = "INACTIVE", s \notin ss
      PROVE  sessions[s].revoked
  BY <1>7 DEF SessionsOf
<1>8. \A s \in ss : ~sessions[s].revoked
  BY DEF SessionsOf
<1> HIDE DEF row, ss
<1>9. users'[u] = row /\ \A v \in Users \ {u} : users'[v] = users[v]
  BY <1>2, <1>3, <1>4
<1>10. ASSUME NEW s \in ss
       PROVE  /\ sessions'[s] \in SessionRow /\ sessions'[s] # None
              /\ sessions'[s].user = sessions[s].user /\ sessions'[s].token = sessions[s].token
              /\ sessions'[s].revoked = TRUE
  <2>1. sessions[s] \in SessionRow /\ s \in Sessions
    BY <1>4, <1>6 DEF Issued
  <2>2. sessions'[s] = [sessions[s] EXCEPT !.revoked = TRUE]
    BY <1>2, <2>1
  <2> QED
    BY <2>1, <2>2, AccountsAssumption DEF SessionRow
<1>11. \A s \in Sessions \ ss : sessions'[s] = sessions[s]
  BY <1>2
<1>12. Known' = Known
  BY <1>3, <1>4, <1>5, <1>9 DEF Known
<1>13. Issued' = Issued
  <2> SUFFICES ASSUME NEW s \in Sessions PROVE sessions'[s] # None <=> sessions[s] # None
    BY DEF Issued
  <2> QED
    BY <1>6, <1>10, <1>11 DEF Issued
<1>14. \A s \in Issued : /\ sessions'[s].user = sessions[s].user
                         /\ sessions'[s].token = sessions[s].token
                         /\ sessions[s].revoked = TRUE => sessions'[s].revoked = TRUE
  BY <1>10, <1>11 DEF Issued
<1>15. OwnMove(c) /\ OwnLocks(c) /\ ReqSound(c)'
  BY <1>1, <1>2, <1>6, <1>10, <1>13, FinishRevokingSound
<1>16. TypeOK'
  <2>1. users' \in [Users -> UserRow \cup {None}]
    BY <1>2, <1>3, <1>4, <1>5
  <2>2. sessions' \in [Sessions -> SessionRow \cup {None}]
    <3>1. ASSUME NEW s \in Sessions PROVE sessions'[s] \in SessionRow \cup {None}
      BY <1>4, <1>10, <1>11
    <3> QED
      BY <1>2, <3>1
  <2> QED
    BY <1>1, <1>2, <1>13, <1>15, <2>1, <2>2 DEF TypeOK, OwnMove, OwnLocks, Request
<1>17. AdminRemains'
  <2>1. ASSUME NEW a \in ActiveAdmins, a # u PROVE a \in ActiveAdmins'
    BY <1>9, <1>12, <2>1 DEF ActiveAdmins, Known, Active
  <2>2. PICK a \in ActiveAdmins : TRUE
    BY DEF IInv, AdminRemains
  <2>3. CASE st = "INACTIVE" /\ users[u].role = "ADMIN"
    BY <1>1, <2>1, <2>3 DEF StatusSound, AdminRemains
  <2>4. CASE st = "ACTIVE" /\ a = u
    <3>1. u \in ActiveAdmins'
      BY <1>5, <1>9, <1>12, <2>2, <2>4 DEF ActiveAdmins, Active
    <3> QED
      BY <3>1 DEF AdminRemains
  <2>5. CASE users[u].role # "ADMIN"
    BY <2>1, <2>2, <2>5 DEF ActiveAdmins, AdminRemains
  <2> QED
    BY <1>3, <2>1, <2>2, <2>3, <2>4, <2>5 DEF AdminRemains
<1>18. SessionsOwned'
  BY <1>12, <1>13, <1>14 DEF IInv, SessionsOwned
<1>19. InactiveHoldsNoSession'
  <2> SUFFICES ASSUME NEW s \in Issued, users'[sessions[s].user].status # "ACTIVE"
               PROVE  sessions'[s].revoked
    BY <1>13, <1>14 DEF InactiveHoldsNoSession, Active
  <2>1. CASE s \in ss
    BY <1>10, <2>1
  <2>2. CASE s \notin ss
    <3>1. sessions'[s] = sessions[s] /\ sessions[s].user \in Users
      BY <1>11, <2>2 DEF Issued, IInv, SessionsOwned, Known
    <3>2. CASE sessions[s].user = u
      BY <1>3, <1>5, <1>7, <1>9, <2>2, <3>1, <3>2
    <3>3. CASE sessions[s].user # u
      BY <1>9, <3>1, <3>3 DEF IInv, InactiveHoldsNoSession, Active
    <3> QED
      BY <3>2, <3>3
  <2> QED
    BY <2>1, <2>2
<1>20. OneAccountPerIdentity'
  <2>1. \A v \in Known : users'[v].subject = users[v].subject /\ users'[v].email = users[v].email
    BY <1>5, <1>9 DEF Known
  <2> QED
    BY <1>12, <2>1 DEF IInv, OneAccountPerIdentity
<1>21. MarksTrue' /\ TokensSpentOnce' /\ LocksOnRows'
  BY <1>2, <1>12, <1>13, <1>14, <1>15
     DEF IInv, MarksTrue, TokensSpentOnce, LocksOnRows, OwnLocks
<1>22. ASSUME NEW d \in Clients, d # c PROVE Respects(d)
  <2>1. d # None
    BY AccountsAssumption
  <2>2. \A v \in Users : userLock[v] = d => userLock'[v] = d /\ users'[v] = users[v]
    BY <1>3, <1>9, <1>15, <1>22, <2>1 DEF OwnLocks
  <2>3. \A s \in Sessions : sessLock[s] = d => sessLock'[s] = d /\ sessions'[s] = sessions[s]
    BY <1>6, <1>11, <1>15, <1>22, <2>1 DEF OwnLocks
  <2>4. \A s \in Issued : sessions'[s] # None
    BY <1>13 DEF Issued
  <2>5. \A s \in Sessions \ Issued : sessions'[s] = None
    BY <1>13 DEF Issued
  <2> QED
    BY <1>2, <1>14, <1>15, <1>22, <2>2, <2>3, <2>4, <2>5 DEF Respects, OwnMove
<1> QED
  BY <1>1, <1>15, <1>16, <1>17, <1>18, <1>19, <1>20, <1>21, <1>22, SoundKept DEF IInv

-----------------------------------------------------------------------------
(* The promotion, time, and the theorems. *)

\* The command line promotes a row that nobody holds.
LEMMA PromoteKeeps ==
  ASSUME IInv, NEW u \in Users, Promote(u)
  PROVE  IInv'
<1> DEFINE row == [users[u] EXCEPT !.role = "ADMIN"]
<1>1. /\ TypeOK /\ users \in [Users -> UserRow \cup {None}] /\ u \in Known /\ userLock[u] = None
      /\ users' = [users EXCEPT ![u] = row]
      /\ UNCHANGED <<sessions, expired, oauth, cache, userLock, sessLock, req, uses>>
  BY DEF IInv, TypeOK, Promote
<1>2. /\ row \in UserRow /\ row # None /\ row.role = "ADMIN" /\ row.status = users[u].status
      /\ row.subject = users[u].subject /\ row.email = users[u].email
  <2>1. users[u] \in UserRow
    BY <1>1 DEF Known
  <2> QED
    BY <2>1, AccountsAssumption DEF UserRow
<1> HIDE DEF row
<1>3. users'[u] = row /\ \A v \in Users \ {u} : users'[v] = users[v]
  BY <1>1
<1>4. Known' = Known /\ Issued' = Issued
  BY <1>1, <1>2, <1>3 DEF Known, Issued
<1>5. TypeOK'
  BY <1>1, <1>2, <1>4 DEF TypeOK
<1>6. AdminRemains'
  <2>1. ActiveAdmins \subseteq ActiveAdmins'
    BY <1>2, <1>3, <1>4 DEF ActiveAdmins, Active, Known
  <2> QED
    BY <2>1 DEF IInv, AdminRemains
<1>7. InactiveHoldsNoSession' /\ SessionsOwned'
  BY <1>1, <1>2, <1>3, <1>4 DEF IInv, InactiveHoldsNoSession, SessionsOwned, Active, Known
<1>8. OneAccountPerIdentity'
  <2>1. \A v \in Known : users'[v].subject = users[v].subject /\ users'[v].email = users[v].email
    BY <1>2, <1>3 DEF Known
  <2> QED
    BY <1>4, <2>1 DEF IInv, OneAccountPerIdentity
<1>9. MarksTrue' /\ TokensSpentOnce' /\ LocksOnRows'
  BY <1>1, <1>4 DEF IInv, MarksTrue, TokensSpentOnce, LocksOnRows
<1>10. ASSUME NEW d \in Clients PROVE Respects(d)
  BY <1>1, <1>3, AccountsAssumption DEF Respects, Issued
<1> QED
  BY <1>1, <1>5, <1>6, <1>7, <1>8, <1>9, <1>10, SoundKept DEF IInv

\* OAuth states, the clock, the end of marks, and steps that change nothing.
LEMMA TimeKeeps ==
  ASSUME IInv, UNCHANGED <<users, sessions, userLock, sessLock, req, uses>>,
         oauth' \in [States -> {"unused", "stored", "consumed"}],
         expired \subseteq expired', expired' \subseteq Issued, cache' \subseteq cache
  PROVE  IInv'
<1>1. TypeOK'
  BY DEF IInv, TypeOK, Issued
<1>2. /\ AdminRemains' /\ InactiveHoldsNoSession' /\ OneAccountPerIdentity'
      /\ SessionsOwned' /\ TokensSpentOnce' /\ LocksOnRows' /\ MarksTrue'
  BY DEF IInv, AdminRemains, InactiveHoldsNoSession, OneAccountPerIdentity, SessionsOwned,
         TokensSpentOnce, ActiveAdmins, Known, Issued, Active, LocksOnRows, MarksTrue
<1>3. ASSUME NEW d \in Clients PROVE Respects(d)
  BY DEF Respects, Issued
<1> QED
  BY <1>1, <1>2, <1>3, SoundKept DEF IInv

\* Every step keeps the inductive invariant.
LEMMA NextKeeps == IInv /\ [Next]_vars => IInv'
<1> SUFFICES ASSUME IInv, [Next]_vars PROVE IInv'
  OBVIOUS
<1>1. /\ oauth \in [States -> {"unused", "stored", "consumed"}]
      /\ expired \subseteq Issued
  BY DEF IInv, TypeOK
<1>2. ASSUME NEW st \in States, BeginGoogleLogin(st) PROVE IInv'
  BY <1>1, <1>2, TimeKeeps DEF BeginGoogleLogin
<1>3. ASSUME NEW s \in Expiring, SessionExpires(s) PROVE IInv'
  BY <1>1, <1>3, TimeKeeps DEF SessionExpires
<1>4. CASE RedisExpires
  <2>1. oauth' \in [States -> {"unused", "stored", "consumed"}] /\ cache' \subseteq cache
    BY <1>1, <1>4 DEF RedisExpires
  <2> QED
    BY <1>1, <1>4, <2>1, TimeKeeps DEF RedisExpires
<1>5. CASE UNCHANGED vars
  BY <1>1, <1>5, TimeKeeps DEF vars
<1>6. ASSUME NEW c \in Clients, Victim(c) PROVE IInv'
  BY <1>6, RetryKeeps, RefusalKeeps DEF Victim
<1>7. ASSUME NEW c \in Clients, LoseIdentityRace(c) PROVE IInv'
  BY <1>7, RetryKeeps DEF LoseIdentityRace
<1>8. ASSUME NEW c \in Clients, Abort(c) PROVE IInv'
  BY <1>8, RefusalKeeps DEF Abort
<1>9. ASSUME NEW c \in Clients, Step(c) PROVE IInv'
  BY <1>6, <1>7, <1>9, ResolveIdentityKeeps, CheckEmailOwnerKeeps, CreateSessionKeeps,
     LockSessionKeeps, RefreshKeeps, IsRevokedKeeps, AuthenticateKeeps, RevokeKeeps,
     MarkRevokedKeeps, LockTargetKeeps, LockActiveAdminsKeeps, LockTargetSessionsKeeps,
     SaveStatusKeeps DEF Step
<1> QED
  BY <1>2, <1>3, <1>4, <1>5, <1>8, <1>9, CompleteGoogleLoginKeeps, BeginRequestKeeps,
     BeginRefreshKeeps, PromoteKeeps DEF Next

LEMMA InitKeeps == Init => IInv
<1> SUFFICES ASSUME Init PROVE IInv
  OBVIOUS
<1>1. Idle \in Request /\ Idle.op = "idle" /\ Known = {u \in Users : Seed[u] # None} /\ Issued = {}
  BY DEF Init, Request, Idle, Known, Issued
<1>2. TypeOK
  BY <1>1, AccountsAssumption DEF Init, TypeOK, Request
<1>3. AdminRemains /\ OneAccountPerIdentity
  BY <1>1, AccountsAssumption DEF Init, AdminRemains, ActiveAdmins, Active, OneAccountPerIdentity
<1>4. InactiveHoldsNoSession /\ SessionsOwned /\ MarksTrue /\ LocksOnRows
  BY <1>1 DEF Init, InactiveHoldsNoSession, SessionsOwned, MarksTrue, LocksOnRows
<1>5. TokensSpentOnce
  BY DEF Init, TokensSpentOnce
<1>6. ASSUME NEW c \in Clients PROVE ReqSound(c)
  <2>1. req[c] = Idle
    BY DEF Init
  <2> QED
    BY <1>1, <2>1 DEF ReqSound, LoginSound, RotationSound, BearerSound, StatusSound, RevokingSound
<1> QED
  BY <1>2, <1>3, <1>4, <1>5, <1>6 DEF IInv

\* The inductive invariant holds in every reachable state.
LEMMA Inductive == Spec => []IInv
BY InitKeeps, NextKeeps, PTL DEF Spec

\* Rows, locks and requests are well formed, and a sign-in makes at most three attempts
\* (MAX_IDENTITY_TRANSACTION_ATTEMPTS).
THEOREM TypeCorrect == Spec => []TypeOK
<1>1. IInv => TypeOK
  BY DEF IInv
<1> QED
  BY <1>1, Inductive, PTL

\* updateStatus never deactivates the last active admin, however many run at once.
THEOREM AdminAlwaysRemains == Spec => []AdminRemains
<1>1. IInv => AdminRemains
  BY DEF IInv
<1> QED
  BY <1>1, Inductive, PTL

\* A user that updateStatus deactivated holds no session that is not revoked, whatever
\* sign-ins and refreshes it raced with.
THEOREM InactiveNeverHoldsSession == Spec => []InactiveHoldsNoSession
<1>1. IInv => InactiveHoldsNoSession
  BY DEF IInv
<1> QED
  BY <1>1, Inductive, PTL

\* A mark in Redis tells the truth, and a request whose session was over when it arrived
\* is served by no handler (authenticateAccessToken asks MySQL).
THEOREM RevocationAlwaysSeen == Spec => []RevocationSeen
<1>1. IInv => RevocationSeen
  <2> SUFFICES ASSUME IInv PROVE RevocationSeen
    OBVIOUS
  <2>1. CacheTellsTruth
    BY DEF IInv, MarksTrue, CacheTellsTruth
  <2>2. ASSUME NEW c \in Clients, req[c].pc \in {"logout", "target", "admins", "sessions", "save"}
        PROVE  ~req[c].stale
    <3>1. TypeOK /\ BearerSound(c) /\ StatusSound(c)
      BY DEF IInv, ReqSound
    <3>2. CASE req[c].pc = "logout"
      <4>1. req[c] \in Bearer
        BY <3>1, <3>2, Shapes
      <4>2. req[c].op = "bearer" /\ req[c].stale \in BOOLEAN
        BY <4>1 DEF Bearer
      <4>3. req[c].stale # TRUE
        BY <3>1, <3>2, <4>2 DEF BearerSound
      <4> QED
        BY <4>2, <4>3
    <3>3. CASE req[c].pc # "logout"
      <4>1. req[c] \in Status
        BY <2>2, <3>1, <3>3, Shapes
      <4>2. req[c].op = "status"
        BY <4>1 DEF Status
      <4> QED
        BY <3>1, <4>2 DEF StatusSound
    <3> QED
      BY <3>2, <3>3
  <2> QED
    BY <2>1, <2>2 DEF RevocationSeen, OverIsNotServed
<1> QED
  BY <1>1, Inductive, PTL

\* Concurrent first sign-ins, and sign-ins whose address changed, leave one account per
\* Google subject and per address.
THEOREM AccountsStayDistinct == Spec => []OneAccountPerIdentity
<1>1. IInv => OneAccountPerIdentity
  BY DEF IInv
<1> QED
  BY <1>1, Inductive, PTL

\* No step writes a revoked session, and no refresh token is accepted twice.
THEOREM SessionsMoveForward == Spec => SessionMovesForward
<1> DEFINE A == \A s \in Issued :
                  /\ sessions[s].revoked => sessions'[s] = sessions[s]
                  /\ \A t \in 0..MaxRotations : uses'[s][t] <= 1
<1>1. IInv /\ IInv' /\ [Next]_vars => [A]_vars
  <2> SUFFICES ASSUME IInv, IInv', Next, NEW s \in Issued
               PROVE  /\ sessions[s].revoked => sessions'[s] = sessions[s]
                      /\ \A t \in 0..MaxRotations : uses'[s][t] <= 1
    OBVIOUS
  <2>1. \A t \in 0..MaxRotations : uses'[s][t] <= 1
    BY DEF IInv, TokensSpentOnce, Issued
  <2>2. ASSUME sessions[s].revoked PROVE sessions'[s] = sessions[s]
    <3>1. /\ s \in Sessions /\ sessions[s] # None /\ sessions[s] \in SessionRow
          /\ sessions \in [Sessions -> SessionRow \cup {None}]
      BY DEF IInv, TypeOK, Issued
    <3>2. sessions[s].revoked = TRUE
      <4>1. sessions[s].revoked \in BOOLEAN
        BY <3>1 DEF SessionRow
      <4> QED
        BY <2>2, <4>1
    <3>3. CASE UNCHANGED sessions
      BY <3>3
    <3>4. ASSUME NEW c \in Clients, CreateSession(c) PROVE sessions'[s] = sessions[s]
      BY <3>1, <3>4 DEF CreateSession, Issued
    <3>5. ASSUME NEW c \in Clients, Refresh(c) PROVE sessions'[s] = sessions[s]
      <4>1. TypeOK /\ RotationSound(c) /\ req[c] \in Rotation /\ req[c].pc = "user"
        BY <3>5, Shapes DEF IInv, Refresh, ReqSound
      <4>2. req[c].row = sessions[req[c].session]
        BY <4>1 DEF RotationSound, Rotation
      <4>3. CASE req[c].session = s
        BY <2>2, <3>5, <4>2, <4>3 DEF Refresh, Rotate
      <4>4. CASE req[c].session # s
        BY <3>1, <3>5, <4>4 DEF Refresh, Rotate, SaveSession
      <4> QED
        BY <4>3, <4>4
    <3>6. ASSUME NEW c \in Clients, Revoke(c) PROVE sessions'[s] = sessions[s]
      <4>1. sessions' = [sessions EXCEPT ![req[c].session] =
                           [sessions[req[c].session] EXCEPT !.revoked = TRUE]]
        BY <3>6 DEF Revoke, SaveSession
      <4>2. [sessions[s] EXCEPT !.revoked = TRUE] = sessions[s]
        BY <3>1, <3>2 DEF SessionRow
      <4> QED
        BY <3>1, <4>1, <4>2
    <3>7. ASSUME NEW c \in Clients, SaveStatus(c) PROVE sessions'[s] = sessions[s]
      BY <2>2, <3>1, <3>7 DEF SaveStatus, SessionsOf
    <3>8. ASSUME NEW c \in Clients, Step(c) PROVE sessions'[s] = sessions[s]
      BY <3>3, <3>4, <3>5, <3>6, <3>7, <3>8
         DEF Step, ResolveIdentity, CheckEmailOwner, LoseIdentityRace, LockSession, IsRevoked,
             AuthenticateAccessToken, MarkRevoked, LockTarget, LockActiveAdmins,
             LockTargetSessions, Victim
    <3> QED
      BY <3>3, <3>8 DEF Next, BeginGoogleLogin, CompleteGoogleLogin, BeginRequest, BeginRefresh,
                        Abort, Promote, SessionExpires, RedisExpires
  <2> QED
    BY <2>1, <2>2
<1>2. Spec => [][A]_vars
  BY <1>1, Inductive, PTL DEF Spec
<1> QED
  BY <1>2 DEF SessionMovesForward
=============================================================================
