------------------------------ MODULE Accounts ------------------------------
(***************************************************************************)
(* Accounts and sessions: sign-in with a Google identity, rotation of the  *)
(* refresh token, authentication of a bearer request against the revocation*)
(* cache and MySQL, logout, activation and deactivation of a user by an    *)
(* admin, and the CLI promotion to admin.  Requests run concurrently in    *)
(* transactions that take row locks on users and sessions; InnoDB rolls one*)
(* member of a wait cycle back.  The writes of a transaction become visible*)
(* with its commit, so they are made in its last step.                     *)
(*                                                                         *)
(* A refresh token is its rotation number within its session, which is what*)
(* its hash tells apart.  The cache is the set of sessions marked revoked  *)
(* in Redis: a mark may be lost, and it goes when its TTL ends.            *)
(***************************************************************************)
EXTENDS Integers, FiniteSets

CONSTANTS Clients,      \* concurrent requests
          Users,        \* ids a user row can have
          Sessions,     \* ids a session row can have, in the order they are drawn
          States,       \* OAuth states
          Claims,       \* <<subject, email>> pairs Google vouches for
          Seed,         \* the user rows the system starts with
          Expiring,     \* the sessions whose lifetime may end
          MaxRotations, \* bound on the rotations of one session
          None

VARIABLES users,     \* the users table with the identity of each user
          sessions,  \* the auth_sessions table
          oauth,     \* the OAuth transactions in Redis
          expired,   \* the sessions past their refreshExpiresAt
          cache,     \* the sessions marked revoked in Redis
          userLock,  \* the transaction that holds a user row
          sessLock,  \* the transaction that holds a session row
          req,       \* what each request is doing
          uses       \* how often each refresh token was accepted
vars == <<users, sessions, expired, oauth, cache, userLock, sessLock, req, uses>>

MaxIdentityAttempts == 3

Subjects == {k[1] : k \in Claims} \cup {Seed[u].subject : u \in {v \in Users : Seed[v] # None}}
Emails   == {k[2] : k \in Claims} \cup {Seed[u].email : u \in {v \in Users : Seed[v] # None}}

UserRow    == [subject : Subjects, email : Emails, role : {"USER", "ADMIN"},
               status : {"ACTIVE", "INACTIVE"}]
SessionRow == [user : Users, token : 0..MaxRotations, revoked : BOOLEAN]

\* The seed is a users table with an active admin, one row per subject and address.
ASSUME AccountsAssumption ==
  /\ MaxRotations \in Nat
  /\ Sessions \subseteq Nat /\ Expiring \subseteq Sessions
  /\ None \notin Users \cup Clients \cup UserRow \cup SessionRow
  /\ Seed \in [Users -> UserRow \cup {None}]
  /\ \A u, v \in {w \in Users : Seed[w] # None} :
       u # v => Seed[u].subject # Seed[v].subject /\ Seed[u].email # Seed[v].email
  /\ \E u \in Users : Seed[u] # None /\ Seed[u].role = "ADMIN" /\ Seed[u].status = "ACTIVE"

\* What a request keeps while it runs: one shape per operation.
Idle     == [op |-> "idle", pc |-> "idle"]
Login    == [op : {"login"}, pc : {"identity", "email", "commit"}, subject : Subjects,
             email : Emails, user : Users \cup {None}, attempt : 1..MaxIdentityAttempts]
Rotation == [op : {"refresh"}, pc : {"session", "user"}, session : Sessions,
             token : 0..MaxRotations, row : SessionRow \cup {None}]
Bearer   == [op : {"bearer"}, pc : {"cache", "database", "logout"}, session : Sessions,
             stale : BOOLEAN]
Status   == [op : {"status"}, pc : {"target", "admins", "sessions", "save"}, actor : Users,
             target : Users, status : {"ACTIVE", "INACTIVE"}, stale : BOOLEAN]
Revoking == [op : {"revoking"}, pc : {"mark"}, marks : SUBSET Sessions]

Known  == {u \in Users : users[u] # None}
Issued == {s \in Sessions : sessions[s] # None}
Active(u) == users[u].status = "ACTIVE"
ActiveAdmins == {u \in Known : users[u].role = "ADMIN" /\ Active(u)}
OwnerOf(email) == {u \in Known : users[u].email = email}
HolderOf(subject) == {u \in Known : users[u].subject = subject}
SessionsOf(u) == {s \in Issued : sessions[s].user = u /\ ~sessions[s].revoked}
Live(s) == ~sessions[s].revoked /\ s \notin expired /\ Active(sessions[s].user)

Init ==
  /\ users = Seed
  /\ sessions = [s \in Sessions |-> None]
  /\ expired = {}
  /\ oauth = [st \in States |-> "unused"]
  /\ cache = {}
  /\ userLock = [u \in Users |-> None]
  /\ sessLock = [s \in Sessions |-> None]
  /\ req = [c \in Clients |-> Idle]
  /\ uses = [s \in Sessions |-> [t \in 0..MaxRotations |-> 0]]

-----------------------------------------------------------------------------
(* Locks, and the steps every transaction shares. *)

CanLockUser(c, u) == userLock[u] \in {None, c}
CanLockSession(c, s) == sessLock[s] \in {None, c}
TakeUser(c, u) == userLock' = [userLock EXCEPT ![u] = c]
TakeSession(c, s) == sessLock' = [sessLock EXCEPT ![s] = c]
Release(c) ==
  /\ userLock' = [u \in Users |-> IF userLock[u] = c THEN None ELSE userLock[u]]
  /\ sessLock' = [s \in Sessions |-> IF sessLock[s] = c THEN None ELSE sessLock[s]]

Goto(c, pc) == req' = [req EXCEPT ![c].pc = pc]
\* The transaction ends and the request with it: committed, refused or rolled back.
Finish(c) == req' = [req EXCEPT ![c] = Idle] /\ Release(c)
\* The transaction revoked the sessions ss: the request goes on to mark them.
FinishRevoking(c, ss) ==
  /\ req' = [req EXCEPT ![c] = IF ss = {} THEN Idle ELSE [op |-> "revoking", pc |-> "mark", marks |-> ss]]
  /\ Release(c)

\* The rows a request waits for.
AdminsToLock(c) == {u \in ActiveAdmins : userLock[u] # c}
SessionsToLock(c) == {s \in SessionsOf(req[c].target) : sessLock[s] # c}
NeedsUser(c) ==
  CASE req[c].pc = "identity" -> HolderOf(req[c].subject)
    [] req[c].pc = "email"    -> OwnerOf(req[c].email)
    [] req[c].pc = "user"     -> {sessions[req[c].session].user}
    [] req[c].pc = "target"   -> {req[c].target}
    [] req[c].pc = "admins"   -> AdminsToLock(c)
    [] OTHER -> {}
NeedsSession(c) ==
  CASE req[c].pc \in {"session", "logout"} -> {req[c].session}
    [] req[c].pc = "sessions"              -> SessionsToLock(c)
    [] OTHER -> {}
WaitsFor(c) == ({userLock[u] : u \in NeedsUser(c)} \cup {sessLock[s] : s \in NeedsSession(c)})
               \ {None, c}
Deadlocked(c) ==
  \E ring \in SUBSET Clients :
    /\ \A d \in ring : WaitsFor(d) \cap ring # {}
    /\ \E d \in ring : c \in ring \cap WaitsFor(d)

-----------------------------------------------------------------------------
(* Sign-in. *)

BeginGoogleLogin(st) ==
  /\ oauth[st] = "unused"
  /\ oauth' = [oauth EXCEPT ![st] = "stored"]
  /\ UNCHANGED <<users, sessions, expired, cache, userLock, sessLock, req, uses>>

\* The callback consumes the state first; the code exchange may then fail.
ConsumeOAuthTransaction(st) == oauth' = [oauth EXCEPT ![st] = "consumed"]

CompleteGoogleLogin(c, st, claim) ==
  /\ req[c] = Idle
  /\ oauth[st] = "stored"
  /\ ConsumeOAuthTransaction(st)
  /\ \/ req' = [req EXCEPT ![c] = [op |-> "login", pc |-> "identity", subject |-> claim[1],
                                   email |-> claim[2], user |-> None, attempt |-> 1]]
     \/ UNCHANGED req
  /\ UNCHANGED <<users, sessions, expired, cache, userLock, sessLock, uses>>

\* A mutant's lookup: the row is read and checked, and no lock is kept.
ResolveIdentity_Unlocked(c) ==
  /\ req[c].pc = "identity"
  /\ LET found == HolderOf(req[c].subject) IN
     \/ found = {} /\ Goto(c, "email")
     \/ \E u \in found : Active(u) /\ req' = [req EXCEPT ![c].user = u, ![c].pc = "commit"]
  /\ UNCHANGED <<users, sessions, expired, oauth, cache, userLock, sessLock, uses>>

\* The locking read of the identity joined with its user.
ResolveIdentity(c) ==
  /\ req[c].pc = "identity"
  /\ LET found == HolderOf(req[c].subject) IN
     \/ /\ found = {}
        /\ Goto(c, "email")
        /\ UNCHANGED <<userLock, sessLock>>
     \/ \E u \in found :
        /\ CanLockUser(c, u)
        /\ \/ ~Active(u) /\ Finish(c)
           \/ /\ Active(u)
              /\ TakeUser(c, u)
              /\ req' = [req EXCEPT ![c].user = u, ![c].pc =
                           IF users[u].email = req[c].email THEN "commit" ELSE "email"]
              /\ UNCHANGED sessLock
  /\ UNCHANGED <<users, sessions, expired, oauth, cache, uses>>

\* The shared-lock read of the owner of the claimed e-mail address.
CheckEmailOwner(c) ==
  /\ req[c].pc = "email"
  /\ LET owners == OwnerOf(req[c].email) IN
     \/ owners = {} /\ Goto(c, "commit") /\ UNCHANGED <<userLock, sessLock>>
     \/ \E u \in owners : CanLockUser(c, u) /\ Finish(c)
  /\ UNCHANGED <<users, sessions, expired, oauth, cache, uses>>

\* Mutant: the e-mail has no unique key, only the read before.
Unclaimed_SubjectOnly(c) == HolderOf(req[c].subject) \subseteq {req[c].user}

\* The unique keys on the e-mail and on the provider's subject.
Unclaimed(c) ==
  /\ OwnerOf(req[c].email) \subseteq {req[c].user}
  /\ HolderOf(req[c].subject) \subseteq {req[c].user}
\* Two sign-ins hold the same gap, so that neither can insert.
SharesGap(c) ==
  \E d \in Clients \ {c} :
    /\ req[d].op = "login" /\ req[d].pc = "commit" /\ req[d].user = None
    /\ req[d].subject = req[c].subject \/ req[d].email = req[c].email

\* The row of the account that signs in: inserted, or with the claimed address.
SignedIn(c, u) ==
  IF req[c].user = None
  THEN [subject |-> req[c].subject, email |-> req[c].email, role |-> "USER", status |-> "ACTIVE"]
  ELSE [users[u] EXCEPT !.email = req[c].email]

\* createWithManager: the user row, if new or renamed, and its session are committed.
CreateSession(c) ==
  /\ req[c].op = "login" /\ req[c].pc = "commit"
  /\ Unclaimed(c)
  /\ \E s \in Sessions \ Issued, u \in IF req[c].user = None THEN Users \ Known ELSE {req[c].user} :
       /\ \A r \in Sessions \ Issued : s <= r
       /\ users' = [users EXCEPT ![u] = SignedIn(c, u)]
       /\ sessions' = [sessions EXCEPT ![s] =
            [user |-> u, token |-> 0, revoked |-> FALSE]]
  /\ Finish(c)
  /\ UNCHANGED <<expired, oauth, cache, uses>>

RetryIdentity_OneMore(c) ==
  /\ IF req[c].attempt <= MaxIdentityAttempts
     THEN req' = [req EXCEPT ![c].pc = "identity", ![c].user = None, ![c].attempt = @ + 1]
     ELSE req' = [req EXCEPT ![c] = Idle]
  /\ Release(c)

\* A duplicate key or a deadlock: the sign-in starts over, three times at most.
RetryIdentity(c) ==
  /\ IF req[c].attempt < MaxIdentityAttempts
     THEN req' = [req EXCEPT ![c].pc = "identity", ![c].user = None, ![c].attempt = @ + 1]
     ELSE req' = [req EXCEPT ![c] = Idle]
  /\ Release(c)

LoseIdentityRace(c) ==
  /\ req[c].op = "login" /\ req[c].pc = "commit"
  /\ ~Unclaimed(c) \/ (req[c].user = None /\ SharesGap(c))
  /\ RetryIdentity(c)
  /\ UNCHANGED <<users, sessions, expired, oauth, cache, uses>>

-----------------------------------------------------------------------------
(* Rotation of the refresh token. *)

\* Any token of the session may come back: the current one, or one already spent.
BeginRefresh(c, s, t) ==
  /\ req[c] = Idle
  /\ s \in Issued /\ t <= sessions[s].token /\ t < MaxRotations
  /\ req' = [req EXCEPT ![c] = [op |-> "refresh", pc |-> "session", session |-> s,
                                token |-> t, row |-> None]]
  /\ UNCHANGED <<users, sessions, expired, oauth, cache, userLock, sessLock, uses>>

\* Mutant: the row is read without a lock.
LockSession_Plain(c) ==
  /\ req[c].op = "refresh" /\ req[c].pc = "session"
  /\ req' = [req EXCEPT ![c].pc = "user", ![c].row = sessions[req[c].session]]
  /\ UNCHANGED <<users, sessions, expired, oauth, cache, userLock, sessLock, uses>>

\* The joined locking read: the session row, then its user.
LockSession(c) ==
  /\ req[c].op = "refresh" /\ req[c].pc = "session"
  /\ CanLockSession(c, req[c].session)
  /\ TakeSession(c, req[c].session)
  /\ req' = [req EXCEPT ![c].pc = "user", ![c].row = sessions[req[c].session]]
  /\ UNCHANGED <<users, sessions, expired, oauth, cache, userLock, uses>>

\* constantTimeHashMatches: the row keeps a hash of the newest token alone.
Matches(row, t) == row.token = t

SaveSession(s, row) == sessions' = [sessions EXCEPT ![s] = row]

\* What the refresh decides from the rows it holds.
Rotate(c) ==
  LET s   == req[c].session
      row == req[c].row
      over == row.revoked \/ s \in expired
  IN \/ /\ over
        /\ Finish(c)
        /\ UNCHANGED <<sessions, uses>>
     \/ /\ ~over
        /\ ~Matches(row, req[c].token) \/ ~Active(row.user)
        /\ SaveSession(s, [row EXCEPT !.revoked = TRUE])
        /\ FinishRevoking(c, {s})
        /\ UNCHANGED uses
     \/ /\ ~over /\ Matches(row, req[c].token) /\ Active(row.user)
        /\ SaveSession(s, [row EXCEPT !.token = @ + 1])
        /\ uses' = [uses EXCEPT ![s][req[c].token] = @ + 1]
        /\ Finish(c)

Refresh(c) ==
  /\ req[c].pc = "user"
  /\ CanLockUser(c, req[c].row.user)
  /\ Rotate(c)
  /\ UNCHANGED <<users, expired, oauth, cache>>

-----------------------------------------------------------------------------
(* Bearer requests. *)

\* verify: the signature stands for a session that was issued, and says no more.
Verified(s) == s \in Issued

\* stale: the session was already over when the request arrived.
BeginRequest(c, s) ==
  /\ req[c] = Idle
  /\ Verified(s)
  /\ req' = [req EXCEPT ![c] = [op |-> "bearer", pc |-> "cache", session |-> s, stale |-> ~Live(s)]]
  /\ UNCHANGED <<users, sessions, expired, oauth, cache, userLock, sessLock, uses>>

\* isRevoked: a mark refuses the request; no mark, or no answer, decides nothing.
IsRevoked(c) ==
  /\ req[c].pc = "cache"
  /\ \/ req[c].session \in cache /\ Finish(c)
     \/ Goto(c, "database") /\ UNCHANGED <<userLock, sessLock>>
  /\ UNCHANGED <<users, sessions, expired, oauth, cache, uses>>

\* Mutant: the mark alone decides.
Accepted_ByCache(c) == req[c].session \notin cache

\* The guards: MySQL decides, and the role is the one the user has now.
Accepted(c) == Live(req[c].session)
\* RolesGuard: the role read with the session, not the one in the token.
MayAdminister(u) == users[u].role = "ADMIN"

AuthenticateAccessToken(c) ==
  /\ req[c].pc = "database"
  /\ LET actor == sessions[req[c].session].user IN
     \/ ~Accepted(c) /\ Finish(c)
     \/ /\ Accepted(c)
        /\ \/ Goto(c, "logout")
           \/ /\ MayAdminister(actor)
              /\ \E u \in Users, st \in {"ACTIVE", "INACTIVE"} :
                   req' = [req EXCEPT ![c] = [op |-> "status", pc |-> "target", actor |-> actor,
                                              target |-> u, status |-> st, stale |-> req[c].stale]]
        /\ UNCHANGED <<userLock, sessLock>>
  /\ UNCHANGED <<users, sessions, expired, oauth, cache, uses>>

Revoke(c) ==
  /\ req[c].pc = "logout"
  /\ CanLockSession(c, req[c].session)
  /\ SaveSession(req[c].session, [sessions[req[c].session] EXCEPT !.revoked = TRUE])
  /\ FinishRevoking(c, {req[c].session})
  /\ UNCHANGED <<users, expired, oauth, cache, uses>>

\* Best effort: an outage, or the end of the process, loses any of the marks.
MarkRevoked(c) ==
  /\ req[c].pc = "mark"
  /\ \E ss \in SUBSET req[c].marks : cache' = cache \cup ss
  /\ Finish(c)
  /\ UNCHANGED <<users, sessions, expired, oauth, uses>>

-----------------------------------------------------------------------------
(* updateStatus: the target row, every active admin, the target's sessions. *)

\* The target exists, has the other status, and is not the actor deactivating itself.
ChangesStatus(c) ==
  LET u == req[c].target IN
    /\ u \in Known
    /\ users[u].status # req[c].status
    /\ req[c].status = "INACTIVE" => u # req[c].actor

\* Refusals and the no-op are settled with the target row locked.
LockTarget(c) ==
  /\ req[c].pc = "target"
  /\ CanLockUser(c, req[c].target)
  /\ \/ ~ChangesStatus(c) /\ Finish(c)
     \/ /\ ChangesStatus(c)
        /\ TakeUser(c, req[c].target)
        /\ Goto(c, CASE req[c].status = "ACTIVE"               -> "save"
                     [] users[req[c].target].role = "ADMIN"   -> "admins"
                     [] OTHER                                 -> "sessions")
        /\ UNCHANGED sessLock
  /\ UNCHANGED <<users, sessions, expired, oauth, cache, uses>>

\* The count is taken from an ordinary read.
LockActiveAdmins_Plain(c) ==
  /\ req[c].pc = "admins"
  /\ \/ Cardinality(ActiveAdmins) <= 1 /\ Finish(c)
     \/ Cardinality(ActiveAdmins) > 1 /\ Goto(c, "sessions") /\ UNCHANGED <<userLock, sessLock>>
  /\ UNCHANGED <<users, sessions, expired, oauth, cache, uses>>

\* The scan locks the active admins one row after the other, then counts them.
LockActiveAdmins(c) ==
  /\ req[c].pc = "admins"
  /\ \/ /\ AdminsToLock(c) = {}
        /\ \/ Cardinality(ActiveAdmins) <= 1 /\ Finish(c)
           \/ /\ Cardinality(ActiveAdmins) > 1
              /\ Goto(c, "sessions")
              /\ UNCHANGED <<userLock, sessLock>>
     \/ \E u \in AdminsToLock(c) :
        /\ CanLockUser(c, u)
        /\ TakeUser(c, u)
        /\ UNCHANGED <<req, sessLock>>
  /\ UNCHANGED <<users, sessions, expired, oauth, cache, uses>>

\* Each session is marked as soon as it is locked.
LockTargetSessions_MarkEarly(c) ==
  /\ req[c].pc = "sessions"
  /\ \/ SessionsToLock(c) = {} /\ Goto(c, "save") /\ UNCHANGED <<sessLock, cache>>
     \/ \E s \in SessionsToLock(c) :
        /\ CanLockSession(c, s)
        /\ TakeSession(c, s)
        /\ cache' = cache \cup {s}
        /\ UNCHANGED req
  /\ UNCHANGED <<users, sessions, expired, oauth, userLock, uses>>

LockTargetSessions(c) ==
  /\ req[c].pc = "sessions"
  /\ \/ SessionsToLock(c) = {} /\ Goto(c, "save") /\ UNCHANGED sessLock
     \/ \E s \in SessionsToLock(c) :
        /\ CanLockSession(c, s)
        /\ TakeSession(c, s)
        /\ UNCHANGED req
  /\ UNCHANGED <<users, sessions, expired, oauth, cache, userLock, uses>>

\* The commit: status, history row and revocations together.
SaveStatus(c) ==
  /\ req[c].pc = "save"
  /\ LET u  == req[c].target
         ss == IF req[c].status = "INACTIVE" THEN SessionsOf(u) ELSE {}
     IN /\ users' = [users EXCEPT ![u].status = req[c].status]
        /\ sessions' = [s \in Sessions |->
                          IF s \in ss THEN [sessions[s] EXCEPT !.revoked = TRUE] ELSE sessions[s]]
        /\ FinishRevoking(c, ss)
  /\ UNCHANGED <<expired, oauth, cache, uses>>

-----------------------------------------------------------------------------
(* The promotion from the command line, faults and time. *)

Promote(u) ==
  /\ u \in Known /\ userLock[u] = None
  /\ Active(u) /\ users[u].role = "USER"
  /\ users' = [users EXCEPT ![u].role = "ADMIN"]
  /\ UNCHANGED <<sessions, expired, oauth, cache, userLock, sessLock, req, uses>>

\* Two deactivations may wait for each other's admin, and updateStatus locks user before
\* session, refresh session before user: InnoDB rolls a member of such a wait cycle back.
\* Only sign-in tries again.
Victim(c) ==
  /\ Deadlocked(c)
  /\ \/ req[c].op = "login" /\ RetryIdentity(c)
     \/ req[c].op # "login" /\ Finish(c)
  /\ UNCHANGED <<users, sessions, expired, oauth, cache, uses>>

\* The process or its database connection goes away.
Abort(c) ==
  /\ req[c] # Idle
  /\ Finish(c)
  /\ UNCHANGED <<users, sessions, expired, oauth, cache, uses>>

SessionExpires(s) ==
  /\ s \in Issued \ expired
  /\ expired' = expired \cup {s}
  /\ UNCHANGED <<users, sessions, oauth, cache, userLock, sessLock, req, uses>>

RedisExpires ==
  /\ \/ \E s \in cache : cache' = cache \ {s} /\ UNCHANGED oauth
     \/ \E st \in States : /\ oauth[st] = "stored"
                           /\ oauth' = [oauth EXCEPT ![st] = "consumed"]
                           /\ UNCHANGED cache
  /\ UNCHANGED <<users, sessions, expired, userLock, sessLock, req, uses>>

\* The steps of a request that its process takes by itself.
Step(c) ==
  \/ ResolveIdentity(c) \/ CheckEmailOwner(c) \/ CreateSession(c) \/ LoseIdentityRace(c)
  \/ LockSession(c) \/ Refresh(c)
  \/ IsRevoked(c) \/ AuthenticateAccessToken(c) \/ Revoke(c) \/ MarkRevoked(c)
  \/ LockTarget(c) \/ LockActiveAdmins(c) \/ LockTargetSessions(c) \/ SaveStatus(c)
  \/ Victim(c)

Next ==
  \/ \E st \in States : BeginGoogleLogin(st)
  \/ \E c \in Clients, st \in States, claim \in Claims : CompleteGoogleLogin(c, st, claim)
  \/ \E c \in Clients, s \in Sessions : BeginRequest(c, s)
  \/ \E c \in Clients, s \in Sessions, t \in 0..MaxRotations : BeginRefresh(c, s, t)
  \/ \E c \in Clients : Step(c) \/ Abort(c)
  \/ \E u \in Users : Promote(u)
  \/ \E s \in Expiring : SessionExpires(s)
  \/ RedisExpires

Spec == Init /\ [][Next]_vars

-----------------------------------------------------------------------------
(* Properties. *)

\* Types: rows, locks and requests hold what their columns and code allow, and a
\* sign-in makes at most three attempts.
TypeOK ==
  /\ users \in [Users -> UserRow \cup {None}]
  /\ sessions \in [Sessions -> SessionRow \cup {None}]
  /\ expired \subseteq Issued
  /\ oauth \in [States -> {"unused", "stored", "consumed"}]
  /\ cache \subseteq Sessions
  /\ userLock \in [Users -> Clients \cup {None}]
  /\ sessLock \in [Sessions -> Clients \cup {None}]
  /\ req \in [Clients -> {Idle} \cup Login \cup Rotation \cup Bearer \cup Status \cup Revoking]
  /\ uses \in [Sessions -> [0..MaxRotations -> Nat]]

\* However deactivations interleave (two admins deactivating each other included),
\* an active admin is left: updateStatus counts them under their row locks.
AdminRemains == ActiveAdmins # {}

\* A deactivated user holds no session that is not revoked, also when a sign-in or a
\* refresh runs while updateStatus commits.
InactiveHoldsNoSession ==
  \A s \in Issued : ~Active(sessions[s].user) => sessions[s].revoked

\* Redis never says of a session that it is revoked when MySQL does not: a mark is
\* written after the commit, so a rolled back deactivation leaves none.
CacheTellsTruth == \A s \in cache : sessions[s].revoked

\* A request that arrives with a session that is over (revoked, expired, or its user
\* deactivated) is never served, whatever marks were lost or have expired.
OverIsNotServed ==
  \A c \in Clients : req[c].pc \in {"logout", "target", "admins", "sessions", "save"} => ~req[c].stale

\* What a revocation promises: no false mark, and nobody served afterwards.
RevocationSeen == CacheTellsTruth /\ OverIsNotServed

\* One account per Google subject and per e-mail address, whichever of several
\* first sign-ins wins.
OneAccountPerIdentity ==
  \A u, v \in Known : u # v => users[u].subject # users[v].subject /\ users[u].email # users[v].email

\* A session moves forward only: however refreshes, logouts and deactivations overlap,
\* a token is accepted once, and a revoked session is never written back by a refresh
\* that read it before.
SessionMovesForward ==
  [][\A s \in Issued :
       /\ sessions[s].revoked => sessions'[s] = sessions[s]
       /\ \A t \in 0..MaxRotations : uses'[s][t] <= 1]_vars
=============================================================================
