---------------------------- MODULE Attachments ----------------------------
(***************************************************************************)
(* Room images (files/attachments.service.ts, files/attachment-metadata.ts,*)
(* rooms/room-images.service.ts, rooms/rooms.service.ts delete): uploads   *)
(* under a safeguard, replacement, detachment, reordering and room         *)
(* deletion, beside the cleanup runners of StorageCleanup.                 *)
(*                                                                         *)
(* A transaction is a step: every writer of attachments holds the room's   *)
(* row lock.  An upload's key is a fresh UUID and names its attachment.    *)
(***************************************************************************)
EXTENDS StorageCleanup, Functions

CONSTANTS
  Rooms,
  Clients,       \* requests in progress
  MaxAlbum,      \* roomImage.maxAlbumCount
  Offset         \* positionRewriteOffset

ASSUME AttachmentsAssumption ==
  MaxAlbum \in Nat \ {0} /\ Offset \in Nat /\ MaxAlbum <= Offset

Associations == {"THUMBNAIL", "ALBUM"}
\* createAttachmentPolicies: a thumbnail replaces, an album is bounded.
MaxCount(a) == IF a = "THUMBNAIL" THEN 1 ELSE MaxAlbum

Row == [live : BOOLEAN, room : Rooms \cup {None}, assoc : Associations, position : Nat]
NoRow == [live |-> FALSE, room |-> None, assoc |-> "ALBUM", position |-> 0]
Client == [pc : {"idle", "stage", "put", "complete", "remove", "forget"},
           key : Keys \cup {None}, room : Rooms \cup {None}, assoc : Associations]
Waiting == [pc |-> "idle", key |-> None, room |-> None, assoc |-> "ALBUM"]

VARIABLES
  rooms,    \* rooms that exist
  row,      \* attachments, by object key
  client,   \* client -> its request
  used,     \* keys generated so far
  stalled   \* keys whose grace ended with the object still to be written

attachmentVars == <<rooms, row, client, used, stalled>>
vars == <<cleanupVars, attachmentVars>>

\* findTargetAttachments.
Target(r, a) == {k \in Keys : row[k].live /\ row[k].room = r /\ row[k].assoc = a}

ToStep(c, pc) == client' = [client EXCEPT ![c].pc = pc]
Ends(c) == client' = [client EXCEPT ![c] = Waiting]
\* The request goes on to the best-effort deletion of a detached object.
Removes(c, k) == client' = [client EXCEPT ![c] = [Waiting EXCEPT !.pc = "remove", !.key = k]]

(***************************************************************************)
(* Upload.                                                                 *)
(***************************************************************************)
\* buildAttachmentObjectKey: a key nobody has had.
Fresh == Keys \ used

\* upload: policy and content are accepted, the room is seen without a lock.
BeginUpload(c) ==
  \E r \in rooms, a \in Associations, k \in Fresh :
    /\ client[c].pc = "idle"
    /\ used' = used \cup {k}
    /\ client' = [client EXCEPT ![c] = [pc |-> "stage", key |-> k, room |-> r, assoc |-> a]]
    /\ UNCHANGED <<cleanupVars, rooms, row, stalled>>

Safeguarded(t) == Insert(t, "UPLOAD_SAFEGUARD", FALSE)
Detached(t) == Insert(t, "DETACHED_OBJECT", TRUE)

\* Mutant: the object is written before its safeguard is committed.
Stage_Unguarded(c) ==
  /\ client[c].pc = "stage"
  /\ objects' = objects \cup {client[c].key}
  /\ ToStep(c, "put")
  /\ UNCHANGED <<task, cleaner, faults, rooms, row, used, stalled>>

\* stageUpload: the safeguard commits first.
Stage(c) ==
  /\ client[c].pc = "stage"
  /\ task' = [task EXCEPT ![client[c].key] = Safeguarded(@)]
  /\ ToStep(c, "put")
  /\ UNCHANGED <<objects, cleaner, faults, rooms, row, used, stalled>>

Put(c) ==
  /\ client[c].pc = "put"
  /\ objects' = objects \cup {client[c].key}
  /\ ToStep(c, "complete")
  /\ UNCHANGED <<task, cleaner, faults, rooms, row, used, stalled>>

\* The provider refuses or times out, perhaps after storing the object.
PutFails(c) ==
  /\ client[c].pc = "put"
  /\ Fault
  /\ objects' \in {objects, objects \cup {client[c].key}}
  /\ Ends(c)
  /\ UNCHANGED <<task, cleaner, rooms, row, used, stalled>>

\* lockUploadSafeguard: there, and claimed by no runner.
SafeguardFree(k) == task[k].reason = "UPLOAD_SAFEGUARD" /\ task[k].lease = "none"

\* prepareUploadTarget: what a new image replaces, and where it goes.
Replaced(r, a) == IF MaxCount(a) = 1 THEN Target(r, a) ELSE {}
NextPosition(r, a) == IF MaxCount(a) = 1 THEN 0 ELSE Cardinality(Target(r, a))
WithinLimit(r, a) == MaxCount(a) = 1 \/ Cardinality(Target(r, a)) < MaxCount(a)

\* Mutants: the safeguard may be in a runner's hands; the room may be gone.
UploadAllowed_Claimed(c) ==
  /\ client[c].room \in rooms
  /\ task[client[c].key].reason = "UPLOAD_SAFEGUARD"
  /\ WithinLimit(client[c].room, client[c].assoc)
UploadAllowed_Deleted(c) ==
  SafeguardFree(client[c].key) /\ WithinLimit(client[c].room, client[c].assoc)

\* lockRoom, the safeguard and the limit: otherwise the transaction rolls back and the
\* safeguard stays.
UploadAllowed(c) ==
  /\ client[c].room \in rooms
  /\ SafeguardFree(client[c].key)
  /\ WithinLimit(client[c].room, client[c].assoc)

Attached(c) == [live |-> TRUE, room |-> client[c].room, assoc |-> client[c].assoc,
                position |-> NextPosition(client[c].room, client[c].assoc)]

\* completeUpload: an album grows at its end, a singleton replaces what it finds; the
\* detached object is scheduled and the safeguard retired in the same transaction.
CompleteUpload(c) ==
  LET k == client[c].key
      detached == Replaced(client[c].room, client[c].assoc)
  IN  /\ client[c].pc = "complete"
      /\ IF ~UploadAllowed(c) THEN Ends(c) /\ UNCHANGED <<task, row>>
         ELSE /\ row' = [i \in Keys |->
                   IF i = k THEN Attached(c) ELSE IF i \in detached THEN NoRow ELSE row[i]]
              /\ task' = [i \in Keys |->
                   IF i = k THEN Remove(task[i])
                   ELSE IF i \in detached THEN Detached(task[i])
                   ELSE task[i]]
              /\ IF detached = {} THEN Ends(c)
                 ELSE \E i \in detached : Removes(c, i)
      /\ UNCHANGED <<objects, cleaner, faults, rooms, used, stalled>>

(***************************************************************************)
(* Positions.                                                              *)
(***************************************************************************)
\* Mutant: rows move straight to their new positions.
Shifted_Directly(p) == p

\* The first statement of rewriteAttachmentPositions.
Shifted(p) == p + Offset

\* The rows the statements of a rewrite to the positions p pass through: MySQL checks
\* the unique key row by row, in any order.
Midway(S, p) ==
  {[k \in S |-> IF k \in X THEN Shifted(row[k].position) ELSE row[k].position] :
     X \in SUBSET S}
  \cup {[k \in S |-> IF k \in X THEN p[k] ELSE Shifted(row[k].position)] : X \in SUBSET S}

Orders(S) == {p \in [S -> 0 .. Cardinality(S) - 1] : IsInjective(p)}

\* The order the rows of S are read back in.
Ranked(S) == [k \in S |-> Cardinality({i \in S : row[i].position < row[k].position})]

Rewrite(rows, p) ==
  [k \in Keys |-> IF k \in DOMAIN p THEN [rows[k] EXCEPT !.position = p[k]] ELSE rows[k]]

\* Mutant: the remaining rows keep their positions.
Detach_Gap(c) ==
  \E k \in Keys :
    /\ client[c].pc = "idle" /\ row[k].live
    /\ row' = [row EXCEPT ![k] = NoRow]
    /\ task' = [task EXCEPT ![k] = Detached(@)]
    /\ Removes(c, k)
    /\ UNCHANGED <<objects, cleaner, faults, rooms, used, stalled>>

\* detach: the row goes, the rest closes up, the object is scheduled.
Detach(c) ==
  \E k \in Keys :
    LET rest == Target(row[k].room, row[k].assoc) \ {k}
    IN  /\ client[c].pc = "idle" /\ row[k].live
        /\ row' = Rewrite([row EXCEPT ![k] = NoRow], Ranked(rest))
        /\ task' = [task EXCEPT ![k] = Detached(@)]
        /\ Removes(c, k)
        /\ UNCHANGED <<objects, cleaner, faults, rooms, used, stalled>>

\* reorder: the whole album, each image once; any other list is refused.
Reorder(c) ==
  \E r \in rooms : \E p \in Orders(Target(r, "ALBUM")) :
    /\ client[c].pc = "idle"
    /\ row' = Rewrite(row, p)
    /\ UNCHANGED <<cleanupVars, rooms, client, used, stalled>>

\* rooms.service delete: every image is scheduled, none is deleted by the request.
DeleteRoom(c) ==
  \E r \in rooms :
    LET mine == {k \in Keys : row[k].live /\ row[k].room = r}
    IN  /\ client[c].pc = "idle"
        /\ rooms' = rooms \ {r}
        /\ row' = [k \in Keys |-> IF k \in mine THEN NoRow ELSE row[k]]
        /\ task' = [k \in Keys |-> IF k \in mine THEN Detached(task[k])
                                   ELSE task[k]]
        /\ UNCHANGED <<objects, cleaner, faults, client, used, stalled>>

(***************************************************************************)
(* Best-effort deletion after the commit.                                  *)
(***************************************************************************)
RemoveObject(c) ==
  /\ client[c].pc = "remove"
  /\ objects' = objects \ {client[c].key}
  /\ ToStep(c, "forget")
  /\ UNCHANGED <<task, cleaner, faults, rooms, row, used, stalled>>

\* A success retires the task, by key and reason.
ForgetTask(c) ==
  /\ client[c].pc = "forget"
  /\ task' = [task EXCEPT ![client[c].key] =
                IF @.reason = "DETACHED_OBJECT" THEN Remove(@) ELSE @]
  /\ Ends(c)
  /\ UNCHANGED <<objects, cleaner, faults, rooms, row, used, stalled>>

\* A call of the request fails or its process dies: what has committed stays.
ClientFails(c) ==
  /\ client[c].pc \notin {"idle", "put"}
  /\ Fault
  /\ Ends(c)
  /\ UNCHANGED <<task, objects, cleaner, rooms, row, used, stalled>>

\* The grace is measured from before the safeguard is written.  By configuration it outlasts
\* the storage call, so it takes a stall to outlive it: before the object is written, or in
\* the wait for the room's lock.
GraceEnds(k) ==
  LET at == {client[c].pc : c \in {d \in Clients : client[d].key = k}}
  IN  /\ TaskDue(k)
      /\ IF at \cap {"put", "complete"} # {} THEN Fault ELSE UNCHANGED faults
      /\ stalled' = IF "put" \in at THEN stalled \cup {k} ELSE stalled
      /\ UNCHANGED <<rooms, row, client, used>>

Init ==
  /\ CleanupInit
  /\ rooms = Rooms
  /\ row = [k \in Keys |-> NoRow]
  /\ client = [c \in Clients |-> Waiting]
  /\ used = {}
  /\ stalled = {}

ClientStep(c) == \/ Stage(c) \/ Put(c) \/ CompleteUpload(c) \/ RemoveObject(c) \/ ForgetTask(c)

Next ==
  \/ \E c \in Clients : \/ BeginUpload(c) \/ ClientStep(c) \/ PutFails(c) \/ ClientFails(c)
                        \/ Detach(c) \/ Reorder(c) \/ DeleteRoom(c)
  \/ \E k \in Keys : GraceEnds(k)
  \/ \E c \in Cleaners : (CleanerStep(c) \/ CleanerFails(c)) /\ UNCHANGED attachmentVars
  \/ \E k \in Keys : TaskLeaseExpires(k) /\ UNCHANGED attachmentVars

Spec == Init /\ [][Next]_vars

-----------------------------------------------------------------------------
\* Nobody is about to delete the object of a live attachment: it has no task, it is in the
\* hands of no request that removes a detached object, and of no runner unless a lease of
\* its task ran out under one (release clears by id whichever lease it finds, so a task
\* that two runners have had looks unclaimed to lockUploadSafeguard).
NothingDeletesLive ==
  \A k \in Keys : row[k].live =>
    /\ ~Scheduled(k)
    /\ \A c \in Cleaners : cleaner[c].key = k /\ ~task[k].overrun => cleaner[c].pc # "delete"
    /\ \A c \in Clients : client[c].key = k => client[c].pc # "remove"

\* No attachment outlives its room, although no foreign key ties the two.
AttachedRoomExists == \A k \in Keys : row[k].live => row[k].room \in rooms

\* Metadata and what it stands for live and die together.
LiveIsKept == NothingDeletesLive /\ AttachedRoomExists

\* "If the cleanup worker already claimed (or removed) it, this upload must abort instead
\* of publishing metadata for an object that may be deleted" (lockUploadSafeguard).
AttachedHasObject == \A k \in Keys : row[k].live => k \in objects

\* An object without metadata is always covered by a task, unless its upload outlived the
\* grace before the object was written: a runner may then have retired the safeguard.
NoOrphan == \A k \in objects \ stalled : row[k].live \/ Scheduled(k)

\* The images of a target are numbered 0..n-1 and within the policy's limit.
PositionsContiguous ==
  \A r \in Rooms, a \in Associations :
    LET S == Target(r, a)
    IN  /\ {row[k].position : k \in S} = 0 .. Cardinality(S) - 1
        /\ Cardinality(S) <= MaxCount(a)

\* No statement of a rewrite ever meets the unique key on (target, position), whatever
\* the order asked for and the order the rows are visited in.
RewriteNeverCollides ==
  \A r \in Rooms : LET S == Target(r, "ALBUM")
                   IN  \A p \in Orders(S) : \A q \in Midway(S, p) : IsInjective(q)

\* The album keeps its order through every insertion, removal and rewrite.
AlbumOrdered == PositionsContiguous /\ RewriteNeverCollides
=============================================================================
