--------------------------- MODULE StorageCleanup ---------------------------
(***************************************************************************)
(* The cleanup tasks of object storage and the runners that drain them     *)
(* (files/storage-cleanup.service.ts; retention's storage-tasks drain      *)
(* calls the same service one task at a time).                             *)
(*                                                                         *)
(* A task is the durable intent to delete one object: an upload safeguard, *)
(* written before the object exists, or a detached object.  Time is two    *)
(* facts of a task: it is due, and how its lease stands.  RoomExport and   *)
(* Attachments extend this module with the writers of tasks and objects.   *)
(***************************************************************************)
EXTENDS Integers, FiniteSets

CONSTANTS
  Keys,          \* object keys
  Cleaners,      \* runners of the cleanup service
  MaxFaults,     \* bound: failures of any kind
  LostReplies,   \* a delete reported as failed may have been carried out
  None

ASSUME CleanupAssumption ==
  MaxFaults \in Nat /\ LostReplies \in BOOLEAN /\ None \notin Keys

VARIABLES
  task,      \* storage_cleanup_tasks; object_key is unique
  objects,   \* keys of the objects in the bucket
  cleaner,   \* runner -> the task in its hands
  faults

cleanupVars == <<task, objects, cleaner, faults>>

\* id tells apart the rows a key has had; lockExpiresAt is "none", "live" or "expired";
\* overrun records that a lease ran out while its runner was still at work.
Task == [reason : {"NONE", "UPLOAD_SAFEGUARD", "DETACHED_OBJECT"}, due : BOOLEAN,
         lease : {"none", "live", "expired"}, id : Nat, overrun : BOOLEAN]
NoTask == [reason |-> "NONE", due |-> FALSE, lease |-> "none", id |-> 0, overrun |-> FALSE]
Runner == [pc : {"idle", "delete", "retire", "release"}, key : Keys \cup {None}, id : Nat]
Resting == [pc |-> "idle", key |-> None, id |-> 0]

Scheduled(k) == task[k].reason # "NONE"

Insert(t, reason, due) ==
  [reason |-> reason, due |-> due, lease |-> "none", id |-> t.id + 1, overrun |-> t.overrun]
Remove(t) == [t EXCEPT !.reason = "NONE", !.due = FALSE, !.lease = "none"]

Fault == faults < MaxFaults /\ faults' = faults + 1

CleanupInit ==
  /\ task = [k \in Keys |-> NoTask]
  /\ objects = {}
  /\ cleaner = [c \in Cleaners |-> Resting]
  /\ faults = 0

\* Mutant: a task whose runner died is not claimed again.
ClaimOne_NoRecovery(c) ==
  \E k \in Keys :
    /\ cleaner[c].pc = "idle"
    /\ Scheduled(k) /\ task[k].due /\ task[k].lease = "none"
    /\ task' = [task EXCEPT ![k].lease = "live"]
    /\ cleaner' = [cleaner EXCEPT ![c] = [pc |-> "delete", key |-> k, id |-> task[k].id]]
    /\ UNCHANGED <<objects, faults>>

\* claimOne: a due task without a lease that runs; SKIP LOCKED keeps two runners apart.
ClaimOne(c) ==
  \E k \in Keys :
    /\ cleaner[c].pc = "idle"
    /\ Scheduled(k) /\ task[k].due /\ task[k].lease # "live"
    /\ task' = [task EXCEPT ![k].lease = "live"]
    /\ cleaner' = [cleaner EXCEPT ![c] = [pc |-> "delete", key |-> k, id |-> task[k].id]]
    /\ UNCHANGED <<objects, faults>>

\* Idempotent: an object that is missing counts as deleted.
DeleteObject(c) ==
  /\ cleaner[c].pc = "delete"
  /\ objects' = objects \ {cleaner[c].key}
  /\ cleaner' = [cleaner EXCEPT ![c].pc = "retire"]
  /\ UNCHANGED <<task, faults>>

DeleteObjectFails(c) ==
  /\ cleaner[c].pc = "delete"
  /\ Fault
  /\ \/ UNCHANGED objects
     \/ LostReplies /\ objects' = objects \ {cleaner[c].key}
  /\ cleaner' = [cleaner EXCEPT ![c].pc = "release"]
  /\ UNCHANGED task

\* DELETE by the row's id; whoever holds the lease by now.
RetireTask(c) ==
  LET k == cleaner[c].key
  IN  /\ cleaner[c].pc = "retire"
      /\ task' = [task EXCEPT ![k] = IF @.id = cleaner[c].id THEN Remove(@) ELSE @]
      /\ cleaner' = [cleaner EXCEPT ![c] = Resting]
      /\ UNCHANGED <<objects, faults>>

\* The statement throws inside the try: the task is released instead.
RetireTaskFails(c) ==
  /\ cleaner[c].pc = "retire"
  /\ Fault
  /\ cleaner' = [cleaner EXCEPT ![c].pc = "release"]
  /\ UNCHANGED <<task, objects>>

\* release: the lease is cleared and the task is due again after the grace.
ReleaseTask(c) ==
  LET k == cleaner[c].key
  IN  /\ cleaner[c].pc = "release"
      /\ task' = [task EXCEPT ![k] = IF @.id = cleaner[c].id /\ @.reason # "NONE"
                    THEN [@ EXCEPT !.lease = "none", !.due = FALSE] ELSE @]
      /\ cleaner' = [cleaner EXCEPT ![c] = Resting]
      /\ UNCHANGED <<objects, faults>>

\* The process dies, or the release itself throws.
CleanerCrash(c) ==
  /\ cleaner[c].pc # "idle"
  /\ Fault
  /\ cleaner' = [cleaner EXCEPT ![c] = Resting]
  /\ UNCHANGED <<task, objects>>

\* The lease outlasts the provider call by configuration: it runs out under a working
\* runner only when that runner stalls.
TaskLeaseExpires(k) ==
  LET atWork == \E c \in Cleaners : cleaner[c].key = k /\ cleaner[c].id = task[k].id
  IN  /\ task[k].lease = "live"
      /\ IF atWork THEN Fault ELSE UNCHANGED faults
      /\ task' = [task EXCEPT ![k].lease = "expired", ![k].overrun = task[k].overrun \/ atWork]
      /\ UNCHANGED <<objects, cleaner>>

\* available_at passes.
TaskDue(k) ==
  /\ Scheduled(k) /\ ~task[k].due
  /\ task' = [task EXCEPT ![k].due = TRUE]
  /\ UNCHANGED <<objects, cleaner>>

CleanerStep(c) == ClaimOne(c) \/ DeleteObject(c) \/ RetireTask(c) \/ ReleaseTask(c)
CleanerFails(c) == DeleteObjectFails(c) \/ RetireTaskFails(c) \/ CleanerCrash(c)

=============================================================================
