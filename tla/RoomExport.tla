----------------------------- MODULE RoomExport -----------------------------
(***************************************************************************)
(* Room exports: a request writes a job and its outbox event, a dispatcher *)
(* claims events and hands them to a BullMQ queue, a worker reads the      *)
(* rooms, generates the workbook in a thread, uploads it under a safeguard *)
(* and publishes the result; retention collects old results.               *)
(* (room-export.service.ts, room-export-dispatcher.service.ts,             *)
(* room-export-consumer.service.ts, room-export-attempt.repository.ts,     *)
(* retention-tasks.service.ts)                                             *)
(*                                                                         *)
(* One transaction, one request to Redis, the thread or the store is one   *)
(* step.  The claim token of a cycle is a fresh UUID: the number of the    *)
(* claim stands for it, and an object key is a job and a token.  An event  *)
(* belongs to one job, so the job names both rows.                         *)
(***************************************************************************)
EXTENDS StorageCleanup, FiniteSetsExt

CONSTANTS
  Jobs,
  Dispatchers,
  Workers,       \* concurrency of the queue's consumers
  BatchSize,     \* relay.claimBatchSize
  MaxAttempts,   \* relay.maxAttempts
  MaxClaims,     \* bound: claims of one event
  Catalogs,      \* the sets of rooms a snapshot may meet
  PageSize,      \* snapshot.queryPageSize
  MaxRows        \* snapshot.maxRows

Tokens == 1..MaxClaims
Key(j, t) == <<j, t>>

ASSUME ExportAssumption ==
  /\ Keys = Jobs \X Tokens /\ None \notin Jobs
  /\ BatchSize \in Nat \ {0} /\ MaxAttempts \in Nat \ {0} /\ MaxClaims \in Nat \ {0}
  /\ PageSize \in Nat \ {0} /\ MaxRows \in Nat \ {0}
  /\ \A S \in Catalogs : S \subseteq Nat \ {0} /\ IsFiniteSet(S)

Rooms == UNION Catalogs
Job == [status : {"NONE", "QUEUED", "PROCESSING", "COMPLETED", "FAILED", "COLLECTED"},
        token : 0..MaxClaims, age : {"fresh", "expired", "old"},
        rows : SUBSET Rooms, catalog : SUBSET Rooms]
NoJob == [status |-> "NONE", token |-> 0, age |-> "fresh", rows |-> {}, catalog |-> {}]
Event == [status : {"NONE", "PENDING", "PROCESSING", "PROCESSED", "FAILED"},
          token : 0..MaxClaims, attempts : 0..MaxClaims, live : BOOLEAN, due : BOOLEAN,
          claims : 0..MaxClaims]
NoEvent == [status |-> "NONE", token |-> 0, attempts |-> 0, live |-> FALSE, due |-> FALSE,
            claims |-> 0]
\* RoomExportJobData: what the queue carries.
Message == [job : Jobs, token : Tokens, attempt : 1..MaxClaims]
Attempt == [pc : {"idle", "claim", "snapshot", "renewed", "generate", "generated",
                  "safeguard", "upload", "complete", "record"},
            msg : Message \cup {None}, retryable : BOOLEAN,
            rows : SUBSET Rooms, catalog : SUBSET Rooms]
Idle == [pc |-> "idle", msg |-> None, retryable |-> TRUE, rows |-> {}, catalog |-> {}]

VARIABLES
  job,        \* export_jobs
  event,      \* outbox_events of the family, by job
  disp,       \* dispatcher -> claims it has still to hand over
  queue,      \* BullMQ: jobs that wait
  worker,     \* worker -> the attempt it runs
  collector   \* the result retention has deleted the object of

exportVars == <<job, event, disp, queue, worker, collector>>
vars == <<cleanupVars, exportVars>>

(***************************************************************************)
(* Request and dispatch.                                                   *)
(***************************************************************************)
\* ExportJobRepository.create: the event, then the job that references it.
InsertJob(j) ==
  /\ event' = [event EXCEPT ![j] = [NoEvent EXCEPT !.status = "PENDING", !.due = TRUE]]
  /\ job' = [job EXCEPT ![j].status = "QUEUED"]

\* create: the job, its event and the idempotency answer commit together; a replayed
\* key changes nothing.
Create(j) ==
  /\ job[j].status = "NONE"
  /\ InsertJob(j)
  /\ UNCHANGED <<cleanupVars, disp, queue, worker, collector>>

\* Mutant: a claim that ran out is nobody's business.
Expired_Forgotten == {}

Expired == {j \in Jobs : event[j].status = "PROCESSING" /\ ~event[j].live}
Due     == {j \in Jobs : event[j].status = "PENDING" /\ event[j].due}
UpTo(S, n) == {X \in SUBSET S : Cardinality(X) = Min({Cardinality(S), n})}
Batches == UNION {{X \cup Y : Y \in UpTo(Due, BatchSize - Cardinality(X))} :
                    X \in UpTo(Expired, BatchSize)}

\* The attempt is counted with the claim.
Claimed(e) == [e EXCEPT !.status = "PROCESSING", !.token = e.claims + 1,
                        !.attempts = e.attempts + 1, !.live = TRUE, !.due = FALSE,
                        !.claims = e.claims + 1]

\* claimBatch: expired claims first.
ClaimBatch(d) ==
  \E S \in Batches :
    /\ disp[d] = {} /\ S # {}
    /\ \A j \in S : event[j].claims < MaxClaims
    /\ event' = [j \in Jobs |-> IF j \in S
         THEN Claimed(event[j]) ELSE event[j]]
    /\ disp' = [disp EXCEPT ![d] =
         {[job |-> j, token |-> event'[j].token, attempt |-> event'[j].attempts] : j \in S}]
    /\ UNCHANGED <<cleanupVars, job, queue, worker, collector>>

\* The queue's job id names the claim, so an add is never taken for an older one.
Enqueue(d) ==
  \E m \in disp[d] :
    /\ queue' = queue \cup {m}
    /\ disp' = [disp EXCEPT ![d] = @ \ {m}]
    /\ UNCHANGED <<cleanupVars, job, event, worker, collector>>

\* Event j is still under the claim of m: finishEvent and release, without the lease.
Held(m) ==
  LET e == event[m.job]
  IN  e.status = "PROCESSING" /\ e.token = m.token /\ e.attempts = m.attempt

Released(e, status) == [e EXCEPT !.status = status, !.token = 0, !.live = FALSE]

GivenBack(e) == [e EXCEPT !.status = "PENDING", !.token = 0, !.live = FALSE,
                          !.attempts = e.attempts - 1]

\* add throws, perhaps after Redis took the job; release gives the attempt back, unless
\* it fails as well.
EnqueueFails(d) ==
  \E m \in disp[d] :
    /\ Fault
    /\ queue' \in {queue, queue \cup {m}}
    /\ disp' = [disp EXCEPT ![d] = @ \ {m}]
    /\ \/ /\ Held(m)
          /\ event' = [event EXCEPT ![m.job] = GivenBack(@)]
       \/ UNCHANGED event
    /\ UNCHANGED <<task, objects, cleaner, job, worker, collector>>

DispatcherCrash(d) ==
  /\ disp[d] # {}
  /\ Fault
  /\ disp' = [disp EXCEPT ![d] = {}]
  /\ UNCHANGED <<task, objects, cleaner, job, event, queue, worker, collector>>

(***************************************************************************)
(* The attempt.                                                            *)
(***************************************************************************)
ToStage(w, pc) == worker' = [worker EXCEPT ![w].pc = pc]
Ends(w) == worker' = [worker EXCEPT ![w] = Idle]
Fails(w, retryable) == worker' = [worker EXCEPT ![w].pc = "record", ![w].retryable = retryable]

TakeJob(w) ==
  \E m \in queue :
    /\ worker[w].pc = "idle"
    /\ queue' = queue \ {m}
    /\ worker' = [worker EXCEPT ![w] = [Idle EXCEPT !.pc = "claim", !.msg = m]]
    /\ UNCHANGED <<cleanupVars, job, event, disp, collector>>

\* claim: token, attempt and a lease that runs, and a job that is not finished.
Claim(w) ==
  LET m == worker[w].msg
  IN  /\ worker[w].pc = "claim"
      /\ IF /\ Held(m) /\ event[m.job].live
            /\ job[m.job].status \in {"QUEUED", "PROCESSING"}
         THEN /\ job' = [job EXCEPT ![m.job].status = "PROCESSING"]
              /\ ToStage(w, "snapshot")
         ELSE UNCHANGED job /\ Ends(w)
      /\ UNCHANGED <<cleanupVars, event, disp, queue, collector>>

\* readPage: the next rooms by id.
Page(S, after) ==
  LET rest == {i \in S : i > after}
  IN  {i \in rest : Cardinality({k \in rest : k < i}) < PageSize}

\* Mutant: a page that is not over-full is the last one.
ReadPages_FirstPage(S) == Page(S, 0)

\* readPages: until a short page.
ReadPages(S) ==
  LET read[after \in {0} \cup S] ==
        LET page == Page(S, after)
        IN  IF Cardinality(page) < PageSize THEN page ELSE page \cup read[Max(page)]
  IN  read[0]

\* countRowCharacters: the text of the rooms is left out, so any that are read may
\* exceed maxSnapshotChars.
MayBeTooLarge(rows) == rows # {}

\* A snapshot with too many rows, or too many characters, fails for good.
Snapshot(w) ==
  \E S \in Catalogs :
    LET rows == ReadPages(S)
    IN  /\ worker[w].pc = "snapshot"
        /\ \/ /\ Cardinality(rows) > MaxRows \/ MayBeTooLarge(rows)
              /\ Fails(w, FALSE)
           \/ /\ Cardinality(rows) <= MaxRows
              /\ worker' = [worker EXCEPT ![w].pc = "renewed", ![w].rows = rows,
                                          ![w].catalog = S]
        /\ UNCHANGED <<cleanupVars, job, event, disp, queue, collector>>

\* renew, before generation and before the upload: token and running lease.
Renew(w) ==
  LET e == event[worker[w].msg.job]
  IN  /\ worker[w].pc \in {"renewed", "generated"}
      /\ IF e.status = "PROCESSING" /\ e.token = worker[w].msg.token /\ e.live
         THEN ToStage(w, IF worker[w].pc = "renewed" THEN "generate" ELSE "safeguard")
         ELSE Ends(w)
      /\ UNCHANGED <<cleanupVars, job, event, disp, queue, collector>>

\* settle: the first of a message, an error, an exit and the timeout decides.
Generate(w) ==
  /\ worker[w].pc = "generate"
  /\ ToStage(w, "generated")
  /\ UNCHANGED <<cleanupVars, job, event, disp, queue, collector>>

\* What the thread refuses to start on.
RequestRefusals == {"EXPORT_WORKER_PROTOCOL_VERSION", "EXPORT_WORKER_PROTOCOL_INVALID",
                    "EXPORT_ROW_LIMIT_EXCEEDED", "EXPORT_SNAPSHOT_TOO_LARGE"}
\* What it reports from its own run.
ThreadFailures == {"EXPORT_WORKER_RESOURCE_LIMIT_MISMATCH", "EXPORT_OUTPUT_TOO_LARGE",
                   "EXPORT_GENERATION_FAILED"}
\* An answer for another attempt, with other rows or of another length is no answer.
ResultRefusals == {"EXPORT_WORKER_PROTOCOL_VERSION", "EXPORT_WORKER_PROTOCOL_INVALID",
                   "EXPORT_OUTPUT_TOO_LARGE"}
\* What the parent concludes from a thread that says nothing, or never started.
SilentEnds == {"EXPORT_WORKER_TIMEOUT", "EXPORT_WORKER_OUT_OF_MEMORY",
               "EXPORT_WORKER_EXITED", "EXPORT_GENERATION_FAILED", "EXPORT_ATTEMPT_FAILED"}
Codes == RequestRefusals \cup ThreadFailures \cup ResultRefusals \cup SilentEnds
PermanentCodes == {"EXPORT_ROW_LIMIT_EXCEEDED", "EXPORT_SNAPSHOT_TOO_LARGE",
                   "EXPORT_WORKER_PROTOCOL_INVALID", "EXPORT_OUTPUT_TOO_LARGE",
                   "EXPORT_WORKER_RESOURCE_LIMIT_MISMATCH"}
Retryable(code) == code \notin PermanentCodes

GenerateFails(w) ==
  \E code \in Codes :
    /\ worker[w].pc = "generate"
    /\ Fault
    /\ Fails(w, Retryable(code))
    /\ UNCHANGED <<task, objects, cleaner, job, event, disp, queue, collector>>

\* A statement of the attempt throws.
StageFails(w) ==
  /\ worker[w].pc \in {"snapshot", "renewed", "generated", "safeguard", "complete"}
  /\ Fault
  /\ Fails(w, TRUE)
  /\ UNCHANGED <<task, objects, cleaner, job, event, disp, queue, collector>>

MyKey(w) == Key(worker[w].msg.job, worker[w].msg.token)

\* Mutant: the object is written without a safeguard.
InsertSafeguard_Skipped(w) ==
  /\ worker[w].pc = "safeguard"
  /\ ToStage(w, "upload")
  /\ UNCHANGED <<cleanupVars, job, event, disp, queue, collector>>

\* insertUploadSafeguard: a second row for the key is refused.
InsertSafeguard(w) ==
  /\ worker[w].pc = "safeguard"
  /\ IF Scheduled(MyKey(w)) THEN Fails(w, TRUE) /\ UNCHANGED task
     ELSE /\ task' = [task EXCEPT ![MyKey(w)] = Insert(@, "UPLOAD_SAFEGUARD", FALSE)]
          /\ ToStage(w, "upload")
  /\ UNCHANGED <<objects, cleaner, faults, job, event, disp, queue, collector>>

Upload(w) ==
  /\ worker[w].pc = "upload"
  /\ objects' = objects \cup {MyKey(w)}
  /\ ToStage(w, "complete")
  /\ UNCHANGED <<task, cleaner, faults, job, event, disp, queue, collector>>

UploadFails(w) ==
  /\ worker[w].pc = "upload"
  /\ Fault
  /\ objects' \in {objects, objects \cup {MyKey(w)}}
  /\ Fails(w, TRUE)
  /\ UNCHANGED <<task, cleaner, job, event, disp, queue, collector>>

\* The job as it names its result.
Published(j, a) == [j EXCEPT !.status = "COMPLETED", !.token = a.msg.token,
                             !.rows = a.rows, !.catalog = a.catalog]

\* Mutant: the safeguard is left behind.
Complete_KeepsSafeguard(w) ==
  LET m == worker[w].msg
  IN  /\ worker[w].pc = "complete"
      /\ IF ~Held(m) THEN Ends(w) /\ UNCHANGED <<event, job>>
         ELSE /\ event' = [event EXCEPT ![m.job] = Released(@, "PROCESSED")]
              /\ job' = [job EXCEPT ![m.job] = Published(@, worker[w])]
              /\ Ends(w)
      /\ UNCHANGED <<task, objects, cleaner, faults, disp, queue, collector>>

\* complete: event, job and safeguard in one transaction.  finishEvent does not ask for
\* the lease; moveJob rolls all of it back when the job is not PROCESSING.
Complete(w) ==
  LET m == worker[w].msg
  IN  /\ worker[w].pc = "complete"
      /\ IF ~Held(m) THEN Ends(w) /\ UNCHANGED <<event, job, task>>
         ELSE IF job[m.job].status # "PROCESSING"
         THEN Fails(w, TRUE) /\ UNCHANGED <<event, job, task>>
         ELSE /\ event' = [event EXCEPT ![m.job] = Released(@, "PROCESSED")]
              /\ job' = [job EXCEPT ![m.job] = Published(@, worker[w])]
              /\ task' = [task EXCEPT ![MyKey(w)] =
                            IF @.reason = "UPLOAD_SAFEGUARD" THEN Remove(@) ELSE @]
              /\ Ends(w)
      /\ UNCHANGED <<objects, cleaner, faults, disp, queue, collector>>

\* Mutant: a failure with attempts left is recorded as final on the event alone.
RecordFailure_EventOnly(w) ==
  LET m == worker[w].msg
  IN  /\ worker[w].pc = "record"
      /\ event' = [event EXCEPT ![m.job] = IF Held(m) THEN Released(@, "FAILED") ELSE @]
      /\ Ends(w)
      /\ UNCHANGED <<cleanupVars, job, disp, queue, collector>>

\* recordFailure: retry with a backoff, or fail both rows; nothing when the claim moved.
RecordFailure(w) ==
  LET m == worker[w].msg
      terminal == ~worker[w].retryable \/ m.attempt >= MaxAttempts
  IN  /\ worker[w].pc = "record"
      /\ IF Held(m) /\ job[m.job].status = "PROCESSING"
         THEN /\ event' = [event EXCEPT ![m.job] =
                             Released(@, IF terminal THEN "FAILED" ELSE "PENDING")]
              /\ job' = [job EXCEPT ![m.job].status = IF terminal THEN "FAILED" ELSE "QUEUED"]
         ELSE UNCHANGED <<event, job>>
      /\ Ends(w)
      /\ UNCHANGED <<cleanupVars, disp, queue, collector>>

\* The process dies, or recording the failure throws; BullMQ gives an unfinished job to
\* another worker, or fails it.
WorkerCrash(w) ==
  /\ worker[w].pc # "idle"
  /\ Fault
  /\ queue' \in {queue, queue \cup {worker[w].msg}}
  /\ Ends(w)
  /\ UNCHANGED <<task, objects, cleaner, job, event, disp, collector>>

(***************************************************************************)
(* Time.                                                                   *)
(***************************************************************************)
\* Some process still has the claim event j is under.
InHand(j) ==
  LET running == {worker[w].msg : w \in {v \in Workers : worker[v].pc # "idle"}}
  IN  \E m \in queue \cup running \cup UNION {disp[d] : d \in Dispatchers} :
        m.job = j /\ Held(m)

\* The lease covers an attempt by configuration (assertRoomExportBounds): it runs out
\* before the attempt ends only when a process stalls or the queue is long.
LeaseExpires(j) ==
  /\ event[j].live
  /\ IF InHand(j) THEN Fault ELSE UNCHANGED faults
  /\ event' = [event EXCEPT ![j].live = FALSE]
  /\ UNCHANGED <<task, objects, cleaner, job, disp, queue, worker, collector>>

BackoffEnds(j) ==
  /\ event[j].status = "PENDING" /\ ~event[j].due
  /\ event' = [event EXCEPT ![j].due = TRUE]
  /\ UNCHANGED <<cleanupVars, job, disp, queue, worker, collector>>

\* The grace of a safeguard: longer than the upload and a margin by configuration
\* (assertRoomExportBounds), so an attempt publishes before its safeguard is due.
GraceEnds(k) ==
  /\ ~\E w \in Workers : worker[w].pc \in {"upload", "complete"} /\ MyKey(w) = k
  /\ TaskDue(k) /\ UNCHANGED faults
  /\ UNCHANGED exportVars

\* A finished job passes its result's lifetime and then retention's window, which
\* assertRetentionBounds keeps from being shorter.
Ages(j) ==
  /\ job[j].status \in {"COMPLETED", "FAILED"} /\ job[j].age # "old"
  /\ job' = [job EXCEPT ![j].age = IF @ = "fresh" THEN "expired" ELSE "old"]
  /\ UNCHANGED <<cleanupVars, event, disp, queue, worker, collector>>

(***************************************************************************)
(* Retention of results: the object, then job and event.                   *)
(***************************************************************************)
CollectDue(j) == job[j].status \in {"COMPLETED", "FAILED"} /\ job[j].age = "old"

CollectObject(j) ==
  /\ collector = None /\ CollectDue(j)
  /\ objects' = IF job[j].token = 0 THEN objects ELSE objects \ {Key(j, job[j].token)}
  /\ collector' = j
  /\ UNCHANGED <<task, cleaner, faults, job, event, disp, queue, worker>>

\* deleteExportJobs and deleteEvents in one transaction.
CollectRows(j) ==
  /\ collector = j
  /\ job' = [job EXCEPT ![j] = [NoJob EXCEPT !.status = "COLLECTED"]]
  /\ event' = [event EXCEPT ![j] = [NoEvent EXCEPT !.claims = event[j].claims]]
  /\ collector' = None
  /\ UNCHANGED <<cleanupVars, disp, queue, worker>>

\* The provider refuses, or the run dies before its transaction: the rows stay due.
CollectFails ==
  /\ collector # None
  /\ Fault
  /\ collector' = None
  /\ UNCHANGED <<task, objects, cleaner, job, event, disp, queue, worker>>

Init ==
  /\ CleanupInit
  /\ job = [j \in Jobs |-> NoJob]
  /\ event = [j \in Jobs |-> NoEvent]
  /\ disp = [d \in Dispatchers |-> {}]
  /\ queue = {}
  /\ worker = [w \in Workers |-> Idle]
  /\ collector = None

DispatcherStep(d) == ClaimBatch(d) \/ Enqueue(d)
WorkerStep(w) == \/ TakeJob(w) \/ Claim(w) \/ Snapshot(w) \/ Renew(w) \/ Generate(w)
                 \/ InsertSafeguard(w) \/ Upload(w) \/ Complete(w) \/ RecordFailure(w)

Next ==
  \/ \E j \in Jobs : Create(j) \/ LeaseExpires(j) \/ BackoffEnds(j) \/ Ages(j)
                     \/ CollectObject(j) \/ CollectRows(j)
  \/ \E d \in Dispatchers : DispatcherStep(d) \/ EnqueueFails(d) \/ DispatcherCrash(d)
  \/ \E w \in Workers : \/ WorkerStep(w) \/ GenerateFails(w) \/ StageFails(w)
                        \/ UploadFails(w) \/ WorkerCrash(w)
  \/ \E k \in Keys : GraceEnds(k)
  \/ \E c \in Cleaners : (CleanerStep(c) \/ CleanerFails(c)) /\ UNCHANGED exportVars
  \/ \E k \in Keys : TaskLeaseExpires(k) /\ UNCHANGED exportVars
  \/ CollectFails

Spec == Init /\ [][Next]_vars

\* Loops poll, queues deliver, stages end, leases and graces run out.
Fairness ==
  /\ \A d \in Dispatchers : WF_vars(DispatcherStep(d))
  /\ \A w \in Workers : WF_vars(WorkerStep(w))
  /\ \A j \in Jobs : WF_vars(LeaseExpires(j)) /\ WF_vars(BackoffEnds(j))
  /\ \A k \in Keys : WF_vars(GraceEnds(k)) /\ WF_vars(TaskLeaseExpires(k) /\ UNCHANGED exportVars)
  /\ \A c \in Cleaners : WF_vars(CleanerStep(c) /\ UNCHANGED exportVars)

FairSpec == Spec /\ Fairness

-----------------------------------------------------------------------------
\* hasExpired and isDownloadable: completed, with an object, within its lifetime.
IsDownloadable(j) == job[j].status = "COMPLETED" /\ job[j].token # 0 /\ job[j].age = "fresh"

\* The two rows of an export never contradict each other, whichever attempt wrote them.
RowsAgree ==
  \A j \in Jobs :
    /\ (event[j].status = "PROCESSED") <=> (job[j].status = "COMPLETED")
    /\ (event[j].status = "FAILED") <=> (job[j].status = "FAILED")
    /\ (event[j].status \in {"PENDING", "PROCESSING"})
          <=> (job[j].status \in {"QUEUED", "PROCESSING"})

\* What the API offers for download is there: no cleanup, collection or losing attempt
\* takes the object of the winning one, unless a lease of the object's task ran out under
\* its runner, which may then delete the object of a redelivered attempt.
ResultAvailable ==
  \A j \in Jobs : IsDownloadable(j) /\ ~task[Key(j, job[j].token)].overrun =>
    Key(j, job[j].token) \in objects

\* An object nobody points at has a task that will delete it, or an attempt about to
\* publish it: a crash, a lost claim or a failed upload leaves no orphan.
NoOrphan ==
  \A j \in Jobs, t \in Tokens :
    Key(j, t) \in objects =>
      Scheduled(Key(j, t)) \/ (job[j].status = "COMPLETED" /\ job[j].token = t)

\* A published workbook holds every room its snapshot saw, across page boundaries and
\* attempts, and never more than the limit.
WorkbookWhole ==
  \A j \in Jobs : job[j].status = "COMPLETED" =>
    job[j].rows = job[j].catalog /\ Cardinality(job[j].rows) <= MaxRows

\* Every requested export ends, completed or failed.
ExportEnds == \A j \in Jobs : job[j].status = "QUEUED" ~> job[j].status \in {"COMPLETED", "FAILED"}

\* Every object that no job points at is deleted in the end.
OrphansDeleted ==
  \A j \in Jobs, t \in Tokens :
    Key(j, t) \in objects ~>
      (Key(j, t) \notin objects \/ (job[j].status = "COMPLETED" /\ job[j].token = t))

\* Nothing hangs: every export ends, and what its attempts left behind goes.
ExportSettles == ExportEnds /\ OrphansDeleted
=============================================================================
