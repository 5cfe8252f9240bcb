---------------------------- MODULE RetentionRuns ----------------------------
(***************************************************************************)
(* Scheduled retention: replicas elect, by an insert into scheduled_runs,  *)
(* who runs a task for a day, delete what is due batch by batch, and       *)
(* complete the window or hand it back (retention-run.service.ts,          *)
(* scheduled-run.repository.ts, retention-tasks.service.ts,                *)
(* retention-scheduler.service.ts).                                        *)
(*                                                                         *)
(* The module follows one task: runAll takes the tasks one after another   *)
(* and guards each from the others, so the tasks before it are the delay   *)
(* between Tick and Claim.  A claim, a batch's statement or transaction, a *)
(* cleanup call of a storage-tasks batch (from its claim to its end) and a *)
(* write to the ledger are one step each.  The claim token is a fresh      *)
(* UUID: the number of the claim stands for it.  Dates become two facts of *)
(* a ledger row: its lease runs, it progressed since started_at.  A job    *)
(* and its event count as one row.                                         *)
(***************************************************************************)
EXTENDS Integers, FiniteSets, FiniteSetsExt

CONSTANTS
  Replicas,
  Backlog,       \* kind of task -> the rows that are due, numbered from the oldest
  Keyless,       \* export rows of failed jobs: no object_key
  LastDay,       \* bound: days
  BatchSize,     \* run.batchSize
  DrainBatch,    \* storageDrainBatchSize: cleanup calls of a batch
  MaxAttempts,   \* run.maxAttempts
  MaxFaults      \* bound: crashes, stalls and lost statements or answers

\* purge: a table without dependents.  chain: notification events, children first.
\* export: an object, then its rows.  drain: storage cleanup tasks.
Kinds == {"purge", "chain", "export", "drain"}

ASSUME RetentionAssumption ==
  /\ Backlog \in [Kinds -> SUBSET Nat] /\ LastDay \in Nat \ {0}
  /\ IsFiniteSet(Replicas) /\ \A k \in Kinds : IsFiniteSet(Backlog[k])
  /\ Keyless \subseteq Backlog["export"]
  /\ BatchSize \in Nat \ {0} /\ DrainBatch \in Nat \ {0} /\ MaxAttempts \in Nat \ {0} /\ MaxFaults \in Nat

Days == 1..LastDay
Rows == UNION {Backlog[k] : k \in Kinds}
\* retentionContinuationCodes, and the others.
Codes == {"none", "continuation", "failure", "abandoned", "stopped"}
Run == [status : {"NONE", "CLAIMED", "SUCCEEDED", "FAILED"}, token : Nat, live : BOOLEAN,
        attempts : 0..MaxAttempts, progressed : BOOLEAN, code : Codes, deleted : Nat,
        objects : Nat, claims : Nat, left : SUBSET Rows]
NoRun == [status |-> "NONE", token |-> 0, live |-> FALSE, attempts |-> 0,
          progressed |-> FALSE, code |-> "none", deleted |-> 0, objects |-> 0, claims |-> 0,
          left |-> {}]
Replica == [pc : {"idle", "claim", "batch", "delete", "record"}, day : 0..LastDay,
            token : Nat, attempt : 0..MaxAttempts, deleted : Nat, objects : Nat,
            ids : SUBSET Rows, calls : Nat, removed : Nat, code : Codes, owed : SUBSET Rows]
Idle == [pc |-> "idle", day |-> 0, token |-> 0, attempt |-> 0, deleted |-> 0, objects |-> 0,
         ids |-> {}, calls |-> 0, removed |-> 0, code |-> "none", owed |-> {}]

VARIABLES
  day,         \* localDayStart of the database clock
  kind,        \* what a batch of the task does
  ledger,      \* scheduled_runs of the task, by day
  due,         \* rows the predicate matches
  waiting,     \* storage tasks that a refusal has postponed or a cleanup call has leased
  replica,     \* replica -> its cycle
  unrecorded,  \* rows deleted that no run recorded
  faults

vars == <<day, kind, ledger, due, waiting, replica, unrecorded, faults>>

Fault == faults < MaxFaults /\ faults' = faults + 1
MyRun(r) == ledger[replica[r].day]
Ends(r) == replica' = [replica EXCEPT ![r] = Idle]

(***************************************************************************)
(* The cycle: runAll, claim and recover.                                   *)
(***************************************************************************)
\* Mutant: a run that goes on past midnight is closed as well.
ClosedBefore_Running(d) ==
  [e \in Days |-> IF e < d /\ ledger[e].status = "CLAIMED"
                  THEN [ledger[e] EXCEPT !.status = "FAILED", !.token = 0, !.code = "stopped"]
                  ELSE ledger[e]]

\* closeAbandonedBefore: windows nobody will continue.
ClosedBefore(d) ==
  [e \in Days |-> IF e < d /\ ledger[e].status = "CLAIMED" /\ ~ledger[e].live
                  THEN [ledger[e] EXCEPT !.status = "FAILED", !.token = 0, !.code = "stopped"]
                  ELSE ledger[e]]

\* The window is resolved once for the cycle.
Tick(r) ==
  /\ replica[r].pc = "idle"
  /\ ledger' = ClosedBefore(day)
  /\ replica' = [replica EXCEPT ![r] = [Idle EXCEPT !.pc = "claim", !.day = day]]
  /\ UNCHANGED <<day, kind, due, waiting, unrecorded, faults>>

\* Mutant: progress is what the window ever deleted.
Charge_Lifetime(run) ==
  IF run.code = "continuation" /\ run.deleted + run.objects > 0 THEN 0 ELSE 1

\* What a takeover costs: nothing when the last attempt stopped short of its own accord
\* and had deleted something.
Charge(run) == IF run.code = "continuation" /\ run.progressed THEN 0 ELSE 1

\* Mutant: one attempt too many.
BudgetLeft_OneMore(run) == run.attempts <= MaxAttempts

BudgetLeft(run) == run.attempts < MaxAttempts
Recoverable(run) == run.status = "CLAIMED" /\ ~run.live

\* The attempts are spent and nobody else will write it down.
Abandoned(run) == [run EXCEPT !.status = "FAILED", !.token = 0, !.code = "abandoned"]

Claims(r, run) ==
  /\ ledger' = [ledger EXCEPT ![replica[r].day] = run]
  /\ replica' = [replica EXCEPT ![r] =
       [@ EXCEPT !.pc = "batch", !.token = run.token, !.attempt = run.attempts, !.owed = due]]

\* claim: the insert is the election.  A duplicate key leads to recover: take over, write
\* down that the attempts are spent, or go.
Claim(r) ==
  LET old == MyRun(r)
  IN  /\ replica[r].pc = "claim"
      /\ \/ /\ old.status = "NONE"
            /\ Claims(r, [NoRun EXCEPT !.status = "CLAIMED", !.token = 1, !.live = TRUE,
                                       !.attempts = 1, !.claims = 1])
         \/ /\ Recoverable(old) /\ BudgetLeft(old)
            /\ Claims(r, [old EXCEPT !.token = old.claims + 1, !.claims = @ + 1,
                                     !.live = TRUE, !.attempts = @ + Charge(old),
                                     !.progressed = FALSE, !.code = "none"])
         \/ /\ Recoverable(old) /\ ~BudgetLeft(old)
            /\ ledger' = [ledger EXCEPT ![replica[r].day] = Abandoned(old)]
            /\ Ends(r)
         \/ /\ old.status # "NONE" /\ ~Recoverable(old)
            /\ Ends(r) /\ UNCHANGED ledger
      /\ UNCHANGED <<day, kind, due, waiting, unrecorded, faults>>

\* The claim throws, or shutdown ends the cycle before the task.
ClaimFails(r) ==
  /\ replica[r].pc = "claim"
  /\ Fault
  /\ Ends(r)
  /\ UNCHANGED <<day, kind, ledger, due, waiting, unrecorded>>

(***************************************************************************)
(* A run: batches until nothing waits, or the budget is spent, or shutdown.*)
(***************************************************************************)
\* ORDER BY anchor LIMIT batchSize.
Oldest == {i \in due : Cardinality({k \in due : k < i}) < BatchSize}

\* The calls of a batch that are made before it is interrupted.
Prefixes(S) == {{i \in S : i <= n} : n \in {0} \cup S}

\* Mutant: an interrupted batch is not noticed.
Cut_Unseen(done, S) == FALSE

Full(S) == Cardinality(S) = BatchSize
Cut(done, S) == done # S

\* A batch deleted n rows and o objects.  With rows waiting the run goes on, or it stops
\* short because the deadline has passed or shutdown is asked for; a batch that was
\* interrupted itself leaves no choice.  A refusal makes the run incomplete.
BatchEnds(r, n, o, more, cut, refused) ==
  LET me == replica[r]
  IN  \E stop \in {cut, cut \/ more} :
        replica' = [replica EXCEPT ![r] = [me EXCEPT
          !.deleted = me.deleted + n, !.objects = me.objects + o,
          !.ids = {}, !.calls = 0, !.removed = 0,
          !.code = IF stop \/ refused THEN "continuation" ELSE me.code,
          !.pc = IF more /\ ~stop THEN "batch" ELSE "record"]]

\* purge: one statement.
Purge(r) ==
  /\ replica[r].pc = "batch" /\ kind = "purge"
  /\ due' = due \ Oldest
  /\ BatchEnds(r, Cardinality(Oldest), 0, Full(Oldest), FALSE, FALSE)
  /\ UNCHANGED <<day, kind, ledger, waiting, unrecorded, faults>>

\* claimEventBatch, claimExportBatch: a read without locks.  A chain, which cannot be
\* interrupted later, asks before it.
SelectBatch(r) ==
  /\ replica[r].pc = "batch" /\ kind \in {"chain", "export"}
  /\ \/ kind = "chain" /\ BatchEnds(r, 0, 0, TRUE, TRUE, FALSE)
     \/ due = {} /\ BatchEnds(r, 0, 0, FALSE, FALSE, FALSE)
     \/ due # {} /\ replica' = [replica EXCEPT ![r].pc = "delete", ![r].ids = Oldest]
  /\ UNCHANGED <<day, kind, ledger, due, waiting, unrecorded, faults>>

\* collectNotificationEvents: children and events in one transaction.
DeleteChain(r) ==
  LET ids == replica[r].ids
  IN  /\ replica[r].pc = "delete" /\ kind = "chain"
      /\ due' = due \ ids
      /\ BatchEnds(r, Cardinality(ids \cap due), 0, Full(ids), FALSE, FALSE)
      /\ UNCHANGED <<day, kind, ledger, waiting, unrecorded, faults>>

\* collectExportResults: rows whose object went, or that have none, are deleted; the
\* refused stay due.  An object counts when it goes, whoever then deletes its rows.
DeleteExports(r) ==
  LET ids == replica[r].ids
  IN  /\ replica[r].pc = "delete" /\ kind = "export"
      /\ \E done \in Prefixes(ids) : \E refusals \in SUBSET (done \ Keyless) :
           LET removable == done \ refusals
           IN  /\ due' = due \ removable
               /\ BatchEnds(r, Cardinality(removable \cap due), Cardinality(removable \ Keyless),
                            IF removable = {} THEN refusals # {} ELSE Full(ids),
                            Cut(done, ids), refusals # {})
      /\ UNCHANGED <<day, kind, ledger, waiting, unrecorded, faults>>

\* drainStorageTasks, before a cleanup call: the batch is full, or interrupted, or no task
\* is due; or the call leases one (claimOne).
ClaimTask(r) ==
  LET me == replica[r]
  IN  /\ me.pc = "batch" /\ kind = "drain"
      /\ \/ /\ \/ me.calls = DrainBatch /\ BatchEnds(r, me.removed, 0, TRUE, FALSE, FALSE)
               \/ me.calls # DrainBatch /\ BatchEnds(r, me.removed, 0, TRUE, TRUE, FALSE)
               \/ /\ me.calls # DrainBatch /\ due = {}
                  /\ BatchEnds(r, me.removed, 0, FALSE, FALSE, FALSE)
            /\ UNCHANGED <<due, waiting>>
         \/ /\ me.calls # DrainBatch
            /\ \E i \in due : /\ due' = due \ {i}
                              /\ waiting' = waiting \cup {i}
                              /\ replica' = [replica EXCEPT ![r] =
                                   [me EXCEPT !.pc = "delete", !.ids = {i}, !.calls = @ + 1]]
      /\ UNCHANGED <<day, kind, ledger, unrecorded, faults>>

\* Where a cleanup call leaves the batch.
CallEnds(r, n, code) ==
  LET me == replica[r]
  IN  replica' = [replica EXCEPT ![r] =
        [me EXCEPT !.pc = "batch", !.ids = {}, !.removed = me.removed + n, !.code = code]]

\* The call deletes object and task, and counts it without looking whether the task was
\* still there; or the provider refuses and the task is due again after its grace.
DeleteTask(r) ==
  LET ids == replica[r].ids
  IN  /\ replica[r].pc = "delete" /\ kind = "drain"
      /\ due' = due \ ids
      /\ \/ waiting' = waiting \ ids /\ CallEnds(r, 1, replica[r].code)
         \/ waiting' = waiting \cup (ids \cap due) /\ CallEnds(r, 0, "continuation")
      /\ UNCHANGED <<day, kind, ledger, unrecorded, faults>>

\* The batch throws: its statement or transaction rolls back and the run fails.  What
\* earlier cleanup calls of the batch deleted stays deleted, and its count is lost.
Throws(r) ==
  replica' = [replica EXCEPT ![r] =
    [@ EXCEPT !.pc = "record", !.ids = {}, !.calls = 0, !.removed = 0, !.code = "failure"]]

BatchFails(r) ==
  /\ replica[r].pc \in {"batch", "delete"}
  /\ Throws(r)
  /\ unrecorded' = unrecorded + replica[r].removed
  /\ UNCHANGED <<day, kind, ledger, due, waiting, faults>>

\* A deletion commits but its answer is lost: rows are gone that the batch, which throws,
\* or the cleanup call, which releases its task, never counts.
LostAnswer(r) ==
  LET me == replica[r]
  IN  /\ Fault
      /\ \/ me.pc = "batch" /\ kind = "purge"
         \/ me.pc = "delete"
      /\ \E gone \in (IF kind = "purge" THEN {Oldest}
                      ELSE IF kind = "export" THEN SUBSET me.ids ELSE {me.ids}) :
           /\ due' = due \ gone
           /\ waiting' = waiting \ gone
           /\ unrecorded' = unrecorded + Cardinality(gone \cap (due \cup waiting))
      /\ IF kind = "drain" THEN CallEnds(r, 0, "continuation") ELSE Throws(r)
      /\ UNCHANGED <<day, kind, ledger>>

(***************************************************************************)
(* The ledger: complete and fail, fenced by token and running lease.       *)
(***************************************************************************)
Working(r) == replica[r].pc \in {"batch", "delete", "record"}
Mine(r) == /\ MyRun(r).status = "CLAIMED" /\ MyRun(r).token = replica[r].token
           /\ MyRun(r).live

\* Mutant: the counts of the last attempt replace those before it.
Counted_Replaced(run, n, o) ==
  [run EXCEPT !.deleted = n, !.objects = o, !.progressed = @ \/ n > 0 \/ o > 0]

\* accumulateCounts, progressedAtExpression.
Counted(run, n, o) ==
  [run EXCEPT !.deleted = @ + n, !.objects = @ + o, !.progressed = @ \/ n > 0 \/ o > 0]

\* complete; or fail, which hands the window back by ending its own lease while attempts
\* are left, and closes it otherwise.
Closed(run, me) ==
  IF me.code = "none"
  THEN [run EXCEPT !.status = "SUCCEEDED", !.token = 0, !.live = FALSE,
                   !.left = me.owed \cap due]
  ELSE IF me.attempt < MaxAttempts THEN [run EXCEPT !.live = FALSE, !.code = me.code]
  ELSE [run EXCEPT !.status = "FAILED", !.token = 0, !.live = FALSE, !.code = me.code]

\* Nothing is written when the claim is gone: the counts leave through the log.
ClaimLost(r) == unrecorded' = unrecorded + replica[r].deleted + replica[r].removed

Record(r) ==
  LET me == replica[r]
  IN  /\ me.pc = "record"
      /\ \/ /\ Mine(r)
            /\ ledger' = [ledger EXCEPT ![me.day] = Closed(Counted(@, me.deleted, me.objects), me)]
            /\ UNCHANGED unrecorded
         \/ /\ ~Mine(r)
            /\ ClaimLost(r)
            /\ UNCHANGED ledger
      /\ Ends(r)
      /\ UNCHANGED <<day, kind, due, waiting, faults>>

\* The process dies, or the statement that records the run throws.
Crash(r) ==
  /\ Working(r)
  /\ Fault
  /\ ClaimLost(r)
  /\ Ends(r)
  /\ UNCHANGED <<day, kind, ledger, due, waiting>>

(***************************************************************************)
(* Time.                                                                   *)
(***************************************************************************)
HoldsRun(r, d) == Working(r) /\ replica[r].day = d /\ replica[r].token = ledger[d].token

\* assertRetentionBounds: the lease outlasts budget and statement, so it runs out under a
\* working replica only when that replica stalls.
LeaseExpires(d) ==
  /\ ledger[d].live
  /\ IF \E r \in Replicas : HoldsRun(r, d) THEN Fault ELSE UNCHANGED faults
  /\ ledger' = [ledger EXCEPT ![d].live = FALSE]
  /\ UNCHANGED <<day, kind, due, waiting, replica, unrecorded>>

\* A postponed task is due again, or one whose lease ran out.  The grace outlasts the
\* provider's timeout, so it runs out under a call only when the replica stalls.
RowDue(i) ==
  /\ i \in waiting
  /\ IF \E r \in Replicas : i \in replica[r].ids THEN Fault ELSE UNCHANGED faults
  /\ due' = due \cup {i}
  /\ waiting' = waiting \ {i}
  /\ UNCHANGED <<day, kind, ledger, replica, unrecorded>>

NextDay ==
  /\ day < LastDay
  /\ day' = day + 1
  /\ UNCHANGED <<kind, ledger, due, waiting, replica, unrecorded, faults>>

Init ==
  /\ day = 1
  /\ kind \in Kinds
  /\ ledger = [d \in Days |-> NoRun]
  /\ due = Backlog[kind]
  /\ waiting = {}
  /\ replica = [r \in Replicas |-> Idle]
  /\ unrecorded = 0
  /\ faults = 0

Batch(r) == \/ Purge(r) \/ SelectBatch(r) \/ DeleteChain(r) \/ DeleteExports(r)
            \/ ClaimTask(r) \/ DeleteTask(r)
CycleStep(r) == Tick(r) \/ Claim(r) \/ Batch(r) \/ Record(r)

Next ==
  \/ \E r \in Replicas :
       CycleStep(r) \/ ClaimFails(r) \/ BatchFails(r) \/ LostAnswer(r) \/ Crash(r)
  \/ \E d \in Days : LeaseExpires(d)
  \/ \E i \in Rows : RowDue(i)
  \/ NextDay

Spec == Init /\ [][Next]_vars

-----------------------------------------------------------------------------
\* Types: ledger rows and cycles keep their shape; no window is charged more than
\* MaxAttempts attempts.
TypeOK ==
  /\ day \in Days
  /\ kind \in Kinds
  /\ ledger \in [Days -> Run]
  /\ due \subseteq Rows /\ waiting \subseteq Rows
  /\ replica \in [Replicas -> Replica]
  /\ unrecorded \in Nat
  /\ faults \in 0..MaxFaults

CountedRows ==
  MapThenSumSet(LAMBDA d : ledger[d].deleted, Days)
    + MapThenSumSet(LAMBDA r : replica[r].deleted + replica[r].removed, Replicas)

\* Every deleted row is counted once, in the ledger, in a run under way, or among those that
\* a fault left unrecorded: takeovers, credited attempts and runs that go on past midnight
\* neither lose nor repeat any, and without a fault every one is on record.  For storage
\* tasks, whose counts drainStorageTasks loses when a later call of the batch throws and
\* repeats when two runners delete one task, only this holds: while no call has outlived
\* its lease no task is counted twice.
EveryRowCounted ==
  LET gone == Cardinality(Backlog[kind] \ (due \cup waiting))
  IN  /\ kind # "drain" \/ faults = 0 => gone = unrecorded + CountedRows
      /\ kind # "drain" /\ faults = 0 => unrecorded = 0

\* A window recorded SUCCEEDED left nothing that was due when its last run began: neither
\* a full batch, a refusal, a deadline nor a shutdown passes for the end of the work.
\* (Storage tasks are excepted: another runner may postpone one meanwhile.)
SucceededDrained ==
  \A d \in Days :
    kind # "drain" /\ ledger[d].status = "SUCCEEDED" => ledger[d].left = {}

\* A takeover is charged an attempt unless the attempt before it deleted something, so a
\* window is claimed at most MaxAttempts times plus once per row or object it deleted.
RetriesAreEarned ==
  \A d \in Days :
    ledger[d].claims <= ledger[d].attempts + ledger[d].deleted + ledger[d].objects

\* A working run holds its window, unless it outlived its lease: neither a takeover nor
\* the closing of earlier days takes a window from a live run.
WorkerHoldsWindow == faults = 0 => \A r \in Replicas : Working(r) => Mine(r)
=============================================================================
