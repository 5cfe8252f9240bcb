--------------------------- MODULE OutboxDelivery ---------------------------
(***************************************************************************)
(* The notification pipeline: outbox_events rows are claimed under a lease *)
(* (outbox-claim.repository.ts), handed to a BullMQ queue                  *)
(* (outbox-dispatcher.service.ts), delivered by workers                    *)
(* (delivery-worker.service.ts, delivery-preparation.service.ts,           *)
(* delivery-result.repository.ts, send-attempt.repository.ts) and, once    *)
(* failed, sent round again by an operator                                 *)
(* (notification-redrive.repository.ts).                                   *)
(*                                                                         *)
(* Each transaction is one step: it holds row locks for a moment and waits *)
(* for nobody outside MySQL.  Between two steps of a worker or dispatcher  *)
(* anything can happen: that is where the provider and Redis are called.   *)
(*                                                                         *)
(* NOW(6) is abstracted to two facts about a row: whether its lease still  *)
(* runs (live) and whether its available_at has passed (due).  A claim     *)
(* token is a random UUID: it is drawn from the tokens nobody holds.       *)
(***************************************************************************)
EXTENDS Integers, FiniteSets

CONSTANTS
  Events,       \* notification rows of outbox_events
  Dispatchers,  \* OutboxDispatcherService instances
  Workers,      \* delivery job slots (processes times concurrency)
  Tokens,       \* claim tokens
  BatchSize,    \* relay.claimBatchSize
  MaxAttempts,  \* relay.maxAttempts
  MaxClaims,    \* bound: no event is claimed at or above this attempts value
  MaxFaults,    \* bound: crashes, failed calls and lost answers in a behaviour
  MaxRedrives,  \* bound: applied redrives in a behaviour
  None

ASSUME ConstantsAssumption ==
  /\ BatchSize \in Nat \ {0}
  /\ MaxAttempts \in Nat \ {0}
  /\ MaxClaims \in Nat
  /\ MaxFaults \in Nat
  /\ MaxRedrives \in Nat
  /\ None \notin Tokens \cup Workers \cup Events /\ IsFiniteSet(Workers)

JobIds == Events \X (1..MaxClaims)   \* <outbox event id>-<attempt>

EventRow == [status : {"PENDING", "PROCESSING", "PROCESSED", "FAILED"},
             token : Tokens \cup {None}, attempts : 0..MaxClaims,
             live : BOOLEAN, due : BOOLEAN]
DeliveryRow == [status : {"NONE", "PENDING", "SENT", "FAILED"}, attempts : Nat]
Job == [state : {"none", "waiting", "active", "done"}, token : Tokens \cup {None},
        holder : Workers \cup {None}, stalls : 0..1]
NoJob == [state |-> "none", token |-> None, holder |-> None, stalls |-> 0]
WorkerPCs == {"idle", "claim", "send", "accept", "result", "refused", "unsendable",
              "resolved"}
WorkerState == [pc : WorkerPCs, event : Events \cup {None}, attempt : 0..MaxClaims,
                token : Tokens \cup {None}, retryable : BOOLEAN]
NoWork == [pc |-> "idle", event |-> None, attempt |-> 0, token |-> None,
           retryable |-> FALSE]
DispatcherState == [pc : {"idle", "enqueue", "release"}, token : Tokens \cup {None},
                    batch : SUBSET JobIds, current : JobIds \cup {None}]
Resting == [pc |-> "idle", token |-> None, batch |-> {}, current |-> None]

VARIABLES
  event,       \* outbox_events rows
  delivery,    \* email_deliveries rows; status "NONE" stands for no row
  accepted,    \* event -> number of its email_send_attempts rows
  mails,       \* event -> messages the provider really took
  jobs,        \* job id -> BullMQ job
  disp,        \* dispatcher -> its cycle
  work,        \* worker slot -> the job it processes
  faults,      \* failures so far
  redrives     \* applied redrives so far

rowVars == <<event, delivery, accepted>>
vars == <<rowVars, mails, jobs, disp, work, faults, redrives>>

\* One more failure of the environment, if the bound allows it.
Fault == faults < MaxFaults /\ faults' = faults + 1

(***************************************************************************)
(* Dispatcher.                                                             *)
(***************************************************************************)
InUse(t) == \/ \E e \in Events : event[e].token = t
            \/ \E j \in JobIds : jobs[j].token = t
            \/ \E d \in Dispatchers : disp[d].token = t
            \/ \E w \in Workers : work[w].token = t

Min2(a, b) == IF a < b THEN a ELSE b
Claimable(e) == event[e].attempts < MaxClaims
\* Mutants: a running lease is no obstacle; abandoned claims are never collected.
Expired_AnyLease == {e \in Events : event[e].status = "PROCESSING" /\ Claimable(e)}
Expired_Forgotten == {}

Expired == {e \in Events : event[e].status = "PROCESSING" /\ ~event[e].live /\ Claimable(e)}
Due     == {e \in Events : event[e].status = "PENDING" /\ event[e].due /\ Claimable(e)}

\* claimBatch: abandoned claims first, arrivals for what is left of the batch.
Batches == {X \cup Y : X \in {S \in SUBSET Expired :
                                Cardinality(S) = Min2(BatchSize, Cardinality(Expired))},
                       Y \in {S \in SUBSET Due :
                                Cardinality(S) = Min2(Cardinality(Due),
                                  BatchSize - Min2(BatchSize, Cardinality(Expired)))}}

ClaimBatch(d) ==
  \E t \in Tokens, S \in Batches :
    /\ disp[d].pc = "idle"
    /\ ~InUse(t) /\ S # {}
    /\ event' = [e \in Events |->
         IF e \in S THEN [status |-> "PROCESSING", token |-> t, live |-> TRUE,
                          attempts |-> event[e].attempts + 1, due |-> event[e].due]
         ELSE event[e]]
    /\ disp' = [disp EXCEPT ![d] = [pc |-> "enqueue", token |-> t, current |-> None,
                                    batch |-> {<<e, event[e].attempts + 1>> : e \in S}]]
    /\ UNCHANGED <<delivery, accepted, mails, jobs, work, faults, redrives>>

\* The next claim of the batch, or the end of the cycle.
Proceed(d, j) ==
  LET rest == disp[d].batch \ {j}
  IN  disp' = [disp EXCEPT ![d] = IF rest = {} THEN Resting
                                  ELSE [@ EXCEPT !.pc = "enqueue", !.batch = rest,
                                                 !.current = None]]

\* queue.add with the job id <event>-<attempt>: BullMQ ignores an id it still knows,
\* finished jobs included, and answers as if the job had been added.
Add(j, t) ==
  jobs' = IF jobs[j].state = "none"
          THEN [jobs EXCEPT ![j] = [NoJob EXCEPT !.state = "waiting", !.token = t]]
          ELSE jobs

Enqueue(d) ==
  \E j \in disp[d].batch :
    /\ disp[d].pc = "enqueue"
    /\ Add(j, disp[d].token)
    /\ Proceed(d, j)
    /\ UNCHANGED <<rowVars, mails, work, faults, redrives>>

\* queue.add throws: refused, or added and the answer lost.
EnqueueFails(d) ==
  \E j \in disp[d].batch :
    /\ disp[d].pc = "enqueue"
    /\ Fault
    /\ UNCHANGED jobs \/ Add(j, disp[d].token)
    /\ disp' = [disp EXCEPT ![d].pc = "release", ![d].current = j]
    /\ UNCHANGED <<rowVars, mails, work, redrives>>

\* Mutant: the row is addressed by its attempt alone.
Holds_AttemptOnly(e, t, n) == event[e].attempts = n

Holds(e, t, n) ==
  event[e].status = "PROCESSING" /\ event[e].token = t /\ event[e].attempts = n

\* Mutant: the row is released by id alone.
Release_ById(d) ==
  LET j == disp[d].current
  IN  /\ disp[d].pc = "release"
      /\ event' = [event EXCEPT ![j[1]] = [status |-> "PENDING", token |-> None,
                     live |-> FALSE, due |-> FALSE, attempts |-> @.attempts - 1]]
      /\ Proceed(d, j)
      /\ UNCHANGED <<delivery, accepted, mails, jobs, work, faults, redrives>>

\* release: the claim and its attempt are given back, if the row still is this claim.
Release(d) ==
  LET j == disp[d].current
      e == j[1]
  IN  /\ disp[d].pc = "release"
      /\ event' = IF Holds(e, disp[d].token, j[2])
                  THEN [event EXCEPT ![e] = [status |-> "PENDING", token |-> None,
                          live |-> FALSE, due |-> FALSE, attempts |-> @.attempts - 1]]
                  ELSE event
      /\ Proceed(d, j)
      /\ UNCHANGED <<delivery, accepted, mails, jobs, work, faults, redrives>>

\* The release throws: the lease is the backstop.
ReleaseFails(d) ==
  /\ disp[d].pc = "release"
  /\ Fault
  /\ Proceed(d, disp[d].current)
  /\ UNCHANGED <<rowVars, mails, jobs, work, redrives>>

DispatcherCrash(d) ==
  /\ disp[d].pc # "idle"
  /\ Fault
  /\ disp' = [disp EXCEPT ![d] = Resting]
  /\ UNCHANGED <<rowVars, mails, jobs, work, redrives>>

(***************************************************************************)
(* Worker: DeliveryWorkerService.process.                                  *)
(***************************************************************************)
\* BullMQ hands a waiting job to a free slot.
TakeJob(w) ==
  \E j \in JobIds :
    /\ work[w].pc = "idle"
    /\ jobs[j].state = "waiting"
    /\ jobs' = [jobs EXCEPT ![j].state = "active", ![j].holder = w]
    /\ work' = [work EXCEPT ![w] = [pc |-> "claim", event |-> j[1], attempt |-> j[2],
                                    token |-> jobs[j].token, retryable |-> FALSE]]
    /\ UNCHANGED <<rowVars, mails, disp, faults, redrives>>

\* process returned or threw: the job is finished unless BullMQ took it away as stalled.
Finish(w) ==
  LET j == <<work[w].event, work[w].attempt>>
  IN  /\ jobs' = IF jobs[j].holder = w
                 THEN [jobs EXCEPT ![j] = [NoJob EXCEPT !.state = "done"]] ELSE jobs
      /\ work' = [work EXCEPT ![w] = NoWork]

Goto(w, at) == work' = [work EXCEPT ![w].pc = at] /\ UNCHANGED jobs

HoldsClaim(w) == Holds(work[w].event, work[w].token, work[w].attempt)

\* Mutant: only the first preparation is counted.
Prepared_FirstOnly(row) ==
  [status |-> "PENDING", attempts |-> IF row.status = "NONE" THEN 1 ELSE row.attempts]

\* The delivery row prepare leaves: made, or counted up before the attempt.
Prepared(row) == [status |-> "PENDING", attempts |-> row.attempts + 1]

\* claimWork's locking read, then prepare: the delivery row is made or counted up in
\* the same transaction.  A payload, owner, recipient or room that cannot be used
\* rolls it back; so does a delivery that is no longer PENDING.
ClaimWork(w) ==
  LET e == work[w].event
  IN  /\ work[w].pc = "claim"
      /\ IF HoldsClaim(w) /\ event[e].live
         THEN \/ /\ delivery[e].status \in {"NONE", "PENDING"}
                 /\ delivery' = [delivery EXCEPT ![e] = Prepared(@)]
                 /\ Goto(w, "send")
              \/ /\ UNCHANGED delivery
                 /\ Goto(w, IF delivery[e].status \in {"SENT", "FAILED"} THEN "resolved"
                            ELSE "unsendable")
         ELSE UNCHANGED delivery /\ Finish(w)
      /\ UNCHANGED <<event, accepted, mails, disp, faults, redrives>>

\* The provider call: taken, refused for now, or refused for good.
Send(w) ==
  /\ work[w].pc = "send"
  /\ \/ /\ mails' = [mails EXCEPT ![work[w].event] = @ + 1]
        /\ work' = [work EXCEPT ![w].pc = "accept"]
     \/ \E retryable \in BOOLEAN :
          /\ work' = [work EXCEPT ![w].pc = "refused", ![w].retryable = retryable]
          /\ UNCHANGED mails
  /\ UNCHANGED <<rowVars, jobs, disp, faults, redrives>>

\* The provider took the message and its answer was lost: a timeout is retryable.
SendTimesOut(w) ==
  /\ work[w].pc = "send"
  /\ Fault
  /\ mails' = [mails EXCEPT ![work[w].event] = @ + 1]
  /\ work' = [work EXCEPT ![w].pc = "refused", ![w].retryable = TRUE]
  /\ UNCHANGED <<rowVars, jobs, disp, redrives>>

\* recordAcceptance never fails the delivery: the append may be lost.
RecordAcceptance(w) ==
  /\ work[w].pc = "accept"
  /\ \/ /\ accepted' = [accepted EXCEPT ![work[w].event] = @ + 1]
        /\ UNCHANGED faults
     \/ Fault /\ UNCHANGED accepted
  /\ Goto(w, "result")
  /\ UNCHANGED <<event, delivery, mails, disp, redrives>>

\* finishEvent and updateDelivery: one transaction, and the delivery only if the
\* outbox row still carried the claim.
FinishEvent(w, to) ==
  event' = IF HoldsClaim(w)
           THEN [event EXCEPT ![work[w].event] = [status |-> to, token |-> None,
                   live |-> FALSE, due |-> FALSE, attempts |-> @.attempts]]
           ELSE event

\* Mutant: the delivery is resolved although the claim is gone.
UpdateDelivery_Unfenced(w, to) ==
  delivery' = IF delivery[work[w].event].status = "PENDING"
              THEN [delivery EXCEPT ![work[w].event].status = to]
              ELSE delivery

UpdateDelivery(w, to) ==
  delivery' = IF HoldsClaim(w) /\ delivery[work[w].event].status = "PENDING"
              THEN [delivery EXCEPT ![work[w].event].status = to]
              ELSE delivery

MarkSent(w) ==
  /\ work[w].pc = "result"
  /\ FinishEvent(w, "PROCESSED")
  /\ UpdateDelivery(w, "SENT")
  /\ Finish(w)
  /\ UNCHANGED <<accepted, mails, disp, faults, redrives>>

\* The error code markRetry leaves on the delivery row is data.
MarkRetry(w)  == FinishEvent(w, "PENDING") /\ UNCHANGED delivery
MarkFailed(w) == FinishEvent(w, "FAILED") /\ UpdateDelivery(w, "FAILED")

\* matchResolvedDelivery: the event takes the verdict of a delivery that another job
\* resolved; one that was redriven meanwhile is left to its lease.  RecordsAgree says
\* that nobody who still holds the claim finds one.
MatchResolvedDelivery(w) ==
  LET found == delivery[work[w].event].status
  IN  /\ IF found \in {"SENT", "FAILED"}
         THEN FinishEvent(w, IF found = "SENT" THEN "PROCESSED" ELSE "FAILED")
         ELSE UNCHANGED event
      /\ UNCHANGED delivery

\* Mutant: off by one.
Exhausted_OneMore(w) == work[w].attempt > MaxAttempts

Exhausted(w) == work[w].attempt >= MaxAttempts

\* recordProviderFailure: the budget is compared here and nowhere else.
RecordProviderFailure(w) ==
  /\ work[w].pc = "refused"
  /\ IF ~work[w].retryable \/ Exhausted(w) THEN MarkFailed(w) ELSE MarkRetry(w)
  /\ Finish(w)
  /\ UNCHANGED <<accepted, mails, disp, faults, redrives>>

\* finishWithoutSending: what waiting cannot repair fails for good (failPermanently).
FinishWithoutSending(w) ==
  /\ work[w].pc \in {"unsendable", "resolved"}
  /\ IF work[w].pc = "resolved" THEN MatchResolvedDelivery(w) ELSE MarkFailed(w)
  /\ Finish(w)
  /\ UNCHANGED <<accepted, mails, disp, faults, redrives>>

\* A transaction of the worker throws: process throws, the job fails, the claim keeps
\* its lease.
WorkerThrows(w) ==
  /\ work[w].pc \in {"claim", "result", "refused", "unsendable", "resolved"}
  /\ Fault
  /\ Finish(w)
  /\ UNCHANGED <<rowVars, mails, disp, redrives>>

\* The process dies; its job stays active in Redis until it is found stalled.
WorkerCrash(w) ==
  /\ work[w].pc # "idle"
  /\ Fault
  /\ work' = [work EXCEPT ![w] = NoWork]
  /\ UNCHANGED <<rowVars, mails, jobs, disp, redrives>>

(***************************************************************************)
(* Queue, clock and operator.                                              *)
(***************************************************************************)
\* BullMQ takes an active job whose lock was not renewed (its worker died, or is alive
\* but stalled) and hands it out once more; a second time it fails the job.
Stalled(j) ==
  /\ jobs[j].state = "active"
  /\ IF \E w \in Workers : w = jobs[j].holder /\ <<work[w].event, work[w].attempt>> = j
     THEN Fault ELSE UNCHANGED faults
  /\ jobs' = [jobs EXCEPT ![j] =
       IF @.stalls = 0 THEN [@ EXCEPT !.state = "waiting", !.holder = None, !.stalls = 1]
       ELSE [NoJob EXCEPT !.state = "done"]]
  /\ UNCHANGED <<rowVars, mails, disp, work, redrives>>

\* removeOnComplete/removeOnFail: an old finished job is forgotten.
Evict(j) ==
  /\ jobs[j].state = "done"
  /\ jobs' = [jobs EXCEPT ![j] = NoJob]
  /\ UNCHANGED <<rowVars, mails, disp, work, faults, redrives>>

\* Nobody works on the claim any more.
Abandoned(e) ==
  LET n == event[e].attempts
      j == <<e, n>>
      t == event[e].token
  IN  /\ event[e].status = "PROCESSING"
      /\ \A d \in Dispatchers : disp[d].token = t => j \notin disp[d].batch
      /\ ~(jobs[j].token = t /\ jobs[j].state = "waiting")
      /\ \A w \in Workers : ~(work[w].event = e /\ work[w].token = t)

\* A lease runs out; under a living claim only when a call outlasts it.
LeaseExpires(e) ==
  /\ event[e].status = "PROCESSING" /\ event[e].live
  /\ IF Abandoned(e) THEN UNCHANGED faults ELSE Fault
  /\ event' = [event EXCEPT ![e].live = FALSE]
  /\ UNCHANGED <<delivery, accepted, mails, jobs, disp, work, redrives>>

BecomesDue(e) ==
  /\ event[e].status = "PENDING" /\ ~event[e].due
  /\ event' = [event EXCEPT ![e].due = TRUE]
  /\ UNCHANGED <<delivery, accepted, mails, jobs, disp, work, faults, redrives>>

\* redrive: only a FAILED event without a SENT delivery, and without evidence of an
\* acceptance unless the operator overrides it.
Redrive(e, allowDuplicate) ==
  /\ redrives < MaxRedrives
  /\ event[e].status = "FAILED"
  /\ delivery[e].status # "SENT"
  /\ allowDuplicate \/ accepted[e] = 0
  /\ event' = [event EXCEPT ![e] = [status |-> "PENDING", token |-> None, live |-> FALSE,
                                    due |-> TRUE, attempts |-> 0]]
  /\ delivery' = [delivery EXCEPT ![e].status = IF @ = "FAILED" THEN "PENDING" ELSE @]
  /\ redrives' = redrives + 1
  /\ UNCHANGED <<accepted, mails, jobs, disp, work, faults>>

(***************************************************************************)
(* The specification.                                                      *)
(***************************************************************************)
Init ==
  /\ event = [e \in Events |-> [status |-> "PENDING", token |-> None, attempts |-> 0,
                                live |-> FALSE, due |-> TRUE]]
  /\ delivery = [e \in Events |-> [status |-> "NONE", attempts |-> 0]]
  /\ accepted = [e \in Events |-> 0]
  /\ mails = [e \in Events |-> 0]
  /\ jobs = [j \in JobIds |-> NoJob]
  /\ disp = [d \in Dispatchers |-> Resting]
  /\ work = [w \in Workers |-> NoWork]
  /\ faults = 0
  /\ redrives = 0

Dispatch(d) == ClaimBatch(d) \/ Enqueue(d) \/ Release(d)

Deliver(w) == \/ ClaimWork(w) \/ Send(w) \/ RecordAcceptance(w) \/ MarkSent(w)
              \/ RecordProviderFailure(w) \/ FinishWithoutSending(w)

Next ==
  \/ \E d \in Dispatchers : \/ Dispatch(d) \/ EnqueueFails(d) \/ ReleaseFails(d)
                            \/ DispatcherCrash(d)
  \/ \E w \in Workers : \/ TakeJob(w) \/ Deliver(w) \/ SendTimesOut(w)
                        \/ WorkerThrows(w) \/ WorkerCrash(w)
  \/ \E j \in JobIds : Stalled(j) \/ Evict(j)
  \/ \E e \in Events : LeaseExpires(e) \/ BecomesDue(e)
  \/ \E e \in Events, allowDuplicate \in BOOLEAN : Redrive(e, allowDuplicate)

Spec == Init /\ [][Next]_vars

\* The poll loops and the workers keep running, time passes, and a lease nobody works
\* under runs out.  Nothing is assumed of failures, of eviction or of the operator.
Fairness ==
  /\ \A d \in Dispatchers : WF_vars(Dispatch(d))
  /\ \A w \in Workers : WF_vars(TakeJob(w)) /\ WF_vars(Deliver(w))
  /\ \A e \in Events : /\ WF_vars(Abandoned(e) /\ LeaseExpires(e))
                       /\ WF_vars(BecomesDue(e))
FairSpec == Spec /\ Fairness

(***************************************************************************)
(* Properties.                                                             *)
(***************************************************************************)
\* The type invariant: every row, job, cycle and slot has its shape.
TypeOK ==
  /\ event \in [Events -> EventRow]
  /\ delivery \in [Events -> DeliveryRow]
  /\ accepted \in [Events -> Nat]
  /\ mails \in [Events -> Nat]
  /\ jobs \in [JobIds -> Job]
  /\ disp \in [Dispatchers -> DispatcherState]
  /\ work \in [Workers -> WorkerState]
  /\ faults \in 0..MaxFaults
  /\ redrives \in 0..MaxRedrives

\* "A duplicate send is possible, a contradictory record is not": an event is PROCESSED
\* exactly when its delivery reads SENT, FAILED only beside no delivery or a FAILED one,
\* still on its way only beside none or a PENDING one, and leased exactly while
\* PROCESSING, whatever late workers, released claims and redrives write.
RecordsAgree ==
  \A e \in Events :
    /\ event[e].status = "PROCESSED" <=> delivery[e].status = "SENT"
    /\ event[e].status = "FAILED" => delivery[e].status \in {"NONE", "FAILED"}
    /\ event[e].status \in {"PENDING", "PROCESSING"} =>
         delivery[e].status \in {"NONE", "PENDING"}
    /\ event[e].token # None <=> event[e].status = "PROCESSING"

\* The record never claims a message the provider did not take: SENT means at least one
\* mail is out, and no more acceptances or mails are on record than attempts counted on
\* the delivery.
SentMeansSent ==
  \A e \in Events :
    /\ delivery[e].status = "SENT" => mails[e] > 0
    /\ accepted[e] <= mails[e]
    /\ mails[e] <= delivery[e].attempts

\* Several dispatchers and workers never mail a guest twice by themselves: a second
\* mail takes a crash, a failed call, a lost answer, a stalled job or a lease that ran
\* out under a living worker, and an operator's redrive alone does not cause it either.
NoDuplicateWithoutFault == faults = 0 => \A e \in Events : mails[e] <= 1

\* Without failures a message is offered to the provider at most maxAttempts times
\* before its event is FAILED.
RetryBudget ==
  faults = 0 => \A e \in Events : delivery[e].attempts <= MaxAttempts * (redrives + 1)

\* What the delivery row says of the provider is true, and so is its count of attempts.
DeliveryTellsTruth == SentMeansSent /\ RetryBudget

\* A verdict stays: a worker or dispatcher whose claim is gone never reopens or
\* overwrites a PROCESSED or FAILED event; only a redrive does, with a fresh budget.
ResolvedStays ==
  [][\A e \in Events :
       /\ event[e].status = "PROCESSED" =>
            event'[e] = event[e] /\ delivery'[e] = delivery[e]
       /\ event[e].status = "FAILED" /\ event'[e] # event[e] =>
            /\ redrives' = redrives + 1
            /\ event'[e].status = "PENDING" /\ event'[e].attempts = 0]_vars

\* Nothing is stranded: an event on its way is eventually PROCESSED or FAILED, through
\* crashes, refused handoffs, stalled jobs and ignored job ids, because an abandoned
\* lease always runs out and is claimed again.
EventResolves ==
  \A e \in Events : event[e].status \in {"PENDING", "PROCESSING"} ~>
                    event[e].status \in {"PROCESSED", "FAILED"}

\* What outbox-dispatcher.service.ts says of its job id ("a retry of the same event is a
\* new attempt and so a new id"): a claim the dispatcher counts as queued is in the
\* queue under its own token.
HandoffReachesQueue ==
  [][\A d \in Dispatchers, j \in JobIds :
       /\ disp[d].pc = "enqueue" /\ j \in disp[d].batch
       /\ disp'[d].batch = disp[d].batch \ {j}
       /\ faults' = faults
       => jobs'[j].token = disp[d].token]_vars
============================================================================
