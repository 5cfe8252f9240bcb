----------------------- MODULE OutboxDeliveryProofs -----------------------
(***************************************************************************)
(* Proofs about OutboxDelivery, for any number of events, dispatchers,     *)
(* workers, tokens, failures and redrives.                                 *)
(***************************************************************************)
EXTENDS OutboxDelivery, FiniteSetTheorems, TLAPS

\* A dispatcher that releases knows which claim; a busy slot knows its job; and from the
\* provider call on there is a delivery row to write the result to.
ActorsSound ==
  /\ \A d \in Dispatchers : disp[d].pc = "release" => disp[d].current \in JobIds
  /\ \A w \in Workers : work[w].pc # "idle" =>
       work[w].event \in Events /\ work[w].attempt \in 1..MaxClaims
  /\ \A w \in Workers : work[w].pc \in {"send", "accept", "result", "refused"} =>
       delivery[work[w].event].status # "NONE"

\* The inductive invariant.
IInv == TypeOK /\ RecordsAgree /\ ActorsSound

\* Fresh jobs, slots and cycles have their shapes.
LEMMA RestTypes ==
  /\ NoJob \in Job /\ NoWork \in WorkerState /\ Resting \in DispatcherState
  /\ NoWork.pc = "idle" /\ Resting.pc = "idle"
  /\ [NoJob EXCEPT !.state = "done"] \in Job
  /\ \A t \in Tokens \cup {None} : [NoJob EXCEPT !.state = "waiting", !.token = t] \in Job
<1>1. 0 \in 0..MaxClaims /\ 0 \in 0..1
  BY ConstantsAssumption
<1>2. NoWork \in WorkerState /\ NoWork.pc = "idle"
  BY <1>1 DEF NoWork, WorkerState, WorkerPCs
<1>3. Resting \in DispatcherState /\ Resting.pc = "idle"
  BY DEF Resting, DispatcherState
<1>4. NoJob \in Job
  BY <1>1 DEF NoJob, Job
<1>5. [NoJob EXCEPT !.state = "done"] \in Job
  BY <1>4 DEF Job
<1>6. \A t \in Tokens \cup {None} : [NoJob EXCEPT !.state = "waiting", !.token = t] \in Job
  BY <1>4 DEF Job
<1> QED
  BY <1>2, <1>3, <1>4, <1>5, <1>6

\* The initial state satisfies the inductive invariant.
LEMMA InitIInv == Init => IInv
<1> SUFFICES ASSUME Init PROVE IInv
  OBVIOUS
<1>0. /\ [status |-> "PENDING", token |-> None, attempts |-> 0, live |-> FALSE,
         due |-> TRUE] \in EventRow
      /\ [status |-> "NONE", attempts |-> 0] \in DeliveryRow
      /\ 0 \in 0..MaxFaults /\ 0 \in 0..MaxRedrives
  BY ConstantsAssumption DEF EventRow, DeliveryRow
<1>1. TypeOK
  BY <1>0, RestTypes DEF Init, TypeOK
<1>2. RecordsAgree
  BY DEF Init, RecordsAgree
<1>3. ActorsSound
  BY RestTypes DEF Init, ActorsSound
<1> QED
  BY <1>1, <1>2, <1>3 DEF IInv

\* A job id names its event and an attempt.
LEMMA JobParts ==
  ASSUME NEW j \in JobIds
  PROVE  j[1] \in Events /\ j[2] \in 1..MaxClaims /\ j = <<j[1], j[2]>>
BY DEF JobIds

\* The cycle goes on, or ends, with a well-formed dispatcher.
LEMMA ProceedSound ==
  ASSUME TypeOK, ActorsSound, NEW d \in Dispatchers, NEW j, Proceed(d, j)
  PROVE  /\ disp' \in [Dispatchers -> DispatcherState]
         /\ \A x \in Dispatchers : disp'[x].pc = "release" => disp'[x].current \in JobIds
<1> DEFINE rest == disp[d].batch \ {j}
           s == IF rest = {} THEN Resting
                ELSE [disp[d] EXCEPT !.pc = "enqueue", !.batch = rest, !.current = None]
<1>1. disp \in [Dispatchers -> DispatcherState]
  BY DEF TypeOK
<1>2. disp' = [disp EXCEPT ![d] = s]
  BY <1>1 DEF Proceed
<1>3. s \in DispatcherState /\ s.pc # "release"
  BY <1>1, RestTypes DEF DispatcherState
<1> QED
  BY <1>1, <1>2, <1>3 DEF ActorsSound

\* A slot that finishes is idle, the others keep theirs, the queue stays well formed.
LEMMA FinishSound ==
  ASSUME TypeOK, NEW w \in Workers, Finish(w), work[w].pc # "idle", ActorsSound
  PROVE  /\ jobs' \in [JobIds -> Job]
         /\ work' \in [Workers -> WorkerState]
         /\ work'[w].pc = "idle"
         /\ \A v \in Workers \ {w} : work'[v] = work[v]
<1>1. <<work[w].event, work[w].attempt>> \in JobIds
  BY DEF ActorsSound, JobIds
<1>2. jobs \in [JobIds -> Job] /\ work \in [Workers -> WorkerState]
  BY DEF TypeOK
<1>3. work' = [work EXCEPT ![w] = NoWork]
  BY DEF Finish
<1>4. jobs' \in [JobIds -> Job]
  BY <1>1, <1>2, RestTypes DEF Finish
<1> QED
  BY <1>2, <1>3, <1>4, RestTypes

\* A slot that moves on keeps its job, the others keep theirs.
LEMMA GotoSound ==
  ASSUME TypeOK, NEW w \in Workers, NEW at \in WorkerPCs, Goto(w, at)
  PROVE  /\ jobs' \in [JobIds -> Job]
         /\ work' \in [Workers -> WorkerState]
         /\ work'[w].pc = at
         /\ work'[w].event = work[w].event /\ work'[w].attempt = work[w].attempt
         /\ \A v \in Workers \ {w} : work'[v] = work[v]
<1>1. jobs \in [JobIds -> Job] /\ work \in [Workers -> WorkerState]
  BY DEF TypeOK
<1> QED
  BY <1>1 DEF Goto, WorkerState

\* Steps of the dispatcher, the queue and the clock.
LEMMA DispatcherKeeps ==
  ASSUME IInv, NEW d \in Dispatchers,
         Dispatch(d) \/ EnqueueFails(d) \/ ReleaseFails(d) \/ DispatcherCrash(d)
  PROVE  IInv'
<1> USE DEF IInv
<1>0. /\ disp \in [Dispatchers -> DispatcherState] /\ jobs \in [JobIds -> Job]
      /\ event \in [Events -> EventRow]
      /\ disp[d].token \in Tokens \cup {None} /\ disp[d].batch \subseteq JobIds
  BY DEF TypeOK, DispatcherState
<1>1. CASE ClaimBatch(d)
  <2>1. PICK t \in Tokens, S \in Batches :
          /\ S # {}
          /\ event' = [e \in Events |->
               IF e \in S THEN [status |-> "PROCESSING", token |-> t, live |-> TRUE,
                                attempts |-> event[e].attempts + 1, due |-> event[e].due]
               ELSE event[e]]
          /\ disp' = [disp EXCEPT ![d] = [pc |-> "enqueue", token |-> t, current |-> None,
                                    batch |-> {<<e, event[e].attempts + 1>> : e \in S}]]
          /\ UNCHANGED <<delivery, accepted, mails, jobs, work, faults, redrives>>
    BY <1>1 DEF ClaimBatch
  <2>2. \A e \in S : /\ e \in Events
                     /\ event[e].status \in {"PENDING", "PROCESSING"}
                     /\ event[e].attempts + 1 \in 1..MaxClaims
    <3>1. S \subseteq Expired \cup Due
      BY DEF Batches
    <3> QED
      BY <1>0, <3>1, ConstantsAssumption DEF Expired, Due, Claimable, EventRow
  <2>3. event' \in [Events -> EventRow]
    <3> SUFFICES ASSUME NEW e \in Events PROVE event'[e] \in EventRow
      BY <2>1
    <3>1. event[e] \in EventRow
      BY <1>0
    <3> QED
      BY <2>1, <2>2, <3>1 DEF EventRow
  <2>4. {<<e, event[e].attempts + 1>> : e \in S} \subseteq JobIds
    BY <2>2 DEF JobIds
  <2>5. disp' \in [Dispatchers -> DispatcherState]
    BY <1>0, <2>1, <2>4 DEF DispatcherState
  <2>6. TypeOK'
    BY <2>1, <2>3, <2>5 DEF TypeOK
  <2>7. RecordsAgree'
    BY <2>1, <2>2, ConstantsAssumption DEF RecordsAgree
  <2>8. ActorsSound'
    BY <1>0, <2>1 DEF ActorsSound
  <2> QED
    BY <2>6, <2>7, <2>8
<1>2. ASSUME NEW j \in JobIds, Add(j, disp[d].token)
      PROVE  jobs' \in [JobIds -> Job]
  BY <1>0, <1>2, RestTypes DEF Add
<1>3. CASE Enqueue(d)
  <2>1. PICK j \in disp[d].batch :
          /\ Add(j, disp[d].token) /\ Proceed(d, j)
          /\ UNCHANGED <<rowVars, mails, work, faults, redrives>>
    BY <1>3 DEF Enqueue
  <2>2. jobs' \in [JobIds -> Job]
    BY <1>0, <1>2, <2>1
  <2> QED
    BY <2>1, <2>2, ProceedSound DEF TypeOK, RecordsAgree, ActorsSound, rowVars
<1>4. CASE EnqueueFails(d)
  <2>1. PICK j \in disp[d].batch :
          /\ UNCHANGED jobs \/ Add(j, disp[d].token)
          /\ faults < MaxFaults /\ faults' = faults + 1
          /\ disp' = [disp EXCEPT ![d].pc = "release", ![d].current = j]
          /\ UNCHANGED <<rowVars, mails, work, redrives>>
    BY <1>4 DEF EnqueueFails, Fault
  <2>2. jobs' \in [JobIds -> Job] /\ j \in JobIds
    BY <1>0, <1>2, <2>1
  <2>3. disp' \in [Dispatchers -> DispatcherState]
    <3>1. disp' = [disp EXCEPT ![d] = [disp[d] EXCEPT !.pc = "release", !.current = j]]
      BY <1>0, <2>1
    <3>2. [disp[d] EXCEPT !.pc = "release", !.current = j] \in DispatcherState
      BY <1>0, <2>2 DEF DispatcherState
    <3> QED
      BY <1>0, <3>1, <3>2
  <2>4. faults' \in 0..MaxFaults
    BY <2>1, ConstantsAssumption DEF TypeOK
  <2>5. TypeOK' /\ RecordsAgree'
    BY <2>1, <2>2, <2>3, <2>4 DEF TypeOK, RecordsAgree, rowVars
  <2>6. ActorsSound'
    BY <1>0, <2>1, <2>2 DEF ActorsSound, rowVars, DispatcherState
  <2> QED
    BY <2>5, <2>6
<1>5. CASE Release(d)
  <2> DEFINE j == disp[d].current
             e == j[1]
  <2>1. j \in JobIds /\ e \in Events /\ j[2] \in 1..MaxClaims
    BY <1>5, JobParts DEF Release, ActorsSound
  <2>2. Proceed(d, j) /\ UNCHANGED <<delivery, accepted, mails, jobs, work, faults, redrives>>
    BY <1>5 DEF Release
  <2>3. \/ event' = event
        \/ /\ Holds(e, disp[d].token, j[2])
           /\ event' = [event EXCEPT ![e] = [status |-> "PENDING", token |-> None,
                          live |-> FALSE, due |-> FALSE, attempts |-> event[e].attempts - 1]]
    BY <1>0, <1>5 DEF Release
  <2>4. event' \in [Events -> EventRow]
    <3>1. CASE Holds(e, disp[d].token, j[2])
      <4>1. event[e].attempts - 1 \in 0..MaxClaims
        BY <2>1, <3>1, ConstantsAssumption DEF Holds
      <4>2. [status |-> "PENDING", token |-> None, live |-> FALSE, due |-> FALSE,
             attempts |-> event[e].attempts - 1] \in EventRow
        BY <4>1 DEF EventRow
      <4> QED
        BY <1>0, <2>1, <2>3, <4>2
    <3> QED
      BY <1>0, <2>3, <3>1
  <2>5. TypeOK'
    BY <2>2, <2>4, ProceedSound DEF TypeOK
  <2>6. RecordsAgree'
    BY <1>0, <2>1, <2>2, <2>3 DEF RecordsAgree, Holds
  <2>7. ActorsSound'
    BY <2>2, ProceedSound DEF ActorsSound
  <2> QED
    BY <2>5, <2>6, <2>7
<1>6. CASE ReleaseFails(d)
  <2>1. faults' \in 0..MaxFaults
    BY <1>6, ConstantsAssumption DEF ReleaseFails, Fault, TypeOK
  <2> QED
    BY <1>6, <2>1, ProceedSound DEF ReleaseFails, TypeOK, RecordsAgree, ActorsSound, rowVars
<1>7. CASE DispatcherCrash(d)
  <2>1. faults' \in 0..MaxFaults
    BY <1>7, ConstantsAssumption DEF DispatcherCrash, Fault, TypeOK
  <2>2. disp' \in [Dispatchers -> DispatcherState]
    BY <1>0, <1>7, RestTypes DEF DispatcherCrash
  <2>3. TypeOK' /\ RecordsAgree'
    BY <1>7, <2>1, <2>2 DEF DispatcherCrash, TypeOK, RecordsAgree, rowVars
  <2>4. ActorsSound'
    BY <1>0, <1>7, RestTypes DEF DispatcherCrash, ActorsSound, rowVars
  <2> QED
    BY <2>3, <2>4
<1> QED
  BY <1>1, <1>3, <1>4, <1>5, <1>6, <1>7 DEF Dispatch

\* The row a verdict leaves: the event moves only if the slot still holds its claim.
LEMMA FinishEventTyped ==
  ASSUME TypeOK, ActorsSound, NEW w \in Workers, work[w].pc # "idle",
         NEW to \in {"PENDING", "PROCESSED", "FAILED"}, FinishEvent(w, to)
  PROVE  /\ event' \in [Events -> EventRow]
         /\ \A e \in Events : e # work[w].event \/ ~HoldsClaim(w) => event'[e] = event[e]
         /\ HoldsClaim(w) => /\ event'[work[w].event].status = to
                             /\ event'[work[w].event].token = None
<1>1. work[w].event \in Events /\ event \in [Events -> EventRow]
  BY DEF TypeOK, ActorsSound
<1> DEFINE row == [status |-> to, token |-> None, live |-> FALSE, due |-> FALSE,
                   attempts |-> event[work[w].event].attempts]
<1>2. row \in EventRow
  BY <1>1 DEF EventRow
<1>3. event' = IF HoldsClaim(w) THEN [event EXCEPT ![work[w].event] = row] ELSE event
  BY <1>1 DEF FinishEvent
<1> QED
  BY <1>1, <1>2, <1>3

\* The delivery follows in the same transaction, only if it was still PENDING.
LEMMA UpdateDeliveryTyped ==
  ASSUME TypeOK, ActorsSound, NEW w \in Workers, work[w].pc # "idle",
         NEW to \in {"SENT", "FAILED"}, UpdateDelivery(w, to)
  PROVE  /\ delivery' \in [Events -> DeliveryRow]
         /\ \A e \in Events : delivery[e].status # "NONE" => delivery'[e].status # "NONE"
         /\ \A e \in Events :
              delivery'[e].status = IF /\ e = work[w].event /\ HoldsClaim(w)
                                       /\ delivery[e].status = "PENDING"
                                    THEN to ELSE delivery[e].status
         /\ \A e \in Events : e # work[w].event \/ ~HoldsClaim(w) => delivery'[e] = delivery[e]
<1>1. work[w].event \in Events /\ delivery \in [Events -> DeliveryRow]
  BY DEF TypeOK, ActorsSound
<1> DEFINE row == [delivery[work[w].event] EXCEPT !.status = to]
<1>2. row \in DeliveryRow /\ row.status = to
  BY <1>1 DEF DeliveryRow
<1>3. delivery' = IF HoldsClaim(w) /\ delivery[work[w].event].status = "PENDING"
                  THEN [delivery EXCEPT ![work[w].event] = row] ELSE delivery
  BY <1>1 DEF UpdateDelivery
<1> QED
  BY <1>1, <1>2, <1>3

\* A verdict of the slot w: fenced by its claim, delivery and event agree.
LEMMA VerdictKeeps ==
  ASSUME IInv, NEW w \in Workers, work[w].pc # "idle", Finish(w),
         NEW to \in {"PENDING", "PROCESSED", "FAILED"}, FinishEvent(w, to),
         \/ to = "PROCESSED" /\ UpdateDelivery(w, "SENT")
            /\ delivery[work[w].event].status # "NONE"
         \/ to = "FAILED" /\ UpdateDelivery(w, "FAILED")
         \/ to = "PENDING" /\ UNCHANGED delivery,
         UNCHANGED <<accepted, mails, disp, faults, redrives>>
  PROVE  IInv'
<1> USE DEF IInv
<1>0. delivery \in [Events -> DeliveryRow] /\ work[w].event \in Events
  BY DEF TypeOK, ActorsSound
<1>1. /\ delivery' \in [Events -> DeliveryRow]
      /\ \A e \in Events : delivery[e].status # "NONE" => delivery'[e].status # "NONE"
  BY <1>0, UpdateDeliveryTyped
<1>2. TypeOK'
  BY <1>1, FinishSound, FinishEventTyped DEF TypeOK
<1>3. ActorsSound'
  BY <1>1, FinishSound DEF ActorsSound
<1>4. RecordsAgree'
  <2> SUFFICES ASSUME NEW e \in Events
               PROVE  /\ event'[e].status = "PROCESSED" <=> delivery'[e].status = "SENT"
                      /\ event'[e].status = "FAILED" => delivery'[e].status \in {"NONE", "FAILED"}
                      /\ event'[e].status \in {"PENDING", "PROCESSING"} =>
                           delivery'[e].status \in {"NONE", "PENDING"}
                      /\ event'[e].token # None <=> event'[e].status = "PROCESSING"
    BY DEF RecordsAgree
  <2>1. CASE e # work[w].event \/ ~HoldsClaim(w)
    <3>1. event'[e] = event[e] /\ delivery'[e] = delivery[e]
      BY <2>1, FinishEventTyped, UpdateDeliveryTyped
    <3> QED
      BY <3>1 DEF RecordsAgree
  <2>2. CASE e = work[w].event /\ HoldsClaim(w)
    <3>1. delivery[e].status \in {"NONE", "PENDING"}
      BY <2>2 DEF HoldsClaim, Holds, RecordsAgree
    <3>2. event'[e].status = to /\ event'[e].token = None
      BY <2>2, FinishEventTyped
    <3>3. \/ to = "PROCESSED" /\ delivery'[e].status = "SENT"
          \/ to = "FAILED" /\ delivery'[e].status \in {"NONE", "FAILED"}
          \/ to = "PENDING" /\ delivery'[e].status \in {"NONE", "PENDING"}
      BY <2>2, <3>1, UpdateDeliveryTyped
    <3> QED
      BY <3>2, <3>3
  <2> QED
    BY <2>1, <2>2
<1> QED
  BY <1>2, <1>3, <1>4

\* A slot that only moves on, with the rows it must have, disturbs nothing.
LEMMA MoveKeeps ==
  ASSUME IInv, NEW w \in Workers,
         jobs' \in [JobIds -> Job], work' \in [Workers -> WorkerState],
         \A v \in Workers \ {w} : work'[v] = work[v],
         work'[w].pc # "idle" =>
           work'[w].event \in Events /\ work'[w].attempt \in 1..MaxClaims,
         work'[w].pc \in {"send", "accept", "result", "refused"} =>
           delivery'[work'[w].event].status # "NONE",
         delivery' \in [Events -> DeliveryRow],
         \A e \in Events : \/ delivery'[e].status = delivery[e].status
                           \/ /\ delivery'[e].status = "PENDING"
                              /\ event[e].status = "PROCESSING",
         accepted' \in [Events -> Nat], mails' \in [Events -> Nat], faults' \in 0..MaxFaults,
         UNCHANGED <<event, disp, redrives>>
  PROVE  IInv'
<1> USE DEF IInv
<1>1. TypeOK'
  BY DEF TypeOK
<1>2. RecordsAgree'
  BY DEF RecordsAgree
<1>3. ActorsSound'
  BY DEF ActorsSound
<1> QED
  BY <1>1, <1>2, <1>3

\* One more failure stays within its bound.
LEMMA FaultBound ==
  ASSUME TypeOK, Fault
  PROVE  faults' \in 0..MaxFaults
BY ConstantsAssumption DEF TypeOK, Fault

\* Steps of a worker slot.
LEMMA WorkerKeeps ==
  ASSUME IInv, NEW w \in Workers,
         TakeJob(w) \/ Deliver(w) \/ SendTimesOut(w) \/ WorkerThrows(w) \/ WorkerCrash(w)
  PROVE  IInv'
<1> USE DEF IInv
<1>0. /\ jobs \in [JobIds -> Job] /\ work \in [Workers -> WorkerState]
      /\ delivery \in [Events -> DeliveryRow]
      /\ accepted \in [Events -> Nat] /\ mails \in [Events -> Nat]
      /\ faults \in 0..MaxFaults
      /\ work[w].pc # "idle" => work[w].event \in Events /\ work[w].attempt \in 1..MaxClaims
  BY DEF TypeOK, ActorsSound
<1>1. CASE TakeJob(w)
  <2>1. PICK j \in JobIds :
          /\ jobs' = [jobs EXCEPT ![j].state = "active", ![j].holder = w]
          /\ work' = [work EXCEPT ![w] = [pc |-> "claim", event |-> j[1], attempt |-> j[2],
                                          token |-> jobs[j].token, retryable |-> FALSE]]
          /\ UNCHANGED <<rowVars, mails, disp, faults, redrives>>
    BY <1>1 DEF TakeJob
  <2>2. j[1] \in Events /\ j[2] \in 1..MaxClaims /\ j[2] \in 0..MaxClaims
    BY JobParts, ConstantsAssumption
  <2>3. [pc |-> "claim", event |-> j[1], attempt |-> j[2],
         token |-> jobs[j].token, retryable |-> FALSE] \in WorkerState
    BY <1>0, <2>2 DEF WorkerState, WorkerPCs, Job
  <2>4. jobs' \in [JobIds -> Job]
    <3>1. [jobs[j] EXCEPT !.state = "active", !.holder = w] \in Job
      BY <1>0 DEF Job
    <3>2. jobs' = [jobs EXCEPT ![j] = [jobs[j] EXCEPT !.state = "active", !.holder = w]]
      BY <1>0, <2>1
    <3> QED
      BY <1>0, <3>1, <3>2
  <2> QED
    BY <1>0, <2>1, <2>2, <2>3, <2>4, MoveKeeps DEF rowVars
<1>2. CASE ClaimWork(w)
  <2> DEFINE e == work[w].event
  <2>0. work[w].pc # "idle" /\ e \in Events
        /\ UNCHANGED <<event, accepted, mails, disp, faults, redrives>>
    BY <1>0, <1>2 DEF ClaimWork
  <2>1. CASE /\ HoldsClaim(w) /\ delivery' = [delivery EXCEPT ![e] = Prepared(@)]
             /\ Goto(w, "send")
    <3>1. Prepared(delivery[e]) \in DeliveryRow /\ Prepared(delivery[e]).status = "PENDING"
      BY <1>0, <2>0 DEF Prepared, DeliveryRow
    <3>2. delivery' \in [Events -> DeliveryRow] /\ delivery'[e].status = "PENDING"
          /\ \A x \in Events \ {e} : delivery'[x] = delivery[x]
      BY <1>0, <2>0, <2>1, <3>1
    <3>3. event[e].status = "PROCESSING"
      BY <2>1 DEF HoldsClaim, Holds
    <3>4. "send" \in WorkerPCs
      BY DEF WorkerPCs
    <3>5. /\ jobs' \in [JobIds -> Job] /\ work' \in [Workers -> WorkerState]
          /\ work'[w].pc = "send" /\ work'[w].event = e /\ work'[w].attempt = work[w].attempt
          /\ \A v \in Workers \ {w} : work'[v] = work[v]
      BY <2>1, <3>4, GotoSound
    <3> QED
      BY <1>0, <2>0, <3>2, <3>3, <3>5, MoveKeeps
  <2>2. ASSUME UNCHANGED delivery, NEW at \in {"resolved", "unsendable"}, Goto(w, at)
        PROVE  IInv'
    <3>1. at \in WorkerPCs /\ at \notin {"send", "accept", "result", "refused"}
      BY <2>2 DEF WorkerPCs
    <3>2. /\ jobs' \in [JobIds -> Job] /\ work' \in [Workers -> WorkerState]
          /\ work'[w].pc = at /\ work'[w].event = e /\ work'[w].attempt = work[w].attempt
          /\ \A v \in Workers \ {w} : work'[v] = work[v]
      BY <2>2, <3>1, GotoSound
    <3> QED
      BY <1>0, <2>0, <2>2, <3>1, <3>2, MoveKeeps
  <2>3. CASE UNCHANGED delivery /\ Finish(w)
    BY <1>0, <2>0, <2>3, FinishSound, MoveKeeps
  <2> QED
    BY <1>2, <2>1, <2>2, <2>3 DEF ClaimWork
<1>3. ASSUME work[w].pc = "send", NEW at \in {"accept", "refused"}, NEW r \in BOOLEAN,
             work' = [work EXCEPT ![w] = [work[w] EXCEPT !.pc = at, !.retryable = r]],
             mails' = mails \/ mails' = [mails EXCEPT ![work[w].event] = @ + 1],
             faults' \in 0..MaxFaults,
             UNCHANGED <<rowVars, jobs, disp, redrives>>
      PROVE  IInv'
  <2>1. [work[w] EXCEPT !.pc = at, !.retryable = r] \in WorkerState
    <3>1. at \in WorkerPCs /\ work[w] \in WorkerState
      BY <1>0, <1>3 DEF WorkerPCs
    <3> QED
      BY <3>1, <1>3 DEF WorkerState
  <2>2. delivery[work[w].event].status # "NONE"
    BY <1>3 DEF ActorsSound
  <2>3. mails' \in [Events -> Nat]
    BY <1>0, <1>3
  <2>4. /\ work' \in [Workers -> WorkerState]
        /\ work'[w].pc = at /\ work'[w].event = work[w].event
        /\ work'[w].attempt = work[w].attempt
        /\ \A v \in Workers \ {w} : work'[v] = work[v]
    BY <1>0, <1>3, <2>1 DEF WorkerState
  <2> QED
    BY <1>0, <1>3, <2>2, <2>3, <2>4, MoveKeeps DEF rowVars
<1>4. CASE Send(w)
  <2>1. work[w].pc = "send" /\ UNCHANGED <<rowVars, jobs, disp, faults, redrives>>
    BY <1>4 DEF Send
  <2>2. CASE /\ mails' = [mails EXCEPT ![work[w].event] = @ + 1]
             /\ work' = [work EXCEPT ![w].pc = "accept"]
    <3>1. work' = [work EXCEPT ![w] = [work[w] EXCEPT !.pc = "accept",
                                                      !.retryable = work[w].retryable]]
          /\ work[w].retryable \in BOOLEAN
      BY <1>0, <2>2 DEF WorkerState
    <3> QED
      BY <1>0, <1>3, <2>1, <2>2, <3>1
  <2>3. ASSUME NEW r \in BOOLEAN, UNCHANGED mails,
               work' = [work EXCEPT ![w].pc = "refused", ![w].retryable = r]
        PROVE  IInv'
    <3>1. work' = [work EXCEPT ![w] = [work[w] EXCEPT !.pc = "refused", !.retryable = r]]
      BY <1>0, <2>3
    <3> QED
      BY <1>0, <1>3, <2>1, <2>3, <3>1
  <2> QED
    BY <1>4, <2>2, <2>3 DEF Send
<1>5. CASE SendTimesOut(w)
  <2>1. work' = [work EXCEPT ![w] = [work[w] EXCEPT !.pc = "refused", !.retryable = TRUE]]
    BY <1>0, <1>5 DEF SendTimesOut
  <2> QED
    BY <1>3, <1>5, <2>1, FaultBound DEF SendTimesOut
<1>6. CASE RecordAcceptance(w)
  <2>1. accepted' \in [Events -> Nat] /\ faults' \in 0..MaxFaults
    BY <1>0, <1>6, FaultBound DEF RecordAcceptance
  <2>2. "result" \in WorkerPCs /\ work[w].pc = "accept" /\ Goto(w, "result")
    BY <1>6 DEF WorkerPCs, RecordAcceptance
  <2>3. delivery[work[w].event].status # "NONE"
    BY <2>2 DEF ActorsSound
  <2>4. /\ jobs' \in [JobIds -> Job] /\ work' \in [Workers -> WorkerState]
        /\ work'[w].pc = "result" /\ work'[w].event = work[w].event
        /\ work'[w].attempt = work[w].attempt
        /\ \A v \in Workers \ {w} : work'[v] = work[v]
    BY <2>2, GotoSound
  <2>5. UNCHANGED <<event, delivery, mails, disp, redrives>>
    BY <1>6 DEF RecordAcceptance
  <2> QED
    BY <1>0, <2>1, <2>2, <2>3, <2>4, <2>5, MoveKeeps
<1>7. CASE MarkSent(w)
  <2>1. delivery[work[w].event].status # "NONE"
    BY <1>7 DEF MarkSent, ActorsSound
  <2> QED
    BY <1>7, <2>1, VerdictKeeps DEF MarkSent
<1>8. CASE RecordProviderFailure(w)
  BY <1>8, VerdictKeeps DEF RecordProviderFailure, MarkFailed, MarkRetry
<1>9. CASE FinishWithoutSending(w)
  <2> DEFINE found == delivery[work[w].event].status
  <2>0. /\ work[w].pc \in {"unsendable", "resolved"} /\ work[w].pc # "idle" /\ Finish(w)
        /\ UNCHANGED <<accepted, mails, disp, faults, redrives>>
        /\ work[w].event \in Events
    BY <1>0, <1>9 DEF FinishWithoutSending
  <2>1. CASE work[w].pc = "unsendable"
    <3>1. FinishEvent(w, "FAILED") /\ UpdateDelivery(w, "FAILED")
      BY <1>9, <2>1 DEF FinishWithoutSending, MarkFailed
    <3> QED
      BY <2>0, <3>1, VerdictKeeps
  <2>2. CASE work[w].pc = "resolved" /\ ~HoldsClaim(w)
    <3>1. UNCHANGED <<event, delivery>>
      BY <1>9, <2>2 DEF FinishWithoutSending, MatchResolvedDelivery, FinishEvent
    <3> QED
      BY <1>0, <2>0, <3>1, FinishSound, MoveKeeps
  <2>3. CASE work[w].pc = "resolved" /\ HoldsClaim(w)
    <3>1. found \in {"NONE", "PENDING"}
      BY <2>0, <2>3 DEF HoldsClaim, Holds, RecordsAgree
    <3>2. UNCHANGED <<event, delivery>>
      BY <1>9, <2>3, <3>1 DEF FinishWithoutSending, MatchResolvedDelivery
    <3> QED
      BY <1>0, <2>0, <3>2, FinishSound, MoveKeeps
  <2> QED
    BY <2>0, <2>1, <2>2, <2>3
<1>10. CASE WorkerThrows(w)
  <2>1. work[w].pc # "idle" /\ Finish(w) /\ UNCHANGED <<rowVars, mails, disp, redrives>>
    BY <1>10 DEF WorkerThrows
  <2>2. faults' \in 0..MaxFaults
    BY <1>10, FaultBound DEF WorkerThrows
  <2> QED
    BY <1>0, <2>1, <2>2, FinishSound, MoveKeeps DEF rowVars
<1>11. CASE WorkerCrash(w)
  <2>1. /\ work' = [work EXCEPT ![w] = NoWork]
        /\ UNCHANGED <<rowVars, mails, jobs, disp, redrives>>
    BY <1>11 DEF WorkerCrash
  <2>2. faults' \in 0..MaxFaults
    BY <1>11, FaultBound DEF WorkerCrash
  <2> QED
    BY <1>0, <2>1, <2>2, RestTypes, MoveKeeps DEF rowVars
<1> QED
  BY <1>1, <1>2, <1>4, <1>5, <1>6, <1>7, <1>8, <1>9, <1>10, <1>11 DEF Deliver

\* Steps of the queue.
LEMMA QueueKeeps ==
  ASSUME IInv, NEW j \in JobIds, Stalled(j) \/ Evict(j)
  PROVE  IInv'
<1> USE DEF IInv
<1>1. jobs \in [JobIds -> Job] /\ jobs[j] \in Job
  BY DEF TypeOK
<1>2. [jobs[j] EXCEPT !.state = "waiting", !.holder = None, !.stalls = 1] \in Job
  <2>1. 1 \in 0..1
    OBVIOUS
  <2> QED
    BY <1>1, <2>1 DEF Job
<1>3. jobs' \in [JobIds -> Job]
  BY <1>1, <1>2, RestTypes DEF Stalled, Evict
<1>4. faults' \in 0..MaxFaults
  <2>1. faults \in 0..MaxFaults
    BY DEF TypeOK
  <2> QED
    BY <2>1, FaultBound DEF Stalled, Evict
<1>5. UNCHANGED <<rowVars, mails, disp, work, redrives>>
  BY DEF Stalled, Evict
<1> QED
  BY <1>3, <1>4, <1>5 DEF TypeOK, RecordsAgree, ActorsSound, rowVars

\* Steps of the clock and of the operator.
LEMMA ClockKeeps ==
  ASSUME IInv, NEW e \in Events,
         \/ LeaseExpires(e) \/ BecomesDue(e)
         \/ \E allowDuplicate \in BOOLEAN : Redrive(e, allowDuplicate)
  PROVE  IInv'
<1> USE DEF IInv
<1>0. /\ event \in [Events -> EventRow] /\ delivery \in [Events -> DeliveryRow]
      /\ faults \in 0..MaxFaults /\ redrives \in 0..MaxRedrives
  BY DEF TypeOK
<1>1. CASE LeaseExpires(e)
  <2>1. /\ event' = [event EXCEPT ![e] = [event[e] EXCEPT !.live = FALSE]]
        /\ UNCHANGED <<delivery, accepted, mails, jobs, disp, work, redrives>>
    BY <1>0, <1>1 DEF LeaseExpires
  <2>2. [event[e] EXCEPT !.live = FALSE] \in EventRow
    BY <1>0 DEF EventRow
  <2>3. /\ event' \in [Events -> EventRow]
        /\ \A x \in Events : event'[x].status = event[x].status /\ event'[x].token = event[x].token
    BY <1>0, <2>1, <2>2 DEF EventRow
  <2>4. faults' \in 0..MaxFaults
    BY <1>0, <1>1, FaultBound DEF LeaseExpires
  <2> QED
    BY <2>1, <2>3, <2>4 DEF TypeOK, RecordsAgree, ActorsSound
<1>2. CASE BecomesDue(e)
  <2>1. /\ event' = [event EXCEPT ![e] = [event[e] EXCEPT !.due = TRUE]]
        /\ UNCHANGED <<delivery, accepted, mails, jobs, disp, work, faults, redrives>>
    BY <1>0, <1>2 DEF BecomesDue
  <2>2. [event[e] EXCEPT !.due = TRUE] \in EventRow
    BY <1>0 DEF EventRow
  <2>3. /\ event' \in [Events -> EventRow]
        /\ \A x \in Events : event'[x].status = event[x].status /\ event'[x].token = event[x].token
    BY <1>0, <2>1, <2>2 DEF EventRow
  <2> QED
    BY <2>1, <2>3 DEF TypeOK, RecordsAgree, ActorsSound
<1>3. CASE \E allowDuplicate \in BOOLEAN : Redrive(e, allowDuplicate)
  <2> DEFINE row == [status |-> "PENDING", token |-> None, live |-> FALSE, due |-> TRUE,
                     attempts |-> 0]
             found == delivery[e].status
             drow == [delivery[e] EXCEPT !.status = IF found = "FAILED" THEN "PENDING" ELSE found]
  <2>1. /\ event[e].status = "FAILED" /\ redrives < MaxRedrives
        /\ event' = [event EXCEPT ![e] = row] /\ delivery' = [delivery EXCEPT ![e] = drow]
        /\ redrives' = redrives + 1
        /\ UNCHANGED <<accepted, mails, jobs, disp, work, faults>>
    BY <1>0, <1>3 DEF Redrive
  <2>2. row \in EventRow
    BY ConstantsAssumption DEF EventRow
  <2>3. found \in {"NONE", "FAILED"}
    BY <2>1 DEF RecordsAgree
  <2>4. drow \in DeliveryRow /\ drow.status = (IF found = "FAILED" THEN "PENDING" ELSE found)
    BY <1>0 DEF DeliveryRow
  <2>5. /\ event' \in [Events -> EventRow] /\ delivery' \in [Events -> DeliveryRow]
        /\ redrives' \in 0..MaxRedrives
    BY <1>0, <2>1, <2>2, <2>4, ConstantsAssumption
  <2>6. TypeOK'
    BY <2>1, <2>5 DEF TypeOK
  <2>7. RecordsAgree'
    BY <1>0, <2>1, <2>3, <2>4 DEF RecordsAgree
  <2>8. ActorsSound'
    <3>1. \A x \in Events : delivery[x].status # "NONE" => delivery'[x].status # "NONE"
      BY <1>0, <2>1, <2>4
    <3> QED
      BY <2>1, <3>1 DEF ActorsSound
  <2> QED
    BY <2>6, <2>7, <2>8
<1> QED
  BY <1>1, <1>2, <1>3

\* Every step preserves the inductive invariant.
LEMMA NextIInv == IInv /\ [Next]_vars => IInv'
<1> SUFFICES ASSUME IInv, [Next]_vars PROVE IInv'
  OBVIOUS
<1>1. CASE Next
  BY <1>1, DispatcherKeeps, WorkerKeeps, QueueKeeps, ClockKeeps DEF Next
<1>2. CASE UNCHANGED vars
  BY <1>2 DEF IInv, TypeOK, RecordsAgree, ActorsSound, vars, rowVars
<1> QED
  BY <1>1, <1>2

\* The inductive invariant holds throughout.
THEOREM Invariance == Spec => []IInv
BY InitIInv, NextIInv, PTL DEF Spec

\* Every row, job, cycle and slot of the notification pipeline keeps its shape: a release
\* never takes an attempt below zero, whatever late dispatchers do (release).
THEOREM TypeCorrect == Spec => []TypeOK
<1>1. IInv => TypeOK
  BY DEF IInv
<1> QED
  BY <1>1, Invariance, PTL

\* The outbox row and its delivery never contradict each other, for any number of
\* dispatchers, workers, failures and redrives (finishEvent, updateDelivery, redrive).
THEOREM RecordsNeverContradict == Spec => []RecordsAgree
<1>1. IInv => RecordsAgree
  BY DEF IInv
<1> QED
  BY <1>1, Invariance, PTL

\* What one step may do to an event that has its verdict.
VerdictKept(e) ==
  /\ event[e].status = "PROCESSED" => event'[e] = event[e] /\ delivery'[e] = delivery[e]
  /\ event[e].status = "FAILED" /\ event'[e] # event[e] =>
       /\ redrives' = redrives + 1
       /\ event'[e].status = "PENDING" /\ event'[e].attempts = 0

\* A verdict of any slot leaves other events and resolved ones alone: it is fenced.
LEMMA FencedVerdict ==
  ASSUME IInv, NEW w \in Workers, work[w].pc # "idle",
         NEW e \in Events, event[e].status \in {"PROCESSED", "FAILED"}
  PROVE  /\ \A to \in {"PENDING", "PROCESSED", "FAILED"} :
              FinishEvent(w, to) => event'[e] = event[e]
         /\ \A to \in {"SENT", "FAILED"} : UpdateDelivery(w, to) => delivery'[e] = delivery[e]
<1>1. ~HoldsClaim(w) \/ e # work[w].event
  BY DEF HoldsClaim, Holds
<1> QED
  BY <1>1, FinishEventTyped, UpdateDeliveryTyped DEF IInv

\* No step of anybody touches a verdict but the operator's redrive.
LEMMA StepKeepsVerdict ==
  ASSUME IInv, [Next]_vars, NEW e \in Events
  PROVE  VerdictKept(e)
<1> SUFFICES ASSUME event[e].status \in {"PROCESSED", "FAILED"} PROVE VerdictKept(e)
  BY DEF VerdictKept
<1>0. /\ event \in [Events -> EventRow] /\ delivery \in [Events -> DeliveryRow]
      /\ e \notin Expired \cup Due
  BY DEF IInv, TypeOK, Expired, Due
<1>1. ASSUME event'[e] = event[e], delivery'[e] = delivery[e] PROVE VerdictKept(e)
  BY <1>1 DEF VerdictKept
<1>2. ASSUME NEW d \in Dispatchers,
             Dispatch(d) \/ EnqueueFails(d) \/ ReleaseFails(d) \/ DispatcherCrash(d)
      PROVE  VerdictKept(e)
  <2>1. CASE ClaimBatch(d)
    <3>1. PICK S \in Batches, t \in Tokens : event' = [x \in Events |->
               IF x \in S THEN [status |-> "PROCESSING", token |-> t, live |-> TRUE,
                                attempts |-> event[x].attempts + 1, due |-> event[x].due]
               ELSE event[x]]
      BY <2>1 DEF ClaimBatch
    <3>2. e \notin S
      BY <1>0 DEF Batches
    <3> QED
      BY <1>1, <2>1, <3>1, <3>2 DEF ClaimBatch
  <2>2. CASE Release(d)
    <3>1. disp[d].current[1] \in Events
      BY <2>2, JobParts DEF Release, IInv, ActorsSound
    <3> QED
      BY <1>0, <1>1, <2>2, <3>1 DEF Release, Holds
  <2>3. CASE Enqueue(d) \/ EnqueueFails(d) \/ ReleaseFails(d) \/ DispatcherCrash(d)
    BY <1>1, <2>3 DEF Enqueue, EnqueueFails, ReleaseFails, DispatcherCrash, rowVars
  <2> QED
    BY <1>2, <2>1, <2>2, <2>3 DEF Dispatch
<1>3. ASSUME NEW w \in Workers,
             TakeJob(w) \/ Deliver(w) \/ SendTimesOut(w) \/ WorkerThrows(w) \/ WorkerCrash(w)
      PROVE  VerdictKept(e)
  <2>1. CASE ClaimWork(w)
    <3>1. event' = event
      BY <2>1 DEF ClaimWork
    <3>2. delivery'[e] = delivery[e]
      BY <1>0, <2>1 DEF ClaimWork, HoldsClaim, Holds
    <3> QED
      BY <1>1, <3>1, <3>2
  <2>2. CASE MarkSent(w)
    BY <1>1, <2>2, FencedVerdict DEF MarkSent
  <2>3. CASE RecordProviderFailure(w)
    BY <1>1, <2>3, FencedVerdict DEF RecordProviderFailure, MarkFailed, MarkRetry
  <2>4. CASE FinishWithoutSending(w)
    BY <1>1, <2>4, FencedVerdict
    DEF FinishWithoutSending, MatchResolvedDelivery, MarkFailed
  <2>5. CASE \/ TakeJob(w) \/ Send(w) \/ RecordAcceptance(w) \/ SendTimesOut(w)
             \/ WorkerThrows(w) \/ WorkerCrash(w)
    BY <1>1, <2>5 DEF TakeJob, Send, RecordAcceptance, SendTimesOut, WorkerThrows, WorkerCrash,
                      rowVars
  <2> QED
    BY <1>3, <2>1, <2>2, <2>3, <2>4, <2>5 DEF Deliver
<1>4. ASSUME NEW j \in JobIds, Stalled(j) \/ Evict(j) PROVE VerdictKept(e)
  BY <1>1, <1>4 DEF Stalled, Evict, rowVars
<1>5. ASSUME NEW x \in Events, LeaseExpires(x) \/ BecomesDue(x) PROVE VerdictKept(e)
  BY <1>0, <1>1, <1>5 DEF LeaseExpires, BecomesDue
<1>6. ASSUME NEW x \in Events, NEW allowDuplicate \in BOOLEAN, Redrive(x, allowDuplicate)
      PROVE  VerdictKept(e)
  BY <1>0, <1>6 DEF Redrive, VerdictKept
<1>7. CASE UNCHANGED vars
  BY <1>1, <1>7 DEF vars, rowVars
<1> QED
  BY <1>2, <1>3, <1>4, <1>5, <1>6, <1>7 DEF Next

\* A verdict is final: whatever stale workers, released claims and crashed dispatchers do,
\* only an operator's redrive reopens an event, and only a FAILED one (finishEvent,
\* release and claimBatch are fenced; redrive looks at the status).
THEOREM VerdictsFinal == Spec => ResolvedStays
<1>1. IInv /\ [Next]_vars =>
        [\A e \in Events :
           /\ event[e].status = "PROCESSED" =>
                event'[e] = event[e] /\ delivery'[e] = delivery[e]
           /\ event[e].status = "FAILED" /\ event'[e] # event[e] =>
                /\ redrives' = redrives + 1
                /\ event'[e].status = "PENDING" /\ event'[e].attempts = 0]_vars
  BY StepKeepsVerdict DEF VerdictKept
<1> QED
  BY <1>1, Invariance, PTL DEF Spec, ResolvedStays
-----------------------------------------------------------------------------
(***************************************************************************)
(* What the delivery row says of the provider.  Several slots may be       *)
(* sending for one event once leases run out under them, so mails and      *)
(* attempts are compared by counting the calls under way.                  *)
(***************************************************************************)
Sending(e) == {w \in Workers : work[w].pc = "send" /\ work[w].event = e}
Accepting(e) == {w \in Workers : work[w].pc = "accept" /\ work[w].event = e}

\* Every mail, sent or about to be, was counted on the delivery before; every
\* acceptance, recorded or about to be, has its mail.
CallsCounted(e) ==
  /\ mails[e] + Cardinality(Sending(e)) <= delivery[e].attempts
  /\ accepted[e] + Cardinality(Accepting(e)) <= mails[e]
  /\ delivery[e].status = "SENT" => mails[e] >= 1

\* A slot past the provider's acceptance has seen a mail go out.
MailSeen(w) == work[w].pc \in {"accept", "result"} => mails[work[w].event] >= 1

CallInv == (\A e \in Events : CallsCounted(e)) /\ \A w \in Workers : MailSeen(w)

\* Counting slots: fewer, one more, one less.
LEMMA SlotCounts ==
  ASSUME NEW S \in SUBSET Workers, NEW T \in SUBSET Workers
  PROVE  /\ Cardinality(S) \in Nat /\ Cardinality(T) \in Nat
         /\ T \subseteq S => Cardinality(T) <= Cardinality(S)
         /\ \A w \in Workers : T \subseteq S \cup {w} => Cardinality(T) <= Cardinality(S) + 1
         /\ \A w \in S : T \subseteq S \ {w} => Cardinality(T) + 1 <= Cardinality(S)
<1>0. IsFiniteSet(S) /\ IsFiniteSet(T)
  BY FS_Subset, ConstantsAssumption
<1>1. Cardinality(S) \in Nat /\ Cardinality(T) \in Nat
  BY <1>0, FS_CardinalityType
<1>2. ASSUME T \subseteq S PROVE Cardinality(T) <= Cardinality(S)
  BY <1>0, <1>2, FS_Subset
<1>3. ASSUME NEW w \in Workers, T \subseteq S \cup {w}
      PROVE  Cardinality(T) <= Cardinality(S) + 1
  <2>1. /\ IsFiniteSet(S \cup {w})
        /\ Cardinality(S \cup {w}) = Cardinality(S) \/ Cardinality(S \cup {w}) = Cardinality(S) + 1
    BY <1>0, FS_AddElement
  <2>2. Cardinality(T) <= Cardinality(S \cup {w})
    BY <1>3, <2>1, FS_Subset
  <2> QED
    BY <1>1, <2>1, <2>2
<1>4. ASSUME NEW w \in S, T \subseteq S \ {w}
      PROVE  Cardinality(T) + 1 <= Cardinality(S)
  <2>1. IsFiniteSet(S \ {w}) /\ Cardinality(S \ {w}) = Cardinality(S) - 1
    BY <1>0, FS_RemoveElement
  <2>2. Cardinality(T) <= Cardinality(S \ {w}) /\ Cardinality(S \ {w}) \in Nat
    BY <1>4, <2>1, FS_Subset, FS_CardinalityType
  <2> QED
    BY <1>1, <2>1, <2>2
<1> QED
  BY <1>1, <1>2, <1>3, <1>4

\* An event whose calls only become fewer, with the same counters, stays counted.
LEMMA FewerCalls ==
  ASSUME TypeOK, NEW e \in Events, CallsCounted(e),
         \A v \in Workers : work'[v].pc \in {"send", "accept"} /\ work'[v].event = e =>
           work[v].pc = work'[v].pc /\ work[v].event = e,
         mails'[e] = mails[e], accepted'[e] = accepted[e],
         delivery'[e].attempts = delivery[e].attempts,
         delivery'[e].status = "SENT" => delivery[e].status = "SENT" \/ mails[e] >= 1
  PROVE  CallsCounted(e)'
<1>1. Sending(e)' \subseteq Sending(e) /\ Accepting(e)' \subseteq Accepting(e)
  BY DEF Sending, Accepting
<1>2. PICK S \in SUBSET Workers : S = Sending(e)
  BY DEF Sending
<1>3. PICK A \in SUBSET Workers : A = Accepting(e)
  BY DEF Accepting
<1>4. PICK S2 \in SUBSET Workers : S2 = Sending(e)'
  BY DEF Sending
<1>5. PICK A2 \in SUBSET Workers : A2 = Accepting(e)'
  BY DEF Accepting
<1>6. /\ Cardinality(S2) <= Cardinality(S) /\ Cardinality(A2) <= Cardinality(A)
      /\ Cardinality(S) \in Nat /\ Cardinality(A) \in Nat
      /\ Cardinality(S2) \in Nat /\ Cardinality(A2) \in Nat
  BY <1>1, <1>2, <1>3, <1>4, <1>5, SlotCounts
<1>7. mails[e] \in Nat /\ accepted[e] \in Nat /\ delivery[e].attempts \in Nat
  BY DEF TypeOK, DeliveryRow
<1>8. /\ mails[e] + Cardinality(S) <= delivery[e].attempts
      /\ accepted[e] + Cardinality(A) <= mails[e]
      /\ delivery[e].status = "SENT" => mails[e] >= 1
  BY <1>2, <1>3 DEF CallsCounted
<1>9. /\ mails[e] + Cardinality(S2) <= delivery[e].attempts
      /\ accepted[e] + Cardinality(A2) <= mails[e]
  BY <1>6, <1>7, <1>8
<1> QED
  BY <1>4, <1>5, <1>8, <1>9 DEF CallsCounted

\* Steps without a mail, an acceptance or a new call.
LEMMA NoNewCall ==
  ASSUME TypeOK, CallInv,
         \A v \in Workers :
           /\ work'[v].pc \in {"send", "accept"} =>
                work'[v].pc = work[v].pc /\ work'[v].event = work[v].event
           /\ work'[v].pc = "result" =>
                work[v].pc \in {"accept", "result"} /\ work'[v].event = work[v].event,
         mails' = mails, accepted' = accepted,
         \A e \in Events :
           /\ delivery'[e].attempts = delivery[e].attempts
           /\ delivery'[e].status = "SENT" => delivery[e].status = "SENT" \/ mails[e] >= 1
  PROVE  CallInv'
<1>1. ASSUME NEW e \in Events PROVE CallsCounted(e)'
  <2>1. CallsCounted(e)
    BY DEF CallInv
  <2> QED
    BY <2>1, FewerCalls
<1>2. ASSUME NEW v \in Workers PROVE MailSeen(v)'
  <2>1. MailSeen(v)
    BY DEF CallInv
  <2> QED
    BY <2>1 DEF MailSeen
<1> QED
  BY <1>1, <1>2 DEF CallInv

\* A call of the slot w for e ends at the provider: a mail more, a call less.
LEMMA MailOut ==
  ASSUME TypeOK, CallInv, NEW w \in Workers, NEW e \in Events, work[w].event = e,
         work[w].pc = "send", work'[w].pc \in {"accept", "refused"}, work'[w].event = e,
         \A v \in Workers \ {w} : work'[v] = work[v],
         mails' = [mails EXCEPT ![e] = @ + 1],
         accepted' = accepted, delivery' = delivery
  PROVE  CallInv'
<1>0. mails \in [Events -> Nat] /\ mails[e] \in Nat /\ accepted[e] \in Nat
      /\ delivery[e].attempts \in Nat
  BY DEF TypeOK, DeliveryRow
<1>1. mails'[e] = mails[e] + 1 /\ \A x \in Events \ {e} : mails'[x] = mails[x]
  BY <1>0
<1>2. ASSUME NEW x \in Events \ {e} PROVE CallsCounted(x)'
  <2>1. CallsCounted(x)
    BY DEF CallInv
  <2> QED
    BY <1>1, <2>1, FewerCalls
<1>3. CallsCounted(e)'
  <2>1. Sending(e)' \subseteq Sending(e) \ {w} /\ w \in Sending(e)
    BY DEF Sending
  <2>2. Accepting(e)' \subseteq Accepting(e) \cup {w}
    BY DEF Accepting
  <2>3. PICK S \in SUBSET Workers : S = Sending(e)
    BY DEF Sending
  <2>4. PICK A \in SUBSET Workers : A = Accepting(e)
    BY DEF Accepting
  <2>5. PICK S2 \in SUBSET Workers : S2 = Sending(e)'
    BY DEF Sending
  <2>6. PICK A2 \in SUBSET Workers : A2 = Accepting(e)'
    BY DEF Accepting
  <2>7. /\ Cardinality(S2) + 1 <= Cardinality(S)
        /\ Cardinality(S) \in Nat /\ Cardinality(S2) \in Nat
    BY <2>1, <2>3, <2>5, SlotCounts
  <2>8. /\ Cardinality(A2) <= Cardinality(A) + 1
        /\ Cardinality(A) \in Nat /\ Cardinality(A2) \in Nat
    BY <2>2, <2>4, <2>6, SlotCounts
  <2>9. /\ mails[e] + Cardinality(S) <= delivery[e].attempts
        /\ accepted[e] + Cardinality(A) <= mails[e]
    BY <2>3, <2>4 DEF CallInv, CallsCounted
  <2>10. /\ mails[e] + 1 + Cardinality(S2) <= delivery[e].attempts
         /\ accepted[e] + Cardinality(A2) <= mails[e] + 1 /\ mails[e] + 1 >= 1
    BY <1>0, <2>7, <2>8, <2>9
  <2> QED
    BY <1>1, <2>5, <2>6, <2>10 DEF CallsCounted
<1>4. ASSUME NEW v \in Workers PROVE MailSeen(v)'
  <2>1. CASE v = w
    BY <1>0, <1>1, <2>1 DEF MailSeen
  <2>2. CASE v # w /\ work[v].event = e
    BY <1>0, <1>1, <2>2 DEF MailSeen
  <2>3. CASE v # w /\ work[v].event # e
    <3>1. MailSeen(v) /\ work'[v] = work[v]
      BY <2>3 DEF CallInv
    <3>2. mails'[work[v].event] = mails[work[v].event]
      BY <1>0, <2>3
    <3> QED
      BY <3>1, <3>2 DEF MailSeen
  <2> QED
    BY <2>1, <2>2, <2>3
<1> QED
  BY <1>2, <1>3, <1>4 DEF CallInv

\* prepare counts the attempt before the call is made.
LEMMA CallBegins ==
  ASSUME TypeOK, CallInv, NEW w \in Workers, NEW e \in Events, work[w].event = e,
         work[w].pc = "claim", work'[w].pc = "send", work'[w].event = e,
         \A v \in Workers \ {w} : work'[v] = work[v],
         delivery'[e].attempts = delivery[e].attempts + 1, delivery'[e].status = "PENDING",
         \A x \in Events \ {e} : delivery'[x] = delivery[x],
         accepted' = accepted, mails' = mails
  PROVE  CallInv'
<1>0. mails[e] \in Nat /\ accepted[e] \in Nat /\ delivery[e].attempts \in Nat
  BY DEF TypeOK, DeliveryRow
<1>1. ASSUME NEW x \in Events \ {e} PROVE CallsCounted(x)'
  <2>1. CallsCounted(x)
    BY DEF CallInv
  <2> QED
    BY <2>1, FewerCalls
<1>2. CallsCounted(e)'
  <2>1. Sending(e)' \subseteq Sending(e) \cup {w} /\ Accepting(e)' \subseteq Accepting(e)
    BY DEF Sending, Accepting
  <2>3. PICK S \in SUBSET Workers : S = Sending(e)
    BY DEF Sending
  <2>4. PICK A \in SUBSET Workers : A = Accepting(e)
    BY DEF Accepting
  <2>5. PICK S2 \in SUBSET Workers : S2 = Sending(e)'
    BY DEF Sending
  <2>6. PICK A2 \in SUBSET Workers : A2 = Accepting(e)'
    BY DEF Accepting
  <2>7. /\ Cardinality(S2) <= Cardinality(S) + 1
        /\ Cardinality(S) \in Nat /\ Cardinality(S2) \in Nat
    BY <2>1, <2>3, <2>5, SlotCounts
  <2>8. /\ Cardinality(A2) <= Cardinality(A)
        /\ Cardinality(A) \in Nat /\ Cardinality(A2) \in Nat
    BY <2>1, <2>4, <2>6, SlotCounts
  <2>9. /\ mails[e] + Cardinality(S) <= delivery[e].attempts
        /\ accepted[e] + Cardinality(A) <= mails[e]
    BY <2>3, <2>4 DEF CallInv, CallsCounted
  <2>10. /\ mails[e] + Cardinality(S2) <= delivery[e].attempts + 1
         /\ accepted[e] + Cardinality(A2) <= mails[e]
    BY <1>0, <2>7, <2>8, <2>9
  <2> QED
    BY <2>5, <2>6, <2>10 DEF CallsCounted
<1>3. ASSUME NEW v \in Workers PROVE MailSeen(v)'
  BY DEF MailSeen, CallInv
<1> QED
  BY <1>1, <1>2, <1>3 DEF CallInv

\* The acceptance of a mail is appended.
LEMMA AcceptanceKept ==
  ASSUME TypeOK, CallInv, NEW w \in Workers, NEW e \in Events, work[w].event = e,
         work[w].pc = "accept", work'[w].pc = "result", work'[w].event = e,
         \A v \in Workers \ {w} : work'[v] = work[v],
         accepted' = [accepted EXCEPT ![e] = @ + 1],
         delivery' = delivery, mails' = mails
  PROVE  CallInv'
<1>0. accepted \in [Events -> Nat] /\ mails[e] \in Nat /\ accepted[e] \in Nat
      /\ delivery[e].attempts \in Nat
  BY DEF TypeOK, DeliveryRow
<1>1. accepted'[e] = accepted[e] + 1 /\ \A x \in Events \ {e} : accepted'[x] = accepted[x]
  BY <1>0
<1>2. ASSUME NEW x \in Events \ {e} PROVE CallsCounted(x)'
  <2>1. CallsCounted(x)
    BY DEF CallInv
  <2> QED
    BY <1>1, <2>1, FewerCalls
<1>3. CallsCounted(e)'
  <2>1. /\ Sending(e)' \subseteq Sending(e)
        /\ Accepting(e)' \subseteq Accepting(e) \ {w} /\ w \in Accepting(e)
    BY DEF Sending, Accepting
  <2>3. PICK S \in SUBSET Workers : S = Sending(e)
    BY DEF Sending
  <2>4. PICK A \in SUBSET Workers : A = Accepting(e)
    BY DEF Accepting
  <2>5. PICK S2 \in SUBSET Workers : S2 = Sending(e)'
    BY DEF Sending
  <2>6. PICK A2 \in SUBSET Workers : A2 = Accepting(e)'
    BY DEF Accepting
  <2>7. /\ Cardinality(S2) <= Cardinality(S)
        /\ Cardinality(S) \in Nat /\ Cardinality(S2) \in Nat
    BY <2>1, <2>3, <2>5, SlotCounts
  <2>8. /\ Cardinality(A2) + 1 <= Cardinality(A)
        /\ Cardinality(A) \in Nat /\ Cardinality(A2) \in Nat
    BY <2>1, <2>4, <2>6, SlotCounts
  <2>9. /\ mails[e] + Cardinality(S) <= delivery[e].attempts
        /\ accepted[e] + Cardinality(A) <= mails[e]
        /\ delivery[e].status = "SENT" => mails[e] >= 1
    BY <2>3, <2>4 DEF CallInv, CallsCounted
  <2>10. /\ mails[e] + Cardinality(S2) <= delivery[e].attempts
         /\ accepted[e] + 1 + Cardinality(A2) <= mails[e]
    BY <1>0, <2>7, <2>8, <2>9
  <2> QED
    BY <1>1, <2>5, <2>6, <2>9, <2>10 DEF CallsCounted
<1>4. ASSUME NEW v \in Workers PROVE MailSeen(v)'
  BY DEF MailSeen, CallInv
<1> QED
  BY <1>2, <1>3, <1>4 DEF CallInv

\* A result that resolves the delivery as SENT comes from a slot that saw its mail.
LEMMA ResultTellsTruth ==
  ASSUME IInv, CallInv, NEW w \in Workers, work[w].pc # "idle", Finish(w),
         NEW to \in {"SENT", "FAILED"}, to = "SENT" => work[w].pc = "result",
         UpdateDelivery(w, to) \/ delivery' = delivery,
         UNCHANGED <<accepted, mails>>
  PROVE  CallInv'
<1>1. work'[w].pc = "idle" /\ \A v \in Workers \ {w} : work'[v] = work[v]
  BY FinishSound DEF IInv
<1>2. work[w].event \in Events /\ delivery \in [Events -> DeliveryRow]
  BY DEF IInv, TypeOK, ActorsSound
<1>3. ASSUME NEW e \in Events
      PROVE  /\ delivery'[e].attempts = delivery[e].attempts
             /\ delivery'[e].status = "SENT" => delivery[e].status = "SENT" \/ mails[e] >= 1
  <2>1. CASE delivery' = delivery
    BY <2>1
  <2>2. CASE UpdateDelivery(w, to)
    <3>1. \/ delivery'[e] = delivery[e]
          \/ e = work[w].event /\ delivery'[e] = [delivery[e] EXCEPT !.status = to]
      BY <1>2, <2>2 DEF UpdateDelivery
    <3>2. delivery[e] \in DeliveryRow
      BY <1>2
    <3>3. delivery'[e].attempts = delivery[e].attempts
      BY <3>1, <3>2 DEF DeliveryRow
    <3>4. delivery'[e].status = "SENT" =>
            delivery[e].status = "SENT" \/ (e = work[w].event /\ to = "SENT")
      BY <3>1, <3>2 DEF DeliveryRow
    <3>5. to = "SENT" => mails[work[w].event] >= 1
      BY DEF CallInv, MailSeen
    <3> QED
      BY <3>3, <3>4, <3>5
  <2> QED
    BY <2>1, <2>2
<1>4. \A v \in Workers :
        /\ work'[v].pc \in {"send", "accept"} =>
             work'[v].pc = work[v].pc /\ work'[v].event = work[v].event
        /\ work'[v].pc = "result" =>
             work[v].pc \in {"accept", "result"} /\ work'[v].event = work[v].event
  BY <1>1
<1> QED
  BY <1>3, <1>4, NoNewCall DEF IInv

\* Steps of a slot keep the count.
LEMMA WorkerCounts ==
  ASSUME IInv, CallInv, NEW w \in Workers,
         TakeJob(w) \/ Deliver(w) \/ SendTimesOut(w) \/ WorkerThrows(w) \/ WorkerCrash(w)
  PROVE  CallInv'
<1>0. /\ work \in [Workers -> WorkerState] /\ delivery \in [Events -> DeliveryRow]
      /\ TypeOK
      /\ work[w].pc # "idle" => work[w].event \in Events
  BY DEF IInv, TypeOK, ActorsSound
\* The slot w ends where no call is under way, and no counter moves.
<1>1. ASSUME work'[w].pc \notin {"send", "accept", "result"},
             \A v \in Workers \ {w} : work'[v] = work[v],
             UNCHANGED <<delivery, accepted, mails>>
      PROVE  CallInv'
  <2>1. \A v \in Workers :
        /\ work'[v].pc \in {"send", "accept"} =>
             work'[v].pc = work[v].pc /\ work'[v].event = work[v].event
        /\ work'[v].pc = "result" =>
             work[v].pc \in {"accept", "result"} /\ work'[v].event = work[v].event
    BY <1>1
  <2> QED
    BY <1>0, <1>1, <2>1, NoNewCall
<1>2. CASE TakeJob(w)
  <2>1. PICK x \in WorkerState : x.pc = "claim" /\ work' = [work EXCEPT ![w] = x]
    <3>1. PICK j \in JobIds : work' = [work EXCEPT ![w] =
            [pc |-> "claim", event |-> j[1], attempt |-> j[2],
             token |-> jobs[j].token, retryable |-> FALSE]]
      BY <1>2 DEF TakeJob
    <3>2. j[1] \in Events /\ j[2] \in 0..MaxClaims
      BY JobParts, ConstantsAssumption
    <3>3. jobs[j].token \in Tokens \cup {None}
      BY <1>0 DEF TypeOK, Job
    <3> QED
      BY <3>1, <3>2, <3>3 DEF WorkerState, WorkerPCs
  <2>2. UNCHANGED <<delivery, accepted, mails>>
    BY <1>2 DEF TakeJob, rowVars
  <2> QED
    BY <1>0, <1>1, <2>1, <2>2
<1>3. CASE ClaimWork(w)
  <2>0. PICK e \in Events : e = work[w].event
    BY <1>0, <1>3 DEF ClaimWork
  <2>1. work[w].pc = "claim" /\ UNCHANGED <<accepted, mails>>
    BY <1>3 DEF ClaimWork
  <2>2. CASE delivery' = [delivery EXCEPT ![e] = Prepared(@)] /\ Goto(w, "send")
    <3>1. /\ delivery'[e].attempts = delivery[e].attempts + 1
          /\ delivery'[e].status = "PENDING"
          /\ \A x \in Events \ {e} : delivery'[x] = delivery[x]
      BY <1>0, <2>2 DEF Prepared
    <3>2. "send" \in WorkerPCs
      BY DEF WorkerPCs
    <3>3. /\ work'[w].pc = "send" /\ work'[w].event = e
          /\ \A v \in Workers \ {w} : work'[v] = work[v]
      BY <1>0, <2>0, <2>2, <3>2, GotoSound
    <3> QED
      BY <1>0, <2>0, <2>1, <3>1, <3>3, CallBegins
  <2>3. ASSUME UNCHANGED delivery, NEW at \in {"resolved", "unsendable"}, Goto(w, at)
        PROVE  CallInv'
    <3>1. at \in WorkerPCs
      BY <2>3 DEF WorkerPCs
    <3>2. work'[w].pc = at /\ \A v \in Workers \ {w} : work'[v] = work[v]
      BY <1>0, <2>3, <3>1, GotoSound
    <3> QED
      BY <1>1, <2>1, <2>3, <3>2
  <2>4. CASE UNCHANGED delivery /\ Finish(w)
    BY <2>1, <2>4, ResultTellsTruth
  <2> QED
    BY <1>3, <2>0, <2>2, <2>3, <2>4 DEF ClaimWork
<1>4. CASE Send(w) \/ SendTimesOut(w)
  <2>0. PICK e \in Events : e = work[w].event
    BY <1>0, <1>4 DEF Send, SendTimesOut
  <2>1. work[w].pc = "send" /\ UNCHANGED <<delivery, accepted>>
    BY <1>4 DEF Send, SendTimesOut, rowVars
  <2>2. work[w] \in WorkerState
    BY <1>0
  <2>3. /\ work'[w].pc \in {"accept", "refused"} /\ work'[w].event = e
        /\ \A v \in Workers \ {w} : work'[v] = work[v]
    BY <1>0, <1>4, <2>0, <2>2 DEF Send, SendTimesOut, WorkerState
  <2>4. \/ mails' = [mails EXCEPT ![e] = @ + 1]
        \/ mails' = mails /\ work'[w].pc = "refused"
    BY <1>0, <1>4, <2>0, <2>2 DEF Send, SendTimesOut, WorkerState
  <2>5. CASE mails' = [mails EXCEPT ![e] = @ + 1]
    BY <1>0, <2>0, <2>1, <2>3, <2>5, MailOut
  <2>6. CASE mails' = mails /\ work'[w].pc = "refused"
    BY <1>1, <2>1, <2>3, <2>6
  <2> QED
    BY <2>4, <2>5, <2>6
<1>5. CASE RecordAcceptance(w)
  <2>0. PICK e \in Events : e = work[w].event
    BY <1>0, <1>5 DEF RecordAcceptance
  <2>1. /\ work[w].pc = "accept" /\ Goto(w, "result") /\ UNCHANGED <<delivery, mails>>
        /\ accepted' = accepted \/ accepted' = [accepted EXCEPT ![e] = @ + 1]
    BY <1>5, <2>0 DEF RecordAcceptance
  <2>2. "result" \in WorkerPCs
    BY DEF WorkerPCs
  <2>3. /\ work'[w].pc = "result" /\ work'[w].event = e
        /\ \A v \in Workers \ {w} : work'[v] = work[v]
    BY <1>0, <2>0, <2>1, <2>2, GotoSound
  <2>4. CASE accepted' = [accepted EXCEPT ![e] = @ + 1]
    BY <1>0, <2>0, <2>1, <2>3, <2>4, AcceptanceKept
  <2>5. CASE accepted' = accepted
    <3>1. \A v \in Workers :
        /\ work'[v].pc \in {"send", "accept"} =>
             work'[v].pc = work[v].pc /\ work'[v].event = work[v].event
        /\ work'[v].pc = "result" =>
             work[v].pc \in {"accept", "result"} /\ work'[v].event = work[v].event
      BY <2>0, <2>1, <2>3
    <3> QED
      BY <1>0, <2>1, <2>5, <3>1, NoNewCall
  <2> QED
    BY <2>1, <2>4, <2>5
<1>6. CASE MarkSent(w)
  BY <1>6, ResultTellsTruth DEF MarkSent
<1>7. CASE RecordProviderFailure(w)
  <2>1. /\ work[w].pc # "idle" /\ Finish(w) /\ UNCHANGED <<accepted, mails>>
        /\ UpdateDelivery(w, "FAILED") \/ delivery' = delivery
    BY <1>7 DEF RecordProviderFailure, MarkFailed, MarkRetry
  <2> QED
    BY <2>1, ResultTellsTruth
<1>8. CASE FinishWithoutSending(w)
  <2>1. /\ work[w].pc # "idle" /\ Finish(w) /\ UNCHANGED <<accepted, mails>>
        /\ UpdateDelivery(w, "FAILED") \/ delivery' = delivery
    BY <1>8 DEF FinishWithoutSending, MarkFailed, MatchResolvedDelivery
  <2> QED
    BY <2>1, ResultTellsTruth
<1>9. CASE WorkerThrows(w)
  <2>1. work[w].pc # "idle" /\ Finish(w) /\ UNCHANGED <<delivery, accepted, mails>>
    BY <1>9 DEF WorkerThrows, rowVars
  <2> QED
    BY <2>1, ResultTellsTruth
<1>10. CASE WorkerCrash(w)
  <2>1. work' = [work EXCEPT ![w] = NoWork] /\ UNCHANGED <<delivery, accepted, mails>>
    BY <1>10 DEF WorkerCrash, rowVars
  <2> QED
    BY <1>0, <1>1, <2>1, RestTypes
<1> QED
  BY <1>2, <1>3, <1>4, <1>5, <1>6, <1>7, <1>8, <1>9, <1>10 DEF Deliver

\* Nothing else touches calls, mails or acceptances; a redrive turns no delivery SENT.
LEMMA NextCallInv == IInv /\ CallInv /\ [Next]_vars => CallInv'
<1> SUFFICES ASSUME IInv, CallInv, [Next]_vars PROVE CallInv'
  OBVIOUS
<1>0. TypeOK /\ delivery \in [Events -> DeliveryRow]
  BY DEF IInv, TypeOK
<1>1. ASSUME UNCHANGED <<work, mails, accepted, delivery>> PROVE CallInv'
  BY <1>0, <1>1, NoNewCall
<1>2. ASSUME NEW d \in Dispatchers,
             Dispatch(d) \/ EnqueueFails(d) \/ ReleaseFails(d) \/ DispatcherCrash(d)
      PROVE  CallInv'
  BY <1>1, <1>2 DEF Dispatch, ClaimBatch, Enqueue, Release, EnqueueFails, ReleaseFails,
                    DispatcherCrash, rowVars
<1>3. ASSUME NEW j \in JobIds, Stalled(j) \/ Evict(j) PROVE CallInv'
  BY <1>1, <1>3 DEF Stalled, Evict, rowVars
<1>4. ASSUME NEW e \in Events, LeaseExpires(e) \/ BecomesDue(e) PROVE CallInv'
  BY <1>1, <1>4 DEF LeaseExpires, BecomesDue
<1>5. ASSUME NEW e \in Events, NEW allowDuplicate \in BOOLEAN, Redrive(e, allowDuplicate)
      PROVE  CallInv'
  <2>1. /\ UNCHANGED <<work, mails, accepted>>
        /\ delivery' = [delivery EXCEPT ![e] =
             [delivery[e] EXCEPT !.status = IF delivery[e].status = "FAILED" THEN "PENDING"
                                            ELSE delivery[e].status]]
    BY <1>0, <1>5 DEF Redrive
  <2>2. \A x \in Events :
        /\ delivery'[x].attempts = delivery[x].attempts
        /\ delivery'[x].status = "SENT" => delivery[x].status = "SENT"
    BY <1>0, <2>1 DEF DeliveryRow
  <2> QED
    BY <1>0, <2>1, <2>2, NoNewCall
<1>6. CASE UNCHANGED vars
  BY <1>1, <1>6 DEF vars, rowVars
<1> QED
  BY <1>2, <1>3, <1>4, <1>5, <1>6, WorkerCounts DEF Next

\* No call is under way at first.
LEMMA InitCallInv == Init => CallInv
<1> SUFFICES ASSUME Init PROVE CallInv
  OBVIOUS
<1>1. \A w \in Workers : work[w].pc = "idle"
  BY RestTypes DEF Init
<1>2. ASSUME NEW e \in Events PROVE CallsCounted(e)
  <2>1. Sending(e) = {} /\ Accepting(e) = {}
    BY <1>1 DEF Sending, Accepting
  <2>2. Cardinality({}) = 0
    BY FS_EmptySet
  <2> QED
    BY <2>1, <2>2 DEF Init, CallsCounted
<1> QED
  BY <1>1, <1>2 DEF CallInv, MailSeen

\* The calls stay counted throughout.
LEMMA CallInvariance == Spec => []CallInv
BY InitCallInv, NextCallInv, Invariance, PTL DEF Spec

\* The delivery row tells the truth of the provider, however many slots call it for one
\* event at a time: SENT means a mail is out (markSent is fenced and comes after the
\* provider's answer), and neither acceptances nor mails outnumber the attempts that
\* prepare counted.
THEOREM SentAlwaysMeansSent == Spec => []SentMeansSent
<1>1. IInv /\ CallInv => SentMeansSent
  <2> SUFFICES ASSUME IInv, CallInv, NEW e \in Events
               PROVE  /\ delivery[e].status = "SENT" => mails[e] > 0
                      /\ accepted[e] <= mails[e]
                      /\ mails[e] <= delivery[e].attempts
    BY DEF SentMeansSent
  <2>1. PICK S \in SUBSET Workers : S = Sending(e)
    BY DEF Sending
  <2>2. PICK A \in SUBSET Workers : A = Accepting(e)
    BY DEF Accepting
  <2>3. Cardinality(S) \in Nat /\ Cardinality(A) \in Nat
    BY SlotCounts
  <2>4. mails[e] \in Nat /\ accepted[e] \in Nat /\ delivery[e].attempts \in Nat
    BY DEF IInv, TypeOK, DeliveryRow
  <2> QED
    BY <2>1, <2>2, <2>3, <2>4 DEF CallInv, CallsCounted
<1> QED
  BY <1>1, Invariance, CallInvariance, PTL

-----------------------------------------------------------------------------
(***************************************************************************)
(* Without failures a claim is in one place: in a batch, waiting in the    *)
(* queue, or with the one slot that works on it; and it is in force.  So   *)
(* one slot at a time calls the provider for an event.                     *)
(***************************************************************************)
HoldsLive(e, t, n) == Holds(e, t, n) /\ event[e].live = TRUE

BatchExact(d) ==
  /\ disp[d].pc # "release"
  /\ \A j \in disp[d].batch :
       /\ HoldsLive(j[1], disp[d].token, j[2])
       /\ jobs[j].state \in {"none", "done"}
       /\ \A x \in Dispatchers : x # d => j \notin disp[x].batch
JobExact(j) ==
  /\ jobs[j].state = "waiting" => HoldsLive(j[1], jobs[j].token, j[2])
  /\ jobs[j].state = "active" =>
       /\ jobs[j].holder \in Workers /\ work[jobs[j].holder].pc # "idle"
       /\ j = <<work[jobs[j].holder].event, work[jobs[j].holder].attempt>>
SlotExact(w) ==
  work[w].pc # "idle" =>
    /\ HoldsLive(work[w].event, work[w].token, work[w].attempt)
    /\ jobs[<<work[w].event, work[w].attempt>>].state = "active"
    /\ jobs[<<work[w].event, work[w].attempt>>].holder = w

OnePlace == /\ \A d \in Dispatchers : BatchExact(d)
            /\ \A j \in JobIds : JobExact(j)
            /\ \A w \in Workers : SlotExact(w)

\* A mail is out only for an event that is PROCESSED or about to be.
MailedOnce(e) ==
  /\ mails[e] <= 1
  /\ \/ mails[e] = 0 \/ event[e].status = "PROCESSED"
     \/ \E w \in Workers : work[w].event = e /\ work[w].pc \in {"accept", "result"}

\* Between its claim and its result a slot has used the attempt of its claim.
Charged(e) == \E w \in Workers :
  work[w].event = e /\ work[w].pc \in {"send", "accept", "result", "refused"}

\* The attempts counted in this round of the event: each redrive begins a new one.
Used(e) == delivery[e].attempts - MaxAttempts * redrives

RoundBudget(e) ==
  /\ Used(e) <= MaxAttempts
  /\ event[e].status = "PENDING" => Used(e) <= event[e].attempts /\ Used(e) <= MaxAttempts - 1
  /\ event[e].status = "PROCESSING" => Used(e) <= event[e].attempts
  /\ event[e].status = "PROCESSING" /\ ~Charged(e) =>
       Used(e) <= event[e].attempts - 1 /\ Used(e) <= MaxAttempts - 1

Budget == \A e \in Events : MailedOnce(e) /\ RoundBudget(e)

QuietInv == faults = 0 => OnePlace /\ Budget

\* An event without a running claim is in nobody's hands.
LEMMA Unclaimed ==
  ASSUME IInv, OnePlace, NEW e \in Events,
         event[e].status # "PROCESSING" \/ event[e].live # TRUE
  PROVE  /\ \A d \in Dispatchers : \A j \in disp[d].batch : j[1] # e
         /\ \A j \in JobIds : j[1] = e => jobs[j].state \in {"none", "done"}
         /\ \A w \in Workers : work[w].pc # "idle" => work[w].event # e
<1>1. ASSUME NEW d \in Dispatchers, NEW j \in disp[d].batch PROVE j[1] # e
  <2>1. HoldsLive(j[1], disp[d].token, j[2])
    BY DEF OnePlace, BatchExact
  <2>2. event[j[1]].status = "PROCESSING" /\ event[j[1]].live = TRUE
    BY <2>1 DEF HoldsLive, Holds
  <2> QED
    BY <2>2
<1>2. ASSUME NEW w \in Workers, work[w].pc # "idle" PROVE work[w].event # e
  <2>1. HoldsLive(work[w].event, work[w].token, work[w].attempt)
    BY <1>2 DEF OnePlace, SlotExact
  <2>2. event[work[w].event].status = "PROCESSING" /\ event[work[w].event].live = TRUE
    BY <2>1 DEF HoldsLive, Holds
  <2> QED
    BY <2>2
<1>3. ASSUME NEW j \in JobIds, j[1] = e PROVE jobs[j].state \in {"none", "done"}
  <2>1. jobs[j].state \in {"none", "waiting", "active", "done"}
    BY DEF IInv, TypeOK, Job
  <2>2. jobs[j].state # "waiting"
    BY <1>3 DEF OnePlace, JobExact, HoldsLive, Holds
  <2>3. ASSUME jobs[j].state = "active" PROVE FALSE
    <3>1. PICK w \in Workers : work[w].pc # "idle" /\ j = <<work[w].event, work[w].attempt>>
      BY <2>3 DEF OnePlace, JobExact
    <3>2. work[w].event = e
      BY <1>3, <3>1
    <3> QED
      BY <1>2, <3>1, <3>2
  <2> QED
    BY <2>1, <2>2, <2>3
<1> QED
  BY <1>1, <1>2, <1>3

\* The slot that works on an event is alone with it.
LEMMA AloneWithEvent ==
  ASSUME IInv, OnePlace, NEW w \in Workers, work[w].pc # "idle", NEW e, e = work[w].event
  PROVE  /\ \A d \in Dispatchers : \A j \in disp[d].batch : j[1] # e
         /\ \A j \in JobIds : j[1] = e /\ j # <<e, work[w].attempt>> =>
              jobs[j].state \in {"none", "done"}
         /\ \A v \in Workers \ {w} : work[v].pc # "idle" => work[v].event # e
         /\ e \in Events /\ <<e, work[w].attempt>> \in JobIds
         /\ HoldsLive(e, work[w].token, work[w].attempt)
         /\ jobs[<<e, work[w].attempt>>].state = "active"
<1>0. /\ e \in Events /\ work[w].attempt \in 1..MaxClaims /\ <<e, work[w].attempt>> \in JobIds
  BY DEF IInv, ActorsSound, JobIds
<1>1. /\ HoldsLive(e, work[w].token, work[w].attempt)
      /\ jobs[<<e, work[w].attempt>>].state = "active"
      /\ jobs[<<e, work[w].attempt>>].holder = w
      /\ event[e].attempts = work[w].attempt
  BY DEF OnePlace, SlotExact, HoldsLive, Holds
<1>2. ASSUME NEW d \in Dispatchers, NEW j \in disp[d].batch PROVE j[1] # e
  <2>1. /\ HoldsLive(j[1], disp[d].token, j[2]) /\ jobs[j].state \in {"none", "done"}
        /\ j \in JobIds
    BY DEF OnePlace, BatchExact, IInv, TypeOK, DispatcherState
  <2>2. j = <<j[1], j[2]>>
    BY <2>1, JobParts
  <2> QED
    BY <1>1, <2>1, <2>2 DEF HoldsLive, Holds
<1>3. ASSUME NEW v \in Workers \ {w}, work[v].pc # "idle" PROVE work[v].event # e
  <2>1. /\ HoldsLive(work[v].event, work[v].token, work[v].attempt)
        /\ jobs[<<work[v].event, work[v].attempt>>].holder = v
    BY <1>3 DEF OnePlace, SlotExact
  <2> QED
    BY <1>1, <2>1 DEF HoldsLive, Holds
<1>4. ASSUME NEW j \in JobIds, j[1] = e, j # <<e, work[w].attempt>>
      PROVE  jobs[j].state \in {"none", "done"}
  <2>1. jobs[j].state \in {"none", "waiting", "active", "done"} /\ j = <<j[1], j[2]>>
    BY JobParts DEF IInv, TypeOK, Job
  <2>2. jobs[j].state # "waiting"
    BY <1>1, <1>4, <2>1 DEF OnePlace, JobExact, HoldsLive, Holds
  <2>3. ASSUME jobs[j].state = "active" PROVE FALSE
    <3>1. PICK v \in Workers : work[v].pc # "idle" /\ j = <<work[v].event, work[v].attempt>>
      BY <2>3 DEF OnePlace, JobExact
    <3>2. work[v].event = e /\ j[2] = work[v].attempt
      BY <1>4, <3>1
    <3> QED
      BY <1>3, <1>4, <2>1, <3>1, <3>2
  <2> QED
    BY <2>1, <2>2, <2>3
<1> QED
  BY <1>0, <1>1, <1>2, <1>3, <1>4

\* A claim keeps force while its row is left alone.
LEMMA ForceKept ==
  ASSUME NEW e, event'[e] = event[e]
  PROVE  \A t, n : HoldsLive(e, t, n) => HoldsLive(e, t, n)'
BY DEF HoldsLive, Holds

\* New claims are of events nobody has, so each is in the one batch.
LEMMA ClaimExact ==
  ASSUME IInv, OnePlace, NEW d \in Dispatchers, ClaimBatch(d)
  PROVE  OnePlace'
<1>0. /\ event \in [Events -> EventRow] /\ disp \in [Dispatchers -> DispatcherState]
  BY DEF IInv, TypeOK
<1>1. PICK t \in Tokens, S \in Batches :
        /\ event' = [e \in Events |->
             IF e \in S THEN [status |-> "PROCESSING", token |-> t, live |-> TRUE,
                              attempts |-> event[e].attempts + 1, due |-> event[e].due]
             ELSE event[e]]
        /\ disp' = [disp EXCEPT ![d] = [pc |-> "enqueue", token |-> t, current |-> None,
                                  batch |-> {<<e, event[e].attempts + 1>> : e \in S}]]
        /\ UNCHANGED <<delivery, accepted, mails, jobs, work, faults, redrives>>
        /\ disp[d].pc = "idle"
  BY DEF ClaimBatch
<1>2. ASSUME NEW e \in S
      PROVE  /\ e \in Events /\ event[e].attempts + 1 \in 1..MaxClaims
             /\ event[e].status # "PROCESSING" \/ event[e].live # TRUE
  <2>1. e \in Expired \cup Due
    BY <1>2 DEF Batches
  <2>2. event[e] \in EventRow /\ e \in Events
    BY <1>0, <2>1 DEF Expired, Due
  <2>3. event[e].attempts + 1 \in 1..MaxClaims
    BY <2>1, <2>2, ConstantsAssumption DEF Expired, Due, Claimable, EventRow
  <2>4. event[e].status # "PROCESSING" \/ event[e].live # TRUE
    <3>1. event[e].status = "PENDING" \/ ~event[e].live
      BY <2>1, Zenon DEF Expired, Due
    <3> QED
      BY <3>1
  <2> QED
    BY <2>2, <2>3, <2>4
<1>3. ASSUME NEW e \in S
      PROVE  /\ \A x \in Dispatchers : \A j \in disp[x].batch : j[1] # e
             /\ \A j \in JobIds : j[1] = e => jobs[j].state \in {"none", "done"}
             /\ \A w \in Workers : work[w].pc # "idle" => work[w].event # e
  BY <1>2, Unclaimed
<1>4. ASSUME NEW e \in S, NEW n, n = event[e].attempts + 1 PROVE HoldsLive(e, t, n)'
  <2>1. e \in Events
    BY <1>2
  <2>2. event'[e] = [status |-> "PROCESSING", token |-> t, live |-> TRUE,
                     attempts |-> event[e].attempts + 1, due |-> event[e].due]
    BY <1>1, <1>4, <2>1
  <2> QED
    BY <1>4, <2>2 DEF HoldsLive, Holds
<1>5. ASSUME NEW e \in Events, e \notin S
      PROVE  \A u, n : HoldsLive(e, u, n) => HoldsLive(e, u, n)'
  BY <1>1, <1>5, ForceKept
<1>6. /\ disp'[d].pc = "enqueue" /\ disp'[d].token = t
      /\ disp'[d].batch = {<<e, event[e].attempts + 1>> : e \in S}
      /\ \A x \in Dispatchers \ {d} : disp'[x] = disp[x]
  BY <1>0, <1>1
<1>7. \A x \in Dispatchers : \A j \in disp[x].batch : j \in JobIds /\ j[1] \in Events
  BY <1>0, JobParts DEF DispatcherState
<1>8. ASSUME NEW x \in Dispatchers PROVE BatchExact(x)'
  <2>1. CASE x = d
    <3> SUFFICES ASSUME NEW j \in disp'[d].batch
                 PROVE  /\ HoldsLive(j[1], t, j[2])'
                        /\ jobs[j].state \in {"none", "done"}
                        /\ \A y \in Dispatchers : y # d => j \notin disp[y].batch
      BY <1>1, <1>6, <2>1 DEF BatchExact
    <3>1. PICK e \in S : j = <<e, event[e].attempts + 1>>
      BY <1>6
    <3>2. j[1] = e /\ j[2] = event[e].attempts + 1 /\ j \in JobIds
      BY <1>2, <3>1 DEF JobIds
    <3>3. HoldsLive(j[1], t, j[2])'
      BY <1>4, <3>2
    <3> QED
      BY <1>3, <3>2, <3>3
  <2>2. CASE x # d
    <3>1. BatchExact(x) /\ disp'[x] = disp[x]
      BY <1>6, <2>2 DEF OnePlace
    <3> SUFFICES ASSUME NEW j \in disp[x].batch
                 PROVE  /\ HoldsLive(j[1], disp[x].token, j[2])'
                        /\ jobs[j].state \in {"none", "done"}
                        /\ \A y \in Dispatchers : y # x => j \notin disp'[y].batch
      BY <1>1, <3>1 DEF BatchExact
    <3>2. j[1] \notin S /\ j[1] \in Events
      BY <1>3, <1>7
    <3>3. PICK u : u = disp[x].token
      OBVIOUS
    <3>4. HoldsLive(j[1], u, j[2])'
      BY <1>5, <3>1, <3>2, <3>3 DEF BatchExact
    <3>5. j \notin disp'[d].batch
      BY <1>6, <3>2
    <3> QED
      BY <1>6, <3>1, <3>3, <3>4, <3>5 DEF BatchExact, HoldsLive, Holds
  <2> QED
    BY <2>1, <2>2
<1>9. ASSUME NEW j \in JobIds PROVE JobExact(j)'
  <2>1. JobExact(j) /\ jobs' = jobs /\ work' = work /\ j[1] \in Events
    BY <1>1, JobParts DEF OnePlace
  <2>2. PICK u : u = jobs[j].token
    OBVIOUS
  <2>3. jobs[j].state = "waiting" => HoldsLive(j[1], u, j[2])'
    BY <1>3, <1>5, <2>1, <2>2 DEF JobExact
  <2> QED
    BY <2>1, <2>2, <2>3 DEF JobExact, HoldsLive, Holds
<1>10. ASSUME NEW w \in Workers PROVE SlotExact(w)'
  <2>1. SlotExact(w) /\ jobs' = jobs /\ work' = work
    BY <1>1 DEF OnePlace
  <2>2. CASE work[w].pc = "idle"
    BY <2>1, <2>2 DEF SlotExact
  <2>3. CASE work[w].pc # "idle"
    <3>1. PICK e, u, n : e = work[w].event /\ u = work[w].token /\ n = work[w].attempt
      OBVIOUS
    <3>2. e \in Events /\ e \notin S
      BY <1>3, <2>3, <3>1 DEF IInv, ActorsSound
    <3>3. HoldsLive(e, u, n)'
      BY <1>5, <2>1, <2>3, <3>1, <3>2 DEF SlotExact
    <3> QED
      BY <2>1, <3>1, <3>3 DEF SlotExact, HoldsLive, Holds
  <2> QED
    BY <2>2, <2>3
<1> QED
  BY <1>8, <1>9, <1>10 DEF OnePlace

\* The claims of untouched rows, jobs and slots stay as they are; the actor's own part is
\* shown by each action.
LEMMA BatchFrame ==
  ASSUME NEW x \in Dispatchers, BatchExact(x),
         disp'[x].pc # "release", disp'[x].batch \subseteq disp[x].batch,
         disp'[x].batch # {} => disp'[x].token = disp[x].token,
         \A j \in disp'[x].batch : event'[j[1]] = event[j[1]],
         \A j \in disp'[x].batch : jobs'[j].state \in {"none", "done"},
         \A y \in Dispatchers : disp'[y].batch \subseteq disp[y].batch
  PROVE  BatchExact(x)'
<1> SUFFICES ASSUME NEW j \in disp'[x].batch
             PROVE  /\ HoldsLive(j[1], disp[x].token, j[2])'
                    /\ jobs'[j].state \in {"none", "done"}
                    /\ \A y \in Dispatchers : y # x => j \notin disp'[y].batch
  BY DEF BatchExact, HoldsLive, Holds
<1>1. HoldsLive(j[1], disp[x].token, j[2]) /\ event'[j[1]] = event[j[1]]
      /\ disp'[x].token = disp[x].token
  BY DEF BatchExact
<1>2. HoldsLive(j[1], disp[x].token, j[2])'
  BY <1>1 DEF HoldsLive, Holds
<1> QED
  BY <1>2 DEF BatchExact

\* The same of a job nobody touches, and of a slot.
LEMMA JobFrame ==
  ASSUME NEW j \in JobIds, JobExact(j), jobs'[j] = jobs[j],
         jobs[j].state = "waiting" => event'[j[1]] = event[j[1]],
         jobs[j].state = "active" =>
           \A v \in Workers : v = jobs[j].holder =>
             /\ work'[v].pc # "idle"
             /\ work'[v].event = work[v].event /\ work'[v].attempt = work[v].attempt
  PROVE  JobExact(j)'
<1>1. jobs[j].state = "waiting" => HoldsLive(j[1], jobs[j].token, j[2])'
  BY DEF JobExact, HoldsLive, Holds
<1>2. jobs[j].state = "active" =>
        /\ jobs[j].holder \in Workers /\ work'[jobs[j].holder].pc # "idle"
        /\ j = <<work'[jobs[j].holder].event, work'[jobs[j].holder].attempt>>
  BY DEF JobExact
<1> QED
  BY <1>1, <1>2 DEF JobExact, HoldsLive, Holds

LEMMA SlotFrame ==
  ASSUME NEW v \in Workers, SlotExact(v),
         work'[v].pc # "idle" =>
           /\ work[v].pc # "idle" /\ work'[v].event = work[v].event
           /\ work'[v].attempt = work[v].attempt /\ work'[v].token = work[v].token
           /\ event'[work[v].event] = event[work[v].event]
           /\ jobs'[<<work[v].event, work[v].attempt>>] = jobs[<<work[v].event, work[v].attempt>>]
  PROVE  SlotExact(v)'
BY DEF SlotExact, HoldsLive, Holds

\* A row nobody has in hand may change.
LEMMA RowAlone ==
  ASSUME IInv, OnePlace, NEW e \in Events,
         \A x \in Events \ {e} : event'[x] = event[x],
         \A d \in Dispatchers : \A j \in disp[d].batch : j[1] # e,
         \A j \in JobIds : j[1] = e => jobs[j].state # "waiting",
         \A w \in Workers : work[w].pc # "idle" => work[w].event # e,
         UNCHANGED <<jobs, disp, work>>
  PROVE  OnePlace'
<1>0. /\ \A d \in Dispatchers : disp[d].batch \subseteq JobIds
      /\ \A j \in JobIds : j[1] \in Events
      /\ \A w \in Workers : work[w].pc # "idle" => work[w].event \in Events
  BY JobParts DEF IInv, TypeOK, ActorsSound, DispatcherState
<1>1. ASSUME NEW x \in Dispatchers PROVE BatchExact(x)'
  <2>1. BatchExact(x) /\ \A j \in disp[x].batch : event'[j[1]] = event[j[1]]
    BY <1>0 DEF OnePlace
  <2>2. /\ disp[x].pc # "release"
        /\ \A j \in disp[x].batch : jobs[j].state \in {"none", "done"}
    BY <2>1 DEF BatchExact
  <2> QED
    BY <2>1, <2>2, BatchFrame
<1>2. ASSUME NEW j \in JobIds PROVE JobExact(j)'
  <2>1. JobExact(j) /\ (jobs[j].state = "waiting" => event'[j[1]] = event[j[1]])
    BY <1>0 DEF OnePlace
  <2>2. jobs[j].state = "active" => work[jobs[j].holder].pc # "idle"
    BY <2>1 DEF JobExact
  <2> QED
    BY <2>1, <2>2, JobFrame
<1>3. ASSUME NEW w \in Workers PROVE SlotExact(w)'
  <2>1. SlotExact(w) /\ (work[w].pc # "idle" => event'[work[w].event] = event[work[w].event])
    BY <1>0 DEF OnePlace
  <2> QED
    BY <2>1, SlotFrame
<1> QED
  BY <1>1, <1>2, <1>3 DEF OnePlace

\* A handoff moves one claim from the batch to the queue, or drops it.
LEMMA EnqueueExact ==
  ASSUME IInv, OnePlace, NEW d \in Dispatchers, Enqueue(d)
  PROVE  OnePlace'
<1>0. /\ disp \in [Dispatchers -> DispatcherState] /\ jobs \in [JobIds -> Job]
      /\ disp[d].batch \subseteq JobIds
  BY DEF IInv, TypeOK, DispatcherState
<1>1. PICK j \in disp[d].batch : /\ Add(j, disp[d].token) /\ Proceed(d, j)
                                 /\ UNCHANGED <<rowVars, mails, work, faults, redrives>>
  BY DEF Enqueue
<1>2. PICK t : t = disp[d].token
  OBVIOUS
<1>3. /\ j \in JobIds /\ j = <<j[1], j[2]>> /\ jobs[j].state \in {"none", "done"}
      /\ HoldsLive(j[1], t, j[2]) /\ BatchExact(d)
      /\ \A x \in Dispatchers : x # d => j \notin disp[x].batch
  BY <1>0, <1>2, JobParts DEF OnePlace, BatchExact
<1>4. event' = event /\ work' = work
  BY <1>1 DEF rowVars
<1>5. /\ disp'[d].pc # "release" /\ disp'[d].batch \subseteq disp[d].batch \ {j}
      /\ disp'[d].batch # {} => disp'[d].token = disp[d].token
      /\ \A x \in Dispatchers \ {d} : disp'[x] = disp[x]
  <2> DEFINE rest == disp[d].batch \ {j}
             s == IF rest = {} THEN Resting
                  ELSE [disp[d] EXCEPT !.pc = "enqueue", !.batch = rest, !.current = None]
  <2>1. disp' = [disp EXCEPT ![d] = s]
    BY <1>0, <1>1 DEF Proceed
  <2>2. disp[d] \in DispatcherState
    BY <1>0
  <2>3. s.pc # "release" /\ s.batch \subseteq rest /\ (s.batch # {} => s.token = disp[d].token)
    BY <2>2 DEF Resting, DispatcherState
  <2> QED
    BY <1>0, <2>1, <2>3
<1>6. /\ \A k \in JobIds \ {j} : jobs'[k] = jobs[k]
      /\ \/ jobs'[j] = jobs[j] /\ jobs[j].state = "done"
         \/ jobs'[j].state = "waiting" /\ jobs'[j].token = t
  BY <1>0, <1>1, <1>2, <1>3 DEF Add, NoJob
<1>7. ASSUME NEW x \in Dispatchers PROVE BatchExact(x)'
  <2>1. BatchExact(x)
    BY DEF OnePlace
  <2>2. /\ disp'[x].pc # "release" /\ disp'[x].batch \subseteq disp[x].batch
        /\ disp'[x].batch # {} => disp'[x].token = disp[x].token
        /\ j \notin disp'[x].batch
    BY <1>3, <1>5, <2>1 DEF BatchExact
  <2>3. \A y \in Dispatchers : disp'[y].batch \subseteq disp[y].batch
    BY <1>5
  <2>4. \A k \in disp'[x].batch : k \in JobIds \ {j} /\ jobs[k].state \in {"none", "done"}
    BY <1>0, <2>1, <2>2 DEF BatchExact, DispatcherState
  <2>5. \A k \in disp'[x].batch : jobs'[k].state \in {"none", "done"}
    BY <1>6, <2>4
  <2> QED
    BY <1>4, <2>1, <2>2, <2>3, <2>5, BatchFrame
<1>8. ASSUME NEW k \in JobIds PROVE JobExact(k)'
  <2>0. JobExact(k)
    BY DEF OnePlace
  <2>1. CASE jobs'[k] = jobs[k]
    <3>1. jobs[k].state = "active" => work[jobs[k].holder].pc # "idle"
      BY <2>0 DEF JobExact
    <3> QED
      BY <1>4, <2>0, <2>1, <3>1, JobFrame
  <2>2. CASE jobs'[k] # jobs[k]
    <3>1. k = j /\ jobs'[k].state = "waiting" /\ jobs'[k].token = t
      BY <1>6, <2>2
    <3>2. HoldsLive(j[1], t, j[2])'
      BY <1>3, <1>4, ForceKept
    <3> QED
      BY <3>1, <3>2 DEF JobExact, HoldsLive, Holds
  <2> QED
    BY <2>1, <2>2
<1>9. ASSUME NEW w \in Workers PROVE SlotExact(w)'
  <2>1. SlotExact(w)
    BY DEF OnePlace
  <2>2. ASSUME work[w].pc # "idle"
        PROVE  jobs'[<<work[w].event, work[w].attempt>>] = jobs[<<work[w].event, work[w].attempt>>]
    <3>1. PICK k : k = <<work[w].event, work[w].attempt>>
      OBVIOUS
    <3>2. k \in JobIds /\ jobs[k].state = "active"
      BY <2>1, <2>2, <3>1 DEF SlotExact, IInv, ActorsSound, JobIds
    <3> QED
      BY <1>3, <1>6, <3>1, <3>2
  <2> QED
    BY <1>4, <2>1, <2>2, SlotFrame
<1> QED
  BY <1>7, <1>8, <1>9 DEF OnePlace

\* A free slot takes a waiting job, and is the one that has it.
LEMMA TakeExact ==
  ASSUME IInv, OnePlace, NEW w \in Workers, TakeJob(w)
  PROVE  OnePlace'
<1>0. /\ jobs \in [JobIds -> Job] /\ work \in [Workers -> WorkerState]
      /\ \A d \in Dispatchers : disp[d].batch \subseteq JobIds
  BY DEF IInv, TypeOK, DispatcherState
<1>1. PICK j \in JobIds :
        /\ work[w].pc = "idle" /\ jobs[j].state = "waiting"
        /\ jobs' = [jobs EXCEPT ![j] = [jobs[j] EXCEPT !.state = "active", !.holder = w]]
        /\ work' = [work EXCEPT ![w] = [pc |-> "claim", event |-> j[1], attempt |-> j[2],
                                        token |-> jobs[j].token, retryable |-> FALSE]]
        /\ UNCHANGED <<rowVars, mails, disp, faults, redrives>>
  BY <1>0 DEF TakeJob
<1>2. /\ j = <<j[1], j[2]>> /\ j[1] \in Events /\ event' = event /\ disp' = disp
  BY <1>1, JobParts DEF rowVars
<1>3. /\ jobs'[j].state = "active" /\ jobs'[j].holder = w
      /\ \A k \in JobIds \ {j} : jobs'[k] = jobs[k]
  BY <1>0, <1>1 DEF Job
<1>4. /\ work'[w].pc = "claim" /\ work'[w].event = j[1] /\ work'[w].attempt = j[2]
      /\ work'[w].token = jobs[j].token /\ \A v \in Workers \ {w} : work'[v] = work[v]
  BY <1>0, <1>1
<1>5. ASSUME NEW x \in Dispatchers PROVE BatchExact(x)'
  <2>1. BatchExact(x)
    BY DEF OnePlace
  <2>2. /\ disp[x].pc # "release"
        /\ \A k \in disp[x].batch : k \in JobIds \ {j} /\ jobs[k].state \in {"none", "done"}
    BY <1>0, <1>1, <2>1 DEF BatchExact
  <2>3. \A k \in disp[x].batch : jobs'[k].state \in {"none", "done"}
    BY <1>3, <2>2
  <2> QED
    BY <1>2, <2>1, <2>2, <2>3, BatchFrame
<1>6. ASSUME NEW k \in JobIds PROVE JobExact(k)'
  <2>1. CASE k = j
    BY <1>2, <1>3, <1>4, <2>1 DEF JobExact
  <2>2. CASE k # j
    <3>1. JobExact(k) /\ jobs'[k] = jobs[k]
      BY <1>3, <2>2 DEF OnePlace
    <3>2. ASSUME jobs[k].state = "active", NEW v \in Workers, v = jobs[k].holder
          PROVE  work'[v] = work[v] /\ work[v].pc # "idle"
      BY <1>1, <1>4, <3>1, <3>2 DEF JobExact
    <3> QED
      BY <1>2, <3>1, <3>2, JobFrame
  <2> QED
    BY <2>1, <2>2
<1>7. ASSUME NEW v \in Workers PROVE SlotExact(v)'
  <2>0. SlotExact(v)
    BY DEF OnePlace
  <2>1. CASE v = w
    <3>1. PICK t : t = jobs[j].token
      OBVIOUS
    <3>2. HoldsLive(j[1], t, j[2])
      BY <1>1, <3>1 DEF OnePlace, JobExact
    <3>3. HoldsLive(j[1], t, j[2])'
      BY <1>2, <3>2, ForceKept
    <3>4. j = <<work'[v].event, work'[v].attempt>>
      BY <1>2, <1>4, <2>1
    <3> QED
      BY <1>3, <1>4, <2>1, <3>1, <3>3, <3>4 DEF SlotExact, HoldsLive, Holds
  <2>2. CASE v # w
    <3>1. ASSUME work[v].pc # "idle"
          PROVE  jobs'[<<work[v].event, work[v].attempt>>] = jobs[<<work[v].event, work[v].attempt>>]
      <4>1. PICK k : k = <<work[v].event, work[v].attempt>>
        OBVIOUS
      <4>2. k \in JobIds /\ jobs[k].state = "active"
        BY <2>0, <3>1, <4>1 DEF SlotExact, IInv, ActorsSound, JobIds
      <4> QED
        BY <1>1, <1>3, <4>1, <4>2
    <3> QED
      BY <1>2, <1>4, <2>0, <2>2, <3>1, SlotFrame
  <2> QED
    BY <2>1, <2>2
<1> QED
  BY <1>5, <1>6, <1>7 DEF OnePlace

\* A slot that moves on keeps its claim and its job.
LEMMA MoveExact ==
  ASSUME IInv, OnePlace, NEW w \in Workers, work[w].pc # "idle", work'[w].pc # "idle",
         work'[w].event = work[w].event, work'[w].attempt = work[w].attempt,
         work'[w].token = work[w].token,
         \A v \in Workers \ {w} : work'[v] = work[v],
         UNCHANGED <<event, jobs, disp>>
  PROVE  OnePlace'
<1>1. ASSUME NEW x \in Dispatchers PROVE BatchExact(x)'
  <2>1. BatchExact(x)
    BY DEF OnePlace
  <2>2. /\ disp[x].pc # "release"
        /\ \A j \in disp[x].batch : jobs[j].state \in {"none", "done"}
    BY <2>1 DEF BatchExact
  <2> QED
    BY <2>1, <2>2, BatchFrame
<1>2. ASSUME NEW j \in JobIds PROVE JobExact(j)'
  <2>1. JobExact(j)
    BY DEF OnePlace
  <2>2. ASSUME jobs[j].state = "active", NEW v \in Workers, v = jobs[j].holder
        PROVE  /\ work'[v].pc # "idle" /\ work'[v].event = work[v].event
               /\ work'[v].attempt = work[v].attempt
    BY <2>1, <2>2 DEF JobExact
  <2> QED
    BY <2>1, <2>2, JobFrame
<1>3. ASSUME NEW v \in Workers PROVE SlotExact(v)'
  <2>1. SlotExact(v)
    BY DEF OnePlace
  <2>2. /\ work'[v].pc # "idle" <=> work[v].pc # "idle"
        /\ work'[v].event = work[v].event
        /\ work'[v].attempt = work[v].attempt /\ work'[v].token = work[v].token
    OBVIOUS
  <2> QED
    BY <2>1, <2>2, SlotFrame
<1> QED
  BY <1>1, <1>2, <1>3 DEF OnePlace

\* A slot that finishes takes its claim and its job with it.
LEMMA FinishExact ==
  ASSUME IInv, OnePlace, NEW w \in Workers, work[w].pc # "idle", Finish(w),
         \A x \in Events : x # work[w].event => event'[x] = event[x],
         UNCHANGED disp
  PROVE  OnePlace'
<1>0. PICK e, j : e = work[w].event /\ j = <<e, work[w].attempt>>
  OBVIOUS
<1>1. /\ \A d \in Dispatchers : \A k \in disp[d].batch : k[1] # e
      /\ \A k \in JobIds : k[1] = e /\ k # j => jobs[k].state \in {"none", "done"}
      /\ \A v \in Workers \ {w} : work[v].pc # "idle" => work[v].event # e
      /\ e \in Events /\ j \in JobIds /\ jobs[j].state = "active"
  BY <1>0, AloneWithEvent
<1>2. jobs[j].holder = w
  BY <1>0 DEF OnePlace, SlotExact
<1>3. jobs \in [JobIds -> Job] /\ work \in [Workers -> WorkerState]
  BY DEF IInv, TypeOK
<1>4. jobs'[j].state = "done" /\ \A k \in JobIds \ {j} : jobs'[k] = jobs[k]
  BY <1>0, <1>1, <1>2, <1>3 DEF Finish, NoJob
<1>5. work'[w].pc = "idle" /\ \A v \in Workers \ {w} : work'[v] = work[v]
  BY FinishSound DEF IInv
<1>6. /\ \A d \in Dispatchers : disp[d].batch \subseteq JobIds
      /\ \A k \in JobIds : k[1] \in Events
      /\ \A v \in Workers : work[v].pc # "idle" =>
           work[v].event \in Events /\ <<work[v].event, work[v].attempt>> \in JobIds
  BY JobParts DEF IInv, TypeOK, ActorsSound, DispatcherState, JobIds
<1>7. ASSUME NEW x \in Dispatchers PROVE BatchExact(x)'
  <2>1. BatchExact(x)
    BY DEF OnePlace
  <2>2. /\ disp[x].pc # "release"
        /\ \A k \in disp[x].batch : k \in JobIds /\ jobs[k].state \in {"none", "done"}
    BY <1>6, <2>1 DEF BatchExact
  <2>3. \A k \in disp[x].batch : jobs'[k].state \in {"none", "done"}
    BY <1>4, <2>2
  <2>4. \A k \in disp[x].batch : event'[k[1]] = event[k[1]]
    BY <1>0, <1>1, <1>6, <2>2
  <2> QED
    BY <2>1, <2>2, <2>3, <2>4, BatchFrame
<1>8. ASSUME NEW k \in JobIds PROVE JobExact(k)'
  <2>1. CASE k = j
    BY <1>4, <2>1 DEF JobExact
  <2>2. CASE k # j
    <3>1. JobExact(k) /\ jobs'[k] = jobs[k]
      BY <1>4, <2>2 DEF OnePlace
    <3>2. jobs[k].state = "waiting" => event'[k[1]] = event[k[1]]
      BY <1>0, <1>1, <1>6, <2>2
    <3>3. ASSUME jobs[k].state = "active", NEW v \in Workers, v = jobs[k].holder
          PROVE  work'[v] = work[v] /\ work[v].pc # "idle"
      <4>1. work[v].pc # "idle" /\ k = <<work[v].event, work[v].attempt>>
        BY <3>1, <3>3 DEF JobExact
      <4>2. v # w
        BY <1>0, <2>2, <4>1
      <4> QED
        BY <1>5, <4>1, <4>2
    <3> QED
      BY <3>1, <3>2, <3>3, JobFrame
  <2> QED
    BY <2>1, <2>2
<1>9. ASSUME NEW v \in Workers PROVE SlotExact(v)'
  <2>1. CASE v = w
    BY <1>5, <2>1 DEF SlotExact
  <2>2. CASE v # w
    <3>1. SlotExact(v) /\ work'[v] = work[v]
      BY <1>5, <2>2 DEF OnePlace
    <3>2. ASSUME work[v].pc # "idle"
          PROVE  /\ event'[work[v].event] = event[work[v].event]
                 /\ jobs'[<<work[v].event, work[v].attempt>>] = jobs[<<work[v].event, work[v].attempt>>]
      <4>1. work[v].event \in Events /\ work[v].event # e
        BY <1>1, <1>6, <2>2, <3>2
      <4>2. <<work[v].event, work[v].attempt>> \in JobIds \ {j}
        BY <1>0, <1>6, <3>2, <4>1
      <4> QED
        BY <1>0, <1>4, <4>1, <4>2
    <3> QED
      BY <3>1, <3>2, SlotFrame
  <2> QED
    BY <2>1, <2>2
<1> QED
  BY <1>7, <1>8, <1>9 DEF OnePlace

\* Forgetting a finished job is of no consequence.
LEMMA EvictExact ==
  ASSUME IInv, OnePlace, NEW j \in JobIds, Evict(j)
  PROVE  OnePlace'
<1>0. /\ jobs \in [JobIds -> Job] /\ jobs[j].state = "done"
      /\ \A d \in Dispatchers : disp[d].batch \subseteq JobIds
  BY DEF IInv, TypeOK, DispatcherState, Evict
<1>1. /\ jobs'[j].state = "none" /\ \A k \in JobIds \ {j} : jobs'[k] = jobs[k]
      /\ event' = event /\ disp' = disp /\ work' = work
  BY <1>0 DEF Evict, NoJob, rowVars
<1>2. ASSUME NEW x \in Dispatchers PROVE BatchExact(x)'
  <2>1. BatchExact(x)
    BY DEF OnePlace
  <2>2. /\ disp[x].pc # "release"
        /\ \A k \in disp[x].batch : k \in JobIds /\ jobs[k].state \in {"none", "done"}
    BY <1>0, <2>1 DEF BatchExact
  <2>3. \A k \in disp[x].batch : jobs'[k].state \in {"none", "done"}
    BY <1>1, <2>2
  <2> QED
    BY <1>1, <2>1, <2>2, <2>3, BatchFrame
<1>3. ASSUME NEW k \in JobIds PROVE JobExact(k)'
  <2>1. CASE k = j
    BY <1>1, <2>1 DEF JobExact
  <2>2. CASE k # j
    <3>1. JobExact(k) /\ jobs'[k] = jobs[k]
      BY <1>1, <2>2 DEF OnePlace
    <3>2. jobs[k].state = "active" => work[jobs[k].holder].pc # "idle"
      BY <3>1 DEF JobExact
    <3> QED
      BY <1>1, <3>1, <3>2, JobFrame
  <2> QED
    BY <2>1, <2>2
<1>4. ASSUME NEW v \in Workers PROVE SlotExact(v)'
  <2>1. SlotExact(v)
    BY DEF OnePlace
  <2>2. ASSUME work[v].pc # "idle"
        PROVE  jobs'[<<work[v].event, work[v].attempt>>] = jobs[<<work[v].event, work[v].attempt>>]
    <3>1. PICK k : k = <<work[v].event, work[v].attempt>>
      OBVIOUS
    <3>2. k \in JobIds /\ jobs[k].state = "active"
      BY <2>1, <2>2, <3>1 DEF SlotExact, IInv, ActorsSound, JobIds
    <3> QED
      BY <1>0, <1>1, <3>1, <3>2
  <2> QED
    BY <1>1, <2>1, <2>2, SlotFrame
<1> QED
  BY <1>2, <1>3, <1>4 DEF OnePlace

\* A lease that ends without a failure ends for a claim nobody has in hand.
LEMMA AbandonedAlone ==
  ASSUME IInv, OnePlace, NEW e \in Events, Abandoned(e)
  PROVE  /\ \A d \in Dispatchers : \A j \in disp[d].batch : j[1] # e
         /\ \A j \in JobIds : j[1] = e => jobs[j].state # "waiting"
         /\ \A w \in Workers : work[w].pc # "idle" => work[w].event # e
<1>1. ASSUME NEW d \in Dispatchers, NEW j \in disp[d].batch, j[1] = e PROVE FALSE
  <2>1. /\ HoldsLive(j[1], disp[d].token, j[2]) /\ j \in JobIds
    BY DEF OnePlace, BatchExact, IInv, TypeOK, DispatcherState
  <2>2. disp[d].token = event[e].token /\ j = <<e, event[e].attempts>>
    BY <1>1, <2>1, JobParts DEF HoldsLive, Holds
  <2> QED
    BY <2>2 DEF Abandoned
<1>2. ASSUME NEW j \in JobIds, j[1] = e, jobs[j].state = "waiting" PROVE FALSE
  <2>1. HoldsLive(j[1], jobs[j].token, j[2])
    BY <1>2 DEF OnePlace, JobExact
  <2>2. jobs[j].token = event[e].token /\ j = <<e, event[e].attempts>>
    BY <1>2, <2>1, JobParts DEF HoldsLive, Holds
  <2> QED
    BY <1>2, <2>2 DEF Abandoned
<1>3. ASSUME NEW w \in Workers, work[w].pc # "idle", work[w].event = e PROVE FALSE
  <2>1. HoldsLive(e, work[w].token, work[w].attempt)
    BY <1>3 DEF OnePlace, SlotExact
  <2>2. work[w].token = event[e].token
    BY <2>1 DEF HoldsLive, Holds
  <2> QED
    BY <1>3, <2>2 DEF Abandoned
<1> QED
  BY <1>1, <1>2, <1>3

\* No job stalls: an active one has its slot.
LEMMA NothingStalls ==
  ASSUME OnePlace, NEW j \in JobIds, Stalled(j)
  PROVE  Fault
<1>1. /\ jobs[j].holder \in Workers
      /\ j = <<work[jobs[j].holder].event, work[jobs[j].holder].attempt>>
  BY DEF OnePlace, JobExact, Stalled
<1> QED
  BY <1>1 DEF Stalled

\* Attempts of a round are counted in integers; a redrive starts the next round.
LEMMA UsedFacts ==
  ASSUME TypeOK, NEW e \in Events
  PROVE  /\ Used(e) \in Int
         /\ delivery'[e].attempts = delivery[e].attempts /\ redrives' = redrives =>
              Used(e)' = Used(e)
         /\ delivery'[e].attempts = delivery[e].attempts + 1 /\ redrives' = redrives =>
              Used(e)' = Used(e) + 1
         /\ delivery'[e].attempts = delivery[e].attempts /\ redrives' = redrives + 1 =>
              Used(e)' = Used(e) - MaxAttempts
<1>1. delivery[e].attempts \in Nat /\ redrives \in Nat /\ MaxAttempts \in Nat
  BY ConstantsAssumption DEF TypeOK, DeliveryRow
<1>2. PICK a \in Nat : a = delivery[e].attempts
  BY <1>1
<1>3. PICK r \in Nat : r = redrives
  BY <1>1
<1>4. PICK m \in Nat : m = MaxAttempts
  BY <1>1
<1>5. PICK p \in Int : p = m * r /\ m * (r + 1) = p + m
  OBVIOUS
<1>6. Used(e) = a - p
  BY <1>2, <1>3, <1>4, <1>5 DEF Used
<1>7. redrives' = redrives => Used(e)' = delivery'[e].attempts - p
  BY <1>3, <1>4, <1>5 DEF Used
<1>8. redrives' = redrives + 1 => Used(e)' = delivery'[e].attempts - (p + m)
  BY <1>3, <1>4, <1>5 DEF Used
<1> QED
  BY <1>2, <1>4, <1>6, <1>7, <1>8

\* An event that no step touches keeps its budget.
LEMMA BudgetFrame ==
  ASSUME TypeOK, NEW e \in Events, MailedOnce(e), RoundBudget(e),
         event'[e].status = event[e].status, event'[e].attempts = event[e].attempts,
         mails'[e] = mails[e], delivery'[e].attempts = delivery[e].attempts,
         redrives' = redrives,
         \A v \in Workers : work[v].pc # "idle" /\ work[v].event = e =>
           work'[v].event = e /\ work'[v].pc = work[v].pc
  PROVE  MailedOnce(e)' /\ RoundBudget(e)'
<1>1. Used(e)' = Used(e)
  BY UsedFacts
<1>2. ~Charged(e)' => ~Charged(e)
  BY DEF Charged
<1>3. MailedOnce(e)'
  BY DEF MailedOnce
<1>4. RoundBudget(e)'
  BY <1>1, <1>2 DEF RoundBudget
<1> QED
  BY <1>3, <1>4

\* What the budget says of an event that the slot w works on.
LEMMA SlotBudget ==
  ASSUME IInv, OnePlace, Budget, NEW w \in Workers, work[w].pc # "idle",
         NEW e, e = work[w].event
  PROVE  /\ e \in Events /\ event[e].status = "PROCESSING" /\ event[e].live = TRUE
         /\ HoldsClaim(w) /\ work[w].attempt = event[e].attempts /\ event[e].attempts \in Nat
         /\ mails[e] \in Nat /\ mails[e] <= 1
         /\ work[w].pc \notin {"accept", "result"} => mails[e] = 0
         /\ Used(e) \in Int /\ Used(e) <= MaxAttempts /\ Used(e) <= event[e].attempts
         /\ work[w].pc \notin {"send", "accept", "result", "refused"} =>
              ~Charged(e) /\ Used(e) <= event[e].attempts - 1 /\ Used(e) <= MaxAttempts - 1
<1>1. /\ \A v \in Workers \ {w} : work[v].pc # "idle" => work[v].event # e
      /\ e \in Events /\ HoldsLive(e, work[w].token, work[w].attempt)
  <2>1. /\ e \in Events /\ HoldsLive(e, work[w].token, work[w].attempt)
        /\ jobs[<<e, work[w].attempt>>].holder = w /\ event[e].attempts = work[w].attempt
    BY DEF OnePlace, SlotExact, HoldsLive, Holds, IInv, ActorsSound
  <2>2. ASSUME NEW v \in Workers \ {w}, work[v].pc # "idle" PROVE work[v].event # e
    <3>1. /\ HoldsLive(work[v].event, work[v].token, work[v].attempt)
          /\ jobs[<<work[v].event, work[v].attempt>>].holder = v
      BY <2>2 DEF OnePlace, SlotExact
    <3> QED
      BY <2>1, <3>1 DEF HoldsLive, Holds
  <2> QED
    BY <2>1, <2>2
<1>2. /\ event[e].status = "PROCESSING" /\ event[e].live = TRUE /\ HoldsClaim(w)
      /\ work[w].attempt = event[e].attempts
  BY <1>1 DEF HoldsLive, HoldsClaim, Holds
<1>3. TypeOK /\ mails[e] \in Nat /\ event[e].attempts \in Nat
  BY <1>1, ConstantsAssumption DEF IInv, TypeOK, EventRow
<1>4. MailedOnce(e) /\ RoundBudget(e)
  BY <1>1 DEF Budget
<1>5. work[w].pc \notin {"accept", "result"} => mails[e] = 0
  <2>1. \A v \in Workers : work[v].event = e /\ work[v].pc \in {"accept", "result"} => v = w
    BY <1>1
  <2> QED
    BY <1>2, <1>4, <2>1 DEF MailedOnce
<1>6. work[w].pc \notin {"send", "accept", "result", "refused"} => ~Charged(e)
  BY <1>1 DEF Charged
<1>7. Used(e) \in Int
  BY <1>1, <1>3, UsedFacts
<1> QED
  BY <1>1, <1>2, <1>3, <1>4, <1>5, <1>6, <1>7 DEF MailedOnce, RoundBudget

\* The other events of a slot's step.
LEMMA OthersBudget ==
  ASSUME IInv, Budget, NEW w \in Workers, NEW e, work[w].pc = "idle" \/ work[w].event = e,
         \A v \in Workers \ {w} : work'[v] = work[v],
         \A x \in Events : x # e =>
           event'[x] = event[x] /\ delivery'[x] = delivery[x] /\ mails'[x] = mails[x],
         redrives' = redrives, MailedOnce(e)' /\ RoundBudget(e)'
  PROVE  Budget'
<1>1. ASSUME NEW x \in Events, x # e PROVE MailedOnce(x)' /\ RoundBudget(x)'
  <2>1. MailedOnce(x) /\ RoundBudget(x) /\ TypeOK
    BY DEF Budget, IInv
  <2>2. \A v \in Workers : work[v].pc # "idle" /\ work[v].event = x =>
          work'[v].event = x /\ work'[v].pc = work[v].pc
    BY <1>1
  <2>3. event'[x] = event[x] /\ delivery'[x] = delivery[x] /\ mails'[x] = mails[x]
    BY <1>1
  <2> QED
    BY <2>1, <2>2, <2>3, BudgetFrame
<1> QED
  BY <1>1 DEF Budget

\* A slot moves on: it is charged with its attempt once the attempt is counted, and a
\* mail is out only while it waits to write the result.
LEMMA MoveBudget ==
  ASSUME IInv, OnePlace, Budget, NEW w \in Workers, work[w].pc # "idle",
         NEW e, e = work[w].event, work'[w].event = e,
         \A v \in Workers \ {w} : work'[v] = work[v],
         UNCHANGED <<event, redrives>>,
         \A x \in Events : x # e => delivery'[x] = delivery[x] /\ mails'[x] = mails[x],
         \/ /\ mails'[e] = mails[e]
            /\ work'[w].pc \in {"accept", "result"} \/ work[w].pc \notin {"accept", "result"}
         \/ mails'[e] = mails[e] + 1 /\ work[w].pc = "send" /\ work'[w].pc = "accept",
         \/ /\ delivery'[e].attempts = delivery[e].attempts
            /\ \/ work'[w].pc \in {"send", "accept", "result", "refused"}
               \/ work[w].pc \notin {"send", "accept", "result", "refused"}
         \/ /\ delivery'[e].attempts = delivery[e].attempts + 1
            /\ work[w].pc = "claim" /\ work'[w].pc = "send"
  PROVE  Budget'
<1>1. /\ e \in Events /\ event[e].status = "PROCESSING" /\ event[e].attempts \in Nat
      /\ mails[e] \in Nat /\ mails[e] <= 1
      /\ work[w].pc \notin {"accept", "result"} => mails[e] = 0
      /\ Used(e) \in Int /\ Used(e) <= MaxAttempts /\ Used(e) <= event[e].attempts
      /\ work[w].pc \notin {"send", "accept", "result", "refused"} =>
           ~Charged(e) /\ Used(e) <= event[e].attempts - 1 /\ Used(e) <= MaxAttempts - 1
  BY SlotBudget
<1>2. MailedOnce(e)'
  BY <1>1 DEF MailedOnce
<1>3. RoundBudget(e)'
  <2>0. TypeOK
    BY DEF IInv
  <2>1. CASE delivery'[e].attempts = delivery[e].attempts + 1
    <3>1. Used(e)' = Used(e) + 1 /\ Charged(e)'
      BY <1>1, <2>0, <2>1, UsedFacts DEF Charged, IInv, TypeOK, DeliveryRow
    <3> QED
      BY <1>1, <2>1, <3>1, ConstantsAssumption DEF RoundBudget, IInv, TypeOK, DeliveryRow
  <2>2. CASE delivery'[e].attempts = delivery[e].attempts
    <3>1. Used(e)' = Used(e)
      BY <1>1, <2>0, <2>2, UsedFacts
    <3>2. Charged(e)' \/ (Used(e) <= event[e].attempts - 1 /\ Used(e) <= MaxAttempts - 1)
      <4>1. work'[w].pc \in {"send", "accept", "result", "refused"} => Charged(e)'
        BY DEF Charged
      <4>2. delivery[e].attempts # delivery[e].attempts + 1
        BY <1>1 DEF IInv, TypeOK, DeliveryRow
      <4> QED
        BY <1>1, <2>2, <4>1, <4>2
    <3> QED
      BY <1>1, <3>1, <3>2, ConstantsAssumption DEF RoundBudget
  <2> QED
    BY <2>1, <2>2
<1> QED
  BY <1>2, <1>3, OthersBudget

\* A slot finishes: with a mail out the event is PROCESSED, and it goes round again only
\* with budget left.
LEMMA FinishBudget ==
  ASSUME IInv, OnePlace, Budget, NEW w \in Workers, work[w].pc # "idle",
         NEW e, e = work[w].event, work'[w].pc = "idle",
         \A v \in Workers \ {w} : work'[v] = work[v],
         \A x \in Events : x # e => event'[x] = event[x] /\ delivery'[x] = delivery[x],
         delivery'[e].attempts = delivery[e].attempts,
         UNCHANGED <<mails, redrives>>, event'[e].attempts = event[e].attempts,
         \/ event'[e].status = "PROCESSED"
         \/ event'[e].status = "FAILED" /\ work[w].pc \notin {"accept", "result"}
         \/ /\ event'[e].status = "PENDING" /\ work[w].pc = "refused"
            /\ work[w].attempt < MaxAttempts
         \/ event'[e].status = "PROCESSING" /\ work[w].pc = "resolved"
  PROVE  Budget'
<1>1. /\ e \in Events /\ event[e].attempts \in Nat /\ work[w].attempt = event[e].attempts
      /\ mails[e] \in Nat /\ mails[e] <= 1
      /\ work[w].pc \notin {"accept", "result"} => mails[e] = 0
      /\ Used(e) \in Int /\ Used(e) <= MaxAttempts /\ Used(e) <= event[e].attempts
      /\ work[w].pc \notin {"send", "accept", "result", "refused"} =>
           Used(e) <= event[e].attempts - 1 /\ Used(e) <= MaxAttempts - 1
  BY SlotBudget
<1>2. Used(e)' = Used(e)
  BY <1>1, UsedFacts DEF IInv
<1>3. MailedOnce(e)'
  BY <1>1 DEF MailedOnce
<1>4. RoundBudget(e)'
  BY <1>1, <1>2, ConstantsAssumption DEF RoundBudget
<1> QED
  BY <1>3, <1>4, OthersBudget

\* Steps of a slot, without failures: one call at a time, within the budget.
LEMMA WorkerQuiet ==
  ASSUME IInv, OnePlace, Budget, NEW w \in Workers, TakeJob(w) \/ Deliver(w)
  PROVE  OnePlace' /\ Budget'
<1>0. /\ work \in [Workers -> WorkerState] /\ delivery \in [Events -> DeliveryRow]
      /\ event \in [Events -> EventRow] /\ mails \in [Events -> Nat] /\ TypeOK
      /\ RecordsAgree /\ ActorsSound
      /\ work[w] \in WorkerState
  BY DEF IInv, TypeOK
<1>1. CASE TakeJob(w)
  <2>1. /\ UNCHANGED <<event, delivery, mails, redrives>> /\ work[w].pc = "idle"
        /\ \A v \in Workers \ {w} : work'[v] = work[v]
    BY <1>0, <1>1 DEF TakeJob, rowVars
  <2>2. ASSUME NEW x \in Events PROVE MailedOnce(x)' /\ RoundBudget(x)'
    <3>1. MailedOnce(x) /\ RoundBudget(x)
      BY DEF Budget
    <3>2. \A v \in Workers : work[v].pc # "idle" /\ work[v].event = x =>
            work'[v].event = x /\ work'[v].pc = work[v].pc
      BY <2>1
    <3> QED
      BY <1>0, <2>1, <3>1, <3>2, BudgetFrame
  <2> QED
    BY <1>1, <2>2, TakeExact DEF Budget
<1>2. ASSUME Deliver(w) PROVE work[w].pc # "idle"
  BY <1>2 DEF Deliver, ClaimWork, Send, RecordAcceptance, MarkSent, RecordProviderFailure,
              FinishWithoutSending
<1>3. ASSUME Deliver(w), NEW e, e = work[w].event
      PROVE  /\ e \in Events /\ event[e].status = "PROCESSING" /\ event[e].live = TRUE
             /\ HoldsClaim(w)
  BY <1>2, <1>3, SlotBudget
<1>4. CASE ClaimWork(w)
  <2>0. PICK e : e = work[w].event
    OBVIOUS
  <2>1. /\ work[w].pc = "claim" /\ UNCHANGED <<event, mails, disp, redrives>>
        /\ e \in Events /\ HoldsClaim(w) /\ event[e].live = TRUE
    BY <1>3, <1>4, <2>0 DEF ClaimWork, Deliver
  <2>2. \/ delivery' = [delivery EXCEPT ![e] = Prepared(@)] /\ Goto(w, "send")
        \/ delivery' = delivery /\ Goto(w, "resolved")
        \/ delivery' = delivery /\ Goto(w, "unsendable")
    BY <1>4, <2>0, <2>1 DEF ClaimWork
  <2>3. PICK at \in {"send", "resolved", "unsendable"} :
          /\ Goto(w, at)
          /\ IF at = "send" THEN delivery' = [delivery EXCEPT ![e] = Prepared(@)]
             ELSE delivery' = delivery
    BY <2>2
  <2>4. /\ work'[w].pc = at /\ work'[w].event = e /\ work'[w].attempt = work[w].attempt
        /\ work'[w].token = work[w].token
        /\ \A v \in Workers \ {w} : work'[v] = work[v]
    BY <1>0, <2>0, <2>3 DEF Goto, WorkerState
  <2>5. UNCHANGED <<event, jobs, disp>>
    BY <2>1, <2>3 DEF Goto
  <2>6. OnePlace'
    BY <2>0, <2>1, <2>4, <2>5, MoveExact
  <2>7. \A x \in Events : x # e => delivery'[x] = delivery[x] /\ mails'[x] = mails[x]
    BY <1>0, <2>1, <2>3
  <2>8. \/ delivery'[e].attempts = delivery[e].attempts /\ at # "send"
        \/ delivery'[e].attempts = delivery[e].attempts + 1 /\ at = "send"
    BY <1>0, <2>1, <2>3 DEF Prepared
  <2>9. Budget'
    BY <2>0, <2>1, <2>4, <2>7, <2>8, MoveBudget
  <2> QED
    BY <2>6, <2>9
<1>5. CASE Send(w)
  <2>0. PICK e : e = work[w].event
    OBVIOUS
  <2>1. /\ work[w].pc = "send" /\ UNCHANGED <<event, delivery, jobs, disp, redrives>>
        /\ e \in Events
    BY <1>3, <1>5, <2>0 DEF Send, Deliver, rowVars
  <2>2. \/ /\ mails' = [mails EXCEPT ![e] = @ + 1]
           /\ work' = [work EXCEPT ![w] = [work[w] EXCEPT !.pc = "accept"]]
        \/ /\ mails' = mails
           /\ \E r \in BOOLEAN :
                work' = [work EXCEPT ![w] = [work[w] EXCEPT !.pc = "refused", !.retryable = r]]
    BY <1>0, <1>5, <2>0 DEF Send
  <2>3. /\ work'[w].event = e /\ work'[w].attempt = work[w].attempt
        /\ work'[w].token = work[w].token
        /\ \A v \in Workers \ {w} : work'[v] = work[v]
        /\ \/ work'[w].pc = "accept" /\ mails' = [mails EXCEPT ![e] = @ + 1]
           \/ work'[w].pc = "refused" /\ mails' = mails
    <3>1. CASE /\ mails' = [mails EXCEPT ![e] = @ + 1]
               /\ work' = [work EXCEPT ![w] = [work[w] EXCEPT !.pc = "accept"]]
      <4>1. /\ work'[w] = [work[w] EXCEPT !.pc = "accept"]
            /\ \A v \in Workers \ {w} : work'[v] = work[v]
        BY <1>0, <3>1
      <4> QED
        BY <1>0, <2>0, <3>1, <4>1 DEF WorkerState
    <3>2. ASSUME mails' = mails, NEW r \in BOOLEAN,
                 work' = [work EXCEPT ![w] = [work[w] EXCEPT !.pc = "refused", !.retryable = r]]
          PROVE  /\ work'[w].event = e /\ work'[w].attempt = work[w].attempt
                 /\ work'[w].token = work[w].token /\ work'[w].pc = "refused"
                 /\ \A v \in Workers \ {w} : work'[v] = work[v]
      <4>1. /\ work'[w] = [work[w] EXCEPT !.pc = "refused", !.retryable = r]
            /\ \A v \in Workers \ {w} : work'[v] = work[v]
        BY <1>0, <3>2
      <4> QED
        BY <1>0, <2>0, <3>2, <4>1 DEF WorkerState
    <3> QED
      BY <2>2, <3>1, <3>2
  <2>4. OnePlace'
    BY <2>0, <2>1, <2>3, MoveExact
  <2>5. /\ \A x \in Events : x # e => delivery'[x] = delivery[x] /\ mails'[x] = mails[x]
        /\ \/ mails'[e] = mails[e] /\ work'[w].pc = "refused"
           \/ mails'[e] = mails[e] + 1 /\ work'[w].pc = "accept"
    BY <1>0, <2>1, <2>3
  <2>6. Budget'
    BY <2>0, <2>1, <2>3, <2>5, MoveBudget
  <2> QED
    BY <2>4, <2>6
<1>6. CASE RecordAcceptance(w)
  <2>0. PICK e : e = work[w].event
    OBVIOUS
  <2>1. /\ work[w].pc = "accept" /\ Goto(w, "result") /\ e \in Events
        /\ UNCHANGED <<event, delivery, mails, disp, redrives>>
    BY <1>3, <1>6, <2>0 DEF RecordAcceptance, Deliver
  <2>2. /\ work'[w].pc = "result" /\ work'[w].event = e /\ work'[w].attempt = work[w].attempt
        /\ work'[w].token = work[w].token /\ jobs' = jobs
        /\ \A v \in Workers \ {w} : work'[v] = work[v]
    BY <1>0, <2>0, <2>1 DEF Goto, WorkerState
  <2>3. OnePlace'
    BY <2>0, <2>1, <2>2, MoveExact
  <2>4. Budget'
    BY <2>0, <2>1, <2>2, MoveBudget
  <2> QED
    BY <2>3, <2>4
\* A verdict, or a resolved delivery that nobody who holds the claim can find.
<1>7. ASSUME work[w].pc # "idle", Finish(w), Deliver(w),
             UNCHANGED <<mails, disp, redrives>>,
             \/ FinishEvent(w, "PROCESSED")
             \/ FinishEvent(w, "FAILED") /\ work[w].pc \notin {"accept", "result"}
             \/ /\ FinishEvent(w, "PENDING") /\ work[w].pc = "refused"
                /\ work[w].attempt < MaxAttempts
             \/ UNCHANGED event /\ work[w].pc = "resolved",
             UpdateDelivery(w, "SENT") \/ UpdateDelivery(w, "FAILED") \/ UNCHANGED delivery
      PROVE  OnePlace' /\ Budget'
  <2>0. PICK e : e = work[w].event
    OBVIOUS
  <2>1. e \in Events /\ event[e].status = "PROCESSING" /\ HoldsClaim(w)
    BY <1>3, <1>7, <2>0
  <2>2. /\ \A x \in Events : x # e => event'[x] = event[x]
        /\ event'[e].attempts = event[e].attempts
        /\ \/ event'[e].status = "PROCESSED"
           \/ event'[e].status = "FAILED" /\ work[w].pc \notin {"accept", "result"}
           \/ /\ event'[e].status = "PENDING" /\ work[w].pc = "refused"
              /\ work[w].attempt < MaxAttempts
           \/ event'[e].status = "PROCESSING" /\ work[w].pc = "resolved"
    BY <1>0, <1>7, <2>0, <2>1 DEF FinishEvent
  <2>3. /\ \A x \in Events : x # e => delivery'[x] = delivery[x]
        /\ delivery'[e].attempts = delivery[e].attempts
    BY <1>0, <1>7, <2>0, <2>1 DEF UpdateDelivery, DeliveryRow
  <2>4. work'[w].pc = "idle" /\ \A v \in Workers \ {w} : work'[v] = work[v]
    BY <1>0, <1>7, FinishSound
  <2>5. OnePlace'
    BY <1>7, <2>0, <2>2, FinishExact
  <2>6. Budget'
    BY <1>7, <2>0, <2>2, <2>3, <2>4, FinishBudget
  <2> QED
    BY <2>5, <2>6
<1>8. CASE MarkSent(w)
  BY <1>7, <1>8 DEF MarkSent, Deliver
<1>9. CASE RecordProviderFailure(w)
  <2>1. /\ work[w].pc = "refused" /\ Finish(w) /\ UNCHANGED <<mails, disp, redrives>>
        /\ \/ FinishEvent(w, "FAILED") /\ UpdateDelivery(w, "FAILED")
           \/ FinishEvent(w, "PENDING") /\ UNCHANGED delivery /\ ~Exhausted(w)
    BY <1>9 DEF RecordProviderFailure, MarkFailed, MarkRetry
  <2>2. ~Exhausted(w) => work[w].attempt < MaxAttempts
    BY <1>0, ConstantsAssumption DEF Exhausted, WorkerState
  <2> QED
    BY <1>7, <1>9, <2>1, <2>2 DEF Deliver
<1>10. CASE FinishWithoutSending(w)
  <2>0. PICK e : e = work[w].event
    OBVIOUS
  <2>1. /\ work[w].pc \in {"unsendable", "resolved"} /\ Finish(w)
        /\ UNCHANGED <<mails, disp, redrives>>
        /\ IF work[w].pc = "resolved" THEN MatchResolvedDelivery(w) ELSE MarkFailed(w)
    BY <1>10 DEF FinishWithoutSending
  <2>2. delivery[e].status \in {"NONE", "PENDING"} /\ e \in Events
    BY <1>0, <1>3, <1>10, <2>0 DEF RecordsAgree, Deliver
  <2>3. work[w].pc = "resolved" => UNCHANGED <<event, delivery>>
    BY <2>0, <2>1, <2>2 DEF MatchResolvedDelivery
  <2>4. work[w].pc = "unsendable" => FinishEvent(w, "FAILED") /\ UpdateDelivery(w, "FAILED")
    BY <2>1 DEF MarkFailed
  <2> QED
    BY <1>7, <1>10, <2>1, <2>3, <2>4 DEF Deliver
<1> QED
  BY <1>1, <1>4, <1>5, <1>6, <1>8, <1>9, <1>10 DEF Deliver

\* Steps of a dispatcher, without failures.
LEMMA DispatcherQuiet ==
  ASSUME IInv, OnePlace, Budget, NEW d \in Dispatchers, Dispatch(d)
  PROVE  OnePlace' /\ Budget'
<1>0. TypeOK /\ event \in [Events -> EventRow]
  BY DEF IInv, TypeOK
<1>1. CASE Release(d)
  BY <1>1 DEF Release, OnePlace, BatchExact
<1>2. CASE Enqueue(d)
  <2>1. UNCHANGED <<event, delivery, mails, work, redrives>>
    BY <1>2 DEF Enqueue, rowVars
  <2>2. ASSUME NEW x \in Events PROVE MailedOnce(x)' /\ RoundBudget(x)'
    <3>1. MailedOnce(x) /\ RoundBudget(x)
      BY DEF Budget
    <3> QED
      BY <1>0, <2>1, <3>1, BudgetFrame
  <2> QED
    BY <1>2, <2>2, EnqueueExact DEF Budget
<1>3. CASE ClaimBatch(d)
  <2>1. PICK t \in Tokens, S \in Batches :
          /\ event' = [e \in Events |->
               IF e \in S THEN [status |-> "PROCESSING", token |-> t, live |-> TRUE,
                                attempts |-> event[e].attempts + 1, due |-> event[e].due]
               ELSE event[e]]
          /\ UNCHANGED <<delivery, accepted, mails, jobs, work, faults, redrives>>
    BY <1>3 DEF ClaimBatch
  <2>2. ASSUME NEW e \in Events PROVE MailedOnce(e)' /\ RoundBudget(e)'
    <3>0. /\ MailedOnce(e) /\ RoundBudget(e) /\ event[e].attempts \in Nat
          /\ Used(e) \in Int /\ Used(e)' = Used(e)
      BY <1>0, <2>1, UsedFacts, ConstantsAssumption DEF Budget, EventRow
    <3>1. CASE e \notin S
      <4>1. event'[e] = event[e]
        BY <2>1, <3>1
      <4> QED
        BY <1>0, <2>1, <3>0, <4>1, BudgetFrame
    <3>2. CASE e \in S
      <4>1. event'[e].status = "PROCESSING" /\ event'[e].attempts = event[e].attempts + 1
        BY <2>1, <3>2
      <4>2. e \in Expired \cup Due
        BY <3>2 DEF Batches
      <4>3. \/ event[e].status = "PENDING"
            \/ event[e].status = "PROCESSING" /\ ~event[e].live
        BY <4>2, Zenon DEF Expired, Due
      <4>4. event[e].status # "PROCESSING" \/ event[e].live # TRUE
        BY <4>3
      <4>5. \A w \in Workers : work[w].pc # "idle" => work[w].event # e
        BY <4>4, Unclaimed
      <4>6. ~Charged(e)
        BY <4>5 DEF Charged
      <4>7. mails[e] = 0
        BY <3>0, <4>3, <4>5 DEF MailedOnce
      <4>8. MailedOnce(e)'
        BY <2>1, <4>7 DEF MailedOnce
      <4>9. Used(e) <= event[e].attempts /\ Used(e) <= MaxAttempts - 1
        BY <3>0, <4>3, <4>6 DEF RoundBudget
      <4>10. RoundBudget(e)'
        BY <3>0, <4>1, <4>9, ConstantsAssumption DEF RoundBudget
      <4> QED
        BY <4>8, <4>10
    <3> QED
      BY <3>1, <3>2
  <2> QED
    BY <1>3, <2>2, ClaimExact DEF Budget
<1> QED
  BY <1>1, <1>2, <1>3 DEF Dispatch

\* Steps of the clock and the operator, without failures.
LEMMA ClockQuiet ==
  ASSUME IInv, OnePlace, Budget, NEW e \in Events,
         \/ LeaseExpires(e) /\ ~Fault
         \/ BecomesDue(e)
         \/ \E allowDuplicate \in BOOLEAN : Redrive(e, allowDuplicate)
  PROVE  OnePlace' /\ Budget'
<1>0. TypeOK /\ event \in [Events -> EventRow] /\ delivery \in [Events -> DeliveryRow]
  BY DEF IInv, TypeOK
<1>1. ASSUME LeaseExpires(e), ~Fault PROVE OnePlace' /\ Budget'
  <2>1. /\ Abandoned(e) /\ event' = [event EXCEPT ![e] = [event[e] EXCEPT !.live = FALSE]]
        /\ UNCHANGED <<delivery, mails, jobs, disp, work, redrives>>
    BY <1>0, <1>1 DEF LeaseExpires
  <2>2. /\ \A x \in Events \ {e} : event'[x] = event[x]
        /\ \A x \in Events : /\ event'[x].status = event[x].status
                             /\ event'[x].attempts = event[x].attempts
    BY <1>0, <2>1 DEF EventRow
  <2>3. OnePlace'
    BY <2>1, <2>2, AbandonedAlone, RowAlone
  <2>4. ASSUME NEW x \in Events PROVE MailedOnce(x)' /\ RoundBudget(x)'
    <3>1. MailedOnce(x) /\ RoundBudget(x)
      BY DEF Budget
    <3> QED
      BY <1>0, <2>1, <2>2, <3>1, BudgetFrame
  <2> QED
    BY <2>3, <2>4 DEF Budget
<1>2. CASE BecomesDue(e)
  <2>1. /\ event[e].status = "PENDING"
        /\ event' = [event EXCEPT ![e] = [event[e] EXCEPT !.due = TRUE]]
        /\ UNCHANGED <<delivery, mails, jobs, disp, work, redrives>>
    BY <1>0, <1>2 DEF BecomesDue
  <2>2. /\ \A x \in Events \ {e} : event'[x] = event[x]
        /\ \A x \in Events : /\ event'[x].status = event[x].status
                             /\ event'[x].attempts = event[x].attempts
    BY <1>0, <2>1 DEF EventRow
  <2>3. /\ \A d \in Dispatchers : \A j \in disp[d].batch : j[1] # e
        /\ \A j \in JobIds : j[1] = e => jobs[j].state \in {"none", "done"}
        /\ \A w \in Workers : work[w].pc # "idle" => work[w].event # e
    BY <2>1, Unclaimed
  <2>4. \A j \in JobIds : j[1] = e => jobs[j].state # "waiting"
    BY <2>3
  <2>5. OnePlace'
    BY <2>1, <2>2, <2>3, <2>4, RowAlone
  <2>6. ASSUME NEW x \in Events PROVE MailedOnce(x)' /\ RoundBudget(x)'
    <3>1. MailedOnce(x) /\ RoundBudget(x)
      BY DEF Budget
    <3> QED
      BY <1>0, <2>1, <2>2, <3>1, BudgetFrame
  <2> QED
    BY <2>5, <2>6 DEF Budget
<1>3. CASE \E allowDuplicate \in BOOLEAN : Redrive(e, allowDuplicate)
  <2> DEFINE drow == [delivery[e] EXCEPT !.status = IF delivery[e].status = "FAILED"
                                                    THEN "PENDING" ELSE delivery[e].status]
  <2>1. /\ event[e].status = "FAILED"
        /\ event' = [event EXCEPT ![e] = [status |-> "PENDING", token |-> None, live |-> FALSE,
                                          due |-> TRUE, attempts |-> 0]]
        /\ delivery' = [delivery EXCEPT ![e] = drow]
        /\ redrives' = redrives + 1
        /\ UNCHANGED <<accepted, mails, jobs, disp, work, faults>>
    BY <1>0, <1>3 DEF Redrive
  <2>2. /\ \A x \in Events \ {e} : event'[x] = event[x]
        /\ event'[e].status = "PENDING" /\ event'[e].attempts = 0
    BY <1>0, <2>1
  <2>3. \A x \in Events : delivery'[x].attempts = delivery[x].attempts
    BY <1>0, <2>1 DEF DeliveryRow
  <2>4. /\ \A d \in Dispatchers : \A j \in disp[d].batch : j[1] # e
        /\ \A j \in JobIds : j[1] = e => jobs[j].state \in {"none", "done"}
        /\ \A w \in Workers : work[w].pc # "idle" => work[w].event # e
    BY <2>1, Unclaimed
  <2>5. \A j \in JobIds : j[1] = e => jobs[j].state # "waiting"
    BY <2>4
  <2>6. OnePlace'
    BY <2>1, <2>2, <2>4, <2>5, RowAlone
  <2>7. ASSUME NEW x \in Events PROVE MailedOnce(x)' /\ RoundBudget(x)'
    <3>0. /\ MailedOnce(x) /\ RoundBudget(x) /\ event[x].attempts \in Nat
          /\ Used(x) \in Int /\ Used(x)' = Used(x) - MaxAttempts
      BY <1>0, <2>1, <2>3, UsedFacts, ConstantsAssumption DEF Budget, EventRow
    <3>1. Charged(x)' <=> Charged(x)
      BY <2>1 DEF Charged
    <3>2. CASE x # e
      <4>1. MailedOnce(x)'
        BY <2>1, <2>2, <3>0, <3>2 DEF MailedOnce
      <4>2. RoundBudget(x)'
        BY <2>2, <3>0, <3>1, <3>2, ConstantsAssumption DEF RoundBudget
      <4> QED
        BY <4>1, <4>2
    <3>3. CASE x = e
      <4>1. mails[e] = 0
        BY <2>1, <2>4, <3>0, <3>3 DEF MailedOnce
      <4>2. MailedOnce(x)'
        BY <2>1, <3>3, <4>1 DEF MailedOnce
      <4>3. RoundBudget(x)'
        BY <2>2, <3>0, <3>3, ConstantsAssumption DEF RoundBudget
      <4> QED
        BY <4>2, <4>3
    <3> QED
      BY <3>2, <3>3
  <2> QED
    BY <2>6, <2>7 DEF Budget
<1> QED
  BY <1>1, <1>2, <1>3

\* Every step keeps the invariant while nothing fails.
LEMMA NextQuietInv == IInv /\ QuietInv /\ [Next]_vars => QuietInv'
<1> SUFFICES ASSUME IInv, QuietInv, [Next]_vars, faults' = 0 PROVE OnePlace' /\ Budget'
  BY DEF QuietInv
<1>0. faults \in Nat /\ TypeOK
  BY ConstantsAssumption DEF IInv, TypeOK
<1>1. ~Fault
  BY <1>0 DEF Fault
<1>2. faults' = faults \/ Fault
  BY DEF Next, Dispatch, ClaimBatch, Enqueue, Release, EnqueueFails, ReleaseFails,
         DispatcherCrash, TakeJob, Deliver, ClaimWork, Send, RecordAcceptance, MarkSent,
         RecordProviderFailure, FinishWithoutSending, SendTimesOut, WorkerThrows, WorkerCrash,
         Stalled, Evict, LeaseExpires, BecomesDue, Redrive, vars
<1>3. OnePlace /\ Budget
  BY <1>1, <1>2 DEF QuietInv
<1>4. ASSUME UNCHANGED <<event, delivery, mails, work, redrives>> PROVE Budget'
  <2>1. ASSUME NEW x \in Events PROVE MailedOnce(x)' /\ RoundBudget(x)'
    <3>1. MailedOnce(x) /\ RoundBudget(x)
      BY <1>3 DEF Budget
    <3> QED
      BY <1>0, <1>4, <3>1, BudgetFrame
  <2> QED
    BY <2>1 DEF Budget
<1>5. ASSUME NEW d \in Dispatchers,
             Dispatch(d) \/ EnqueueFails(d) \/ ReleaseFails(d) \/ DispatcherCrash(d)
      PROVE  OnePlace' /\ Budget'
  BY <1>1, <1>3, <1>5, DispatcherQuiet DEF EnqueueFails, ReleaseFails, DispatcherCrash
<1>6. ASSUME NEW w \in Workers,
             TakeJob(w) \/ Deliver(w) \/ SendTimesOut(w) \/ WorkerThrows(w) \/ WorkerCrash(w)
      PROVE  OnePlace' /\ Budget'
  BY <1>1, <1>3, <1>6, WorkerQuiet DEF SendTimesOut, WorkerThrows, WorkerCrash
<1>7. ASSUME NEW j \in JobIds, Stalled(j) \/ Evict(j) PROVE OnePlace' /\ Budget'
  <2>1. Evict(j)
    BY <1>1, <1>3, <1>7, NothingStalls
  <2>2. UNCHANGED <<event, delivery, mails, work, redrives>>
    BY <2>1 DEF Evict, rowVars
  <2> QED
    BY <1>3, <1>4, <2>1, <2>2, EvictExact
<1>8. ASSUME NEW e \in Events,
             \/ LeaseExpires(e) \/ BecomesDue(e)
             \/ \E allowDuplicate \in BOOLEAN : Redrive(e, allowDuplicate)
      PROVE  OnePlace' /\ Budget'
  BY <1>1, <1>3, <1>8, ClockQuiet
<1>9. CASE UNCHANGED vars
  <2>1. OnePlace'
    BY <1>3, <1>9 DEF OnePlace, BatchExact, JobExact, SlotExact, HoldsLive, Holds, vars, rowVars
  <2> QED
    BY <1>4, <1>9, <2>1 DEF vars, rowVars
<1> QED
  BY <1>5, <1>6, <1>7, <1>8, <1>9 DEF Next

\* At first nobody has anything in hand.
LEMMA InitQuietInv == Init => QuietInv
<1> SUFFICES ASSUME Init PROVE OnePlace /\ Budget
  BY DEF QuietInv
<1>0. Resting.batch = {} /\ NoJob.state = "none"
  BY DEF Resting, NoJob
<1>1. OnePlace
  BY <1>0, RestTypes DEF Init, OnePlace, BatchExact, JobExact, SlotExact
<1>2. ASSUME NEW e \in Events PROVE MailedOnce(e) /\ RoundBudget(e)
  <2>1. /\ mails[e] = 0 /\ delivery[e].attempts = 0 /\ redrives = 0
        /\ event[e].status = "PENDING" /\ event[e].attempts = 0
    BY DEF Init
  <2>2. Used(e) = 0
    BY <2>1, ConstantsAssumption DEF Used
  <2> QED
    BY <2>1, <2>2, ConstantsAssumption DEF MailedOnce, RoundBudget
<1> QED
  BY <1>1, <1>2 DEF Budget

\* While nothing fails, every claim is in one place and within its budget.
LEMMA QuietInvariance == Spec => []QuietInv
BY InitQuietInv, NextQuietInv, Invariance, PTL DEF Spec

\* Any number of dispatchers and workers never mail a guest twice by themselves: a second
\* mail takes a crash, a failed or lost call, a stalled job or a lease that runs out
\* under a living worker.  A redrive alone does not cause it (claimBatch, the job id,
\* claimWork's locking read).
THEOREM NeverTwiceByItself == Spec => []NoDuplicateWithoutFault
<1>1. QuietInv => NoDuplicateWithoutFault
  BY DEF QuietInv, Budget, MailedOnce, NoDuplicateWithoutFault
<1> QED
  BY <1>1, QuietInvariance, PTL

\* What the delivery row says of the provider is true whatever fails, and while nothing
\* fails its attempts stay within maxAttempts for each round (recordProviderFailure is
\* the only place that compares them).
THEOREM DeliveryAlwaysTellsTruth == Spec => []DeliveryTellsTruth
<1>1. IInv /\ QuietInv => RetryBudget
  <2> SUFFICES ASSUME IInv, OnePlace, Budget, NEW e \in Events
               PROVE  delivery[e].attempts <= MaxAttempts * (redrives + 1)
    BY DEF QuietInv, RetryBudget
  <2>1. delivery[e].attempts \in Nat /\ redrives \in Nat /\ MaxAttempts \in Nat
    BY ConstantsAssumption DEF IInv, TypeOK, DeliveryRow
  <2>2. delivery[e].attempts - MaxAttempts * redrives <= MaxAttempts
    BY DEF Budget, RoundBudget, Used
  <2>3. MaxAttempts * (redrives + 1) = MaxAttempts * redrives + MaxAttempts
        /\ MaxAttempts * redrives \in Nat
    BY <2>1
  <2> QED
    BY <2>1, <2>2, <2>3
<1> QED
  BY <1>1, Invariance, QuietInvariance, SentAlwaysMeansSent, PTL DEF DeliveryTellsTruth

===========================================================================
