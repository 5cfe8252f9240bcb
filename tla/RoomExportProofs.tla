-------------------------- MODULE RoomExportProofs --------------------------
(***************************************************************************)
(* Proofs about RoomExport, for any number of jobs, dispatchers, workers   *)
(* and cleanup runners, any batch size, budget of attempts and claims,     *)
(* any finite catalogs, page size and row limit.                           *)
(*                                                                         *)
(* A claim makes one message, and the message is in one place: with the    *)
(* dispatcher, in the queue, or with one worker.  So one attempt at a time *)
(* has a claim's object key, and while it uploads and publishes, the row   *)
(* that guards the key is its own.                                         *)
(*                                                                         *)
(* What a snapshot reads page by page is the table: otherwise there were a *)
(* greatest id after which it is not.                                      *)
(***************************************************************************)
EXTENDS RoomExport, FiniteSetTheorems, NaturalsInduction, TLAPS

\* What a snapshot can have read.
Snapshots == {{}} \cup {ReadPages(S) : S \in Catalogs}
JobRow == [status : {"NONE", "QUEUED", "PROCESSING", "COMPLETED", "FAILED", "COLLECTED"},
           token : 0..MaxClaims, age : {"fresh", "expired", "old"},
           rows : Snapshots, catalog : {{}} \cup Catalogs]
AttemptState == [pc : {"idle", "claim", "snapshot", "renewed", "generate", "generated",
                       "safeguard", "upload", "complete", "record"},
                 msg : Message \cup {None}, retryable : BOOLEAN,
                 rows : Snapshots, catalog : {{}} \cup Catalogs]

TypeInv ==
  /\ task \in [Keys -> Task] /\ objects \subseteq Keys /\ faults \in Nat
  /\ cleaner \in [Cleaners -> Runner]
  /\ \A c \in Cleaners : cleaner[c].pc # "idle" => cleaner[c].key \in Keys
  /\ job \in [Jobs -> JobRow] /\ event \in [Jobs -> Event]
  /\ disp \in [Dispatchers -> SUBSET Message] /\ queue \subseteq Message
  /\ worker \in [Workers -> AttemptState]
  /\ \A w \in Workers : worker[w].pc # "idle" => worker[w].msg \in Message
  /\ collector \in Jobs \cup {None}

\* Every claim has a number, the last one while it stands; a job names a result only
\* when it is completed.
ClaimSound(j) ==
  /\ event[j].attempts <= event[j].claims
  /\ event[j].status = "PROCESSING" => event[j].token = event[j].claims
  /\ job[j].status = "NONE" => event[j].claims = 0
  /\ job[j].token # 0 => job[j].status = "COMPLETED"

RowsInv == RowsAgree /\ \A j \in Jobs : ClaimSound(j)

\* The message of a claim: never for a claim still to come, nor for one whose result is
\* published.
Spendable(m) == m.token <= event[m.job].claims /\ m.token # job[m.job].token
SameClaim(m, n) == m.job = n.job /\ m.token = n.token
Runs(w) == worker[w].pc # "idle"

Circulation ==
  /\ \A d \in Dispatchers : \A m \in disp[d] :
       /\ Spendable(m)
       /\ \A e \in Dispatchers : \A n \in disp[e] : SameClaim(m, n) => d = e /\ m = n
       /\ \A n \in queue : ~SameClaim(m, n)
       /\ \A w \in Workers : Runs(w) => ~SameClaim(m, worker[w].msg)
  /\ \A m \in queue :
       /\ Spendable(m)
       /\ \A n \in queue : SameClaim(m, n) => m = n
       /\ \A w \in Workers : Runs(w) => ~SameClaim(m, worker[w].msg)
  /\ \A w \in Workers : Runs(w) =>
       /\ Spendable(worker[w].msg)
       /\ \A v \in Workers : Runs(v) /\ SameClaim(worker[w].msg, worker[v].msg) => v = w

\* A runner has a row of key k in its hands.
Holds(c, k) == cleaner[c].pc # "idle" /\ cleaner[c].key = k

\* Rows of a key are numbered; the runner that deleted the object under the current row
\* may retire it.  Unless a lease ran out under its runner, one runner at most has a key,
\* under a lease that runs.
RowSound(k) ==
  /\ \A c \in Cleaners : Holds(c, k) =>
       /\ cleaner[c].id <= task[k].id
       /\ cleaner[c].pc = "retire" /\ cleaner[c].id = task[k].id => k \notin objects
  /\ task[k].overrun = FALSE =>
       \A c \in Cleaners : Holds(c, k) =>
         /\ task[k].reason # "NONE" /\ task[k].lease = "live" /\ cleaner[c].id = task[k].id
         /\ \A d \in Cleaners : Holds(d, k) => d = c

\* An attempt that uploads or publishes stands under a row of its own.
UploadSound(w) ==
  worker[w].pc \in {"upload", "complete"} =>
    LET k == MyKey(w)
    IN  /\ task[k].reason = "UPLOAD_SAFEGUARD" /\ task[k].due = FALSE /\ task[k].lease = "none"
        /\ \A c \in Cleaners : Holds(c, k) => cleaner[c].id # task[k].id
        /\ worker[w].pc = "complete" /\ task[k].overrun = FALSE => k \in objects

\* A result that is offered is there, and nobody is after it.
ResultSound(j) ==
  LET k == Key(j, job[j].token)
  IN  IsDownloadable(j) /\ task[k].overrun = FALSE =>
        k \in objects /\ task[k].reason = "NONE" /\ \A c \in Cleaners : ~Holds(c, k)

\* What retention is about to forget has no object any more.
CollectorSound ==
  \A j \in Jobs : collector = j =>
    CollectDue(j) /\ (job[j].token # 0 => Key(j, job[j].token) \notin objects)

StoreInv ==
  /\ \A k \in Keys : RowSound(k)
  /\ \A w \in Workers : UploadSound(w)
  /\ \A j \in Jobs : ResultSound(j)
  /\ CollectorSound
  /\ NoOrphan

IInv == TypeInv /\ RowsInv /\ Circulation /\ StoreInv

-----------------------------------------------------------------------------
USE DEF Holds, Runs, SameClaim

LEMMA KeyFacts ==
  /\ \A j \in Jobs, t \in Tokens : Key(j, t) \in Keys
  /\ \A j, i \in Jobs, t, s \in Tokens : Key(j, t) = Key(i, s) => j = i /\ t = s
  /\ \A k \in Keys : \E j \in Jobs, t \in Tokens : k = Key(j, t)
BY ExportAssumption DEF Key

LEMMA MyKeyType ==
  ASSUME TypeInv, NEW w \in Workers, Runs(w)
  PROVE  /\ worker[w].msg.job \in Jobs /\ worker[w].msg.token \in Tokens
         /\ MyKey(w) = Key(worker[w].msg.job, worker[w].msg.token) /\ MyKey(w) \in Keys
BY KeyFacts DEF TypeInv, Message, MyKey

\* Another attempt has another key.
LEMMA KeysApart ==
  ASSUME TypeInv, Circulation, NEW w \in Workers, NEW v \in Workers, Runs(w), Runs(v),
         MyKey(w) = MyKey(v)
  PROVE  w = v
BY MyKeyType, KeyFacts DEF Circulation

LEMMA InitInv == Init => IInv
<1> SUFFICES ASSUME Init PROVE IInv
  OBVIOUS
<1>1. {} \in Snapshots /\ 0 \in 0..MaxClaims
  BY ExportAssumption DEF Snapshots
<1>2. NoJob \in JobRow /\ NoEvent \in Event /\ Idle \in AttemptState
  BY <1>1 DEF NoJob, JobRow, NoEvent, Event, Idle, AttemptState
<1>3. NoTask \in Task /\ Resting \in Runner
  BY DEF NoTask, Task, Resting, Runner
<1>4. TypeInv
  BY <1>2, <1>3 DEF Init, CleanupInit, TypeInv, Idle, Resting
<1>5. RowsInv
  BY DEF Init, RowsInv, RowsAgree, ClaimSound, NoJob, NoEvent
<1>6. Circulation
  BY DEF Init, Circulation, Idle
<1>7. StoreInv
  <2>1. \A k \in Keys : RowSound(k)
    BY DEF Init, CleanupInit, RowSound, Resting
  <2>2. \A w \in Workers : UploadSound(w)
    BY DEF Init, UploadSound, Idle
  <2>3. \A j \in Jobs : ResultSound(j)
    BY DEF Init, ResultSound, IsDownloadable, NoJob
  <2>4. CollectorSound /\ NoOrphan
    BY ExportAssumption DEF Init, CleanupInit, CollectorSound, NoOrphan
  <2>5. QED
    BY <2>1, <2>2, <2>3, <2>4 DEF StoreInv
<1>8. QED
  BY <1>4, <1>5, <1>6, <1>7 DEF IInv

-----------------------------------------------------------------------------
(***************************************************************************)
(* What a step that leaves a part of the state alone cannot disturb.       *)
(***************************************************************************)
LEMMA RowsFrame ==
  ASSUME RowsInv, UNCHANGED <<job, event>>
  PROVE  RowsInv'
BY DEF RowsInv, RowsAgree, ClaimSound

\* Messages stay where they are or vanish, and no claim or result is made.
LEMMA CirculationFrame ==
  ASSUME Circulation, TypeInv,
         \A d \in Dispatchers : disp'[d] \subseteq disp[d],
         queue' \subseteq queue,
         \A w \in Workers : worker'[w].pc # "idle" =>
           worker[w].pc # "idle" /\ worker'[w].msg = worker[w].msg,
         \A j \in Jobs : event'[j].claims = event[j].claims /\ job'[j].token = job[j].token
  PROVE  Circulation'
<1>1. \A m \in Message : Spendable(m) => Spendable(m)'
  BY DEF Spendable, Message
<1>2. /\ \A d \in Dispatchers : disp[d] \subseteq Message
      /\ queue \subseteq Message /\ \A w \in Workers : Runs(w) => worker[w].msg \in Message
  BY DEF TypeInv
<1>3. \A d \in Dispatchers : \A m \in disp'[d] : Spendable(m)'
  BY <1>1, <1>2 DEF Circulation
<1>4. \A m \in queue' : Spendable(m)'
  BY <1>1, <1>2 DEF Circulation
<1>5. \A w \in Workers : Runs(w)' => Spendable(worker[w].msg)'
  <2> SUFFICES ASSUME NEW w \in Workers, worker'[w].pc # "idle" PROVE Spendable(worker[w].msg)'
    OBVIOUS
  <2>1. Spendable(worker[w].msg) /\ worker'[w].msg = worker[w].msg /\ worker[w].msg \in Message
    BY <1>2 DEF Circulation
  <2>2. QED
    BY <2>1 DEF Spendable, Message
<1>6. QED
  BY <1>3, <1>4, <1>5 DEF Circulation

\* The store is untouched, no attempt reaches it, and no job is published or withdrawn.
LEMMA StoreFrame ==
  ASSUME IInv, TypeInv', UNCHANGED <<task, objects, cleaner, collector>>,
         \A w \in Workers : worker'[w] = worker[w] \/ worker'[w].pc \notin {"upload", "complete"},
         \A j \in Jobs :
           \/ job'[j] = job[j]
           \/ job[j].status \notin {"COMPLETED", "FAILED"} /\ job'[j].status # "COMPLETED"
           \/ /\ job'[j].status = job[j].status /\ job'[j].token = job[j].token
              /\ job[j].age # "old" /\ job'[j].age # "fresh"
  PROVE  StoreInv'
<1>1. \A k \in Keys : RowSound(k)'
  BY DEF IInv, StoreInv, RowSound
<1>2. \A w \in Workers : UploadSound(w)'
  BY DEF IInv, StoreInv, UploadSound, MyKey, Key
<1>3. \A j \in Jobs : ResultSound(j)'
  BY DEF IInv, StoreInv, ResultSound, IsDownloadable, Key
<1>4. CollectorSound'
  BY DEF IInv, StoreInv, CollectorSound, CollectDue, Key
<1>5. NoOrphan'
  BY DEF IInv, StoreInv, NoOrphan, Scheduled, Key
<1>6. QED
  BY <1>1, <1>2, <1>3, <1>4, <1>5 DEF StoreInv


-----------------------------------------------------------------------------
(***************************************************************************)
(* The runners' steps.                                                     *)
(***************************************************************************)
LEMMA RunnersOnly ==
  ASSUME IInv, UNCHANGED exportVars, TypeInv', StoreInv'
  PROVE  IInv'
<1>1. RowsInv'
  BY RowsFrame DEF IInv, exportVars
<1>2. Circulation'
  <2>1. UNCHANGED <<job, event, disp, queue, worker>>
    BY DEF exportVars
  <2>2. QED
    BY <2>1, CirculationFrame DEF IInv
<1>3. QED
  BY <1>1, <1>2 DEF IInv

LEMMA ClaimOneKeeps ==
  ASSUME IInv, NEW c \in Cleaners, ClaimOne(c), UNCHANGED exportVars
  PROVE  IInv'
<1>1. PICK k \in Keys :
         /\ cleaner[c].pc = "idle" /\ task[k].reason # "NONE" /\ task[k].due = TRUE
         /\ task[k].lease # "live"
         /\ task' = [task EXCEPT ![k].lease = "live"]
         /\ cleaner' = [cleaner EXCEPT ![c] = [pc |-> "delete", key |-> k, id |-> task[k].id]]
         /\ UNCHANGED <<objects, faults, job, event, disp, queue, worker, collector>>
  BY Zenon DEF ClaimOne, Scheduled, exportVars
<1>2. TypeInv'
  BY <1>1 DEF IInv, TypeInv, Task, Runner
<1>3. /\ \A i \in Keys : /\ task'[i].reason = task[i].reason /\ task'[i].id = task[i].id
                         /\ task'[i].due = task[i].due /\ task'[i].overrun = task[i].overrun
                         /\ i # k => task'[i] = task[i]
      /\ task'[k].lease = "live"
      /\ \A d \in Cleaners : d # c => cleaner'[d] = cleaner[d]
      /\ cleaner'[c].pc = "delete" /\ cleaner'[c].key = k /\ cleaner'[c].id = task[k].id
      /\ task[k].id \in Nat
  BY <1>1 DEF IInv, TypeInv, Task, Runner
<1>4. \A i \in Keys : RowSound(i)'
  BY <1>1, <1>3 DEF IInv, StoreInv, RowSound
<1>5. \A w \in Workers : UploadSound(w)'
  <2> SUFFICES ASSUME NEW w \in Workers, worker[w].pc \in {"upload", "complete"}
               PROVE  UploadSound(w)'
    BY <1>1 DEF UploadSound
  <2>1. /\ MyKey(w)' = MyKey(w) /\ MyKey(w) \in Keys /\ UploadSound(w)
        /\ task[MyKey(w)].due = FALSE
    BY <1>1, MyKeyType DEF MyKey, Key, IInv, StoreInv, UploadSound
  <2>2. QED
    BY <1>1, <1>3, <2>1 DEF UploadSound
<1>6. \A j \in Jobs : ResultSound(j)'
  <2> SUFFICES ASSUME NEW j \in Jobs, IsDownloadable(j) PROVE ResultSound(j)'
    BY <1>1 DEF ResultSound, IsDownloadable
  <2>1. Key(j, job[j].token) \in Keys /\ Key(j, job[j].token)' = Key(j, job[j].token)
    BY <1>1, KeyFacts DEF IInv, TypeInv, JobRow, IsDownloadable, Tokens, Key
  <2>2. QED
    BY <1>1, <1>3, <2>1 DEF IInv, StoreInv, ResultSound, IsDownloadable
<1>7. CollectorSound' /\ NoOrphan'
  <2>1. CollectorSound'
    BY <1>1 DEF IInv, StoreInv, CollectorSound, CollectDue, Key
  <2>2. NoOrphan'
    BY <1>1, <1>3, KeyFacts DEF IInv, StoreInv, NoOrphan, Scheduled
  <2>3. QED
    BY <2>1, <2>2
<1>8. QED
  BY <1>2, <1>4, <1>5, <1>6, <1>7, RunnersOnly DEF StoreInv

\* A runner past its claim touches its own hands, and the object it came for.
LEMMA RunnerMovesOn ==
  ASSUME IInv, NEW c \in Cleaners, cleaner[c].pc # "idle",
         NEW pc \in {"retire", "release"},
         cleaner' = [cleaner EXCEPT ![c].pc = pc],
         objects' \subseteq objects, objects \ {cleaner[c].key} \subseteq objects',
         pc = "retire" => cleaner[c].key \notin objects',
         faults' \in Nat, UNCHANGED <<task, exportVars>>
  PROVE  IInv'
<1>0. UNCHANGED <<task, job, event, disp, queue, worker, collector>> /\ UNCHANGED exportVars
  BY DEF exportVars
<1>1. TypeInv'
  BY <1>0 DEF IInv, TypeInv, Runner
<1>2. /\ \A d \in Cleaners : /\ cleaner'[d].key = cleaner[d].key /\ cleaner'[d].id = cleaner[d].id
                             /\ d # c => cleaner'[d] = cleaner[d]
      /\ cleaner'[c].pc = pc
  BY DEF IInv, TypeInv, Runner
<1>3. \A i \in Keys : RowSound(i)'
  BY <1>0, <1>2 DEF IInv, StoreInv, RowSound
<1>4. \A w \in Workers : UploadSound(w)'
  <2> SUFFICES ASSUME NEW w \in Workers, worker[w].pc \in {"upload", "complete"}
               PROVE  UploadSound(w)'
    BY <1>0 DEF UploadSound
  <2>1. MyKey(w)' = MyKey(w) /\ MyKey(w) \in Keys /\ UploadSound(w) /\ RowSound(MyKey(w))
    BY <1>0, MyKeyType DEF MyKey, Key, IInv, StoreInv
  <2>2. QED
    BY <1>0, <1>2, <2>1 DEF UploadSound, RowSound
<1>5. \A j \in Jobs : ResultSound(j)'
  <2> SUFFICES ASSUME NEW j \in Jobs, IsDownloadable(j) PROVE ResultSound(j)'
    BY <1>0 DEF ResultSound, IsDownloadable
  <2>1. Key(j, job[j].token) \in Keys /\ Key(j, job[j].token)' = Key(j, job[j].token)
    BY <1>0, KeyFacts DEF IInv, TypeInv, JobRow, IsDownloadable, Tokens, Key
  <2>2. QED
    BY <1>0, <1>2, <2>1 DEF IInv, StoreInv, ResultSound, IsDownloadable
<1>6. CollectorSound'
  BY <1>0 DEF IInv, StoreInv, CollectorSound, CollectDue, Key
<1>7. NoOrphan'
  BY <1>0 DEF IInv, StoreInv, NoOrphan, Scheduled, Key
<1>8. QED
  BY <1>0, <1>1, <1>3, <1>4, <1>5, <1>6, <1>7, RunnersOnly DEF StoreInv

LEMMA RunnerFailsKeeps ==
  ASSUME IInv, NEW c \in Cleaners, DeleteObject(c) \/ DeleteObjectFails(c) \/ RetireTaskFails(c),
         UNCHANGED exportVars
  PROVE  IInv'
<1>1. CASE DeleteObject(c)
  <2>1. /\ cleaner[c].pc # "idle" /\ cleaner' = [cleaner EXCEPT ![c].pc = "retire"]
        /\ objects' = objects \ {cleaner[c].key}
        /\ faults' \in Nat /\ UNCHANGED <<task, exportVars>>
    BY <1>1 DEF DeleteObject, IInv, TypeInv
  <2>2. /\ objects' \subseteq objects /\ objects \ {cleaner[c].key} \subseteq objects'
        /\ cleaner[c].key \notin objects'
    BY <2>1
  <2>3. QED
    BY <2>1, <2>2, RunnerMovesOn
<1>2. CASE DeleteObjectFails(c) \/ RetireTaskFails(c)
  <2>1. /\ cleaner[c].pc # "idle" /\ cleaner' = [cleaner EXCEPT ![c].pc = "release"]
        /\ objects' = objects \/ objects' = objects \ {cleaner[c].key}
        /\ faults' \in Nat /\ UNCHANGED <<task, exportVars>>
    BY <1>2 DEF DeleteObjectFails, RetireTaskFails, Fault, IInv, TypeInv
  <2>2. objects' \subseteq objects /\ objects \ {cleaner[c].key} \subseteq objects'
    BY <2>1
  <2>3. QED
    BY <2>1, <2>2, RunnerMovesOn
<1>3. QED
  BY <1>1, <1>2

\* A runner lays its row down: retired with its object, released, or left as it was.
LEMMA RunnerRests ==
  ASSUME IInv, NEW c \in Cleaners, cleaner[c].pc # "idle",
         cleaner' = [cleaner EXCEPT ![c] = Resting],
         NEW t \in Task, task' = [task EXCEPT ![cleaner[c].key] = t],
         t.overrun = task[cleaner[c].key].overrun, t.id = task[cleaner[c].key].id,
         \/ t = task[cleaner[c].key]
         \/ /\ cleaner[c].id = task[cleaner[c].key].id
            /\ \/ t.reason = "NONE" /\ cleaner[c].key \notin objects
               \/ t.reason = task[cleaner[c].key].reason,
         faults' \in Nat, UNCHANGED <<objects, exportVars>>
  PROVE  IInv'
<1> DEFINE k == cleaner[c].key
<1>0. k \in Keys /\ UNCHANGED <<job, event, disp, queue, worker, collector>> /\ UNCHANGED exportVars
  BY DEF IInv, TypeInv, exportVars
<1>1. TypeInv'
  BY <1>0 DEF IInv, TypeInv, Runner, Resting
<1>2. /\ \A d \in Cleaners : d # c => cleaner'[d] = cleaner[d]
      /\ cleaner'[c].pc = "idle"
      /\ \A i \in Keys : i # k => task'[i] = task[i]
      /\ task'[k] = t
  BY <1>0 DEF IInv, TypeInv, Resting
<1> HIDE DEF k
<1>3. \A i \in Keys : RowSound(i)'
  BY <1>0, <1>2 DEF IInv, StoreInv, RowSound, k
<1>4. \A w \in Workers : UploadSound(w)'
  <2> SUFFICES ASSUME NEW w \in Workers, worker[w].pc \in {"upload", "complete"}
               PROVE  UploadSound(w)'
    BY <1>0 DEF UploadSound
  <2>1. MyKey(w)' = MyKey(w) /\ MyKey(w) \in Keys /\ UploadSound(w)
    BY <1>0, MyKeyType DEF MyKey, Key, IInv, StoreInv
  <2>2. task'[MyKey(w)] = task[MyKey(w)]
    BY <1>0, <1>2, <2>1 DEF UploadSound, k
  <2>3. QED
    BY <1>0, <1>2, <2>1, <2>2 DEF UploadSound
<1>5. \A j \in Jobs : ResultSound(j)'
  <2> SUFFICES ASSUME NEW j \in Jobs, IsDownloadable(j) PROVE ResultSound(j)'
    BY <1>0 DEF ResultSound, IsDownloadable
  <2>1. Key(j, job[j].token) \in Keys /\ Key(j, job[j].token)' = Key(j, job[j].token)
    BY <1>0, KeyFacts DEF IInv, TypeInv, JobRow, IsDownloadable, Tokens, Key
  <2>2. QED
    BY <1>0, <1>2, <2>1 DEF IInv, StoreInv, ResultSound, IsDownloadable, k
<1>6. CollectorSound'
  BY <1>0 DEF IInv, StoreInv, CollectorSound, CollectDue, Key
<1>7. NoOrphan'
  BY <1>0, <1>2, KeyFacts DEF IInv, StoreInv, NoOrphan, Scheduled, k
<1>8. QED
  BY <1>0, <1>1, <1>3, <1>4, <1>5, <1>6, <1>7, RunnersOnly DEF StoreInv

LEMMA RunnerEndsKeeps ==
  ASSUME IInv, NEW c \in Cleaners, RetireTask(c) \/ ReleaseTask(c) \/ CleanerCrash(c),
         UNCHANGED exportVars
  PROVE  IInv'
<1> DEFINE k == cleaner[c].key
<1>0. cleaner[c].pc # "idle" /\ k \in Keys /\ task[k] \in Task /\ RowSound(k)
  BY DEF RetireTask, ReleaseTask, CleanerCrash, IInv, TypeInv, StoreInv
<1>1. CASE RetireTask(c)
  <2> DEFINE t == IF task[k].id = cleaner[c].id THEN Remove(task[k]) ELSE task[k]
  <2>1. /\ cleaner[c].pc = "retire"
        /\ task' = [task EXCEPT ![k] = t] /\ cleaner' = [cleaner EXCEPT ![c] = Resting]
        /\ faults' \in Nat /\ UNCHANGED <<objects, exportVars>>
    BY <1>1 DEF RetireTask, IInv, TypeInv
  <2>2. /\ t \in Task /\ t.overrun = task[k].overrun /\ t.id = task[k].id
        /\ t = task[k] \/ (t.reason = "NONE" /\ cleaner[c].id = task[k].id)
    BY <1>0 DEF Task, Remove
  <2>3. cleaner[c].id = task[k].id => k \notin objects
    BY <1>0, <2>1 DEF RowSound
  <2> HIDE DEF t
  <2>4. QED
    BY <1>0, <2>1, <2>2, <2>3, RunnerRests
<1>2. CASE ReleaseTask(c)
  <2> DEFINE t == IF task[k].id = cleaner[c].id /\ task[k].reason # "NONE"
                  THEN [task[k] EXCEPT !.lease = "none", !.due = FALSE] ELSE task[k]
  <2>1. /\ task' = [task EXCEPT ![k] = t] /\ cleaner' = [cleaner EXCEPT ![c] = Resting]
        /\ faults' \in Nat /\ UNCHANGED <<objects, exportVars>>
    BY <1>2 DEF ReleaseTask, IInv, TypeInv
  <2>2. /\ t \in Task /\ t.overrun = task[k].overrun /\ t.id = task[k].id
        /\ t = task[k] \/ (t.reason = task[k].reason /\ cleaner[c].id = task[k].id)
    BY <1>0 DEF Task
  <2> HIDE DEF t
  <2>3. QED
    BY <1>0, <2>1, <2>2, RunnerRests
<1>3. CASE CleanerCrash(c)
  <2>1. /\ task' = [task EXCEPT ![k] = task[k]] /\ cleaner' = [cleaner EXCEPT ![c] = Resting]
        /\ faults' \in Nat /\ UNCHANGED <<objects, exportVars>>
    BY <1>3 DEF CleanerCrash, Fault, IInv, TypeInv
  <2>2. QED
    BY <1>0, <2>1, RunnerRests
<1>4. QED
  BY <1>1, <1>2, <1>3


\* A lease runs out, or a grace ends: never the row of an attempt that uploads.
LEMMA TimeKeeps ==
  ASSUME IInv, NEW k \in Keys,
         GraceEnds(k) \/ (TaskLeaseExpires(k) /\ UNCHANGED exportVars)
  PROVE  IInv'
<1> DEFINE atWork == \E c \in Cleaners : cleaner[c].key = k /\ cleaner[c].id = task[k].id
<1>0. UNCHANGED <<objects, cleaner, job, event, disp, queue, worker, collector>> /\ UNCHANGED exportVars
  BY DEF GraceEnds, TaskDue, TaskLeaseExpires, exportVars
<1>1. PICK t \in Task :
        /\ task' = [task EXCEPT ![k] = t]
        /\ t.reason = task[k].reason /\ t.id = task[k].id
        /\ t.overrun = FALSE => task[k].overrun = FALSE /\ (t.lease = task[k].lease \/ ~atWork)
        /\ \A w \in Workers : worker[w].pc \in {"upload", "complete"} => MyKey(w) # k
  <2>1. CASE GraceEnds(k)
    <3> DEFINE t == [task[k] EXCEPT !.due = TRUE]
    <3>1. task' = [task EXCEPT ![k] = t] /\ task[k] \in Task
      BY <2>1 DEF GraceEnds, TaskDue, IInv, TypeInv
    <3>2. /\ t \in Task /\ t.reason = task[k].reason /\ t.id = task[k].id
          /\ t.overrun = task[k].overrun /\ t.lease = task[k].lease
      BY <3>1 DEF Task
    <3>3. \A w \in Workers : worker[w].pc \in {"upload", "complete"} => MyKey(w) # k
      BY <2>1 DEF GraceEnds
    <3> HIDE DEF t
    <3>4. QED
      BY <3>1, <3>2, <3>3
  <2>2. CASE TaskLeaseExpires(k)
    <3> DEFINE t == [task[k] EXCEPT !.lease = "expired", !.overrun = task[k].overrun \/ atWork]
    <3>1. task' = [task EXCEPT ![k] = t] /\ task[k] \in Task /\ task[k].lease = "live"
      BY <2>2 DEF TaskLeaseExpires, IInv, TypeInv
    <3>2. /\ t \in Task /\ t.reason = task[k].reason /\ t.id = task[k].id
          /\ t.overrun = FALSE => task[k].overrun = FALSE /\ ~atWork
      BY <3>1 DEF Task
    <3>3. \A w \in Workers : worker[w].pc \in {"upload", "complete"} => MyKey(w) # k
      BY <3>1 DEF IInv, StoreInv, UploadSound
    <3> HIDE DEF t
    <3>4. QED
      BY <3>1, <3>2, <3>3
  <2>3. QED
    BY <2>1, <2>2
<1>2. faults' \in Nat
  BY DEF GraceEnds, TaskLeaseExpires, Fault, IInv, TypeInv
<1>3. TypeInv'
  BY <1>0, <1>1, <1>2 DEF IInv, TypeInv
<1>4. task'[k] = t /\ \A i \in Keys : i # k => task'[i] = task[i]
  BY <1>1 DEF IInv, TypeInv
<1>5. \A i \in Keys : RowSound(i)'
  BY <1>0, <1>1, <1>4 DEF IInv, StoreInv, RowSound
<1>6. \A w \in Workers : UploadSound(w)'
  <2> SUFFICES ASSUME NEW w \in Workers, worker[w].pc \in {"upload", "complete"}
               PROVE  UploadSound(w)'
    BY <1>0 DEF UploadSound
  <2>1. MyKey(w)' = MyKey(w) /\ MyKey(w) \in Keys /\ UploadSound(w)
    BY <1>0, MyKeyType DEF MyKey, Key, IInv, StoreInv
  <2>2. task'[MyKey(w)] = task[MyKey(w)]
    BY <1>1, <1>4, <2>1
  <2>3. QED
    BY <1>0, <2>1, <2>2 DEF UploadSound
<1>7. \A j \in Jobs : ResultSound(j)'
  <2> SUFFICES ASSUME NEW j \in Jobs, IsDownloadable(j) PROVE ResultSound(j)'
    BY <1>0 DEF ResultSound, IsDownloadable
  <2>1. Key(j, job[j].token) \in Keys /\ Key(j, job[j].token)' = Key(j, job[j].token)
    BY <1>0, KeyFacts DEF IInv, TypeInv, JobRow, IsDownloadable, Tokens, Key
  <2>2. QED
    BY <1>0, <1>1, <1>4, <2>1 DEF IInv, StoreInv, ResultSound, IsDownloadable
<1>8. CollectorSound'
  BY <1>0 DEF IInv, StoreInv, CollectorSound, CollectDue, Key
<1>9. NoOrphan'
  BY <1>0, <1>1, <1>4, KeyFacts DEF IInv, StoreInv, NoOrphan, Scheduled
<1>10. QED
  BY <1>0, <1>3, <1>5, <1>6, <1>7, <1>8, <1>9, RunnersOnly DEF StoreInv

-----------------------------------------------------------------------------
(***************************************************************************)
(* Requests, claims and the queue.                                         *)
(***************************************************************************)
LEMMA CreateKeeps ==
  ASSUME IInv, NEW j \in Jobs, Create(j)
  PROVE  IInv'
<1> DEFINE e == [NoEvent EXCEPT !.status = "PENDING", !.due = TRUE]
           b == [job[j] EXCEPT !.status = "QUEUED"]
<1>1. /\ job[j].status = "NONE" /\ job[j] \in JobRow /\ event[j].claims = 0 /\ event[j] \in Event
      /\ event' = [event EXCEPT ![j] = e] /\ job' = [job EXCEPT ![j] = b]
      /\ UNCHANGED <<task, objects, cleaner, faults, disp, queue, worker, collector>>
  BY DEF Create, InsertJob, cleanupVars, IInv, TypeInv, RowsInv, ClaimSound
<1>2. /\ e \in Event /\ e.status = "PENDING" /\ e.claims = 0 /\ e.attempts = 0
      /\ b \in JobRow /\ b.status = "QUEUED" /\ b.token = job[j].token
  BY <1>1, ExportAssumption DEF Event, NoEvent, JobRow
<1> HIDE DEF e, b
<1>3. TypeInv'
  BY <1>1, <1>2 DEF IInv, TypeInv
<1>4. /\ event'[j] = e /\ job'[j] = b
      /\ \A i \in Jobs : i # j => event'[i] = event[i] /\ job'[i] = job[i]
  BY <1>1 DEF IInv, TypeInv
<1>5. RowsInv'
  BY <1>1, <1>2, <1>4 DEF IInv, RowsInv, RowsAgree, ClaimSound
<1>6. Circulation'
  BY <1>1, <1>2, <1>4, CirculationFrame DEF IInv
<1>7. StoreInv'
  BY <1>1, <1>2, <1>3, <1>4, StoreFrame
<1>8. QED
  BY <1>3, <1>5, <1>6, <1>7 DEF IInv

\* The clock: an event's lease runs out, or its backoff ends.
LEMMA EventTimeKeeps ==
  ASSUME IInv, NEW j \in Jobs, LeaseExpires(j) \/ BackoffEnds(j)
  PROVE  IInv'
<1> DEFINE e == [event[j] EXCEPT !.live = FALSE]
           f == [event[j] EXCEPT !.due = TRUE]
<1>0. event[j] \in Event
  BY DEF IInv, TypeInv
<1>1. /\ event' = [event EXCEPT ![j] = e] \/ event' = [event EXCEPT ![j] = f]
      /\ faults' \in Nat
      /\ UNCHANGED <<task, objects, cleaner, job, disp, queue, worker, collector>>
  BY DEF LeaseExpires, BackoffEnds, Fault, cleanupVars, IInv, TypeInv
<1>a. /\ e \in Event /\ e.status = event[j].status /\ e.token = event[j].token
      /\ e.attempts = event[j].attempts /\ e.claims = event[j].claims
  BY <1>0 DEF Event
<1>b. /\ f \in Event /\ f.status = event[j].status /\ f.token = event[j].token
      /\ f.attempts = event[j].attempts /\ f.claims = event[j].claims
  BY <1>0 DEF Event
<1> HIDE DEF e, f
<1>2. TypeInv'
  BY <1>1, <1>a, <1>b DEF IInv, TypeInv
<1>3. \A i \in Jobs : /\ event'[i].status = event[i].status /\ event'[i].token = event[i].token
                      /\ event'[i].attempts = event[i].attempts /\ event'[i].claims = event[i].claims
  BY <1>1, <1>a, <1>b DEF IInv, TypeInv
<1>4. RowsInv'
  BY <1>1, <1>3 DEF IInv, RowsInv, RowsAgree, ClaimSound
<1>5. Circulation'
  BY <1>1, <1>3, CirculationFrame DEF IInv
<1>6. StoreInv'
  BY <1>1, <1>2, StoreFrame
<1>7. QED
  BY <1>2, <1>4, <1>5, <1>6 DEF IInv

LEMMA AgesKeeps ==
  ASSUME IInv, NEW j \in Jobs, Ages(j)
  PROVE  IInv'
<1> DEFINE b == [job[j] EXCEPT !.age = IF job[j].age = "fresh" THEN "expired" ELSE "old"]
<1>1. /\ job[j].age # "old" /\ job[j] \in JobRow /\ job' = [job EXCEPT ![j] = b]
      /\ UNCHANGED <<task, objects, cleaner, faults, event, disp, queue, worker, collector>>
  BY DEF Ages, cleanupVars, IInv, TypeInv
<1>2. b \in JobRow /\ b.status = job[j].status /\ b.token = job[j].token /\ b.age # "fresh"
  BY <1>1 DEF JobRow
<1> HIDE DEF b
<1>3. TypeInv'
  BY <1>1, <1>2 DEF IInv, TypeInv
<1>4. job'[j] = b /\ \A i \in Jobs : i # j => job'[i] = job[i]
  BY <1>1 DEF IInv, TypeInv
<1>5. RowsInv'
  BY <1>1, <1>2, <1>4 DEF IInv, RowsInv, RowsAgree, ClaimSound
<1>6. Circulation'
  BY <1>1, <1>2, <1>4, CirculationFrame DEF IInv
<1>7. StoreInv'
  BY <1>1, <1>2, <1>3, <1>4, StoreFrame
<1>8. QED
  BY <1>3, <1>5, <1>6, <1>7 DEF IInv


LEMMA ClaimedType ==
  ASSUME NEW e \in Event, e.claims < MaxClaims, e.attempts <= e.claims
  PROVE  /\ Claimed(e) \in Event /\ Claimed(e).status = "PROCESSING"
         /\ Claimed(e).token = e.claims + 1 /\ Claimed(e).claims = e.claims + 1
         /\ Claimed(e).attempts = e.attempts + 1
<1>1. /\ e.claims \in 0..MaxClaims /\ e.attempts \in 0..MaxClaims /\ MaxClaims \in Nat
  BY ExportAssumption DEF Event
<1>2. e.claims + 1 \in 0..MaxClaims /\ e.attempts + 1 \in 0..MaxClaims
  BY <1>1
<1>3. QED
  BY <1>2 DEF Claimed, Event

LEMMA BatchesOfClaimable ==
  ASSUME NEW S \in Batches
  PROVE  S \subseteq Jobs /\ \A j \in S : event[j].status \in {"PENDING", "PROCESSING"}
<1>1. \A T : \A n : UpTo(T, n) \subseteq SUBSET T
  BY DEF UpTo
<1>2. PICK X \in UpTo(Expired, BatchSize) :
        S \in {X \cup Y : Y \in UpTo(Due, BatchSize - Cardinality(X))}
  BY Zenon DEF Batches
<1>3. PICK Y \in UpTo(Due, BatchSize - Cardinality(X)) : S = X \cup Y
  BY <1>2
<1>4. X \subseteq Expired /\ Y \subseteq Due
  BY <1>1, <1>2, <1>3
<1>5. QED
  BY <1>3, <1>4 DEF Expired, Due

\* A claim takes a number nobody has had.
LEMMA ClaimBatchKeeps ==
  ASSUME IInv, NEW d \in Dispatchers, ClaimBatch(d)
  PROVE  IInv'
<1>1. PICK S \in Batches :
        /\ disp[d] = {} /\ \A j \in S : event[j].claims < MaxClaims
        /\ event' = [j \in Jobs |-> IF j \in S THEN Claimed(event[j]) ELSE event[j]]
        /\ disp' = [disp EXCEPT ![d] =
             {[job |-> j, token |-> event'[j].token, attempt |-> event'[j].attempts] : j \in S}]
        /\ UNCHANGED <<task, objects, cleaner, faults, job, queue, worker, collector>>
  BY DEF ClaimBatch, cleanupVars
<1> DEFINE new == {[job |-> j, token |-> event'[j].token, attempt |-> event'[j].attempts] : j \in S}
<1>2. S \subseteq Jobs /\ \A j \in S : event[j].status \in {"PENDING", "PROCESSING"}
  BY BatchesOfClaimable
<1>3. \A j \in Jobs : event[j] \in Event /\ event[j].claims \in Nat /\ event[j].attempts \in Nat
                      /\ event[j].attempts <= event[j].claims
  BY DEF IInv, TypeInv, RowsInv, ClaimSound, Event
<1>4. \A j \in S : /\ event'[j] \in Event /\ event'[j].status = "PROCESSING"
                   /\ event'[j].token = event[j].claims + 1 /\ event'[j].claims = event[j].claims + 1
                   /\ event'[j].attempts = event[j].attempts + 1
  BY <1>1, <1>2, <1>3, ClaimedType
<1>5. \A j \in Jobs : j \notin S => event'[j] = event[j]
  BY <1>1
<1>6. \A j \in S : /\ event'[j].token \in Tokens /\ event'[j].attempts \in 1..MaxClaims
                   /\ job[j].token = 0
  <2> SUFFICES ASSUME NEW j \in S PROVE event'[j].token \in Tokens /\ event'[j].attempts \in 1..MaxClaims
                                        /\ job[j].token = 0
    OBVIOUS
  <2>1. event[j].claims + 1 <= MaxClaims /\ event[j].attempts + 1 <= MaxClaims
    BY <1>1, <1>2, <1>3, ExportAssumption
  <2>2. job[j].token = 0
    BY <1>2 DEF IInv, RowsInv, RowsAgree, ClaimSound
  <2>3. QED
    BY <1>2, <1>3, <1>4, <2>1, <2>2, ExportAssumption DEF Tokens
<1>7. new \subseteq Message
  <2> SUFFICES ASSUME NEW j \in S
               PROVE  [job |-> j, token |-> event'[j].token, attempt |-> event'[j].attempts] \in Message
    OBVIOUS
  <2>1. QED
    BY <1>2, <1>6 DEF Message
<1>8. TypeInv'
  <2>1. event' \in [Jobs -> Event]
    BY <1>1, <1>3, <1>4, <1>5
  <2>2. disp' \in [Dispatchers -> SUBSET Message]
    BY <1>1, <1>7 DEF IInv, TypeInv
  <2>3. QED
    BY <1>1, <2>1, <2>2 DEF IInv, TypeInv
<1>9. RowsInv'
  <2>1. \A j \in Jobs : job'[j] = job[j]
    BY <1>1
  <2>2. RowsAgree'
    BY <1>2, <1>4, <1>5, <2>1 DEF IInv, RowsInv, RowsAgree
  <2>3. \A j \in Jobs : ClaimSound(j)'
    <3> SUFFICES ASSUME NEW j \in Jobs PROVE ClaimSound(j)'
      OBVIOUS
    <3>1. CASE j \in S
      BY <1>2, <1>3, <1>4, <2>1, <3>1 DEF IInv, RowsInv, RowsAgree, ClaimSound
    <3>2. CASE j \notin S
      BY <1>5, <2>1, <3>2 DEF IInv, RowsInv, ClaimSound
    <3>3. QED
      BY <3>1, <3>2
  <2>4. QED
    BY <2>2, <2>3 DEF RowsInv
<1>10. Circulation'
  <2>0. /\ \A j \in Jobs : /\ job'[j] = job[j] /\ job[j].token \in Nat
                           /\ event'[j].claims >= event[j].claims /\ event'[j].claims \in Nat
        /\ \A m \in Message : m.job \in Jobs /\ m.token \in Nat
    <3>1. \A j \in Jobs : job'[j] = job[j] /\ job[j].token \in Nat
      BY <1>1, ExportAssumption DEF IInv, TypeInv, JobRow
    <3>2. \A j \in Jobs : event'[j].claims >= event[j].claims /\ event'[j].claims \in Nat
      BY <1>2, <1>3, <1>4, <1>5
    <3>3. \A m \in Message : m.job \in Jobs /\ m.token \in Nat
      BY ExportAssumption DEF Message, Tokens
    <3>4. QED
      BY <3>1, <3>2, <3>3
  <2>a. \A m \in Message : Spendable(m) => Spendable(m)'
    BY <1>3, <2>0 DEF Spendable
  <2>1. \A m \in new : /\ m.job \in S /\ m.token = event[m.job].claims + 1
                       /\ \A n \in new : SameClaim(m, n) => m = n
    BY <1>4
  <2>2. \A m \in Message : Spendable(m) => Spendable(m)' /\ \A n \in new : ~SameClaim(m, n)
    <3> SUFFICES ASSUME NEW m \in Message, Spendable(m), NEW n \in new PROVE ~SameClaim(m, n)
      BY <2>a
    <3>1. n.job \in S /\ n.token = event[n.job].claims + 1
      BY <2>1
    <3>2. QED
      BY <1>2, <1>3, <2>0, <3>1 DEF Spendable
  <2>3. \A m \in new : Spendable(m)'
    <3> SUFFICES ASSUME NEW m \in new PROVE Spendable(m)'
      OBVIOUS
    <3>1. m.job \in S /\ m.token = event[m.job].claims + 1
      BY <2>1
    <3>2. /\ event'[m.job].claims = event[m.job].claims + 1 /\ job'[m.job].token = 0
          /\ event[m.job].claims \in Nat
      BY <1>2, <1>3, <1>4, <1>6, <2>0, <3>1
    <3> HIDE DEF new
    <3>3. QED
      BY <3>1, <3>2 DEF Spendable
  <2>4. disp'[d] = new /\ \A e \in Dispatchers : e # d => disp'[e] = disp[e]
    BY <1>1 DEF IInv, TypeInv
  <2>5. /\ \A e \in Dispatchers : disp[e] \subseteq Message
        /\ queue \subseteq Message /\ \A w \in Workers : Runs(w) => worker[w].msg \in Message
    BY DEF IInv, TypeInv
  <2> HIDE DEF new
  <2>6. \A e \in Dispatchers : \A m \in disp'[e] :
       /\ Spendable(m)'
       /\ \A f \in Dispatchers : \A n \in disp'[f] : SameClaim(m, n) => e = f /\ m = n
       /\ \A n \in queue : ~SameClaim(m, n)
       /\ \A w \in Workers : Runs(w) => ~SameClaim(m, worker[w].msg)
    BY <2>1, <2>2, <2>3, <2>4, <2>5 DEF IInv, Circulation
  <2>7. \A m \in queue : Spendable(m)'
    BY <2>2, <2>5 DEF IInv, Circulation
  <2>8. \A w \in Workers : Runs(w) => Spendable(worker[w].msg)'
    <3> SUFFICES ASSUME NEW w \in Workers, Runs(w) PROVE Spendable(worker[w].msg)'
      OBVIOUS
    <3>1. Spendable(worker[w].msg) /\ worker'[w].msg = worker[w].msg /\ worker[w].msg \in Message
      BY <1>1, <2>5 DEF IInv, Circulation
    <3>2. QED
      BY <1>3, <2>0, <3>1 DEF Spendable
  <2>9. UNCHANGED <<queue, worker>>
    BY <1>1
  <2>10. QED
    BY <2>6, <2>7, <2>8, <2>9 DEF IInv, Circulation
<1>11. StoreInv'
  BY <1>1, <1>8, StoreFrame
<1>12. QED
  BY <1>8, <1>9, <1>10, <1>11 DEF IInv


LEMMA GivenBackType ==
  ASSUME NEW e \in Event, e.attempts - 1 \in 0..MaxClaims
  PROVE  /\ GivenBack(e) \in Event /\ GivenBack(e).status = "PENDING"
         /\ GivenBack(e).claims = e.claims /\ GivenBack(e).attempts < e.attempts
<1>1. 0 \in 0..MaxClaims /\ e.attempts \in Int
  BY ExportAssumption DEF Event
<1> DEFINE n == e.attempts - 1
<1>2. n \in 0..MaxClaims /\ n < e.attempts
  BY <1>1
<1>3. GivenBack(e) = [e EXCEPT !.status = "PENDING", !.token = 0, !.live = FALSE, !.attempts = n]
  BY DEF GivenBack
<1> HIDE DEF n
<1>4. QED
  BY <1>1, <1>2, <1>3 DEF Event

\* A claim is handed to the queue, or given back, or both.
LEMMA EnqueueKeeps ==
  ASSUME IInv, NEW d \in Dispatchers, Enqueue(d) \/ EnqueueFails(d)
  PROVE  IInv'
<1>1. PICK m \in disp[d] :
        /\ queue' = queue \/ queue' = queue \cup {m}
        /\ disp' = [disp EXCEPT ![d] = disp[d] \ {m}]
        /\ \/ event' = event
           \/ /\ Held(m)
              /\ event' = [event EXCEPT ![m.job] = GivenBack(event[m.job])]
        /\ faults' \in Nat /\ UNCHANGED <<task, objects, cleaner, job, worker, collector>>
  <2>1. CASE Enqueue(d)
    BY <2>1 DEF Enqueue, cleanupVars, IInv, TypeInv
  <2>2. CASE EnqueueFails(d)
    <3>1. faults' \in Nat
      BY <2>2 DEF EnqueueFails, Fault, IInv, TypeInv
    <3>2. PICK m \in disp[d] :
            /\ queue' \in {queue, queue \cup {m}}
            /\ disp' = [disp EXCEPT ![d] = disp[d] \ {m}]
            /\ \/ /\ Held(m)
                  /\ event' = [event EXCEPT ![m.job] = GivenBack(event[m.job])]
               \/ UNCHANGED event
            /\ UNCHANGED <<task, objects, cleaner, job, worker, collector>>
      BY <2>2, Zenon DEF EnqueueFails
    <3>3. QED
      BY <3>1, <3>2
  <2>3. QED
    BY <2>1, <2>2
<1>2. /\ m \in Message /\ m.job \in Jobs /\ event[m.job] \in Event /\ m.attempt >= 1
      /\ m.attempt \in Nat
  BY ExportAssumption DEF IInv, TypeInv, Message
<1>3. PICK e \in Event :
        /\ event' = [event EXCEPT ![m.job] = e] /\ e.claims = event[m.job].claims
        /\ \/ e = event[m.job]
           \/ /\ event[m.job].status = "PROCESSING" /\ e.status = "PENDING"
              /\ e.attempts < event[m.job].attempts
  <2>1. CASE event' = event
    <3>1. event' = [event EXCEPT ![m.job] = event[m.job]]
      BY <2>1 DEF IInv, TypeInv
    <3>2. QED
      BY <1>2, <3>1
  <2>2. CASE event' # event
    <3> DEFINE e == GivenBack(event[m.job])
    <3>1. Held(m) /\ event' = [event EXCEPT ![m.job] = e]
      BY <1>1, <2>2
    <3>2. /\ event[m.job].status = "PROCESSING" /\ event[m.job].attempts = m.attempt
          /\ event[m.job].attempts \in 0..MaxClaims /\ event[m.job].attempts - 1 \in 0..MaxClaims
      BY <1>2, <3>1, ExportAssumption DEF Held, Event
    <3>3. /\ e \in Event /\ e.status = "PENDING" /\ e.attempts < event[m.job].attempts
          /\ e.claims = event[m.job].claims
      BY <1>2, <3>2, GivenBackType
    <3> HIDE DEF e
    <3>4. QED
      BY <3>1, <3>2, <3>3
  <2>3. QED
    BY <2>1, <2>2
<1>4. /\ event'[m.job] = e /\ \A j \in Jobs : j # m.job => event'[j] = event[j]
      /\ \A j \in Jobs : event'[j].claims = event[j].claims /\ job'[j] = job[j]
      /\ disp'[d] = disp[d] \ {m} /\ \A f \in Dispatchers : f # d => disp'[f] = disp[f]
  BY <1>1, <1>2, <1>3 DEF IInv, TypeInv
<1>5. TypeInv'
  BY <1>1, <1>2, <1>3 DEF IInv, TypeInv
<1>6. RowsInv'
  <2>1. RowsAgree'
    BY <1>2, <1>3, <1>4 DEF IInv, RowsInv, RowsAgree
  <2>2. \A j \in Jobs : ClaimSound(j)'
    <3> SUFFICES ASSUME NEW j \in Jobs PROVE ClaimSound(j)'
      OBVIOUS
    <3>1. /\ event[j].attempts \in Nat /\ event[j].claims \in Nat
          /\ event'[j].attempts \in Nat /\ event'[j].claims \in Nat
      BY <1>5, ExportAssumption DEF IInv, TypeInv, Event
    <3>2. QED
      BY <1>2, <1>3, <1>4, <3>1 DEF IInv, RowsInv, ClaimSound
  <2>3. QED
    BY <2>1, <2>2 DEF RowsInv
<1>7. Circulation'
  <2>1. \A n \in Message : Spendable(n) => Spendable(n)'
    BY <1>4 DEF Spendable, Message
  <2>2. /\ \A f \in Dispatchers : disp[f] \subseteq Message
        /\ queue \subseteq Message /\ \A w \in Workers : Runs(w) => worker[w].msg \in Message
    BY DEF IInv, TypeInv
  <2>3. /\ \A f \in Dispatchers : \A n \in disp'[f] : n \in disp[f] /\ n \in Message /\ ~(f = d /\ n = m)
        /\ \A n \in queue' : n \in queue \/ n = m
        /\ worker' = worker
    BY <1>1, <1>4, <2>2
  <2>4. \A w \in Workers : Runs(w) => Spendable(worker[w].msg)'
    BY <1>4, <2>2, <2>3 DEF IInv, Circulation, Spendable, Message
  <2>5. \A f \in Dispatchers : \A n \in disp'[f] :
       /\ Spendable(n)'
       /\ \A g \in Dispatchers : \A o \in disp'[g] : SameClaim(n, o) => f = g /\ n = o
       /\ \A o \in queue' : ~SameClaim(n, o)
       /\ \A w \in Workers : Runs(w) => ~SameClaim(n, worker[w].msg)
    BY <2>1, <2>3 DEF IInv, Circulation
  <2>6. \A n \in queue' :
       /\ Spendable(n)'
       /\ \A o \in queue' : SameClaim(n, o) => n = o
       /\ \A w \in Workers : Runs(w) => ~SameClaim(n, worker[w].msg)
    BY <1>2, <2>1, <2>2, <2>3 DEF IInv, Circulation
  <2>7. QED
    BY <2>3, <2>4, <2>5, <2>6 DEF IInv, Circulation
<1>8. StoreInv'
  BY <1>1, <1>4, <1>5, StoreFrame
<1>9. QED
  BY <1>5, <1>6, <1>7, <1>8 DEF IInv

LEMMA DispatcherCrashKeeps ==
  ASSUME IInv, NEW d \in Dispatchers, DispatcherCrash(d)
  PROVE  IInv'
<1>1. /\ disp' = [disp EXCEPT ![d] = {}] /\ faults' \in Nat
      /\ UNCHANGED <<task, objects, cleaner, job, event, queue, worker, collector>>
  BY DEF DispatcherCrash, Fault, IInv, TypeInv
<1>2. TypeInv'
  BY <1>1 DEF IInv, TypeInv
<1>3. Circulation'
  <2>1. \A e \in Dispatchers : disp'[e] \subseteq disp[e]
    BY <1>1 DEF IInv, TypeInv
  <2>2. QED
    BY <1>1, <2>1, CirculationFrame DEF IInv
<1>4. QED
  BY <1>1, <1>2, <1>3, RowsFrame, StoreFrame DEF IInv

\* BullMQ gives a job to one worker, and may give it back.
LEMMA QueueKeeps ==
  ASSUME IInv, NEW w \in Workers, NEW m \in Message, NEW a \in AttemptState,
         worker' = [worker EXCEPT ![w] = a], a.pc \in {"idle", "claim"},
         \/ m \in queue /\ ~Runs(w) /\ queue' = queue \ {m} /\ a.pc = "claim" /\ a.msg = m
         \/ /\ Runs(w) /\ worker[w].msg = m /\ a.pc = "idle"
            /\ queue' = queue \/ queue' = queue \cup {m},
         faults' \in Nat, UNCHANGED <<task, objects, cleaner, job, event, disp, collector>>
  PROVE  IInv'
<1>1. TypeInv'
  <2>1. queue' \subseteq Message
    BY DEF IInv, TypeInv
  <2>2. /\ worker' \in [Workers -> AttemptState]
        /\ \A v \in Workers : worker'[v].pc # "idle" => worker'[v].msg \in Message
    BY DEF IInv, TypeInv
  <2>3. QED
    BY <2>1, <2>2 DEF IInv, TypeInv
<1>2. worker'[w] = a /\ \A v \in Workers : v # w => worker'[v] = worker[v]
  BY DEF IInv, TypeInv
<1>3. Circulation'
  <2>1. /\ \A n : Spendable(n)' = Spendable(n)
        /\ \A v \in Workers : worker'[v].msg = worker[v].msg =>
             Spendable(worker[v].msg)' = Spendable(worker[v].msg)
        /\ worker'[w].msg = m => Spendable(worker[w].msg)' = Spendable(m)
    BY DEF Spendable
  <2>2. CASE m \in queue /\ ~Runs(w) /\ queue' = queue \ {m} /\ a.pc = "claim" /\ a.msg = m
    BY <1>2, <2>1, <2>2 DEF IInv, Circulation
  <2>3. CASE Runs(w) /\ worker[w].msg = m /\ a.pc = "idle" /\ queue' \subseteq queue \cup {m}
    BY <1>2, <2>1, <2>3 DEF IInv, Circulation
  <2>4. QED
    BY <2>2, <2>3
<1>4. StoreInv'
  BY <1>1, <1>2, StoreFrame
<1>5. QED
  BY <1>1, <1>3, <1>4, RowsFrame DEF IInv

LEMMA TakeAndCrashKeep ==
  ASSUME IInv, NEW w \in Workers, TakeJob(w) \/ WorkerCrash(w)
  PROVE  IInv'
<1>1. CASE TakeJob(w)
  <2>1. PICK m \in queue :
          /\ worker[w].pc = "idle" /\ queue' = queue \ {m}
          /\ worker' = [worker EXCEPT ![w] = [Idle EXCEPT !.pc = "claim", !.msg = m]]
          /\ UNCHANGED <<task, objects, cleaner, faults, job, event, disp, collector>>
    BY <1>1 DEF TakeJob, cleanupVars
  <2> DEFINE a == [Idle EXCEPT !.pc = "claim", !.msg = m]
  <2>2. m \in Message /\ {} \in Snapshots /\ faults' \in Nat
    BY <2>1 DEF IInv, TypeInv, Snapshots
  <2>3. a \in AttemptState /\ a.pc = "claim" /\ a.msg = m
    BY <2>2 DEF Idle, AttemptState
  <2> HIDE DEF a
  <2>4. worker' = [worker EXCEPT ![w] = a]
    BY <2>1 DEF a
  <2>5. m \in queue /\ ~Runs(w) /\ queue' = queue \ {m} /\ a.pc = "claim" /\ a.msg = m
    BY <2>1, <2>3
  <2>6. UNCHANGED <<task, objects, cleaner, job, event, disp, collector>>
    BY <2>1
  <2>7. QED
    BY <2>2, <2>3, <2>4, <2>5, <2>6, QueueKeeps
<1>2. CASE WorkerCrash(w)
  <2>1. /\ worker[w].pc # "idle" /\ worker' = [worker EXCEPT ![w] = Idle]
        /\ queue' = queue \/ queue' = queue \cup {worker[w].msg}
        /\ worker[w].msg \in Message /\ faults' \in Nat
        /\ UNCHANGED <<task, objects, cleaner, job, event, disp, collector>>
    BY <1>2 DEF WorkerCrash, Ends, Fault, IInv, TypeInv
  <2>2. {} \in Snapshots
    BY DEF Snapshots
  <2>3. Idle \in AttemptState /\ Idle.pc = "idle"
    BY <2>2 DEF Idle, AttemptState
  <2>4. QED
    BY <2>1, <2>3, QueueKeeps
<1>3. QED
  BY <1>1, <1>2


-----------------------------------------------------------------------------
(***************************************************************************)
(* The attempt, up to the store.                                           *)
(***************************************************************************)
LEMMA StageReached ==
  ASSUME TypeInv, NEW w \in Workers, NEW pc, ToStage(w, pc),
         pc \in {"snapshot", "generate", "generated", "safeguard", "upload", "complete"}
  PROVE  \E a \in AttemptState : /\ worker' = [worker EXCEPT ![w] = a] /\ a.pc = pc
                                 /\ a.msg = worker[w].msg
                                 /\ a.rows = worker[w].rows /\ a.catalog = worker[w].catalog
<1> DEFINE a == [worker[w] EXCEPT !.pc = pc]
<1>1. worker[w] \in AttemptState /\ worker' = [worker EXCEPT ![w] = a]
  BY DEF TypeInv, ToStage
<1>2. /\ a \in AttemptState /\ a.pc = pc /\ a.msg = worker[w].msg
      /\ a.rows = worker[w].rows /\ a.catalog = worker[w].catalog
  BY <1>1 DEF AttemptState
<1> HIDE DEF a
<1>3. QED
  BY <1>1, <1>2

LEMMA FailureNoted ==
  ASSUME TypeInv, NEW w \in Workers, NEW r \in BOOLEAN, Fails(w, r)
  PROVE  \E a \in AttemptState : /\ worker' = [worker EXCEPT ![w] = a] /\ a.pc = "record"
                                 /\ a.msg = worker[w].msg
<1> DEFINE a == [worker[w] EXCEPT !.pc = "record", !.retryable = r]
<1>1. worker[w] \in AttemptState /\ worker' = [worker EXCEPT ![w] = a]
  BY DEF TypeInv, Fails
<1>2. a \in AttemptState /\ a.pc = "record" /\ a.msg = worker[w].msg
  BY <1>1 DEF AttemptState
<1> HIDE DEF a
<1>3. QED
  BY <1>1, <1>2

LEMMA AttemptOver ==
  ASSUME NEW w \in Workers, Ends(w)
  PROVE  \E a \in AttemptState : worker' = [worker EXCEPT ![w] = a] /\ a.pc = "idle"
<1>1. {} \in Snapshots
  BY DEF Snapshots
<1>2. Idle \in AttemptState /\ Idle.pc = "idle"
  BY <1>1 DEF Idle, AttemptState
<1>3. QED
  BY <1>2 DEF Ends

\* An attempt moves on short of the store, and may write the rows of its claim.
LEMMA AttemptMoves ==
  ASSUME IInv, NEW w \in Workers, NEW a \in AttemptState, worker' = [worker EXCEPT ![w] = a],
         a.pc \notin {"upload", "complete"},
         a.pc = "idle" \/ (Runs(w) /\ a.msg = worker[w].msg),
         job' \in [Jobs -> JobRow], event' \in [Jobs -> Event], RowsInv',
         \A j \in Jobs : event'[j].claims = event[j].claims /\ job'[j].token = job[j].token,
         \A j \in Jobs :
           \/ job'[j] = job[j]
           \/ job[j].status \notin {"COMPLETED", "FAILED"} /\ job'[j].status # "COMPLETED",
         faults' \in Nat, UNCHANGED <<task, objects, cleaner, disp, queue, collector>>
  PROVE  IInv'
<1>1. worker'[w] = a /\ \A v \in Workers : v # w => worker'[v] = worker[v]
  BY DEF IInv, TypeInv
<1>2. TypeInv'
  <2>1. /\ worker' \in [Workers -> AttemptState]
        /\ \A v \in Workers : worker'[v].pc # "idle" => worker'[v].msg \in Message
    BY <1>1 DEF IInv, TypeInv
  <2>2. QED
    BY <2>1 DEF IInv, TypeInv
<1>3. Circulation'
  BY <1>1, CirculationFrame DEF IInv
<1>4. StoreInv'
  BY <1>1, <1>2, StoreFrame
<1>5. QED
  BY <1>2, <1>3, <1>4 DEF IInv

\* The stages that write no row.
LEMMA QuietAttempt ==
  ASSUME IInv, NEW w \in Workers, NEW a \in AttemptState, worker' = [worker EXCEPT ![w] = a],
         a.pc \notin {"upload", "complete"},
         a.pc = "idle" \/ (Runs(w) /\ a.msg = worker[w].msg),
         faults' \in Nat, UNCHANGED <<task, objects, cleaner, job, event, disp, queue, collector>>
  PROVE  IInv'
<1>1. RowsInv'
  BY RowsFrame DEF IInv
<1>2. job' \in [Jobs -> JobRow] /\ event' \in [Jobs -> Event]
  BY DEF IInv, TypeInv
<1>3. QED
  BY <1>1, <1>2, AttemptMoves

LEMMA SnapshotKeeps ==
  ASSUME IInv, NEW w \in Workers, Snapshot(w)
  PROVE  IInv'
<1>1. PICK S \in Catalogs :
        /\ worker[w].pc = "snapshot"
        /\ \/ Fails(w, FALSE)
           \/ worker' = [worker EXCEPT ![w].pc = "renewed", ![w].rows = ReadPages(S), ![w].catalog = S]
        /\ UNCHANGED <<task, objects, cleaner, faults, job, event, disp, queue, collector>>
  BY Zenon DEF Snapshot, cleanupVars
<1>2. PICK a \in AttemptState : /\ worker' = [worker EXCEPT ![w] = a] /\ a.msg = worker[w].msg
                                /\ a.pc \in {"record", "renewed"}
  <2>1. CASE Fails(w, FALSE)
    BY <2>1, FailureNoted DEF IInv
  <2>2. CASE ~Fails(w, FALSE)
    <3> DEFINE p == ReadPages(S)
               a == [worker[w] EXCEPT !.pc = "renewed", !.rows = p, !.catalog = S]
    <3>1. worker[w] \in AttemptState /\ p \in Snapshots
      BY DEF IInv, TypeInv, Snapshots
    <3> HIDE DEF p
    <3>2. a \in AttemptState /\ a.pc = "renewed" /\ a.msg = worker[w].msg
      BY <3>1 DEF AttemptState
    <3>3. worker' = [worker EXCEPT ![w] = a]
      BY <1>1, <2>2 DEF IInv, TypeInv, p
    <3> HIDE DEF a
    <3>4. QED
      BY <3>2, <3>3
  <2>3. QED
    BY <2>1, <2>2
<1>3. faults' \in Nat /\ Runs(w) /\ a.pc \notin {"upload", "complete"}
  BY <1>1, <1>2 DEF IInv, TypeInv
<1>4. QED
  BY <1>1, <1>2, <1>3, QuietAttempt

LEMMA StagesKeep ==
  ASSUME IInv, NEW w \in Workers,
         Renew(w) \/ Generate(w) \/ GenerateFails(w) \/ StageFails(w)
  PROVE  IInv'
<1>1. /\ Runs(w) /\ faults' \in Nat
      /\ UNCHANGED <<task, objects, cleaner, job, event, disp, queue, collector>>
  <2>0. faults \in Nat
    BY DEF IInv, TypeInv
  <2>1. CASE Renew(w) \/ Generate(w)
    BY <2>0, <2>1 DEF Renew, Generate, cleanupVars
  <2>2. CASE GenerateFails(w)
    BY <2>0, <2>2 DEF GenerateFails, Fault
  <2>3. CASE StageFails(w)
    BY <2>0, <2>3 DEF StageFails, Fault
  <2>4. QED
    BY <2>1, <2>2, <2>3
<1>2. \/ ToStage(w, "generate") \/ ToStage(w, "safeguard") \/ ToStage(w, "generated")
      \/ Ends(w) \/ \E r \in BOOLEAN : Fails(w, r)
  BY DEF Renew, Generate, GenerateFails, StageFails, Retryable
<1>3. \E a \in AttemptState : /\ worker' = [worker EXCEPT ![w] = a]
                              /\ a.pc \notin {"upload", "complete"}
                              /\ a.pc = "idle" \/ a.msg = worker[w].msg
  <2>1. CASE Ends(w)
    BY <2>1, AttemptOver
  <2>2. CASE \E r \in BOOLEAN : Fails(w, r)
    BY <2>2, FailureNoted DEF IInv
  <2>3. CASE ToStage(w, "generate") \/ ToStage(w, "safeguard") \/ ToStage(w, "generated")
    <3>1. PICK pc \in {"generate", "safeguard", "generated"} : ToStage(w, pc)
      BY <2>3
    <3>2. QED
      BY <3>1, StageReached DEF IInv
  <2>4. QED
    BY <1>2, <2>1, <2>2, <2>3
<1>4. QED
  BY <1>1, <1>3, QuietAttempt

LEMMA ClaimKeeps ==
  ASSUME IInv, NEW w \in Workers, Claim(w)
  PROVE  IInv'
<1> DEFINE j == worker[w].msg.job
           b == [job[j] EXCEPT !.status = "PROCESSING"]
<1>1. /\ Runs(w) /\ worker[w].msg \in Message /\ j \in Jobs /\ job[j] \in JobRow /\ faults' \in Nat
      /\ UNCHANGED <<task, objects, cleaner, event, disp, queue, collector>>
  BY MyKeyType DEF Claim, cleanupVars, IInv, TypeInv
<1>2. CASE job' = job
  <2>1. Ends(w) \/ ToStage(w, "snapshot")
    BY DEF Claim
  <2>2. \E a \in AttemptState : /\ worker' = [worker EXCEPT ![w] = a]
                                /\ a.pc \notin {"upload", "complete"}
                                /\ a.pc = "idle" \/ a.msg = worker[w].msg
    BY <2>1, AttemptOver, StageReached DEF IInv
  <2>3. QED
    BY <1>1, <1>2, <2>2, QuietAttempt
<1>3. CASE job' # job
  <2>1. /\ job' = [job EXCEPT ![j] = b] /\ job[j].status \in {"QUEUED", "PROCESSING"}
        /\ ToStage(w, "snapshot")
    BY <1>3 DEF Claim, Held
  <2>2. b \in JobRow /\ b.status = "PROCESSING" /\ b.token = job[j].token
    BY <1>1 DEF JobRow
  <2>3. PICK a \in AttemptState : /\ worker' = [worker EXCEPT ![w] = a] /\ a.pc = "snapshot"
                                  /\ a.msg = worker[w].msg
    BY <2>1, StageReached DEF IInv
  <2> HIDE DEF b, j
  <2>4. /\ job' \in [Jobs -> JobRow] /\ event' \in [Jobs -> Event]
        /\ job'[j] = b /\ \A i \in Jobs : i # j => job'[i] = job[i]
    BY <1>1, <2>1, <2>2 DEF IInv, TypeInv
  <2>5. RowsInv'
    BY <1>1, <2>1, <2>2, <2>4 DEF IInv, RowsInv, RowsAgree, ClaimSound
  <2>6. /\ \A i \in Jobs : event'[i].claims = event[i].claims /\ job'[i].token = job[i].token
        /\ \A i \in Jobs :
             \/ job'[i] = job[i]
             \/ job[i].status \notin {"COMPLETED", "FAILED"} /\ job'[i].status # "COMPLETED"
        /\ a.pc \notin {"upload", "complete"}
    BY <1>1, <2>1, <2>2, <2>3, <2>4
  <2>7. QED
    BY <1>1, <2>3, <2>4, <2>5, <2>6, AttemptMoves
<1>4. QED
  BY <1>2, <1>3

LEMMA ReleasedType ==
  ASSUME NEW e \in Event, NEW s \in {"PENDING", "FAILED", "PROCESSED"}
  PROVE  /\ Released(e, s) \in Event /\ Released(e, s).status = s
         /\ Released(e, s).claims = e.claims /\ Released(e, s).attempts = e.attempts
<1>1. 0 \in 0..MaxClaims
  BY ExportAssumption
<1>2. QED
  BY <1>1 DEF Released, Event

LEMMA RecordFailureKeeps ==
  ASSUME IInv, NEW w \in Workers, RecordFailure(w)
  PROVE  IInv'
<1> DEFINE m == worker[w].msg
           j == m.job
           terminal == ~worker[w].retryable \/ m.attempt >= MaxAttempts
           s == IF terminal THEN "FAILED" ELSE "PENDING"
           t == IF terminal THEN "FAILED" ELSE "QUEUED"
           e == Released(event[j], s)
           b == [job[j] EXCEPT !.status = t]
<1>1. /\ Runs(w) /\ j \in Jobs /\ job[j] \in JobRow /\ event[j] \in Event /\ faults' \in Nat
      /\ Ends(w) /\ UNCHANGED <<task, objects, cleaner, disp, queue, collector>>
  BY MyKeyType DEF RecordFailure, cleanupVars, IInv, TypeInv
<1>2. PICK a \in AttemptState : worker' = [worker EXCEPT ![w] = a] /\ a.pc = "idle"
  BY <1>1, AttemptOver
<1>3. CASE ~(Held(m) /\ job[j].status = "PROCESSING")
  <2>1. UNCHANGED <<event, job>>
    BY <1>3 DEF RecordFailure
  <2>2. QED
    BY <1>1, <1>2, <2>1, QuietAttempt
<1>4. CASE Held(m) /\ job[j].status = "PROCESSING"
  <2>1. /\ job' = [job EXCEPT ![j] = b] /\ event' = [event EXCEPT ![j] = e]
    BY <1>4 DEF RecordFailure
  <2>2. /\ s \in {"PENDING", "FAILED", "PROCESSED"}
        /\ (s = "FAILED" /\ t = "FAILED") \/ (s = "PENDING" /\ t = "QUEUED")
    <3> HIDE DEF terminal
    <3>1. CASE terminal
      BY <3>1
    <3>2. CASE ~terminal
      BY <3>2
    <3>3. QED
      BY <3>1, <3>2
  <2> HIDE DEF s, t
  <2>3. b \in JobRow /\ b.status = t /\ b.token = job[j].token
    BY <1>1, <2>2 DEF JobRow
  <2>4. e \in Event /\ e.status = s /\ e.claims = event[j].claims /\ e.attempts = event[j].attempts
    BY <1>1, <2>2, ReleasedType
  <2> HIDE DEF e, b, j
  <2>5. /\ job' \in [Jobs -> JobRow] /\ event' \in [Jobs -> Event]
        /\ job'[j] = b /\ event'[j] = e
        /\ \A i \in Jobs : i # j => job'[i] = job[i] /\ event'[i] = event[i]
    BY <1>1, <2>1, <2>3, <2>4 DEF IInv, TypeInv
  <2>6. RowsInv'
    BY <1>1, <1>4, <2>2, <2>3, <2>4, <2>5 DEF IInv, RowsInv, RowsAgree, ClaimSound
  <2>7. /\ \A i \in Jobs : event'[i].claims = event[i].claims /\ job'[i].token = job[i].token
        /\ \A i \in Jobs :
             \/ job'[i] = job[i]
             \/ job[i].status \notin {"COMPLETED", "FAILED"} /\ job'[i].status # "COMPLETED"
        /\ a.pc \notin {"upload", "complete"}
    BY <1>1, <1>2, <1>4, <2>2, <2>3, <2>4, <2>5
  <2>8. QED
    BY <1>1, <1>2, <2>5, <2>6, <2>7, AttemptMoves
<1>5. QED
  BY <1>3, <1>4


-----------------------------------------------------------------------------
(***************************************************************************)
(* The attempt at the store: safeguard, upload, publication.               *)
(***************************************************************************)
\* The key of an attempt is never the key of a published result.
LEMMA ResultsApart ==
  ASSUME IInv, NEW w \in Workers, Runs(w), NEW j \in Jobs, job[j].token # 0
  PROVE  Key(j, job[j].token) \in Keys /\ Key(j, job[j].token) # MyKey(w)
<1>1. job[j].token \in Tokens
  BY ExportAssumption DEF IInv, TypeInv, JobRow, Tokens
<1>2. Spendable(worker[w].msg)
  BY DEF IInv, Circulation
<1>3. QED
  BY <1>1, <1>2, MyKeyType, KeyFacts DEF Spendable, IInv

LEMMA InsertSafeguardKeeps ==
  ASSUME IInv, NEW w \in Workers, InsertSafeguard(w)
  PROVE  IInv'
<1> DEFINE k == MyKey(w)
           t == Insert(task[k], "UPLOAD_SAFEGUARD", FALSE)
<1>1. /\ worker[w].pc = "safeguard" /\ k \in Keys /\ task[k] \in Task /\ faults' \in Nat
      /\ UNCHANGED <<objects, cleaner, job, event, disp, queue, collector>>
  BY MyKeyType DEF InsertSafeguard, IInv, TypeInv
<1>2. CASE Scheduled(k)
  <2>1. Fails(w, TRUE) /\ task' = task
    BY <1>2 DEF InsertSafeguard
  <2>2. \E a \in AttemptState : /\ worker' = [worker EXCEPT ![w] = a] /\ a.pc = "record"
                                /\ a.msg = worker[w].msg
    BY <2>1, FailureNoted DEF IInv
  <2>3. QED
    BY <1>1, <2>1, <2>2, QuietAttempt
<1>3. CASE ~Scheduled(k)
  <2>1. task' = [task EXCEPT ![k] = t] /\ ToStage(w, "upload")
    BY <1>3 DEF InsertSafeguard
  <2>2. PICK a \in AttemptState : /\ worker' = [worker EXCEPT ![w] = a] /\ a.pc = "upload"
                                  /\ a.msg = worker[w].msg
    BY <2>1, StageReached DEF IInv
  <2>3. /\ t \in Task /\ t.reason = "UPLOAD_SAFEGUARD" /\ t.due = FALSE /\ t.lease = "none"
        /\ t.id = task[k].id + 1 /\ t.overrun = task[k].overrun /\ task[k].id \in Nat
    BY <1>1 DEF Insert, Task
  <2> HIDE DEF t, k
  <2>4. /\ worker'[w] = a /\ \A v \in Workers : v # w => worker'[v] = worker[v]
        /\ task'[k] = t /\ \A i \in Keys : i # k => task'[i] = task[i]
    BY <1>1, <2>1, <2>2 DEF IInv, TypeInv
  <2>5. TypeInv'
    <3>1. /\ worker' \in [Workers -> AttemptState]
          /\ \A v \in Workers : worker'[v].pc # "idle" => worker'[v].msg \in Message
      BY <1>1, <2>2, <2>4 DEF IInv, TypeInv
    <3>2. QED
      BY <1>1, <2>1, <2>3, <3>1 DEF IInv, TypeInv
  <2>6. RowsInv'
    BY <1>1, RowsFrame DEF IInv
  <2>7. Circulation'
    BY <1>1, <2>2, <2>4, CirculationFrame DEF IInv
  <2>8. \A c \in Cleaners : Holds(c, k) =>
          cleaner[c].id \in Nat /\ cleaner[c].id <= task[k].id /\ task[k].overrun # FALSE
    BY <1>1, <1>3 DEF IInv, TypeInv, Runner, StoreInv, RowSound, Scheduled, k
  <2>a. \A c \in Cleaners : cleaner'[c].pc # "idle" /\ cleaner'[c].key = k =>
          /\ cleaner'[c].id <= task'[k].id /\ cleaner'[c].id # task'[k].id
          /\ task'[k].overrun # FALSE
    <3>1. cleaner' = cleaner /\ task'[k].id = task[k].id + 1 /\ task[k].id \in Nat
          /\ task'[k].overrun = task[k].overrun
      BY <1>1, <2>3, <2>4
    <3> SUFFICES ASSUME NEW c \in Cleaners, Holds(c, k)
                 PROVE  /\ cleaner[c].id <= task'[k].id /\ cleaner[c].id # task'[k].id
                        /\ task'[k].overrun # FALSE
      BY <3>1
    <3>2. cleaner[c].id \in Nat /\ cleaner[c].id <= task[k].id /\ task[k].overrun # FALSE
      BY <2>8
    <3>3. cleaner[c].id <= task'[k].id /\ cleaner[c].id # task'[k].id
      BY <3>1, <3>2
    <3>4. task'[k].overrun # FALSE
      BY <3>1, <3>2, Zenon
    <3>5. QED
      BY <3>3, <3>4
  <2>9. \A i \in Keys : RowSound(i)'
    <3> SUFFICES ASSUME NEW i \in Keys PROVE RowSound(i)'
      OBVIOUS
    <3>1. CASE i = k
      BY <2>a, <3>1 DEF RowSound
    <3>2. CASE i # k
      BY <1>1, <2>4, <3>2 DEF IInv, StoreInv, RowSound
    <3>3. QED
      BY <3>1, <3>2
  <2>10. \A v \in Workers : UploadSound(v)'
    <3> SUFFICES ASSUME NEW v \in Workers, worker'[v].pc \in {"upload", "complete"}
                 PROVE  UploadSound(v)'
      BY DEF UploadSound
    <3>1. CASE v = w
      <4>1. MyKey(v)' = k
        BY <2>2, <2>4, <3>1 DEF MyKey, Key, k
      <4>2. QED
        BY <2>2, <2>3, <2>4, <2>a, <3>1, <4>1 DEF UploadSound
    <3>2. CASE v # w
      <4>1. /\ worker'[v] = worker[v] /\ MyKey(v)' = MyKey(v) /\ MyKey(v) \in Keys
            /\ MyKey(v) # k
        BY <1>1, <2>4, <3>2, MyKeyType, KeysApart DEF MyKey, Key, IInv, k
      <4>2. task'[MyKey(v)] = task[MyKey(v)]
        BY <2>4, <4>1
      <4>3. QED
        BY <1>1, <4>1, <4>2 DEF IInv, StoreInv, UploadSound
    <3>3. QED
      BY <3>1, <3>2
  <2>11. \A j \in Jobs : ResultSound(j)'
    <3> SUFFICES ASSUME NEW j \in Jobs, IsDownloadable(j) PROVE ResultSound(j)'
      BY <1>1 DEF ResultSound, IsDownloadable
    <3>1. Key(j, job[j].token) \in Keys /\ Key(j, job[j].token) # k
      BY <1>1, ResultsApart DEF IsDownloadable, k
    <3>2. task'[Key(j, job[j].token)] = task[Key(j, job[j].token)]
      BY <2>4, <3>1
    <3>3. QED
      BY <1>1, <3>1, <3>2 DEF IInv, StoreInv, ResultSound, IsDownloadable
  <2>12. CollectorSound'
    BY <1>1 DEF IInv, StoreInv, CollectorSound, CollectDue
  <2>13. NoOrphan'
    BY <1>1, <2>3, <2>4, KeyFacts DEF IInv, StoreInv, NoOrphan, Scheduled
  <2>14. QED
    BY <2>5, <2>6, <2>7, <2>9, <2>10, <2>11, <2>12, <2>13 DEF IInv, StoreInv
<1>4. QED
  BY <1>2, <1>3

LEMMA UploadKeeps ==
  ASSUME IInv, NEW w \in Workers, Upload(w) \/ UploadFails(w)
  PROVE  IInv'
<1> DEFINE k == MyKey(w)
<1>1. /\ worker[w].pc = "upload" /\ k \in Keys /\ faults' \in Nat
      /\ objects' = objects \/ objects' = objects \cup {k}
      /\ UNCHANGED <<task, cleaner, job, event, disp, queue, collector>>
  <2>1. worker[w].pc = "upload" /\ faults \in Nat
    BY DEF Upload, UploadFails, IInv, TypeInv
  <2>2. CASE Upload(w)
    BY <2>1, <2>2, MyKeyType DEF Upload, IInv
  <2>3. CASE UploadFails(w)
    BY <2>1, <2>3, MyKeyType DEF UploadFails, Fault, IInv
  <2>4. QED
    BY <2>2, <2>3
<1>2. PICK a \in AttemptState :
        /\ worker' = [worker EXCEPT ![w] = a] /\ a.msg = worker[w].msg
        /\ a.pc = "record" \/ (a.pc = "complete" /\ k \in objects')
  <2>1. CASE Upload(w)
    BY <2>1, StageReached DEF Upload, IInv
  <2>2. CASE UploadFails(w)
    BY <2>2, FailureNoted DEF UploadFails, IInv
  <2>3. QED
    BY <2>1, <2>2
<1> HIDE DEF k
<1>3. worker'[w] = a /\ \A v \in Workers : v # w => worker'[v] = worker[v]
  BY <1>2 DEF IInv, TypeInv
<1>4. /\ UploadSound(w) /\ task[k].reason = "UPLOAD_SAFEGUARD"
      /\ \A c \in Cleaners : Holds(c, k) => cleaner[c].id # task[k].id
  BY <1>1 DEF IInv, StoreInv, UploadSound, k
<1>5. TypeInv'
  <2>1. /\ worker' \in [Workers -> AttemptState]
        /\ \A v \in Workers : worker'[v].pc # "idle" => worker'[v].msg \in Message
    BY <1>1, <1>2, <1>3 DEF IInv, TypeInv
  <2>2. QED
    BY <1>1, <2>1 DEF IInv, TypeInv
<1>6. RowsInv' /\ Circulation'
  <2>1. RowsInv'
    BY <1>1, RowsFrame DEF IInv
  <2>2. Circulation'
    BY <1>1, <1>2, <1>3, CirculationFrame DEF IInv
  <2>3. QED
    BY <2>1, <2>2
<1>7. \A i \in Keys : RowSound(i)'
  BY <1>1, <1>4 DEF IInv, StoreInv, RowSound
<1>8. \A v \in Workers : UploadSound(v)'
  <2> SUFFICES ASSUME NEW v \in Workers, worker'[v].pc \in {"upload", "complete"}
               PROVE  UploadSound(v)'
    BY DEF UploadSound
  <2>1. CASE v = w
    <3>1. MyKey(v)' = k
      BY <1>2, <1>3, <2>1 DEF MyKey, Key, k
    <3>2. QED
      BY <1>1, <1>2, <1>3, <1>4, <2>1, <3>1 DEF UploadSound, k
  <2>2. CASE v # w
    <3>1. worker'[v] = worker[v] /\ MyKey(v)' = MyKey(v)
      BY <1>3, <2>2 DEF MyKey, Key
    <3>2. QED
      BY <1>1, <3>1 DEF IInv, StoreInv, UploadSound
  <2>3. QED
    BY <2>1, <2>2
<1>9. \A j \in Jobs : ResultSound(j)'
  BY <1>1 DEF IInv, StoreInv, ResultSound, IsDownloadable, Key
<1>10. CollectorSound'
  <2> SUFFICES ASSUME NEW j \in Jobs, collector = j
               PROVE  CollectDue(j)' /\ (job'[j].token # 0 => Key(j, job'[j].token) \notin objects')
    BY <1>1 DEF CollectorSound
  <2>1. job[j].token # 0 => Key(j, job[j].token) # k
    BY <1>1, ResultsApart DEF k
  <2>2. QED
    BY <1>1, <2>1 DEF IInv, StoreInv, CollectorSound, CollectDue
<1>11. NoOrphan'
  BY <1>1, <1>4 DEF IInv, StoreInv, NoOrphan, Scheduled
<1>12. QED
  BY <1>5, <1>6, <1>7, <1>8, <1>9, <1>10, <1>11 DEF IInv, StoreInv


\* An attempt publishes its result and takes its row away.
LEMMA PublishKeeps ==
  ASSUME IInv, NEW w \in Workers, worker[w].pc = "complete",
         NEW e \in Event, NEW b \in JobRow, NEW t \in Task, NEW a \in AttemptState,
         LET m == worker[w].msg
         IN  /\ event[m.job].status = "PROCESSING" /\ job[m.job].status = "PROCESSING"
             /\ event' = [event EXCEPT ![m.job] = e] /\ job' = [job EXCEPT ![m.job] = b]
             /\ task' = [task EXCEPT ![MyKey(w)] = t] /\ worker' = [worker EXCEPT ![w] = a]
             /\ e.status = "PROCESSED" /\ e.claims = event[m.job].claims
             /\ e.attempts = event[m.job].attempts
             /\ b.status = "COMPLETED" /\ b.token = m.token
             /\ t.reason = "NONE" /\ t.id = task[MyKey(w)].id /\ t.overrun = task[MyKey(w)].overrun
             /\ a.pc = "idle",
         UNCHANGED <<objects, cleaner, faults, disp, queue, collector>>
  PROVE  IInv'
<1> DEFINE m == worker[w].msg
           j == m.job
           k == MyKey(w)
<1>1. /\ m \in Message /\ j \in Jobs /\ m.token \in Tokens /\ k = Key(j, m.token) /\ k \in Keys
  BY MyKeyType DEF IInv, TypeInv
<1>2. /\ event[j].status = "PROCESSING" /\ job[j].status = "PROCESSING"
      /\ event' = [event EXCEPT ![j] = e] /\ job' = [job EXCEPT ![j] = b]
      /\ task' = [task EXCEPT ![k] = t] /\ worker' = [worker EXCEPT ![w] = a]
      /\ e.status = "PROCESSED" /\ e.claims = event[j].claims /\ e.attempts = event[j].attempts
      /\ b.status = "COMPLETED" /\ b.token = m.token
      /\ t.reason = "NONE" /\ t.id = task[k].id /\ t.overrun = task[k].overrun
      /\ a.pc = "idle"
  OBVIOUS
<1>3. /\ task[k].lease = "none" /\ (task[k].overrun = FALSE => k \in objects)
  BY DEF IInv, StoreInv, UploadSound
<1>4. \A n \in Message : n.job = j /\ n.token = m.token => SameClaim(m, n)
  OBVIOUS
<1>m. /\ \A d \in Dispatchers : \A n \in disp[d] : ~SameClaim(m, n)
      /\ \A n \in queue : ~SameClaim(m, n)
      /\ \A v \in Workers : Runs(v) /\ v # w => ~SameClaim(m, worker[v].msg)
  BY DEF IInv, Circulation
<1> HIDE DEF m, j, k
<1>5. /\ event'[j] = e /\ job'[j] = b
      /\ \A i \in Jobs : i # j => event'[i] = event[i] /\ job'[i] = job[i]
      /\ task'[k] = t /\ \A i \in Keys : i # k => task'[i] = task[i]
      /\ worker'[w] = a /\ \A v \in Workers : v # w => worker'[v] = worker[v]
  BY <1>1, <1>2 DEF IInv, TypeInv
<1>6. TypeInv'
  <2>1. /\ worker' \in [Workers -> AttemptState]
        /\ \A v \in Workers : worker'[v].pc # "idle" => worker'[v].msg \in Message
    BY <1>2, <1>5 DEF IInv, TypeInv
  <2>2. /\ event' \in [Jobs -> Event] /\ job' \in [Jobs -> JobRow] /\ task' \in [Keys -> Task]
    <3>1. event \in [Jobs -> Event] /\ job \in [Jobs -> JobRow] /\ task \in [Keys -> Task]
      BY DEF IInv, TypeInv
    <3>2. event' \in [Jobs -> Event] /\ job' \in [Jobs -> JobRow]
      BY <1>1, <1>2, <3>1
    <3>3. task' \in [Keys -> Task]
      BY <1>1, <1>2, <3>1
    <3>4. QED
      BY <3>2, <3>3
  <2>3. QED
    BY <2>1, <2>2 DEF IInv, TypeInv
<1>7. RowsInv'
  BY <1>1, <1>2, <1>5 DEF IInv, RowsInv, RowsAgree, ClaimSound
<1>8. Circulation'
  <2>1. \A n \in Message : Spendable(n) /\ ~SameClaim(m, n) => Spendable(n)'
    <3> SUFFICES ASSUME NEW n \in Message, Spendable(n), ~SameClaim(m, n) PROVE Spendable(n)'
      OBVIOUS
    <3>1. n.job \in Jobs /\ (n.job = j => n.token # m.token)
      BY DEF Message, j
    <3>2. event'[n.job].claims = event[n.job].claims
      BY <1>2, <1>5, <3>1
    <3>3. n.token # job'[n.job].token
      BY <1>2, <1>5, <3>1 DEF Spendable
    <3>4. QED
      BY <3>2, <3>3 DEF Spendable
  <2>2. /\ \A d \in Dispatchers : disp[d] \subseteq Message
        /\ queue \subseteq Message /\ \A v \in Workers : Runs(v) => worker[v].msg \in Message
    BY DEF IInv, TypeInv
  <2>3. \A d \in Dispatchers : \A n \in disp[d] : Spendable(n)'
    BY <1>m, <2>1, <2>2 DEF IInv, Circulation
  <2>4. \A n \in queue : Spendable(n)'
    BY <1>m, <2>1, <2>2 DEF IInv, Circulation
  <2>5. \A v \in Workers : worker'[v].pc # "idle" => v # w /\ worker'[v] = worker[v]
    BY <1>2, <1>5
  <2>6. \A v \in Workers : worker'[v].pc # "idle" => Spendable(worker[v].msg)'
    <3> SUFFICES ASSUME NEW v \in Workers, worker'[v].pc # "idle" PROVE Spendable(worker[v].msg)'
      OBVIOUS
    <3>1. /\ Spendable(worker[v].msg) /\ worker'[v].msg = worker[v].msg
          /\ worker[v].msg \in Message /\ ~SameClaim(m, worker[v].msg)
      BY <1>m, <2>2, <2>5 DEF IInv, Circulation
    <3>2. Spendable(worker[v].msg)' = (LET n == worker[v].msg IN n.token <= event'[n.job].claims
                                                              /\ n.token # job'[n.job].token)
      BY <3>1 DEF Spendable
    <3>3. LET n == worker[v].msg IN n.job \in Jobs /\ (n.job = j => n.token # m.token)
      BY <3>1 DEF Message, j
    <3>4. QED
      BY <1>2, <1>5, <3>1, <3>2, <3>3 DEF Spendable
  <2>7. disp' = disp /\ queue' = queue
    OBVIOUS
  <2>8. QED
    BY <2>3, <2>4, <2>5, <2>6, <2>7 DEF IInv, Circulation
<1>9. task[k].overrun = FALSE => \A c \in Cleaners : ~Holds(c, k)
  BY <1>1, <1>3 DEF IInv, StoreInv, RowSound
<1>10. \A i \in Keys : RowSound(i)'
  <2> SUFFICES ASSUME NEW i \in Keys PROVE RowSound(i)'
    OBVIOUS
  <2>1. CASE i = k
    BY <1>1, <1>2, <1>5, <1>9, <2>1 DEF IInv, StoreInv, RowSound
  <2>2. CASE i # k
    BY <1>5, <2>2 DEF IInv, StoreInv, RowSound
  <2>3. QED
    BY <2>1, <2>2
<1>11. \A v \in Workers : UploadSound(v)'
  <2> SUFFICES ASSUME NEW v \in Workers, worker'[v].pc \in {"upload", "complete"}
               PROVE  UploadSound(v)'
    BY DEF UploadSound
  <2>1. v # w /\ worker'[v] = worker[v] /\ MyKey(v)' = MyKey(v)
    BY <1>2, <1>5 DEF MyKey, Key
  <2>2. MyKey(v) \in Keys /\ MyKey(v) # k
    BY <2>1, MyKeyType, KeysApart DEF IInv, k
  <2>3. task'[MyKey(v)] = task[MyKey(v)]
    BY <1>5, <2>2
  <2>4. QED
    BY <2>1, <2>3 DEF IInv, StoreInv, UploadSound
<1>12. \A i \in Jobs : ResultSound(i)'
  <2> SUFFICES ASSUME NEW i \in Jobs, IsDownloadable(i)' PROVE ResultSound(i)'
    BY DEF ResultSound
  <2>1. CASE i = j
    <3>1. Key(i, job[i].token)' = k
      BY <1>1, <1>2, <1>5, <2>1 DEF Key
    <3>2. QED
      BY <1>2, <1>3, <1>5, <1>9, <3>1 DEF ResultSound
  <2>2. CASE i # j
    <3>1. IsDownloadable(i) /\ Key(i, job[i].token)' = Key(i, job[i].token)
      BY <1>5, <2>2 DEF IsDownloadable, Key
    <3>2. Key(i, job[i].token) \in Keys /\ Key(i, job[i].token) # k
      BY <3>1, ResultsApart DEF IsDownloadable, k
    <3>3. task'[Key(i, job[i].token)] = task[Key(i, job[i].token)]
      BY <1>5, <3>2
    <3>4. QED
      BY <3>1, <3>3 DEF IInv, StoreInv, ResultSound
  <2>3. QED
    BY <2>1, <2>2
<1>13. CollectorSound'
  <2>1. collector # j /\ collector' = collector /\ objects' = objects
    BY <1>1, <1>2 DEF IInv, StoreInv, CollectorSound, CollectDue
  <2>2. QED
    BY <1>5, <2>1 DEF IInv, StoreInv, CollectorSound, CollectDue, Key
<1>14. NoOrphan'
  <2> SUFFICES ASSUME NEW i \in Jobs, NEW s \in Tokens, Key(i, s) \in objects
               PROVE  Scheduled(Key(i, s))' \/ (job'[i].status = "COMPLETED" /\ job'[i].token = s)
    BY DEF NoOrphan, Key
  <2>1. CASE Key(i, s) = k
    BY <1>1, <1>2, <1>5, <2>1, KeyFacts
  <2>2. CASE Key(i, s) # k
    <3>1. task'[Key(i, s)] = task[Key(i, s)]
      BY <1>5, <2>2, KeyFacts
    <3>2. Scheduled(Key(i, s)) \/ (job[i].status = "COMPLETED" /\ job[i].token = s)
      BY DEF IInv, StoreInv, NoOrphan
    <3>3. QED
      BY <1>2, <1>5, <3>1, <3>2 DEF Scheduled, Key
  <2>3. QED
    BY <2>1, <2>2
<1>15. QED
  BY <1>6, <1>7, <1>8, <1>10, <1>11, <1>12, <1>13, <1>14 DEF IInv, StoreInv

LEMMA CompleteKeeps ==
  ASSUME IInv, NEW w \in Workers, Complete(w)
  PROVE  IInv'
<1> DEFINE m == worker[w].msg
           k == MyKey(w)
<1>1. /\ worker[w].pc = "complete" /\ m.job \in Jobs /\ m.token \in Tokens /\ k \in Keys
      /\ faults' \in Nat /\ event[m.job] \in Event /\ job[m.job] \in JobRow /\ task[k] \in Task
      /\ worker[w] \in AttemptState
      /\ UNCHANGED <<objects, cleaner, faults, disp, queue, collector>>
  BY MyKeyType DEF Complete, IInv, TypeInv
<1>2. CASE ~Held(m)
  <2>1. Ends(w) /\ UNCHANGED <<event, job, task>>
    BY <1>2 DEF Complete
  <2>2. QED
    BY <1>1, <2>1, AttemptOver, QuietAttempt
<1>3. CASE Held(m) /\ job[m.job].status # "PROCESSING"
  <2>1. Fails(w, TRUE) /\ UNCHANGED <<event, job, task>>
    BY <1>3 DEF Complete
  <2>2. \E a \in AttemptState : /\ worker' = [worker EXCEPT ![w] = a] /\ a.pc = "record"
                                /\ a.msg = worker[w].msg
    BY <2>1, FailureNoted DEF IInv
  <2>3. QED
    BY <1>1, <2>1, <2>2, QuietAttempt
<1>4. CASE Held(m) /\ job[m.job].status = "PROCESSING"
  <2> DEFINE e == Released(event[m.job], "PROCESSED")
             b == Published(job[m.job], worker[w])
             t == Remove(task[k])
  <2>1. task[k].reason = "UPLOAD_SAFEGUARD"
    BY <1>1 DEF IInv, StoreInv, UploadSound
  <2>2. /\ event' = [event EXCEPT ![m.job] = e] /\ job' = [job EXCEPT ![m.job] = b]
        /\ task' = [task EXCEPT ![k] = t] /\ Ends(w)
    BY <1>4, <2>1 DEF Complete
  <2>3. /\ e \in Event /\ e.status = "PROCESSED" /\ e.claims = event[m.job].claims
        /\ e.attempts = event[m.job].attempts
    BY <1>1, ReleasedType
  <2>4. b \in JobRow /\ b.status = "COMPLETED" /\ b.token = m.token
    <3>1. m.token \in 0..MaxClaims
      BY <1>1, ExportAssumption DEF Tokens
    <3>2. worker[w].rows \in Snapshots /\ worker[w].catalog \in {{}} \cup Catalogs
      BY <1>1 DEF AttemptState
    <3>3. QED
      BY <1>1, <3>1, <3>2 DEF Published, JobRow
  <2>5. t \in Task /\ t.reason = "NONE" /\ t.id = task[k].id /\ t.overrun = task[k].overrun
    BY <1>1 DEF Remove, Task
  <2>6. PICK a \in AttemptState : worker' = [worker EXCEPT ![w] = a] /\ a.pc = "idle"
    BY <2>2, AttemptOver
  <2>7. event[m.job].status = "PROCESSING" /\ job[m.job].status = "PROCESSING"
    BY <1>4 DEF Held
  <2> HIDE DEF e, b, t
  <2>8. QED
    BY <1>1, <2>2, <2>3, <2>4, <2>5, <2>6, <2>7, PublishKeeps
<1>5. QED
  BY <1>2, <1>3, <1>4

-----------------------------------------------------------------------------
(***************************************************************************)
(* Retention of results.                                                   *)
(***************************************************************************)
LEMMA CollectObjectKeeps ==
  ASSUME IInv, NEW j \in Jobs, CollectObject(j)
  PROVE  IInv'
<1>1. /\ CollectDue(j) /\ collector' = j /\ objects' \subseteq objects
      /\ job[j].token # 0 => Key(j, job[j].token) \notin objects'
      /\ \A k \in objects : k \in objects' \/ (job[j].token # 0 /\ k = Key(j, job[j].token))
      /\ UNCHANGED <<task, cleaner, faults, job, event, disp, queue, worker>>
  BY DEF CollectObject
<1>2. TypeInv'
  BY <1>1 DEF IInv, TypeInv
<1>3. RowsInv' /\ Circulation'
  <2>1. RowsInv'
    BY <1>1, RowsFrame DEF IInv
  <2>2. Circulation'
    BY <1>1, CirculationFrame DEF IInv
  <2>3. QED
    BY <2>1, <2>2
<1>4. \A k \in Keys : RowSound(k)'
  BY <1>1 DEF IInv, StoreInv, RowSound
<1>5. \A w \in Workers : UploadSound(w)'
  <2> SUFFICES ASSUME NEW w \in Workers, worker[w].pc \in {"upload", "complete"}
               PROVE  UploadSound(w)'
    BY <1>1 DEF UploadSound
  <2>1. /\ MyKey(w)' = MyKey(w) /\ UploadSound(w)
        /\ job[j].token # 0 => Key(j, job[j].token) # MyKey(w)
    BY <1>1, ResultsApart DEF MyKey, Key, IInv, StoreInv
  <2>2. QED
    BY <1>1, <2>1 DEF UploadSound
<1>6. \A i \in Jobs : ResultSound(i)'
  <2> SUFFICES ASSUME NEW i \in Jobs, IsDownloadable(i) PROVE ResultSound(i)'
    BY <1>1 DEF ResultSound, IsDownloadable
  <2>1. i # j /\ Key(i, job[i].token)' = Key(i, job[i].token)
    BY <1>1 DEF IsDownloadable, CollectDue, Key
  <2>2. Key(i, job[i].token) \in objects => Key(i, job[i].token) \in objects'
    BY <1>1, <2>1 DEF Key
  <2>3. QED
    BY <1>1, <2>1, <2>2 DEF IInv, StoreInv, ResultSound
<1>7. CollectorSound'
  BY <1>1 DEF CollectorSound, CollectDue, Key
<1>8. NoOrphan'
  BY <1>1 DEF IInv, StoreInv, NoOrphan, Scheduled, Key
<1>9. QED
  BY <1>2, <1>3, <1>4, <1>5, <1>6, <1>7, <1>8 DEF IInv, StoreInv

LEMMA CollectRowsKeeps ==
  ASSUME IInv, NEW j \in Jobs, CollectRows(j)
  PROVE  IInv'
<1> DEFINE b == [NoJob EXCEPT !.status = "COLLECTED"]
           n == event[j].claims
           e == [NoEvent EXCEPT !.claims = n]
<1>1. /\ collector = j /\ collector' = None
      /\ job' = [job EXCEPT ![j] = b] /\ event' = [event EXCEPT ![j] = e]
      /\ UNCHANGED <<task, objects, cleaner, faults, disp, queue, worker>>
  BY DEF CollectRows, cleanupVars
<1>2. n \in 0..MaxClaims /\ 0 \in 0..MaxClaims /\ {} \in Snapshots /\ n >= 0
  BY ExportAssumption DEF IInv, TypeInv, Event, Snapshots
<1> HIDE DEF n
<1>3. /\ e \in Event /\ e.status = "NONE" /\ e.attempts = 0 /\ e.claims = n
      /\ b \in JobRow /\ b.status = "COLLECTED" /\ b.token = 0
  BY <1>2 DEF NoEvent, Event, NoJob, JobRow
<1> HIDE DEF e, b
<1>4. /\ event'[j] = e /\ job'[j] = b
      /\ \A i \in Jobs : i # j => event'[i] = event[i] /\ job'[i] = job[i]
  BY <1>1 DEF IInv, TypeInv
<1>5. TypeInv'
  BY <1>1, <1>3 DEF IInv, TypeInv
<1>6. RowsInv'
  BY <1>2, <1>3, <1>4 DEF IInv, RowsInv, RowsAgree, ClaimSound
<1>7. Circulation'
  <2>1. /\ \A i \in Jobs : /\ event'[i].claims = event[i].claims
                           /\ job'[i].token = job[i].token \/ job'[i].token = 0
        /\ \A m \in Message : m.job \in Jobs /\ m.token # 0
    BY <1>3, <1>4 DEF Message, Tokens, n
  <2>2. \A m \in Message : Spendable(m) => Spendable(m)'
    BY <2>1 DEF Spendable
  <2>3. \A w \in Workers : Runs(w) => Spendable(worker[w].msg)'
    BY <1>1, <2>1 DEF IInv, TypeInv, Circulation, Spendable
  <2>4. \A d \in Dispatchers : \A m \in disp[d] : Spendable(m)'
    BY <2>2 DEF IInv, TypeInv, Circulation
  <2>5. \A m \in queue : Spendable(m)'
    BY <2>2 DEF IInv, TypeInv, Circulation
  <2>6. QED
    BY <1>1, <2>3, <2>4, <2>5 DEF IInv, Circulation
<1>8. \A k \in Keys : RowSound(k)'
  BY <1>1 DEF IInv, StoreInv, RowSound
<1>9. \A w \in Workers : UploadSound(w)'
  BY <1>1 DEF IInv, StoreInv, UploadSound, MyKey, Key
<1>10. \A i \in Jobs : ResultSound(i)'
  BY <1>1, <1>3, <1>4 DEF IInv, StoreInv, ResultSound, IsDownloadable, Key
<1>11. CollectorSound'
  BY <1>1, ExportAssumption DEF CollectorSound
<1>12. NoOrphan'
  <2> SUFFICES ASSUME NEW i \in Jobs, NEW s \in Tokens, Key(i, s) \in objects
               PROVE  Scheduled(Key(i, s))' \/ (job'[i].status = "COMPLETED" /\ job'[i].token = s)
    BY <1>1 DEF NoOrphan, Key
  <2>1. Scheduled(Key(i, s)) \/ (job[i].status = "COMPLETED" /\ job[i].token = s)
    BY DEF IInv, StoreInv, NoOrphan
  <2>2. i = j /\ job[i].token = s => FALSE \/ job[i].token = 0
    BY <1>1 DEF IInv, StoreInv, CollectorSound
  <2>3. s # 0
    BY DEF Tokens
  <2>4. QED
    BY <1>1, <1>4, <2>1, <2>2, <2>3 DEF Scheduled, Key
<1>13. QED
  BY <1>5, <1>6, <1>7, <1>8, <1>9, <1>10, <1>11, <1>12 DEF IInv, StoreInv

LEMMA CollectFailsKeeps ==
  ASSUME IInv, CollectFails
  PROVE  IInv'
<1>1. /\ collector' = None /\ faults' \in Nat
      /\ UNCHANGED <<task, objects, cleaner, job, event, disp, queue, worker>>
  BY DEF CollectFails, Fault, IInv, TypeInv
<1>2. TypeInv'
  BY <1>1 DEF IInv, TypeInv
<1>3. RowsInv' /\ Circulation'
  <2>1. RowsInv'
    BY <1>1, RowsFrame DEF IInv
  <2>2. Circulation'
    BY <1>1, CirculationFrame DEF IInv
  <2>3. QED
    BY <2>1, <2>2
<1>4. /\ \A k \in Keys : RowSound(k)'
      /\ \A j \in Jobs : ResultSound(j)'
  BY <1>1 DEF IInv, StoreInv, RowSound, ResultSound, IsDownloadable, Key
<1>5. \A w \in Workers : UploadSound(w)'
  BY <1>1 DEF IInv, StoreInv, UploadSound, MyKey, Key
<1>6. CollectorSound' /\ NoOrphan'
  BY <1>1, ExportAssumption DEF IInv, StoreInv, CollectorSound, NoOrphan, Scheduled, Key
<1>7. QED
  BY <1>2, <1>3, <1>4, <1>5, <1>6 DEF IInv, StoreInv

-----------------------------------------------------------------------------
LEMMA StutterInv ==
  ASSUME IInv, UNCHANGED vars
  PROVE  IInv'
<1>1. UNCHANGED <<task, objects, cleaner, faults, job, event, disp, queue, worker, collector>>
      /\ UNCHANGED exportVars
  BY DEF vars, cleanupVars, exportVars
<1>2. TypeInv'
  BY <1>1 DEF IInv, TypeInv
<1>3. StoreInv'
  BY <1>1, <1>2, StoreFrame
<1>4. QED
  BY <1>1, <1>2, <1>3, RunnersOnly

LEMMA NextInv == IInv /\ [Next]_vars => IInv'
<1> SUFFICES ASSUME IInv, [Next]_vars PROVE IInv'
  OBVIOUS
<1>1. CASE UNCHANGED vars
  BY <1>1, StutterInv
<1>2. ASSUME NEW j \in Jobs, Create(j) \/ LeaseExpires(j) \/ BackoffEnds(j) \/ Ages(j)
                             \/ CollectObject(j) \/ CollectRows(j)
      PROVE  IInv'
  BY <1>2, CreateKeeps, EventTimeKeeps, AgesKeeps, CollectObjectKeeps, CollectRowsKeeps
<1>3. ASSUME NEW d \in Dispatchers, DispatcherStep(d) \/ EnqueueFails(d) \/ DispatcherCrash(d)
      PROVE  IInv'
  BY <1>3, ClaimBatchKeeps, EnqueueKeeps, DispatcherCrashKeeps DEF DispatcherStep
<1>4. ASSUME NEW w \in Workers, WorkerStep(w) \/ GenerateFails(w) \/ StageFails(w)
                                \/ UploadFails(w) \/ WorkerCrash(w)
      PROVE  IInv'
  BY <1>4, TakeAndCrashKeep, ClaimKeeps, SnapshotKeeps, StagesKeep, InsertSafeguardKeeps,
     UploadKeeps, CompleteKeeps, RecordFailureKeeps DEF WorkerStep
<1>5. ASSUME NEW k \in Keys, GraceEnds(k) \/ (TaskLeaseExpires(k) /\ UNCHANGED exportVars)
      PROVE  IInv'
  BY <1>5, TimeKeeps
<1>6. ASSUME NEW c \in Cleaners, (CleanerStep(c) \/ CleanerFails(c)) /\ UNCHANGED exportVars
      PROVE  IInv'
  BY <1>6, ClaimOneKeeps, RunnerFailsKeeps, RunnerEndsKeeps DEF CleanerStep, CleanerFails
<1>7. CASE CollectFails
  BY <1>7, CollectFailsKeeps
<1>8. QED
  BY <1>1, <1>2, <1>3, <1>4, <1>5, <1>6, <1>7 DEF Next

LEMMA AlwaysInv == Spec => []IInv
<1>1. QED
  BY InitInv, NextInv, PTL DEF Spec

\* RoomExportAttemptRepository writes event and job in one transaction under the claim:
\* whichever attempts, retries, lost leases and redeliveries there are, the two rows never
\* contradict each other.
THEOREM RowsAlwaysAgree == Spec => []RowsAgree
<1>1. IInv => RowsAgree
  BY DEF IInv, RowsInv
<1>2. QED
  BY <1>1, AlwaysInv, PTL

\* What downloadUrl offers is in the store, however many runners drain cleanup tasks and
\* however often attempts crash, fail and are redelivered, unless a runner's lease on the
\* object's task has run out under it.
THEOREM ResultAlwaysAvailable == Spec => []ResultAvailable
<1>1. IInv => ResultAvailable
  <2> SUFFICES ASSUME IInv, NEW j \in Jobs, IsDownloadable(j), ~task[Key(j, job[j].token)].overrun
               PROVE  Key(j, job[j].token) \in objects
    BY DEF ResultAvailable
  <2>0. job[j].token \in Tokens
    BY ExportAssumption DEF IInv, TypeInv, JobRow, IsDownloadable, Tokens
  <2>1. Key(j, job[j].token) \in Keys
    BY <2>0, KeyFacts
  <2>2. task[Key(j, job[j].token)].overrun = FALSE
    BY <2>1 DEF IInv, TypeInv, Task
  <2>3. QED
    BY <2>2 DEF IInv, StoreInv, ResultSound
<1>2. QED
  BY <1>1, AlwaysInv, PTL

\* The safeguard is written before the object and removed with its publication, and
\* retention deletes the object before its rows: no object is ever without a task or a
\* job that names it.
THEOREM NeverAnOrphan == Spec => []NoOrphan
<1>1. IInv => NoOrphan
  BY DEF IInv, StoreInv
<1>2. QED
  BY <1>1, AlwaysInv, PTL

-----------------------------------------------------------------------------
(***************************************************************************)
(* The snapshot: keyset pages, read until a short one, are the whole table.*)
(***************************************************************************)
\* Every nonempty set of numbers has a least one.
LEMMA LeastNumber ==
  ASSUME NEW T, T \subseteq Nat, T # {}
  PROVE  \E m \in T : \A n \in T : m <= n
<1>1. PICK m \in T : \A n \in T : <<n, m>> \notin OpToRel(<, Nat)
  BY NatLessThanWellFounded, WFMin
<1>2. ASSUME NEW n \in T PROVE m <= n
  <2>1. ~(n < m)
    BY <1>1, <1>2 DEF OpToRel
  <2> QED
    BY <2>1
<1> QED
  BY <1>2

\* A nonempty finite set of numbers has a greatest one, and it is its Max.
LEMMA GreatestNumber ==
  ASSUME NEW T, T \subseteq Nat, T # {}, IsFiniteSet(T)
  PROVE  Max(T) \in T /\ \A n \in T : n <= Max(T)
<1> DEFINE Above(i) == {n \in T : n > i}
           Ranks == {Cardinality(Above(i)) : i \in T}
<1>1. \A i \in T : IsFiniteSet(Above(i)) /\ Cardinality(Above(i)) \in Nat
  <2>1. ASSUME NEW i \in T PROVE IsFiniteSet(Above(i))
    <3>1. Above(i) \in SUBSET T
      OBVIOUS
    <3> QED
      BY <3>1, FS_Subset
  <2> QED
    BY <2>1, FS_CardinalityType
<1>2. Ranks \subseteq Nat /\ Ranks # {}
  BY <1>1
<1>3. PICK c \in Ranks : \A d \in Ranks : c <= d
  BY <1>2, LeastNumber
<1>4. PICK m \in T : c = Cardinality(Above(m))
  OBVIOUS
<1>5. ASSUME NEW n \in T, n > m PROVE FALSE
  <2>1. \A x \in Nat : x > n => x > m
    BY <1>5
  <2>2. Above(n) \in SUBSET Above(m) /\ n \in Above(m) /\ n \notin Above(n)
    <3>1. n \in Nat /\ ~(n > n)
      OBVIOUS
    <3>2. \A x \in Above(n) : x \in T /\ x \in Nat /\ x > n
      OBVIOUS
    <3>3. \A x \in Above(n) : x \in Above(m)
      BY <2>1, <3>2
    <3> QED
      BY <1>5, <3>1, <3>3
  <2>3. /\ Cardinality(Above(n)) <= Cardinality(Above(m))
        /\ Cardinality(Above(n)) # Cardinality(Above(m))
    BY <1>1, <2>2, FS_Subset
  <2>4. Cardinality(Above(m)) <= Cardinality(Above(n))
    BY <1>3, <1>4
  <2>5. Cardinality(Above(n)) \in Nat /\ Cardinality(Above(m)) \in Nat
    BY <1>1
  <2> HIDE DEF Above
  <2> QED
    BY <2>3, <2>4, <2>5
<1>6. \A n \in T : m >= n
  BY <1>5
<1>7. Max(T) \in T /\ \A n \in T : Max(T) >= n
  BY <1>6 DEF Max
<1> QED
  BY <1>7

\* A page is the front of what comes after the cursor: a short one is all of it, and
\* after a full one the rest starts behind its last room.
LEMMA PageSplits ==
  ASSUME NEW S, S \subseteq Nat, IsFiniteSet(S), NEW after \in Nat
  PROVE  LET page == Page(S, after)
             rest == {i \in S : i > after}
         IN  /\ page \subseteq rest
             /\ Cardinality(page) < PageSize => page = rest
             /\ ~(Cardinality(page) < PageSize) =>
                  /\ Max(page) \in S /\ Max(page) > after
                  /\ rest = page \cup {i \in S : i > Max(page)}
<1> DEFINE rest == {i \in S : i > after}
           Below(i) == {k \in rest : k < i}
           page == Page(S, after)
<1>0. PageSize \in Nat \ {0}
  BY ExportAssumption
<1>1. page = {i \in rest : Cardinality(Below(i)) < PageSize}
  BY DEF Page
<1>2. rest \in SUBSET S /\ page \in SUBSET rest /\ rest \subseteq Nat
  BY <1>1
<1>3. IsFiniteSet(rest) /\ IsFiniteSet(page) /\ Cardinality(page) \in Nat
  BY <1>2, FS_Subset, FS_CardinalityType
<1>4. \A i \in Nat : IsFiniteSet(Below(i)) /\ Cardinality(Below(i)) \in Nat
  <2>1. ASSUME NEW i \in Nat PROVE IsFiniteSet(Below(i))
    <3>1. Below(i) \in SUBSET rest
      OBVIOUS
    <3> QED
      BY <1>3, <3>1, FS_Subset
  <2> QED
    BY <2>1, FS_CardinalityType
<1>5. ASSUME Cardinality(page) < PageSize, page # rest PROVE FALSE
  <2>1. PICK m \in rest \ page : \A n \in rest \ page : m <= n
    BY <1>2, <1>5, LeastNumber
  <2>2. m \in Nat /\ m \in rest
    BY <1>2
  <2>3. Below(m) \in SUBSET page
    <3>1. ASSUME NEW x \in Below(m) PROVE x \in page
      <4>1. x \in rest /\ x \in Nat /\ ~(m <= x)
        BY <1>2, <2>2
      <4> QED
        BY <2>1, <4>1
    <3> QED
      BY <3>1
  <2>4. ~(Cardinality(Below(m)) < PageSize)
    BY <1>1, <2>1
  <2>5. Cardinality(Below(m)) <= Cardinality(page)
    BY <1>3, <2>3, FS_Subset
  <2> HIDE DEF Below, page
  <2> QED
    BY <1>0, <1>3, <1>4, <1>5, <2>2, <2>4, <2>5
<1>6. ASSUME ~(Cardinality(page) < PageSize)
      PROVE  /\ Max(page) \in S /\ Max(page) > after
             /\ rest = page \cup {i \in S : i > Max(page)}
  <2>1. page # {}
    BY <1>0, <1>6, FS_EmptySet
  <2>2. Max(page) \in page /\ \A n \in page : n <= Max(page)
    BY <1>2, <1>3, <2>1, GreatestNumber
  <2>3. PICK m \in page : m = Max(page)
    BY <2>2
  <2>4. m \in rest /\ m \in S /\ m > after /\ m \in Nat /\ Cardinality(Below(m)) < PageSize
    BY <1>1, <1>2
  <2>5. ASSUME NEW i \in rest, ~(i > m) PROVE i \in page
    <3>1. i \in Nat /\ \A x \in Nat : x < i => x < m
      BY <1>2, <2>4, <2>5
    <3>2. Below(i) \in SUBSET Below(m)
      BY <1>2, <3>1
    <3>3. Cardinality(Below(i)) <= Cardinality(Below(m))
      BY <1>4, <2>4, <3>2, FS_Subset
    <3>4. Cardinality(Below(i)) < PageSize
      <4> HIDE DEF Below
      <4> QED
        BY <1>0, <1>4, <2>4, <3>1, <3>3
    <3> QED
      BY <1>1, <3>4
  <2>6. \A i \in S : i > m => i > after
    BY <2>4
  <2>7. rest = page \cup {i \in S : i > m}
    BY <1>2, <2>5, <2>6
  <2> QED
    BY <2>3, <2>4, <2>7
<1> QED
  BY <1>2, <1>5, <1>6

\* The equation readPages solves.
Follows(S, f) ==
  f = [after \in {0} \cup S |->
         IF Cardinality(Page(S, after)) < PageSize THEN Page(S, after)
         ELSE Page(S, after) \cup f[Max(Page(S, after))]]

\* Its only solution is what comes after the cursor, so page upon page reads every room.
LEMMA PagesAreTheTable ==
  ASSUME NEW S, S \subseteq Nat \ {0}, IsFiniteSet(S)
  PROVE  ReadPages(S) = S
<1> DEFINE D == {0} \cup S
           Rest(after) == {i \in S : i > after}
           g == [after \in D |-> Rest(after)]
           read == CHOOSE f : Follows(S, f)
<1>1. D \subseteq Nat /\ S \subseteq Nat
  OBVIOUS
<1>2. \A after \in D : /\ Cardinality(Page(S, after)) < PageSize => Page(S, after) = Rest(after)
                       /\ ~(Cardinality(Page(S, after)) < PageSize) =>
                            /\ Max(Page(S, after)) \in S /\ Max(Page(S, after)) > after
                            /\ Rest(after) = Page(S, after) \cup Rest(Max(Page(S, after)))
  BY <1>1, PageSplits
<1>3. Follows(S, g)
  <2>1. \A after \in D : Rest(after) =
          IF Cardinality(Page(S, after)) < PageSize THEN Page(S, after)
          ELSE Page(S, after) \cup g[Max(Page(S, after))]
    <3> SUFFICES ASSUME NEW after \in D, ~(Cardinality(Page(S, after)) < PageSize)
                 PROVE  Rest(after) = Page(S, after) \cup g[Max(Page(S, after))]
      BY <1>2
    <3>1. g[Max(Page(S, after))] = Rest(Max(Page(S, after)))
      BY <1>2
    <3> QED
      BY <1>2, <3>1
  <2> QED
    BY <2>1 DEF Follows
<1>4. Follows(S, read)
  BY <1>3, Zenon
<1>5. \A after \in D : read[after] =
        IF Cardinality(Page(S, after)) < PageSize THEN Page(S, after)
        ELSE Page(S, after) \cup read[Max(Page(S, after))]
  <2> HIDE DEF read
  <2> QED
    BY <1>4 DEF Follows
<1> HIDE DEF read, Rest
<1>6. \A after \in D : read[after] = Rest(after)
  <2> DEFINE Bad == {after \in D : read[after] # Rest(after)}
  <2> SUFFICES ASSUME Bad # {} PROVE FALSE
    OBVIOUS
  <2>1. IsFiniteSet(D)
    BY FS_AddElement, FS_CardinalityType, FS_Singleton, FS_Union
  <2>2. Bad \in SUBSET D /\ IsFiniteSet(Bad)
    BY <2>1, FS_Subset
  <2>3. Max(Bad) \in Bad /\ \A n \in Bad : n <= Max(Bad)
    BY <1>1, <2>2, GreatestNumber
  <2>4. PICK m \in Bad : \A n \in Bad : n <= m
    BY <2>3
  <2>5. CASE Cardinality(Page(S, m)) < PageSize
    BY <1>2, <1>5, <2>4, <2>5
  <2>6. CASE ~(Cardinality(Page(S, m)) < PageSize)
    <3>1. PICK n \in S : n = Max(Page(S, m)) /\ n > m
      BY <1>2, <2>6
    <3>2. n \in D /\ n \in Nat /\ m \in Nat /\ ~(n <= m)
      BY <1>1, <3>1
    <3>3. read[n] = Rest(n)
      BY <2>4, <3>2
    <3> QED
      BY <1>2, <1>5, <2>4, <2>6, <3>1, <3>3
  <2> QED
    BY <2>5, <2>6
<1>7. Rest(0) = S
  <2>1. \A i \in S : i > 0
    OBVIOUS
  <2> QED
    BY <2>1 DEF Rest
<1>8. ReadPages(S) = read[0]
  BY Zenon DEF ReadPages, Follows, read
<1> QED
  BY <1>6, <1>7, <1>8

\* A snapshot within the limit that misses no room.
Whole(a) == a.rows = a.catalog /\ Cardinality(a.rows) <= MaxRows
SnapshotTaken(w) == worker[w].pc \in {"renewed", "generate", "generated", "safeguard",
                                      "upload", "complete"}

\* Every attempt past its snapshot carries the whole table, and so does what it published.
WholeInv ==
  /\ \A w \in Workers : SnapshotTaken(w) => Whole(worker[w])
  /\ \A j \in Jobs : job[j].status = "COMPLETED" => Whole(job[j])

\* One attempt changes, to a whole one if it counts as past its snapshot, and at most one
\* job, to one that is not published or is whole.
LEMMA WholeStep ==
  ASSUME TypeInv, WholeInv, NEW w \in Workers, NEW a, worker' = [worker EXCEPT ![w] = a],
         a.pc \in {"renewed", "generate", "generated", "safeguard", "upload", "complete"}
            => Whole(a),
         \/ UNCHANGED job
         \/ \E j \in Jobs : \E b : /\ job' = [job EXCEPT ![j] = b]
                                   /\ b.status = "COMPLETED" => Whole(b)
  PROVE  WholeInv'
<1>1. worker'[w] = a /\ \A v \in Workers : v # w => worker'[v] = worker[v]
  BY DEF TypeInv
<1>2. \A v \in Workers : SnapshotTaken(v)' => Whole(worker'[v])
  BY <1>1 DEF WholeInv, SnapshotTaken
<1>3. \A j \in Jobs : job'[j].status = "COMPLETED" => Whole(job'[j])
  BY DEF WholeInv, TypeInv
<1> QED
  BY <1>2, <1>3 DEF WholeInv, Whole

LEMMA WholeJobs ==
  ASSUME TypeInv, WholeInv, UNCHANGED worker,
         \/ UNCHANGED job
         \/ \E j \in Jobs : \E b : /\ job' = [job EXCEPT ![j] = b]
                                   /\ b.status = "COMPLETED" => Whole(b)
  PROVE  WholeInv'
<1>1. \A j \in Jobs : job'[j].status = "COMPLETED" => Whole(job'[j])
  BY DEF WholeInv, TypeInv
<1> QED
  BY <1>1 DEF WholeInv, SnapshotTaken, Whole

\* The next stage works on the same snapshot; an attempt that fails or ends has none.
LEMMA StageWhole ==
  ASSUME TypeInv, WholeInv, NEW w \in Workers, NEW pc, SnapshotTaken(w) \/ pc = "snapshot",
         ToStage(w, pc)
  PROVE  \E a : /\ worker' = [worker EXCEPT ![w] = a]
                /\ a.pc \in {"renewed", "generate", "generated", "safeguard", "upload",
                             "complete"} => Whole(a)
<1> DEFINE a == [worker[w] EXCEPT !.pc = pc]
<1>1. worker[w] \in AttemptState
  BY DEF TypeInv
<1>2. a.pc = pc /\ a.rows = worker[w].rows /\ a.catalog = worker[w].catalog
  BY <1>1 DEF AttemptState
<1>3. worker' = [worker EXCEPT ![w] = a]
  BY DEF ToStage, TypeInv
<1>4. pc = "snapshot" \/ Whole(a)
  BY <1>2 DEF WholeInv, Whole
<1> HIDE DEF a
<1> QED
  BY <1>2, <1>3, <1>4

LEMMA EndWhole ==
  ASSUME TypeInv, NEW w \in Workers, Ends(w) \/ \E r : Fails(w, r)
  PROVE  \E a : /\ worker' = [worker EXCEPT ![w] = a]
                /\ a.pc \in {"renewed", "generate", "generated", "safeguard", "upload",
                             "complete"} => Whole(a)
<1>1. CASE Ends(w)
  <2>1. worker' = [worker EXCEPT ![w] = Idle] /\ Idle.pc = "idle"
    BY <1>1 DEF Ends, Idle
  <2> QED
    BY <2>1
<1>2. ASSUME NEW r, Fails(w, r)
      PROVE  \E a : worker' = [worker EXCEPT ![w] = a] /\ a.pc = "record"
  <2> DEFINE a == [worker[w] EXCEPT !.pc = "record", !.retryable = r]
  <2>1. worker[w] \in AttemptState
    BY DEF TypeInv
  <2>2. a.pc = "record"
    BY <2>1 DEF AttemptState
  <2>3. worker' = [worker EXCEPT ![w] = a]
    BY <1>2 DEF Fails, TypeInv
  <2> HIDE DEF a
  <2> QED
    BY <2>2, <2>3
<1> QED
  BY <1>1, <1>2

\* The snapshot: ReadPages, within the limit.
LEMMA SnapshotWhole ==
  ASSUME TypeInv, WholeInv, NEW w \in Workers, Snapshot(w)
  PROVE  WholeInv'
<1>1. PICK S \in Catalogs :
        \/ Fails(w, FALSE)
        \/ /\ Cardinality(ReadPages(S)) <= MaxRows
           /\ worker' = [worker EXCEPT ![w].pc = "renewed", ![w].rows = ReadPages(S), ![w].catalog = S]
  BY Zenon DEF Snapshot
<1>2. UNCHANGED job
  BY DEF Snapshot
<1>3. CASE Fails(w, FALSE)
  BY <1>2, <1>3, EndWhole, WholeStep
<1>4. CASE ~Fails(w, FALSE)
  <2>1. ReadPages(S) = S
    BY ExportAssumption, PagesAreTheTable
  <2> DEFINE a == [worker[w] EXCEPT !.pc = "renewed", !.rows = S, !.catalog = S]
  <2>2. worker[w] \in AttemptState
    BY DEF TypeInv
  <2>3. a.rows = S /\ a.catalog = S
    BY <2>2 DEF AttemptState
  <2>4. worker' = [worker EXCEPT ![w] = a] /\ Cardinality(S) <= MaxRows
    BY <1>1, <1>4, <2>1 DEF TypeInv
  <2>5. Whole(a)
    BY <2>3, <2>4 DEF Whole
  <2> HIDE DEF a
  <2> QED
    BY <1>2, <2>4, <2>5, WholeStep
<1> QED
  BY <1>3, <1>4

\* complete: the job takes the attempt's snapshot over.
LEMMA CompleteWhole ==
  ASSUME TypeInv, WholeInv, NEW w \in Workers, Complete(w)
  PROVE  WholeInv'
<1> DEFINE m == worker[w].msg
<1>1. worker[w].pc = "complete" /\ (Ends(w) \/ Fails(w, TRUE))
  BY Zenon DEF Complete
<1>2. \/ UNCHANGED job
      \/ job' = [job EXCEPT ![m.job] = Published(@, worker[w])]
  BY Zenon DEF Complete
<1>3. m \in Message /\ m.job \in Jobs /\ job[m.job] \in JobRow
  BY <1>1 DEF TypeInv, Message
<1>4. Whole(worker[w])
  BY <1>1 DEF WholeInv, SnapshotTaken
<1>5. CASE job' = [job EXCEPT ![m.job] = Published(@, worker[w])]
  <2> DEFINE b == Published(job[m.job], worker[w])
  <2>1. b.rows = worker[w].rows /\ b.catalog = worker[w].catalog
    BY <1>3 DEF Published, JobRow
  <2>2. Whole(b)
    BY <1>4, <2>1 DEF Whole
  <2>3. job' = [job EXCEPT ![m.job] = b]
    BY <1>3, <1>5 DEF TypeInv
  <2> HIDE DEF b
  <2>4. \E j \in Jobs : \E c : job' = [job EXCEPT ![j] = c] /\ (c.status = "COMPLETED" => Whole(c))
    BY <1>3, <2>2, <2>3
  <2> QED
    BY <1>1, <2>4, EndWhole, WholeStep
<1> QED
  BY <1>1, <1>2, <1>5, EndWhole, WholeStep

\* A job moved to another status keeps its snapshot and is not published by that.
LEMMA StatusMoves ==
  ASSUME TypeInv, NEW j \in Jobs, NEW s, s # "COMPLETED", job' = [job EXCEPT ![j].status = s]
  PROVE  \E i \in Jobs : \E b : job' = [job EXCEPT ![i] = b] /\ (b.status = "COMPLETED" => Whole(b))
<1> DEFINE b == [job[j] EXCEPT !.status = s]
<1>1. job[j] \in JobRow
  BY DEF TypeInv
<1>2. b.status = s
  BY <1>1 DEF JobRow
<1>3. job' = [job EXCEPT ![j] = b]
  BY DEF TypeInv
<1> HIDE DEF b
<1> QED
  BY <1>2, <1>3

LEMMA WorkerWhole ==
  ASSUME TypeInv, WholeInv, NEW w \in Workers,
         WorkerStep(w) \/ GenerateFails(w) \/ StageFails(w) \/ UploadFails(w) \/ WorkerCrash(w)
  PROVE  WholeInv'
<1>1. CASE TakeJob(w)
  <2>1. PICK m \in queue : worker' = [worker EXCEPT ![w] = [Idle EXCEPT !.pc = "claim", !.msg = m]]
    BY <1>1, Zenon DEF TakeJob
  <2>2. [Idle EXCEPT !.pc = "claim", !.msg = m].pc = "claim"
    BY DEF Idle
  <2>3. UNCHANGED job
    BY <1>1 DEF TakeJob
  <2> QED
    BY <2>1, <2>2, <2>3, WholeStep
<1>2. CASE Claim(w)
  <2> DEFINE m == worker[w].msg
  <2>1. worker[w].pc = "claim"
    BY <1>2 DEF Claim
  <2>2. m.job \in Jobs
    BY <2>1 DEF TypeInv, Message
  <2>3. \/ job' = [job EXCEPT ![m.job].status = "PROCESSING"] /\ ToStage(w, "snapshot")
        \/ UNCHANGED job /\ Ends(w)
    BY <1>2, Zenon DEF Claim
  <2>4. CASE UNCHANGED job /\ Ends(w)
    BY <2>4, EndWhole, WholeStep
  <2>5. CASE job' = [job EXCEPT ![m.job].status = "PROCESSING"] /\ ToStage(w, "snapshot")
    BY <2>2, <2>5, StatusMoves, StageWhole, WholeStep
  <2> QED
    BY <2>3, <2>4, <2>5
<1>3. CASE Renew(w) \/ Generate(w) \/ InsertSafeguard(w) \/ Upload(w)
  <2>1. UNCHANGED job /\ SnapshotTaken(w)
    BY <1>3 DEF Renew, Generate, InsertSafeguard, Upload, SnapshotTaken
  <2>2. (\E pc : ToStage(w, pc)) \/ Ends(w) \/ \E r : Fails(w, r)
    BY <1>3, Zenon DEF Renew, Generate, InsertSafeguard, Upload
  <2> QED
    BY <2>1, <2>2, StageWhole, EndWhole, WholeStep
<1>4. CASE RecordFailure(w)
  <2> DEFINE m == worker[w].msg
             terminal == ~worker[w].retryable \/ m.attempt >= MaxAttempts
  <2>1. worker[w].pc = "record" /\ Ends(w)
    BY <1>4, Zenon DEF RecordFailure
  <2>2. m.job \in Jobs
    BY <2>1 DEF TypeInv, Message
  <2>3. \/ UNCHANGED job
        \/ job' = [job EXCEPT ![m.job].status = IF terminal THEN "FAILED" ELSE "QUEUED"]
    BY <1>4, Zenon DEF RecordFailure
  <2>4. (IF terminal THEN "FAILED" ELSE "QUEUED") # "COMPLETED"
    OBVIOUS
  <2> HIDE DEF terminal
  <2> QED
    BY <2>1, <2>2, <2>3, <2>4, StatusMoves, EndWhole, WholeStep
<1>5. CASE GenerateFails(w) \/ StageFails(w) \/ UploadFails(w) \/ WorkerCrash(w)
  <2>1. UNCHANGED job /\ (Ends(w) \/ \E r : Fails(w, r))
    BY <1>5, Zenon DEF GenerateFails, StageFails, UploadFails, WorkerCrash
  <2> QED
    BY <2>1, EndWhole, WholeStep
<1> QED
  BY <1>1, <1>2, <1>3, <1>4, <1>5, SnapshotWhole, CompleteWhole DEF WorkerStep

LEMMA JobWhole ==
  ASSUME TypeInv, WholeInv, NEW j \in Jobs,
         Create(j) \/ LeaseExpires(j) \/ BackoffEnds(j) \/ Ages(j) \/ CollectObject(j)
         \/ CollectRows(j)
  PROVE  WholeInv'
<1>0. UNCHANGED worker
  BY Zenon DEF Create, LeaseExpires, BackoffEnds, Ages, CollectObject, CollectRows
<1>1. CASE Create(j)
  <2>1. job' = [job EXCEPT ![j].status = "QUEUED"]
    BY <1>1 DEF Create, InsertJob
  <2> QED
    BY <1>0, <2>1, StatusMoves, WholeJobs
<1>2. CASE LeaseExpires(j) \/ BackoffEnds(j) \/ CollectObject(j)
  <2>1. UNCHANGED job
    BY <1>2 DEF LeaseExpires, BackoffEnds, CollectObject
  <2> QED
    BY <1>0, <2>1, WholeJobs
<1>3. CASE Ages(j)
  <2> DEFINE age == IF job[j].age = "fresh" THEN "expired" ELSE "old"
             b == [job[j] EXCEPT !.age = age]
  <2>1. job' = [job EXCEPT ![j] = b]
    BY <1>3 DEF Ages, TypeInv
  <2> HIDE DEF age
  <2>2. b.status = job[j].status /\ b.rows = job[j].rows /\ b.catalog = job[j].catalog
    <3>1. job[j] \in JobRow
      BY DEF TypeInv
    <3> QED
      BY <3>1 DEF JobRow
  <2>3. b.status = "COMPLETED" => Whole(b)
    BY <2>2 DEF WholeInv, Whole
  <2> HIDE DEF b
  <2> QED
    BY <1>0, <2>1, <2>3, WholeJobs
<1>4. CASE CollectRows(j)
  <2>1. job' = [job EXCEPT ![j] = [NoJob EXCEPT !.status = "COLLECTED"]]
    BY <1>4 DEF CollectRows
  <2>2. [NoJob EXCEPT !.status = "COLLECTED"].status = "COLLECTED"
    BY DEF NoJob
  <2> QED
    BY <1>0, <2>1, <2>2, WholeJobs
<1> QED
  BY <1>1, <1>2, <1>3, <1>4

LEMMA NextWhole == TypeInv /\ WholeInv /\ [Next]_vars => WholeInv'
<1> SUFFICES ASSUME TypeInv, WholeInv, [Next]_vars PROVE WholeInv'
  OBVIOUS
<1>1. ASSUME NEW j \in Jobs, Create(j) \/ LeaseExpires(j) \/ BackoffEnds(j) \/ Ages(j)
                             \/ CollectObject(j) \/ CollectRows(j)
      PROVE  WholeInv'
  BY <1>1, JobWhole
<1>2. ASSUME NEW w \in Workers, WorkerStep(w) \/ GenerateFails(w) \/ StageFails(w)
                                \/ UploadFails(w) \/ WorkerCrash(w)
      PROVE  WholeInv'
  BY <1>2, WorkerWhole
<1>3. ASSUME UNCHANGED <<job, worker>> PROVE WholeInv'
  BY <1>3, WholeJobs
<1>4. ASSUME NEW d \in Dispatchers, DispatcherStep(d) \/ EnqueueFails(d) \/ DispatcherCrash(d)
      PROVE  UNCHANGED <<job, worker>>
  BY <1>4 DEF DispatcherStep, ClaimBatch, Enqueue, EnqueueFails, DispatcherCrash
<1>5. ASSUME NEW k \in Keys, GraceEnds(k) \/ (TaskLeaseExpires(k) /\ UNCHANGED exportVars)
      PROVE  UNCHANGED <<job, worker>>
  BY <1>5 DEF GraceEnds, exportVars
<1>6. ASSUME NEW c \in Cleaners, (CleanerStep(c) \/ CleanerFails(c)) /\ UNCHANGED exportVars
      PROVE  UNCHANGED <<job, worker>>
  BY <1>6 DEF exportVars
<1>7. CASE CollectFails \/ UNCHANGED vars
  <2>1. UNCHANGED <<job, worker>>
    BY <1>7 DEF CollectFails, vars, exportVars
  <2> QED
    BY <1>3, <2>1
<1> QED
  BY <1>1, <1>2, <1>3, <1>4, <1>5, <1>6, <1>7 DEF Next

\* readPages asks for the rooms after the last one it has until a page is short, and
\* complete publishes what was read: whatever the page size, a published workbook holds
\* every room of its snapshot and never more than maxRows, across retries and takeovers.
THEOREM WorkbookAlwaysWhole == Spec => []WorkbookWhole
<1>1. Init => WholeInv
  BY DEF Init, WholeInv, SnapshotTaken, Idle, NoJob
<1>2. IInv => TypeInv
  BY DEF IInv
<1>3. WholeInv => WorkbookWhole
  BY DEF WholeInv, WorkbookWhole, Whole
<1>4. QED
  BY <1>1, <1>2, <1>3, NextWhole, AlwaysInv, PTL DEF Spec

=============================================================================
