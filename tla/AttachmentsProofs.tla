------------------------- MODULE AttachmentsProofs -------------------------
(***************************************************************************)
(* Proofs about Attachments, for any number of keys, rooms, requests and   *)
(* cleanup runners, and any album limit within the rewrite offset.         *)
(*                                                                         *)
(* A key has one life: generated once, staged by one request, attached or  *)
(* given up, detached, deleted.  The inductive invariant says what stands  *)
(* at each stage of it.  Albums are a matter of counting: a numbering of n *)
(* images onto 0..n-1 has no duplicates, and neither has what is left of   *)
(* it when one image goes and the others close up.                         *)
(***************************************************************************)
EXTENDS Attachments, FiniteSetTheorems, TLAPS

TypeInv ==
  /\ task \in [Keys -> Task] /\ objects \subseteq Keys /\ faults \in Nat
  /\ cleaner \in [Cleaners -> Runner]
  /\ \A c \in Cleaners : cleaner[c].pc # "idle" => cleaner[c].key \in Keys
  /\ rooms \subseteq Rooms /\ row \in [Keys -> Row] /\ used \subseteq Keys
  /\ stalled \subseteq Keys
  /\ client \in [Clients -> Client]
  /\ \A c \in Clients : client[c].pc # "idle" => client[c].key \in Keys

\* A runner has a task of key k in its hands; a request is about key k.
Holds(c, k) == cleaner[c].pc # "idle" /\ cleaner[c].key = k
Serves(c, k) == client[c].pc # "idle" /\ client[c].key = k

\* A key nobody has generated leaves no trace.
Untouched(k) ==
  k \notin used =>
    /\ ~Scheduled(k) /\ k \notin objects /\ row[k].live = FALSE
    /\ \A c \in Cleaners : ~Holds(c, k)
    /\ \A c \in Clients : ~Serves(c, k)

\* An upload is alone with its key, and unless it outlived the grace no runner has it before
\* the object is stored.
UploadSound(c) ==
  client[c].pc \in {"stage", "put", "complete"} =>
    LET k == client[c].key
    IN  /\ row[k].live = FALSE
        /\ \A d \in Clients : Serves(d, k) => d = c
        /\ client[c].pc = "stage" => ~Scheduled(k) /\ k \notin objects
        /\ client[c].pc = "put" /\ k \notin stalled =>
             task[k].reason = "UPLOAD_SAFEGUARD" /\ task[k].due = FALSE
        /\ client[c].pc = "stage" \/ (client[c].pc = "put" /\ k \notin stalled) =>
             \A d \in Cleaners : ~Holds(d, k)

\* Unless a lease ran out under its runner, a safeguard is in the hands of one runner at
\* most, under a lease that runs, and an attached object in nobody's.
LeaseSound(k) ==
  task[k].overrun = FALSE /\ (row[k].live = TRUE \/ task[k].reason = "UPLOAD_SAFEGUARD") =>
    \A c \in Cleaners : Holds(c, k) =>
      /\ row[k].live = FALSE /\ task[k].lease = "live" /\ task[k].id = cleaner[c].id
      /\ \A d \in Cleaners : Holds(d, k) => d = c

\* An attachment has a room, no task, and no request in progress.
LiveSound(k) ==
  row[k].live = TRUE =>
    /\ ~Scheduled(k) /\ row[k].room \in rooms
    /\ \A c \in Clients : ~Serves(c, k)

\* Who is about to retire a task has deleted the object; a stalled upload writes it anew.
DeletedFirst ==
  /\ \A c \in Cleaners :
       cleaner[c].pc = "retire" /\ cleaner[c].key \notin stalled => cleaner[c].key \notin objects
  /\ \A c \in Clients : client[c].pc = "forget" => client[c].key \notin objects

Covered(k) == k \in objects \ stalled => row[k].live = TRUE \/ Scheduled(k)

KeyInv ==
  /\ \A k \in Keys : Untouched(k) /\ LeaseSound(k) /\ LiveSound(k) /\ Covered(k)
  /\ \A c \in Clients : UploadSound(c)
  /\ DeletedFirst

IInv == TypeInv /\ KeyInv

\* The images of a target are finitely many, numbered without a gap, within the limit.
Numbered(S, rows) == {rows[k].position : k \in S} = 0 .. Cardinality(S) - 1
TargetSound(r, a) ==
  /\ IsFiniteSet(Target(r, a))
  /\ Numbered(Target(r, a), row)
  /\ Cardinality(Target(r, a)) <= MaxCount(a)
AlbumInv == \A r \in Rooms, a \in Associations : TargetSound(r, a)

-----------------------------------------------------------------------------
USE DEF Holds, Serves, Scheduled

LEMMA InitInv == Init => IInv
<1> SUFFICES ASSUME Init PROVE IInv
  OBVIOUS
<1>1. TypeInv
  BY CleanupAssumption DEF Init, CleanupInit, TypeInv, Task, NoTask, Runner, Resting, Row, NoRow,
     Client, Waiting, Associations
<1>2. KeyInv
  BY <1>1 DEF Init, CleanupInit, TypeInv, KeyInv, Untouched, UploadSound, LeaseSound, LiveSound, Covered,
     DeletedFirst, NoTask, Resting, NoRow, Waiting
<1>3. QED
  BY <1>1, <1>2 DEF IInv

\* The runners' steps.  They leave attachments, rooms and requests alone.
LEMMA ClaimOneKeeps ==
  ASSUME IInv, NEW c \in Cleaners, ClaimOne(c), UNCHANGED attachmentVars
  PROVE  IInv'
<1>1. PICK k \in Keys :
         /\ cleaner[c].pc = "idle" /\ Scheduled(k) /\ task[k].due = TRUE /\ task[k].lease # "live"
         /\ task' = [task EXCEPT ![k].lease = "live"]
         /\ cleaner' = [cleaner EXCEPT ![c] = [pc |-> "delete", key |-> k, id |-> task[k].id]]
         /\ UNCHANGED <<objects, faults, rooms, row, client, used, stalled>>
  BY Zenon DEF ClaimOne, attachmentVars, IInv, TypeInv
<1>2. TypeInv'
  BY <1>1 DEF IInv, TypeInv, Task, Runner
<1>3. /\ \A i \in Keys : /\ task'[i].reason = task[i].reason /\ task'[i].id = task[i].id
                         /\ task'[i].due = task[i].due /\ task'[i].overrun = task[i].overrun
                         /\ i # k => task'[i] = task[i]
      /\ task'[k].lease = "live"
      /\ \A d \in Cleaners : d # c => cleaner'[d] = cleaner[d]
      /\ cleaner'[c].pc = "delete" /\ cleaner'[c].key = k /\ cleaner'[c].id = task[k].id
      /\ UNCHANGED <<objects, rooms, row, client, used, stalled>>
  BY <1>1 DEF IInv, TypeInv, Task, Runner
<1>4. KeyInv'
  BY <1>1, <1>3 DEF IInv, TypeInv, KeyInv, Untouched, UploadSound, LeaseSound, LiveSound, Covered,
     DeletedFirst, Task, Runner, Row, Client
<1>5. QED
  BY <1>2, <1>4 DEF IInv

\* What a runner's step past its claim may touch: its own hands.
LEMMA RunnerMovesOn ==
  ASSUME IInv, NEW c \in Cleaners, cleaner[c].pc # "idle",
         NEW pc \in {"retire", "release"},
         cleaner' = [cleaner EXCEPT ![c].pc = pc],
         objects' \subseteq objects, objects \ {cleaner[c].key} \subseteq objects',
         pc = "retire" => cleaner[c].key \notin objects',
         faults' \in Nat, UNCHANGED <<task, attachmentVars>>
  PROVE  IInv'
<1>1. TypeInv'
  BY DEF IInv, TypeInv, Runner, attachmentVars
<1>2. /\ \A d \in Cleaners : /\ cleaner'[d].key = cleaner[d].key /\ cleaner'[d].id = cleaner[d].id
                             /\ d # c => cleaner'[d] = cleaner[d]
      /\ cleaner'[c].pc = pc
      /\ UNCHANGED <<task, rooms, row, client, used, stalled>>
  BY DEF IInv, TypeInv, Runner, attachmentVars
<1>3. KeyInv'
  BY <1>2 DEF IInv, TypeInv, KeyInv, Untouched, UploadSound, LeaseSound, LiveSound, Covered,
     DeletedFirst, Task, Runner, Row, Client
<1>4. QED
  BY <1>1, <1>3 DEF IInv

LEMMA DeleteObjectKeeps ==
  ASSUME IInv, NEW c \in Cleaners, DeleteObject(c), UNCHANGED attachmentVars
  PROVE  IInv'
<1>1. /\ cleaner[c].pc # "idle"
      /\ objects' = objects \ {cleaner[c].key}
      /\ cleaner' = [cleaner EXCEPT ![c].pc = "retire"]
      /\ faults' \in Nat /\ UNCHANGED <<task, attachmentVars>>
  BY DEF DeleteObject, IInv, TypeInv
<1>2. /\ objects' \subseteq objects /\ objects \ {cleaner[c].key} \subseteq objects'
      /\ cleaner[c].key \notin objects'
  BY <1>1
<1>3. QED
  BY <1>1, <1>2, RunnerMovesOn

LEMMA DeleteObjectFailsKeeps ==
  ASSUME IInv, NEW c \in Cleaners, DeleteObjectFails(c), UNCHANGED attachmentVars
  PROVE  IInv'
<1>1. /\ cleaner[c].pc # "idle"
      /\ objects' = objects \/ objects' = objects \ {cleaner[c].key}
      /\ cleaner' = [cleaner EXCEPT ![c].pc = "release"]
      /\ faults' \in Nat /\ UNCHANGED <<task, attachmentVars>>
  BY DEF DeleteObjectFails, Fault, IInv, TypeInv
<1>2. objects' \subseteq objects /\ objects \ {cleaner[c].key} \subseteq objects'
  BY <1>1
<1>3. QED
  BY <1>1, <1>2, RunnerMovesOn

LEMMA RetireTaskFailsKeeps ==
  ASSUME IInv, NEW c \in Cleaners, RetireTaskFails(c), UNCHANGED attachmentVars
  PROVE  IInv'
<1>1. /\ cleaner[c].pc # "idle"
      /\ cleaner' = [cleaner EXCEPT ![c].pc = "release"]
      /\ faults' \in Nat /\ UNCHANGED <<objects, task, attachmentVars>>
  BY DEF RetireTaskFails, Fault, IInv, TypeInv
<1>2. objects' \subseteq objects /\ objects \ {cleaner[c].key} \subseteq objects'
  BY <1>1
<1>3. QED
  BY <1>1, <1>2, RunnerMovesOn

\* A runner lays its task down.  The row goes with the object that is gone, loses its
\* lease, or is left as it was.
LEMMA RunnerRests ==
  ASSUME IInv, NEW c \in Cleaners, cleaner[c].pc # "idle",
         cleaner' = [cleaner EXCEPT ![c] = Resting],
         NEW t \in Task, task' = [task EXCEPT ![cleaner[c].key] = t],
         t.overrun = task[cleaner[c].key].overrun,
         \/ t = task[cleaner[c].key]
         \/ t.reason = "NONE" /\ cleaner[c].key \notin objects \ stalled
         \/ t.reason = task[cleaner[c].key].reason /\ t.due = FALSE,
         faults' \in Nat, UNCHANGED <<objects, attachmentVars>>
  PROVE  IInv'
<1> DEFINE k == cleaner[c].key
<1>1. k \in Keys
  BY DEF IInv, TypeInv
<1>2. TypeInv'
  BY <1>1, CleanupAssumption DEF IInv, TypeInv, Runner, Resting, attachmentVars
<1>3. /\ \A d \in Cleaners : d # c => cleaner'[d] = cleaner[d]
      /\ cleaner'[c].pc = "idle"
      /\ \A i \in Keys : i # k => task'[i] = task[i]
      /\ task'[k] = t
      /\ UNCHANGED <<objects, rooms, row, client, used, stalled>>
  BY <1>1 DEF IInv, TypeInv, Resting, attachmentVars
<1>4. \A i \in Keys : Untouched(i)' /\ LiveSound(i)' /\ Covered(i)'
  BY <1>1, <1>3 DEF IInv, TypeInv, KeyInv, Untouched, LiveSound, Covered, Task, Row
<1>5. \A i \in Keys : LeaseSound(i)'
  BY <1>1, <1>3 DEF IInv, TypeInv, KeyInv, LiveSound, LeaseSound, Task, Runner, Row
<1>6. \A d \in Clients : UploadSound(d)'
  BY <1>1, <1>3 DEF IInv, TypeInv, KeyInv, UploadSound, Task, Row, Client
<1>7. DeletedFirst'
  BY <1>1, <1>3 DEF IInv, TypeInv, KeyInv, DeletedFirst
<1>8. QED
  BY <1>2, <1>4, <1>5, <1>6, <1>7 DEF IInv, KeyInv

LEMMA RetireTaskKeeps ==
  ASSUME IInv, NEW c \in Cleaners, RetireTask(c), UNCHANGED attachmentVars
  PROVE  IInv'
<1> DEFINE k == cleaner[c].key
           t == IF task[k].id = cleaner[c].id THEN Remove(task[k]) ELSE task[k]
<1>1. /\ cleaner[c].pc = "retire" /\ k \in Keys /\ k \notin objects \ stalled /\ task[k] \in Task
      /\ task' = [task EXCEPT ![k] = t]
      /\ cleaner' = [cleaner EXCEPT ![c] = Resting]
      /\ faults' \in Nat /\ UNCHANGED <<objects, attachmentVars>>
  BY DEF RetireTask, IInv, TypeInv, KeyInv, DeletedFirst
<1>2. t \in Task /\ t.overrun = task[k].overrun /\ (t = task[k] \/ t.reason = "NONE")
  BY <1>1 DEF Task, Remove
<1> HIDE DEF t
<1>3. QED
  BY <1>1, <1>2, RunnerRests

LEMMA ReleaseTaskKeeps ==
  ASSUME IInv, NEW c \in Cleaners, ReleaseTask(c), UNCHANGED attachmentVars
  PROVE  IInv'
<1> DEFINE k == cleaner[c].key
           t == IF task[k].id = cleaner[c].id /\ task[k].reason # "NONE"
                THEN [task[k] EXCEPT !.lease = "none", !.due = FALSE] ELSE task[k]
<1>1. /\ cleaner[c].pc = "release" /\ k \in Keys /\ task[k] \in Task
      /\ task' = [task EXCEPT ![k] = t]
      /\ cleaner' = [cleaner EXCEPT ![c] = Resting]
      /\ faults' \in Nat /\ UNCHANGED <<objects, attachmentVars>>
  BY DEF ReleaseTask, IInv, TypeInv
<1>2. /\ t \in Task /\ t.overrun = task[k].overrun
      /\ t = task[k] \/ (t.reason = task[k].reason /\ t.due = FALSE)
  BY <1>1 DEF Task
<1> HIDE DEF t
<1>3. QED
  BY <1>1, <1>2, RunnerRests

LEMMA CleanerCrashKeeps ==
  ASSUME IInv, NEW c \in Cleaners, CleanerCrash(c), UNCHANGED attachmentVars
  PROVE  IInv'
<1>1. /\ cleaner[c].pc # "idle" /\ cleaner[c].key \in Keys
      /\ task[cleaner[c].key] \in Task
      /\ task' = [task EXCEPT ![cleaner[c].key] = task[cleaner[c].key]]
      /\ cleaner' = [cleaner EXCEPT ![c] = Resting]
      /\ faults' \in Nat /\ UNCHANGED <<objects, attachmentVars>>
  BY DEF CleanerCrash, Fault, IInv, TypeInv
<1>2. QED
  BY <1>1, RunnerRests

LEMMA TaskLeaseExpiresKeeps ==
  ASSUME IInv, NEW k \in Keys, TaskLeaseExpires(k), UNCHANGED attachmentVars
  PROVE  IInv'
<1> DEFINE atWork == \E c \in Cleaners : cleaner[c].key = k /\ cleaner[c].id = task[k].id
<1>1. /\ task[k].lease = "live" /\ task[k] \in Task
      /\ task' = [task EXCEPT ![k].lease = "expired", ![k].overrun = task[k].overrun \/ atWork]
      /\ faults' \in Nat /\ UNCHANGED <<objects, cleaner, rooms, row, client, used, stalled>>
  BY DEF TaskLeaseExpires, Fault, attachmentVars, IInv, TypeInv
<1>2. TypeInv'
  BY <1>1 DEF IInv, TypeInv, Task
<1>3. /\ \A i \in Keys : i # k => task'[i] = task[i]
      /\ task'[k].reason = task[k].reason /\ task'[k].id = task[k].id /\ task'[k].due = task[k].due
      /\ task'[k].overrun = FALSE => task[k].overrun = FALSE /\ ~atWork
  BY <1>1 DEF IInv, TypeInv, Task
<1>4. \A i \in Keys : Untouched(i)' /\ LiveSound(i)' /\ Covered(i)' /\ LeaseSound(i)'
  BY <1>1, <1>3 DEF IInv, TypeInv, KeyInv, Untouched, LiveSound, LeaseSound, Covered, Task, Row
<1>5. \A d \in Clients : UploadSound(d)'
  BY <1>1, <1>3 DEF IInv, TypeInv, KeyInv, UploadSound, Task, Row, Client
<1>6. DeletedFirst'
  BY <1>1 DEF IInv, KeyInv, DeletedFirst
<1>7. QED
  BY <1>2, <1>4, <1>5, <1>6 DEF IInv, KeyInv


\* The requests' steps.
LEMMA BeginUploadKeeps ==
  ASSUME IInv, NEW c \in Clients, BeginUpload(c)
  PROVE  IInv'
<1>1. PICK r \in rooms, a \in Associations, k \in Keys :
         /\ k \notin used /\ client[c].pc = "idle" /\ used' = used \cup {k}
         /\ client' = [client EXCEPT ![c] = [pc |-> "stage", key |-> k, room |-> r, assoc |-> a]]
         /\ UNCHANGED <<task, objects, cleaner, faults, rooms, row, stalled>>
  BY DEF BeginUpload, Fresh, cleanupVars
<1>2. TypeInv'
  BY <1>1 DEF IInv, TypeInv, Client
<1>3. /\ \A d \in Clients : d # c => client'[d] = client[d]
      /\ client'[c].pc = "stage" /\ client'[c].key = k
  BY <1>1 DEF IInv, TypeInv
<1>4. \A i \in Keys : Untouched(i)' /\ LiveSound(i)' /\ Covered(i)' /\ LeaseSound(i)'
  BY <1>1, <1>3 DEF IInv, TypeInv, KeyInv, Untouched, LiveSound, LeaseSound, Covered, Row
<1>5. \A d \in Clients : UploadSound(d)'
  BY <1>1, <1>3 DEF IInv, TypeInv, KeyInv, Untouched, UploadSound, Client
<1>6. DeletedFirst'
  BY <1>1, <1>3 DEF IInv, TypeInv, KeyInv, DeletedFirst
<1>7. QED
  BY <1>2, <1>4, <1>5, <1>6 DEF IInv, KeyInv

LEMMA StageKeeps ==
  ASSUME IInv, NEW c \in Clients, Stage(c)
  PROVE  IInv'
<1> DEFINE k == client[c].key
           t == Insert(task[k], "UPLOAD_SAFEGUARD", FALSE)
<1>1. /\ client[c].pc = "stage" /\ k \in Keys /\ task[k] \in Task
      /\ task' = [task EXCEPT ![k] = t]
      /\ client' = [client EXCEPT ![c].pc = "put"]
      /\ UNCHANGED <<objects, cleaner, faults, rooms, row, used, stalled>>
  BY DEF Stage, Safeguarded, ToStep, IInv, TypeInv
<1>2. t \in Task /\ t.reason = "UPLOAD_SAFEGUARD" /\ t.due = FALSE
  BY <1>1 DEF Task, Insert
<1> HIDE DEF t
<1>3. TypeInv'
  BY <1>1, <1>2 DEF IInv, TypeInv, Client
<1>4. /\ \A d \in Clients : client'[d].key = client[d].key /\ (d # c => client'[d] = client[d])
      /\ client'[c].pc = "put"
      /\ \A i \in Keys : i # k => task'[i] = task[i]
      /\ task'[k] = t
  BY <1>1 DEF IInv, TypeInv, Client
<1>0. /\ row[k].live = FALSE /\ ~Scheduled(k) /\ k \notin objects /\ Serves(c, k)
      /\ \A d \in Cleaners : ~Holds(d, k)
  <2>1. UploadSound(c)
    BY DEF IInv, KeyInv
  <2> QED
    BY <1>1, <2>1 DEF UploadSound
<1>5. \A i \in Keys : Untouched(i)' /\ LiveSound(i)' /\ Covered(i)' /\ LeaseSound(i)'
  BY <1>0, <1>1, <1>2, <1>4 DEF IInv, TypeInv, KeyInv, Untouched, LiveSound, LeaseSound, Covered,
     Task, Row
<1>6. \A d \in Clients : UploadSound(d)'
  BY <1>1, <1>2, <1>4 DEF IInv, TypeInv, KeyInv, UploadSound, Task, Row, Client
<1>7. DeletedFirst'
  BY <1>1, <1>4 DEF IInv, KeyInv, DeletedFirst
<1>8. QED
  BY <1>3, <1>5, <1>6, <1>7 DEF IInv, KeyInv

\* The store answers, or fails with or without the object.
LEMMA PutEnds ==
  ASSUME IInv, NEW c \in Clients, client[c].pc = "put",
         NEW r \in Client, client' = [client EXCEPT ![c] = r],
         r.pc = "idle" \/ (r.pc = "complete" /\ r.key = client[c].key),
         objects' = objects \/ objects' = objects \cup {client[c].key},
         faults' \in Nat, UNCHANGED <<task, cleaner, rooms, row, used, stalled>>
  PROVE  IInv'
<1> DEFINE k == client[c].key
<1>1. k \in Keys
  BY DEF IInv, TypeInv
<1>2. TypeInv'
  BY <1>1 DEF IInv, TypeInv
<1>3. /\ \A d \in Clients : d # c => client'[d] = client[d]
      /\ client'[c] = r
      /\ \A i \in Keys : i # k => (i \in objects' <=> i \in objects)
  BY <1>1 DEF IInv, TypeInv
<1>4. \A i \in Keys : Untouched(i)' /\ LiveSound(i)' /\ Covered(i)' /\ LeaseSound(i)'
  BY <1>1, <1>3 DEF IInv, TypeInv, KeyInv, Untouched, LiveSound, LeaseSound, Covered,
     UploadSound, Task, Row
<1>5. \A d \in Clients : UploadSound(d)'
  BY <1>1, <1>3 DEF IInv, TypeInv, KeyInv, UploadSound, Task, Row, Client
<1>6. DeletedFirst'
  BY <1>1, <1>3 DEF IInv, TypeInv, KeyInv, DeletedFirst, UploadSound, Runner
<1>7. QED
  BY <1>2, <1>4, <1>5, <1>6 DEF IInv, KeyInv

LEMMA PutKeeps ==
  ASSUME IInv, NEW c \in Clients, Put(c)
  PROVE  IInv'
<1> DEFINE r == [client[c] EXCEPT !.pc = "complete"]
<1>1. /\ client[c].pc = "put" /\ client[c] \in Client
      /\ client' = [client EXCEPT ![c] = r]
      /\ objects' = objects \cup {client[c].key}
      /\ faults' \in Nat /\ UNCHANGED <<task, cleaner, rooms, row, used, stalled>>
  BY DEF Put, ToStep, IInv, TypeInv
<1>2. r \in Client /\ r.pc = "complete" /\ r.key = client[c].key
  BY <1>1 DEF Client
<1> HIDE DEF r
<1>3. QED
  BY <1>1, <1>2, PutEnds

LEMMA PutFailsKeeps ==
  ASSUME IInv, NEW c \in Clients, PutFails(c)
  PROVE  IInv'
<1>1. Waiting \in Client /\ Waiting.pc = "idle"
  BY DEF Waiting, Client, Associations
<1>2. /\ client[c].pc = "put"
      /\ client' = [client EXCEPT ![c] = Waiting]
      /\ objects' = objects \/ objects' = objects \cup {client[c].key}
      /\ faults' \in Nat /\ UNCHANGED <<task, cleaner, rooms, row, used, stalled>>
  BY DEF PutFails, Ends, Fault, IInv, TypeInv
<1>3. QED
  BY <1>1, <1>2, PutEnds

\* A request ends, whatever it was doing: what has committed stays.
LEMMA RequestEnds ==
  ASSUME IInv, NEW c \in Clients, client' = [client EXCEPT ![c] = Waiting], faults' \in Nat,
         UNCHANGED <<task, objects, cleaner, rooms, row, used, stalled>>
  PROVE  IInv'
<1>1. Waiting \in Client /\ Waiting.pc = "idle"
  BY DEF Waiting, Client, Associations
<1>2. TypeInv'
  BY <1>1 DEF IInv, TypeInv
<1>3. (\A d \in Clients : d # c => client'[d] = client[d]) /\ client'[c].pc = "idle"
  BY <1>1 DEF IInv, TypeInv
<1>4. KeyInv'
  BY <1>1, <1>3 DEF IInv, TypeInv, KeyInv, Untouched, UploadSound, LeaseSound, LiveSound, Covered,
     DeletedFirst
<1>5. QED
  BY <1>2, <1>4 DEF IInv

LEMMA ClientFailsKeeps ==
  ASSUME IInv, NEW c \in Clients, ClientFails(c)
  PROVE  IInv'
<1>1. faults' \in Nat
  BY DEF ClientFails, Fault, IInv, TypeInv
<1>2. QED
  BY <1>1, RequestEnds DEF ClientFails, Ends

LEMMA RemoveObjectKeeps ==
  ASSUME IInv, NEW c \in Clients, RemoveObject(c)
  PROVE  IInv'
<1> DEFINE k == client[c].key
<1>1. /\ client[c].pc = "remove" /\ k \in Keys
      /\ objects' = objects \ {k}
      /\ client' = [client EXCEPT ![c].pc = "forget"]
      /\ UNCHANGED <<task, cleaner, faults, rooms, row, used, stalled>>
  BY DEF RemoveObject, ToStep, IInv, TypeInv
<1>2. TypeInv'
  BY <1>1 DEF IInv, TypeInv, Client
<1>3. /\ \A d \in Clients : client'[d].key = client[d].key /\ (d # c => client'[d] = client[d])
      /\ client'[c].pc = "forget"
  BY <1>1 DEF IInv, TypeInv, Client
<1>4. KeyInv'
  BY <1>1, <1>3 DEF IInv, TypeInv, KeyInv, Untouched, UploadSound, LeaseSound, LiveSound, Covered,
     DeletedFirst
<1>5. QED
  BY <1>2, <1>4 DEF IInv

LEMMA ForgetTaskKeeps ==
  ASSUME IInv, NEW c \in Clients, ForgetTask(c)
  PROVE  IInv'
<1> DEFINE k == client[c].key
           t == IF task[k].reason = "DETACHED_OBJECT" THEN Remove(task[k]) ELSE task[k]
<1>1. /\ client[c].pc = "forget" /\ k \in Keys /\ task[k] \in Task /\ k \notin objects
      /\ task' = [task EXCEPT ![k] = t]
      /\ client' = [client EXCEPT ![c] = Waiting]
      /\ UNCHANGED <<objects, cleaner, faults, rooms, row, used, stalled>>
  BY DEF ForgetTask, Ends, IInv, TypeInv, KeyInv, DeletedFirst
<1>2. /\ t \in Task /\ t.overrun = task[k].overrun
      /\ t = task[k] \/ (t.reason = "NONE" /\ task[k].reason = "DETACHED_OBJECT")
  BY <1>1 DEF Task, Remove
<1> HIDE DEF t
<1>3. Waiting \in Client /\ Waiting.pc = "idle"
  BY DEF Waiting, Client, Associations
<1>4. TypeInv'
  BY <1>1, <1>2, <1>3 DEF IInv, TypeInv
<1>5. /\ \A d \in Clients : d # c => client'[d] = client[d]
      /\ client'[c].pc = "idle"
      /\ \A i \in Keys : i # k => task'[i] = task[i]
      /\ task'[k] = t
  BY <1>1, <1>3 DEF IInv, TypeInv
<1>6. \A i \in Keys : Untouched(i)' /\ LiveSound(i)' /\ Covered(i)' /\ LeaseSound(i)'
  BY <1>1, <1>2, <1>5 DEF IInv, TypeInv, KeyInv, Untouched, LiveSound, LeaseSound, Covered, Task, Row
<1>7. \A d \in Clients : UploadSound(d)'
  BY <1>1, <1>2, <1>5 DEF IInv, TypeInv, KeyInv, UploadSound, Task, Row, Client
<1>8. DeletedFirst'
  BY <1>1, <1>5 DEF IInv, KeyInv, DeletedFirst
<1>9. QED
  BY <1>4, <1>6, <1>7, <1>8 DEF IInv, KeyInv

LEMMA GraceEndsKeeps ==
  ASSUME IInv, NEW k \in Keys, GraceEnds(k)
  PROVE  IInv'
<1>1. /\ task' = [task EXCEPT ![k].due = TRUE] /\ Scheduled(k)
      /\ UNCHANGED <<objects, cleaner, rooms, row, client, used>>
  BY Zenon DEF GraceEnds, TaskDue
<1>9. faults' \in Nat
  <2>1. Fault \/ UNCHANGED faults
    BY Zenon DEF GraceEnds
  <2> QED
    BY <2>1 DEF Fault, IInv, TypeInv
<1>0. stalled' \subseteq Keys /\ stalled \subseteq stalled'
  BY DEF GraceEnds, IInv, TypeInv
<1>2. \A c \in Clients : client[c].key = k /\ client[c].pc = "put" => k \in stalled'
  BY DEF GraceEnds
<1>3. TypeInv'
  BY <1>0, <1>1, <1>9 DEF IInv, TypeInv, Task
<1>4. \A i \in Keys : /\ i # k => task'[i] = task[i]
                      /\ task'[i].reason = task[i].reason /\ task'[i].lease = task[i].lease
                      /\ task'[i].id = task[i].id /\ task'[i].overrun = task[i].overrun
  BY <1>0, <1>1 DEF IInv, TypeInv, Task
<1>5. \A i \in Keys : Untouched(i)' /\ LiveSound(i)' /\ Covered(i)' /\ LeaseSound(i)'
  BY <1>0, <1>1, <1>4 DEF IInv, TypeInv, KeyInv, Untouched, LeaseSound, LiveSound, Covered
<1>6. \A d \in Clients : UploadSound(d)'
  BY <1>0, <1>1, <1>2, <1>4 DEF IInv, TypeInv, KeyInv, UploadSound
<1>7. DeletedFirst'
  BY <1>0, <1>1 DEF IInv, KeyInv, DeletedFirst
<1>8. QED
  BY <1>3, <1>5, <1>6, <1>7 DEF IInv, KeyInv

\* Attachments go and are scheduled in the transaction that takes them: detach, delete of
\* a room, and the replaced image of an upload.
LEMMA RowsGo ==
  ASSUME IInv, NEW gone \in SUBSET Keys, \A i \in gone : row[i].live = TRUE,
         row' \in [Keys -> Row], task' \in [Keys -> Task],
         \A i \in Keys : IF i \in gone THEN row'[i].live = FALSE /\ task'[i] = Detached(task[i])
                         ELSE /\ row'[i].live = row[i].live /\ row'[i].room = row[i].room
                              /\ task'[i] = task[i],
         rooms' \subseteq rooms,
         \A i \in Keys : row'[i].live = TRUE => row[i].room \in rooms',
         client' \in [Clients -> Client],
         \A d \in Clients :
           client'[d] = client[d] \/ (client'[d].pc = "remove" /\ client'[d].key \in gone),
         UNCHANGED <<objects, cleaner, faults, used, stalled>>
  PROVE  IInv'
<1>0. \A i \in gone : /\ task'[i].reason = "DETACHED_OBJECT" /\ i \in used
                      /\ \A d \in Clients : ~Serves(d, i)
  BY DEF IInv, TypeInv, KeyInv, Untouched, LiveSound, Detached, Insert, Task
<1>1. TypeInv'
  BY DEF IInv, TypeInv
<1>2. \A i \in Keys : Untouched(i)'
  BY <1>0 DEF IInv, TypeInv, KeyInv, Untouched, Row
<1>3. \A i \in Keys : LiveSound(i)' /\ Covered(i)'
  BY <1>0 DEF IInv, TypeInv, KeyInv, LiveSound, Covered, Row, Task
<1>4. \A i \in Keys : LeaseSound(i)'
  BY <1>0 DEF IInv, TypeInv, KeyInv, LeaseSound, Row, Task
<1>5. \A d \in Clients : UploadSound(d)'
  BY <1>0 DEF IInv, TypeInv, KeyInv, UploadSound, Client, Row
<1>6. DeletedFirst'
  BY DEF IInv, TypeInv, KeyInv, DeletedFirst, Client
<1>7. QED
  BY <1>1, <1>2, <1>3, <1>4, <1>5, <1>6 DEF IInv, KeyInv

\* A rewrite of positions touches nothing else.
LEMMA RewriteType ==
  ASSUME NEW rows \in [Keys -> Row], NEW p, \A k \in DOMAIN p : p[k] \in Nat
  PROVE  /\ Rewrite(rows, p) \in [Keys -> Row]
         /\ \A k \in Keys : /\ Rewrite(rows, p)[k].live = rows[k].live
                            /\ Rewrite(rows, p)[k].room = rows[k].room
                            /\ Rewrite(rows, p)[k].assoc = rows[k].assoc
                            /\ Rewrite(rows, p)[k].position =
                                 IF k \in DOMAIN p THEN p[k] ELSE rows[k].position
BY DEF Rewrite, Row

LEMMA DetachedType ==
  ASSUME NEW t \in Task
  PROVE  Detached(t) \in Task
BY DEF Detached, Insert, Task

LEMMA RemoveType ==
  ASSUME NEW t \in Task
  PROVE  Remove(t) \in Task /\ Remove(t).reason = "NONE" /\ Remove(t).overrun = t.overrun
BY DEF Remove, Task

LEMMA DeleteRoomKeeps ==
  ASSUME IInv, NEW c \in Clients, DeleteRoom(c)
  PROVE  IInv'
<1>1. PICK r \in rooms :
        LET mine == {k \in Keys : row[k].live /\ row[k].room = r}
        IN  /\ rooms' = rooms \ {r}
            /\ row' = [k \in Keys |-> IF k \in mine THEN NoRow ELSE row[k]]
            /\ task' = [k \in Keys |-> IF k \in mine THEN Detached(task[k]) ELSE task[k]]
            /\ UNCHANGED <<objects, cleaner, faults, client, used, stalled>>
  BY DEF DeleteRoom
<1> DEFINE mine == {k \in Keys : row[k].live /\ row[k].room = r}
<1>2. /\ mine \in SUBSET Keys /\ \A i \in mine : row[i].live = TRUE
      /\ NoRow \in Row /\ NoRow.live = FALSE
  BY DEF NoRow, Row, IInv, TypeInv, Associations
<1>3. row' \in [Keys -> Row] /\ task' \in [Keys -> Task]
  BY <1>1, <1>2, DetachedType DEF IInv, TypeInv
<1>4. \A i \in Keys : IF i \in mine THEN row'[i].live = FALSE /\ task'[i] = Detached(task[i])
                      ELSE /\ row'[i].live = row[i].live /\ row'[i].room = row[i].room
                           /\ task'[i] = task[i]
  BY <1>1, <1>2
<1>5. \A i \in Keys : row'[i].live = TRUE => row[i].room \in rooms'
  <2> SUFFICES ASSUME NEW i \in Keys, row'[i].live = TRUE PROVE row[i].room \in rooms'
    OBVIOUS
  <2>1. i \notin mine /\ row[i].live = TRUE
    BY <1>4
  <2>2. row[i].room \in rooms /\ row[i].room # r
    BY <2>1 DEF IInv, KeyInv, LiveSound
  <2>3. QED
    BY <1>1, <2>2
<1>6. rooms' \subseteq rooms /\ client' = client /\ client' \in [Clients -> Client]
      /\ UNCHANGED <<objects, cleaner, faults, used, stalled>>
  BY <1>1 DEF IInv, TypeInv
<1> HIDE DEF mine
<1>7. QED
  BY <1>2, <1>3, <1>4, <1>5, <1>6, RowsGo

LEMMA ReorderKeeps ==
  ASSUME IInv, NEW c \in Clients, Reorder(c)
  PROVE  IInv'
<1>1. PICK r \in rooms : \E p \in Orders(Target(r, "ALBUM")) :
         row' = Rewrite(row, p) /\ UNCHANGED <<task, objects, cleaner, faults, rooms, client, used, stalled>>
  BY DEF Reorder, cleanupVars
<1>2. PICK p \in Orders(Target(r, "ALBUM")) :
         row' = Rewrite(row, p) /\ UNCHANGED <<task, objects, cleaner, faults, rooms, client, used, stalled>>
  BY <1>1
<1>3. \A k \in DOMAIN p : p[k] \in Nat
  BY DEF Orders
<1>4. /\ row' \in [Keys -> Row]
      /\ \A k \in Keys : row'[k].live = row[k].live /\ row'[k].room = row[k].room
  BY <1>2, <1>3, RewriteType DEF IInv, TypeInv
<1>5. /\ \A i \in Keys : row'[i].live = TRUE => row[i].room \in rooms'
      /\ task' = task /\ task' \in [Keys -> Task] /\ rooms' \subseteq rooms
      /\ client' = client /\ client' \in [Clients -> Client]
  BY <1>2, <1>4 DEF IInv, TypeInv, KeyInv, LiveSound
<1> DEFINE gone == {}
<1>6. /\ gone \in SUBSET Keys /\ \A i \in gone : row[i].live = TRUE
      /\ \A i \in Keys : IF i \in gone THEN row'[i].live = FALSE /\ task'[i] = Detached(task[i])
                         ELSE /\ row'[i].live = row[i].live /\ row'[i].room = row[i].room
                              /\ task'[i] = task[i]
  BY <1>4, <1>5
<1> HIDE DEF gone
<1>7. QED
  BY <1>2, <1>4, <1>5, <1>6, RowsGo


-----------------------------------------------------------------------------
(***************************************************************************)
(* Counting.                                                               *)
(***************************************************************************)
\* f numbers the n things of S onto 0..n-1; the rank of a thing counts those before it.
IsNumbering(f, S) == f \in [S -> Nat] /\ {f[k] : k \in S} = 0 .. Cardinality(S) - 1
Ranks(f, R) == [k \in R |-> Cardinality({i \in R : f[i] < f[k]})]

\* A numbering of n things onto 0..n-1 numbers no two alike.
LEMMA NumberingInjective ==
  ASSUME NEW S, IsFiniteSet(S), NEW f, IsNumbering(f, S),
         NEW i \in S, NEW j \in S, f[i] = f[j]
  PROVE  i = j
<1> DEFINE T == 0 .. Cardinality(S) - 1
<1>0. f \in [S -> Nat] /\ {f[k] : k \in S} = T
  BY DEF IsNumbering
<1>1. Cardinality(S) \in Nat
  BY FS_CardinalityType
<1>2. Cardinality(T) = Cardinality(S)
  BY <1>1, FS_Interval
<1>3. f \in [S -> T]
  <2>1. \A k \in S : f[k] \in {f[m] : m \in S}
    OBVIOUS
  <2>2. QED
    BY <1>0, <2>1
<1>4. \A q \in T : \E k \in S : f[k] = q
  <2>1. \A q \in {f[m] : m \in S} : \E k \in S : f[k] = q
    OBVIOUS
  <2>2. QED
    BY <1>0, <2>1
<1>5. f \in Surjection(S, T)
  BY <1>3, <1>4, Zenon DEF Surjection
<1> HIDE DEF T
<1>6. f \in Injection(S, T)
  BY <1>2, <1>5, FS_SurjSameCardinalityImpliesInj
<1>7. QED
  BY <1>6, Zenon DEF Injection, IsInjective

\* An injective numbering of n things within 0..n-1 leaves no number out.
LEMMA OrderIsNumbering ==
  ASSUME NEW S, IsFiniteSet(S), NEW p \in Orders(S)
  PROVE  IsNumbering(p, S)
<1> DEFINE T == 0 .. Cardinality(S) - 1
<1>1. Cardinality(S) \in Nat
  BY FS_CardinalityType
<1>2. Cardinality(T) = Cardinality(S) /\ IsFiniteSet(T)
  BY <1>1, FS_Interval
<1>3. p \in [S -> T] /\ p \in Injection(S, T)
  BY Zenon DEF Orders, Injection
<1> HIDE DEF T
<1>4. p \in Surjection(S, T)
  BY <1>2, <1>3, FS_Injection
<1>5. \A q \in T : \E k \in S : p[k] = q
  BY <1>4 DEF Surjection
<1>6. {p[k] : k \in S} = T
  BY <1>3, <1>5
<1>7. p \in [S -> Nat]
  BY DEF Orders
<1>8. QED
  BY <1>6, <1>7 DEF T, IsNumbering

\* Below a number there are as many things as it says.
LEMMA CountBelow ==
  ASSUME NEW S, IsFiniteSet(S), NEW f, IsNumbering(f, S),
         NEW q \in 0 .. Cardinality(S)
  PROVE  /\ IsFiniteSet({k \in S : f[k] < q})
         /\ Cardinality({k \in S : f[k] < q}) = q
<1> DEFINE L == {k \in S : f[k] < q}
           T == 0 .. q - 1
           g == [k \in L |-> f[k]]
<1>0. f \in [S -> Nat] /\ {f[k] : k \in S} = 0 .. Cardinality(S) - 1
  BY DEF IsNumbering
<1>1. Cardinality(S) \in Nat /\ q \in Nat
  BY FS_CardinalityType
<1>2. Cardinality(T) = q
  BY <1>1, FS_Interval
<1>3. IsFiniteSet(L)
  BY FS_Subset
<1>4. g \in [L -> T]
  BY <1>0, <1>1
<1>5. \A t \in T : \E k \in L : g[k] = t
  <2> SUFFICES ASSUME NEW t \in T PROVE \E k \in L : g[k] = t
    OBVIOUS
  <2>0. t \in 0 .. Cardinality(S) - 1
    BY <1>1
  <2>1. t \in {f[k] : k \in S}
    BY <1>0, <2>0, Zenon
  <2>2. PICK k \in S : f[k] = t
    BY <2>1
  <2>3. k \in L /\ g[k] = t
    BY <1>1, <2>2
  <2>4. QED
    BY <2>3
<1>6. \A i, j \in L : g[i] = g[j] => i = j
  BY NumberingInjective
<1> HIDE DEF L, T, g
<1>7. g \in Surjection(L, T)
  BY <1>4, <1>5 DEF Surjection
<1>8. g \in Injection(L, T)
  BY <1>4, <1>6 DEF Injection, IsInjective
<1>9. Cardinality(T) = Cardinality(L)
  BY <1>3, <1>7, <1>8, FS_Surjection
<1>10. QED
  BY <1>2, <1>3, <1>9 DEF L


\* When one image goes, the ranks of the others close the gap.
LEMMA RanksClose ==
  ASSUME NEW S, IsFiniteSet(S), NEW f, IsNumbering(f, S), NEW x \in S
  PROVE  /\ IsFiniteSet(S \ {x}) /\ Cardinality(S \ {x}) = Cardinality(S) - 1
         /\ IsNumbering(Ranks(f, S \ {x}), S \ {x})
<1> DEFINE R == S \ {x}
           g == [k \in R |-> Cardinality({i \in R : f[i] < f[k]})]
           n == Cardinality(S)
           Below(k) == {i \in R : f[i] < f[k]}
           Low(k) == {i \in S : f[i] < f[k]}
<1>0. f \in [S -> Nat] /\ {f[k] : k \in S} = 0 .. n - 1
  BY DEF IsNumbering
<1>1. n \in Nat /\ n # 0
  BY FS_CardinalityType, FS_EmptySet
<1>2. IsFiniteSet(R) /\ Cardinality(R) = n - 1
  BY FS_RemoveElement
<1>3. \A k \in S : f[k] \in 0 .. n - 1
  <2>1. \A k \in S : f[k] \in {f[m] : m \in S}
    OBVIOUS
  <2>2. QED
    BY <1>0, <2>1, Zenon
<1>4. \A k \in R : f[k] # f[x]
  BY NumberingInjective
<1>5. \A k \in S : IsFiniteSet(Low(k)) /\ Cardinality(Low(k)) = f[k]
  <2> SUFFICES ASSUME NEW k \in S PROVE IsFiniteSet(Low(k)) /\ Cardinality(Low(k)) = f[k]
    OBVIOUS
  <2>1. f[k] \in 0 .. Cardinality(S)
    BY <1>1, <1>3
  <2>2. QED
    BY <2>1, CountBelow
<1>6. \A k \in R : Cardinality(Below(k)) = IF f[k] < f[x] THEN f[k] ELSE f[k] - 1
  <2> SUFFICES ASSUME NEW k \in R
               PROVE  Cardinality(Below(k)) = IF f[k] < f[x] THEN f[k] ELSE f[k] - 1
    OBVIOUS
  <2>1. Below(k) = Low(k) \ {x}
    OBVIOUS
  <2>2. x \in Low(k) <=> ~(f[k] < f[x])
    BY <1>0, <1>4
  <2>3. IsFiniteSet(Low(k)) /\ Cardinality(Low(k)) = f[k]
    BY <1>5
  <2> HIDE DEF Low, Below
  <2>4. Cardinality(Low(k) \ {x}) = IF x \in Low(k) THEN Cardinality(Low(k)) - 1
                                                    ELSE Cardinality(Low(k))
    BY <2>3, FS_RemoveElement
  <2>5. QED
    BY <2>1, <2>2, <2>3, <2>4
<1>7. \A k \in R : g[k] = IF f[k] < f[x] THEN f[k] ELSE f[k] - 1
  BY <1>6
<1>dom. DOMAIN g = R /\ g = [k \in R |-> g[k]]
  OBVIOUS
<1> HIDE DEF g
<1>8. \A k \in R : g[k] \in 0 .. n - 2
  BY <1>1, <1>3, <1>4, <1>7
<1>9. \A q \in 0 .. n - 2 : \E k \in R : g[k] = q
  <2> SUFFICES ASSUME NEW q \in 0 .. n - 2 PROVE \E k \in R : g[k] = q
    OBVIOUS
  <2>1. \A t \in 0 .. n - 1 : \E k \in S : f[k] = t
    <3>1. \A t \in {f[m] : m \in S} : \E k \in S : f[k] = t
      OBVIOUS
    <3>2. QED
      BY <1>0, <3>1, Zenon
  <2>2. CASE q < f[x]
    <3>1. PICK k \in S : f[k] = q
      BY <1>1, <2>1
    <3>2. k \in R /\ g[k] = q
      BY <1>3, <1>7, <2>2, <3>1
    <3>3. QED
      BY <3>2
  <2>3. CASE ~(q < f[x])
    <3>1. PICK k \in S : f[k] = q + 1
      BY <1>1, <2>1
    <3>2. k \in R /\ g[k] = q
      BY <1>3, <1>7, <2>3, <3>1
    <3>3. QED
      BY <3>2
  <2>4. QED
    BY <2>2, <2>3
<1>10. g \in [R -> Nat]
  BY <1>1, <1>dom, <1>8
<1>11. {g[k] : k \in R} = 0 .. Cardinality(R) - 1
  <2> HIDE DEF R
  <2>1. Cardinality(R) - 1 = n - 2
    BY <1>1, <1>2
  <2>2. {g[k] : k \in R} = 0 .. n - 2
    BY <1>8, <1>9
  <2>3. QED
    BY <2>1, <2>2
<1>12. QED
  BY <1>2, <1>10, <1>11 DEF IsNumbering, Ranks, g


\* A target as the counting lemmas see it.
LEMMA TargetIsNumbering ==
  ASSUME IInv, AlbumInv, NEW r \in Rooms, NEW a \in Associations
  PROVE  LET S == Target(r, a)
             f == [k \in S |-> row[k].position]
         IN  /\ S \subseteq Keys /\ IsFiniteSet(S) /\ Cardinality(S) \in Nat
             /\ Cardinality(S) <= MaxCount(a)
             /\ IsNumbering(f, S)
<1> DEFINE S == Target(r, a)
           f == [k \in S |-> row[k].position]
<1>1. S \subseteq Keys /\ f \in [S -> Nat]
  BY DEF Target, IInv, TypeInv, Row
<1>2. /\ IsFiniteSet(S) /\ {row[k].position : k \in S} = 0 .. Cardinality(S) - 1
      /\ Cardinality(S) <= MaxCount(a)
  BY DEF AlbumInv, TargetSound, Numbered
<1> HIDE DEF S
<1>3. {f[k] : k \in S} = {row[k].position : k \in S}
  OBVIOUS
<1>4. Cardinality(S) \in Nat
  BY <1>2, FS_CardinalityType
<1>5. QED
  BY <1>1, <1>2, <1>3, <1>4 DEF S, IsNumbering

\* A step that leaves the members of a target and their positions leaves it sound.
LEMMA SameTarget ==
  ASSUME NEW r, NEW a, TargetSound(r, a), Target(r, a)' = Target(r, a),
         \A k \in Target(r, a) : row'[k].position = row[k].position
  PROVE  TargetSound(r, a)'
<1>1. {row'[k].position : k \in Target(r, a)} = {row[k].position : k \in Target(r, a)}
  OBVIOUS
<1>2. QED
  BY <1>1 DEF TargetSound, Numbered

LEMMA RowsKept ==
  ASSUME AlbumInv, UNCHANGED row
  PROVE  AlbumInv'
<1> SUFFICES ASSUME NEW r \in Rooms, NEW a \in Associations PROVE TargetSound(r, a)'
  BY DEF AlbumInv
<1>1. Target(r, a)' = Target(r, a)
  BY DEF Target
<1>2. TargetSound(r, a)
  BY DEF AlbumInv
<1>3. QED
  BY <1>1, <1>2, SameTarget

LEMMA AlbumInit == Init => AlbumInv
<1> SUFFICES ASSUME Init, NEW r \in Rooms, NEW a \in Associations PROVE TargetSound(r, a)
  BY DEF AlbumInv
<1>1. Target(r, a) = {}
  BY DEF Init, Target, NoRow
<1>2. IsFiniteSet({}) /\ Cardinality({}) = 0
  BY FS_EmptySet
<1>3. MaxCount(a) \in Nat
  BY AttachmentsAssumption DEF MaxCount
<1>4. {row[k].position : k \in {}} = 0 .. 0 - 1
  OBVIOUS
<1>5. QED
  BY <1>1, <1>2, <1>3, <1>4 DEF TargetSound, Numbered

LEMMA DetachKeeps ==
  ASSUME IInv, AlbumInv, NEW c \in Clients, Detach(c)
  PROVE  IInv' /\ AlbumInv'
<1>1. PICK k \in Keys :
        /\ row[k].live = TRUE
        /\ row' = Rewrite([row EXCEPT ![k] = NoRow],
                          Ranked(Target(row[k].room, row[k].assoc) \ {k}))
        /\ task' = [task EXCEPT ![k] = Detached(task[k])]
        /\ client' = [client EXCEPT ![c] = [Waiting EXCEPT !.pc = "remove", !.key = k]]
        /\ UNCHANGED <<objects, cleaner, faults, rooms, used, stalled>>
  <2>1. \A k \in Keys : row[k].live \in BOOLEAN
    BY DEF IInv, TypeInv, Row
  <2>2. QED
    BY <2>1 DEF Detach, Removes
<1> DEFINE r0 == row[k].room
           a0 == row[k].assoc
           S == Target(r0, a0)
           R == S \ {k}
           f == [i \in S |-> row[i].position]
           g == Ranks(f, R)
           emptied == [row EXCEPT ![k] = NoRow]
<1>2. r0 \in rooms /\ r0 \in Rooms /\ a0 \in Associations /\ k \in S
  BY <1>1 DEF IInv, TypeInv, KeyInv, LiveSound, Row, Target
<1>3. /\ S \subseteq Keys /\ IsFiniteSet(S) /\ Cardinality(S) \in Nat /\ Cardinality(S) <= MaxCount(a0)
      /\ IsNumbering(f, S)
  BY <1>2, TargetIsNumbering
<1>4. /\ IsFiniteSet(R) /\ Cardinality(R) = Cardinality(S) - 1
      /\ g \in [R -> Nat] /\ {g[i] : i \in R} = 0 .. Cardinality(R) - 1
  <2> HIDE DEF S, f
  <2>1. IsFiniteSet(R) /\ Cardinality(R) = Cardinality(S) - 1 /\ IsNumbering(g, R)
    BY <1>2, <1>3, RanksClose
  <2>2. QED
    BY <2>1 DEF IsNumbering
<1>5. Ranked(R) = g
  <2>1. \A i \in R : {j \in R : f[j] < f[i]} = {j \in R : row[j].position < row[i].position}
    OBVIOUS
  <2>2. QED
    BY <2>1, Zenon DEF Ranked, Ranks
<1>6. /\ emptied \in [Keys -> Row] /\ emptied[k].live = FALSE
      /\ \A i \in Keys : i # k => emptied[i] = row[i]
  BY DEF IInv, TypeInv, NoRow, Row, Associations
<1>7. row' = Rewrite(emptied, g) /\ DOMAIN g = R /\ R \subseteq Keys
  BY <1>1, <1>3, <1>5 DEF Ranks
<1>8. k \notin R
  OBVIOUS
<1> HIDE DEF g, emptied
<1>9. \A i \in DOMAIN g : g[i] \in Nat
  <2> HIDE DEF R
  <2>1. QED
    BY <1>4, <1>7
<1>10. /\ row' \in [Keys -> Row] /\ row'[k].live = FALSE
       /\ \A i \in Keys : i # k =>
            /\ row'[i].live = row[i].live /\ row'[i].room = row[i].room /\ row'[i].assoc = row[i].assoc
            /\ row'[i].position = IF i \in R THEN g[i] ELSE row[i].position
  <2> HIDE DEF R
  <2>1. QED
    BY <1>6, <1>7, <1>9, RewriteType
<1>11. IInv'
  <2> DEFINE gone == {k}
             w == [Waiting EXCEPT !.pc = "remove", !.key = k]
  <2>1. gone \in SUBSET Keys /\ \A i \in gone : row[i].live = TRUE
    BY <1>1
  <2>2. /\ task' \in [Keys -> Task]
        /\ task'[k] = Detached(task[k]) /\ \A i \in Keys : i # k => task'[i] = task[i]
    BY <1>1, DetachedType DEF IInv, TypeInv
  <2>3. \A i \in Keys : IF i \in gone THEN row'[i].live = FALSE /\ task'[i] = Detached(task[i])
                        ELSE /\ row'[i].live = row[i].live /\ row'[i].room = row[i].room
                             /\ task'[i] = task[i]
    BY <1>10, <2>2
  <2>4. \A i \in Keys : row'[i].live = TRUE => row[i].room \in rooms'
    BY <1>1, <1>10 DEF IInv, KeyInv, LiveSound
  <2>5. w \in Client /\ w.pc = "remove" /\ w.key = k
    BY DEF Waiting, Client, Associations
  <2>6. client' = [client EXCEPT ![c] = w] /\ client \in [Clients -> Client]
    BY <1>1 DEF IInv, TypeInv
  <2> HIDE DEF w
  <2>7. /\ client' \in [Clients -> Client]
        /\ \A d \in Clients :
             client'[d] = client[d] \/ (client'[d].pc = "remove" /\ client'[d].key \in gone)
    BY <2>5, <2>6
  <2> HIDE DEF gone
  <2>8. QED
    BY <1>1, <1>10, <2>1, <2>2, <2>3, <2>4, <2>7, RowsGo
<1>12. AlbumInv'
  <2> SUFFICES ASSUME NEW r \in Rooms, NEW a \in Associations PROVE TargetSound(r, a)'
    BY DEF AlbumInv
  <2>1. CASE r = r0 /\ a = a0
    <3>1. Target(r, a)' = R
      BY <1>10, <2>1 DEF Target
    <3>2. {row'[i].position : i \in R} = {g[i] : i \in R}
      <4>1. \A i \in R : row'[i].position = g[i]
        BY <1>3, <1>8, <1>10
      <4> HIDE DEF R
      <4>2. QED
        BY <4>1
    <3>3. Cardinality(R) <= MaxCount(a)
      BY <1>3, <1>4, <2>1, AttachmentsAssumption DEF MaxCount
    <3> HIDE DEF R
    <3>4. QED
      BY <1>4, <3>1, <3>2, <3>3 DEF TargetSound, Numbered, MaxCount
  <2>2. CASE ~(r = r0 /\ a = a0)
    <3>1. Target(r, a)' = Target(r, a)
      BY <1>1, <1>10, <2>2 DEF Target
    <3>2. \A i \in Target(r, a) : row'[i].position = row[i].position
      BY <1>1, <1>10, <2>2 DEF Target
    <3>3. TargetSound(r, a)
      BY DEF AlbumInv
    <3>4. QED
      BY <3>1, <3>2, <3>3, SameTarget
  <2>3. QED
    BY <2>1, <2>2
<1>13. QED
  BY <1>11, <1>12


-----------------------------------------------------------------------------
(***************************************************************************)
(* The transaction that publishes an image.                                *)
(***************************************************************************)
LEMMA CompleteUploadKeeps ==
  ASSUME IInv, AlbumInv, NEW c \in Clients, CompleteUpload(c)
  PROVE  IInv' /\ AlbumInv'
<1> DEFINE k == client[c].key
           r0 == client[c].room
           a0 == client[c].assoc
           S == Target(r0, a0)
           D == Replaced(r0, a0)
           w(i) == [Waiting EXCEPT !.pc = "remove", !.key = i]
<1>1. /\ client[c].pc = "complete" /\ k \in Keys /\ client[c] \in Client /\ a0 \in Associations
      /\ row[k].live = FALSE
      /\ UNCHANGED <<objects, cleaner, faults, rooms, used, stalled>>
  BY DEF CompleteUpload, IInv, TypeInv, KeyInv, UploadSound, Client
<1>2. CASE ~UploadAllowed(c)
  <2>1. client' = [client EXCEPT ![c] = Waiting] /\ UNCHANGED <<task, row>>
    BY <1>2 DEF CompleteUpload, Ends
  <2>2. faults' \in Nat
    BY <1>1 DEF IInv, TypeInv
  <2>3. IInv'
    BY <1>1, <2>1, <2>2, RequestEnds
  <2>4. AlbumInv'
    BY <2>1, RowsKept
  <2>5. QED
    BY <2>3, <2>4
<1>3. CASE UploadAllowed(c)
  <2>1. /\ r0 \in rooms /\ r0 \in Rooms /\ WithinLimit(r0, a0)
        /\ task[k].reason = "UPLOAD_SAFEGUARD" /\ task[k].lease = "none"
    BY <1>3 DEF UploadAllowed, SafeguardFree, IInv, TypeInv
  <2>2. /\ row' = [i \in Keys |-> IF i = k THEN Attached(c) ELSE IF i \in D THEN NoRow ELSE row[i]]
        /\ task' = [i \in Keys |-> IF i = k THEN Remove(task[i])
                                   ELSE IF i \in D THEN Detached(task[i]) ELSE task[i]]
        /\ \/ client' = [client EXCEPT ![c] = Waiting]
           \/ \E i \in D : client' = [client EXCEPT ![c] = w(i)]
    BY <1>3 DEF CompleteUpload, Ends, Removes
  <2>3. /\ S \subseteq Keys /\ IsFiniteSet(S) /\ Cardinality(S) \in Nat
        /\ {row[i].position : i \in S} = 0 .. Cardinality(S) - 1
        /\ Cardinality(S) <= MaxCount(a0)
    BY <1>1, <2>1, FS_CardinalityType DEF AlbumInv, TargetSound, Numbered, Target
  <2>4. D \subseteq S /\ k \notin S /\ \A i \in S : row[i].live = TRUE
    BY <1>1 DEF Replaced, Target, IInv, TypeInv, Row
  <2>5. /\ NoRow \in Row /\ NoRow.live = FALSE
        /\ Attached(c) \in Row /\ Attached(c).live = TRUE /\ Attached(c).room = r0
        /\ Attached(c).assoc = a0 /\ Attached(c).position = NextPosition(r0, a0)
    BY <1>1, <2>1, <2>3 DEF NoRow, Row, Associations, Attached, NextPosition
  <2>6. Remove(task[k]) \in Task /\ Remove(task[k]).reason = "NONE" /\ task[k] \in Task
        /\ Remove(task[k]).overrun = task[k].overrun
    BY <1>1, RemoveType DEF IInv, TypeInv
  <2>7. /\ row' \in [Keys -> Row] /\ row'[k] = Attached(c)
        /\ \A i \in Keys : i # k => row'[i] = IF i \in D THEN NoRow ELSE row[i]
    BY <1>1, <2>2, <2>5 DEF IInv, TypeInv
  <2>8. /\ task' \in [Keys -> Task] /\ task'[k] = Remove(task[k])
        /\ \A i \in Keys : i # k => task'[i] = IF i \in D THEN Detached(task[i]) ELSE task[i]
    BY <1>1, <2>2, <2>6, DetachedType DEF IInv, TypeInv
  <2>9. \A i \in D : w(i) \in Client /\ w(i).pc = "remove" /\ w(i).key = i
    BY <2>3, <2>4 DEF Waiting, Client, Associations
  <2>10. Waiting \in Client /\ Waiting.pc = "idle"
    BY DEF Waiting, Client, Associations
  <2> HIDE DEF w
  <2>11. /\ client' \in [Clients -> Client]
         /\ \A d \in Clients : d # c => client'[d] = client[d]
         /\ client'[c].pc = "idle" \/ (client'[c].pc = "remove" /\ client'[c].key \in D)
    BY <2>2, <2>9, <2>10 DEF IInv, TypeInv
  <2>12. \A i \in D : /\ Detached(task[i]).reason = "DETACHED_OBJECT" /\ i \in used /\ i # k
                      /\ \A d \in Clients : ~Serves(d, i)
    BY <2>3, <2>4, <1>1 DEF Detached, Insert, IInv, TypeInv, KeyInv, Untouched, LiveSound
  <2>13. /\ k \in used /\ \A d \in Clients : Serves(d, k) => d = c
         /\ task[k].overrun = FALSE => \A d \in Cleaners : ~Holds(d, k)
    BY <1>1, <2>1 DEF IInv, KeyInv, Untouched, UploadSound, LeaseSound
  <2>14. D \subseteq Keys /\ \A i \in D : row[i].live = TRUE
    BY <2>3, <2>4
  <2>15. IInv'
    <3> HIDE DEF k, r0, a0, S, D
    <3>1. TypeInv'
      BY <1>1, <2>7, <2>8, <2>11, <2>14 DEF IInv, TypeInv
    <3>2. \A i \in Keys : Untouched(i)'
      BY <1>1, <2>5, <2>6, <2>7, <2>8, <2>11, <2>12, <2>13, <2>14 DEF IInv, TypeInv, KeyInv, Untouched
    <3>3. \A i \in Keys : LiveSound(i)'
      BY <1>1, <2>1, <2>5, <2>6, <2>7, <2>8, <2>11, <2>12, <2>13, <2>14
         DEF IInv, TypeInv, KeyInv, LiveSound
    <3>4. \A i \in Keys : Covered(i)'
      BY <1>1, <2>5, <2>7, <2>8, <2>12 DEF IInv, KeyInv, Covered
    <3>5. \A i \in Keys : LeaseSound(i)'
      BY <1>1, <2>5, <2>6, <2>7, <2>8, <2>12, <2>13 DEF IInv, KeyInv, LeaseSound
    <3>6. \A d \in Clients : UploadSound(d)'
      BY <1>1, <2>5, <2>6, <2>7, <2>8, <2>11, <2>12, <2>13, <2>14
         DEF IInv, TypeInv, KeyInv, UploadSound
    <3>7. DeletedFirst'
      BY <1>1, <2>11 DEF IInv, KeyInv, DeletedFirst
    <3>8. QED
      BY <3>1, <3>2, <3>3, <3>4, <3>5, <3>6, <3>7 DEF IInv, KeyInv
  <2>16. AlbumInv'
    <3> SUFFICES ASSUME NEW r \in Rooms, NEW a \in Associations PROVE TargetSound(r, a)'
      BY DEF AlbumInv
    <3>1. CASE r = r0 /\ a = a0 /\ MaxCount(a0) = 1
      <4>1. D = S /\ NextPosition(r0, a0) = 0
        BY <3>1 DEF Replaced, NextPosition
      <4>2. Target(r, a)' = {k}
        BY <1>1, <2>3, <2>4, <2>5, <2>7, <3>1, <4>1 DEF Target
      <4>3. row'[k].position = 0
        BY <2>5, <2>7, <4>1
      <4> HIDE DEF k, r0, a0, S, D
      <4>4. IsFiniteSet({k}) /\ Cardinality({k}) = 1
        BY FS_Singleton
      <4>5. {row'[i].position : i \in {k}} = 0 .. 1 - 1
        BY <4>3
      <4>6. QED
        BY <3>1, <4>2, <4>4, <4>5 DEF TargetSound, Numbered, MaxCount
    <3>2. CASE r = r0 /\ a = a0 /\ MaxCount(a0) # 1
      <4>1. D = {} /\ NextPosition(r0, a0) = Cardinality(S) /\ Cardinality(S) < MaxCount(a0)
        BY <2>1, <3>2 DEF Replaced, NextPosition, WithinLimit
      <4>2. Target(r, a)' = S \cup {k}
        BY <1>1, <2>3, <2>4, <2>5, <2>7, <3>2, <4>1 DEF Target
      <4>3. row'[k].position = Cardinality(S) /\ \A i \in S : row'[i].position = row[i].position
        BY <2>3, <2>4, <2>5, <2>7, <4>1
      <4> HIDE DEF k, r0, a0, S, D
      <4>4. IsFiniteSet(S \cup {k}) /\ Cardinality(S \cup {k}) = Cardinality(S) + 1
        BY <2>3, <2>4, FS_AddElement
      <4>5. {row'[i].position : i \in S \cup {k}} = {row[i].position : i \in S} \cup {Cardinality(S)}
        BY <4>3
      <4>6. (0 .. Cardinality(S) - 1) \cup {Cardinality(S)} = 0 .. Cardinality(S \cup {k}) - 1
        BY <2>3, <4>4
      <4>7. {row'[i].position : i \in S \cup {k}} = 0 .. Cardinality(S \cup {k}) - 1
        BY <2>3, <4>5, <4>6, Zenon
      <4>8. Cardinality(S \cup {k}) <= MaxCount(a)
        BY <2>3, <3>2, <4>1, <4>4, AttachmentsAssumption DEF MaxCount
      <4>9. MaxCount(a)' = MaxCount(a)
        BY DEF MaxCount
      <4>10. QED
        BY <4>2, <4>4, <4>7, <4>8, <4>9, Zenon DEF TargetSound, Numbered
    <3>3. CASE ~(r = r0 /\ a = a0)
      <4>1. Target(r, a)' = Target(r, a)
        <5>1. \A i \in Keys : i \in Target(r, a)' <=> i \in Target(r, a)
          BY <1>1, <2>3, <2>4, <2>5, <2>7, <3>3 DEF Target, Replaced
        <5>2. Target(r, a)' \subseteq Keys /\ Target(r, a) \subseteq Keys
          BY DEF Target
        <5>3. QED
          BY <5>1, <5>2
      <4>2. \A i \in Target(r, a) : row'[i].position = row[i].position
        BY <1>1, <2>4, <2>7, <3>3 DEF Target, Replaced
      <4>3. TargetSound(r, a)
        BY DEF AlbumInv
      <4>4. QED
        BY <4>1, <4>2, <4>3, SameTarget
    <3>4. QED
      BY <3>1, <3>2, <3>3
  <2>17. QED
    BY <2>15, <2>16
<1>4. QED
  BY <1>2, <1>3


LEMMA ReorderKeepsAlbums ==
  ASSUME IInv, AlbumInv, NEW c \in Clients, Reorder(c)
  PROVE  AlbumInv'
<1>1. PICK r0 \in rooms : \E p \in Orders(Target(r0, "ALBUM")) : row' = Rewrite(row, p)
  BY DEF Reorder
<1> DEFINE S == Target(r0, "ALBUM")
<1>2. PICK p \in Orders(S) : row' = Rewrite(row, p)
  BY <1>1
<1>3. DOMAIN p = S /\ \A i \in DOMAIN p : p[i] \in Nat
  BY DEF Orders
<1>4. /\ row' \in [Keys -> Row]
      /\ \A i \in Keys : /\ row'[i].live = row[i].live /\ row'[i].room = row[i].room
                         /\ row'[i].assoc = row[i].assoc
                         /\ row'[i].position = IF i \in S THEN p[i] ELSE row[i].position
  BY <1>2, <1>3, RewriteType DEF IInv, TypeInv
<1> SUFFICES ASSUME NEW r \in Rooms, NEW a \in Associations PROVE TargetSound(r, a)'
  BY DEF AlbumInv
<1>5. Target(r, a)' = Target(r, a) /\ TargetSound(r, a) /\ Target(r, a) \subseteq Keys
  BY <1>4 DEF AlbumInv, Target
<1>6. CASE r = r0 /\ a = "ALBUM"
  <2>1. Target(r, a) = S /\ IsFiniteSet(S) /\ S \subseteq Keys
    BY <1>5, <1>6 DEF TargetSound
  <2> HIDE DEF S
  <2>2. {p[i] : i \in S} = 0 .. Cardinality(S) - 1
    BY <2>1, OrderIsNumbering DEF IsNumbering
  <2>3. {row'[i].position : i \in S} = {p[i] : i \in S}
    BY <1>4, <2>1
  <2>4. MaxCount(a)' = MaxCount(a)
    BY DEF MaxCount
  <2>5. QED
    BY <1>5, <2>1, <2>2, <2>3, <2>4, Zenon DEF TargetSound, Numbered
<1>7. CASE ~(r = r0 /\ a = "ALBUM")
  <2>1. \A i \in Target(r, a) : row'[i].position = row[i].position
    BY <1>4, <1>7 DEF Target
  <2>2. QED
    BY <1>5, <2>1, SameTarget
<1>8. QED
  BY <1>6, <1>7

LEMMA DeleteRoomKeepsAlbums ==
  ASSUME IInv, AlbumInv, NEW c \in Clients, DeleteRoom(c)
  PROVE  AlbumInv'
<1>1. PICK r0 \in rooms :
        row' = [k \in Keys |-> IF row[k].live /\ row[k].room = r0 THEN NoRow ELSE row[k]]
  BY DEF DeleteRoom
<1>2. NoRow.live = FALSE
  BY DEF NoRow
<1> SUFFICES ASSUME NEW r \in Rooms, NEW a \in Associations PROVE TargetSound(r, a)'
  BY DEF AlbumInv
<1>3. CASE r = r0
  <2>1. Target(r, a)' = {}
    BY <1>1, <1>2, <1>3 DEF Target
  <2>2. IsFiniteSet({}) /\ Cardinality({}) = 0
    BY FS_EmptySet
  <2>3. MaxCount(a) \in Nat /\ MaxCount(a)' = MaxCount(a)
    BY AttachmentsAssumption DEF MaxCount
  <2>4. {row'[k].position : k \in {}} = 0 .. 0 - 1
    OBVIOUS
  <2>5. QED
    BY <2>1, <2>2, <2>3, <2>4 DEF TargetSound, Numbered
<1>4. CASE r # r0
  <2>1. Target(r, a)' = Target(r, a)
    BY <1>1, <1>2, <1>4 DEF Target
  <2>2. \A i \in Target(r, a) : row'[i].position = row[i].position
    BY <1>1, <1>4 DEF Target
  <2>3. TargetSound(r, a)
    BY DEF AlbumInv
  <2>4. QED
    BY <2>1, <2>2, <2>3, SameTarget
<1>5. QED
  BY <1>3, <1>4

\* The offset lifts an album clear of every position it has or will have.
LEMMA RewritesApart ==
  ASSUME IInv, AlbumInv
  PROVE  RewriteNeverCollides
<1> SUFFICES ASSUME NEW r \in Rooms, NEW p \in Orders(Target(r, "ALBUM")),
                    NEW q \in Midway(Target(r, "ALBUM"), p)
             PROVE  IsInjective(q)
  BY DEF RewriteNeverCollides
<1> DEFINE S == Target(r, "ALBUM")
           n == Cardinality(S)
           f == [k \in S |-> row[k].position]
<1>1. /\ IsFiniteSet(S) /\ n \in Nat /\ n <= MaxCount("ALBUM") /\ IsNumbering(f, S)
  <2>1. "ALBUM" \in Associations
    BY DEF Associations
  <2>2. QED
    BY <2>1, TargetIsNumbering
<1>2. n <= Offset /\ Offset \in Nat
  BY <1>1, AttachmentsAssumption DEF MaxCount
<1>3. \A i \in S : row[i].position \in 0 .. n - 1
  <2> HIDE DEF S
  <2>1. \A i \in S : f[i] \in {f[k] : k \in S}
    OBVIOUS
  <2>2. QED
    BY <1>1, <2>1 DEF IsNumbering
<1>4. \A i, j \in S : row[i].position = row[j].position => i = j
  <2> SUFFICES ASSUME NEW i \in S, NEW j \in S, row[i].position = row[j].position PROVE i = j
    OBVIOUS
  <2>1. f[i] = f[j]
    OBVIOUS
  <2> HIDE DEF S, f
  <2>2. QED
    BY <1>1, <2>1, NumberingInjective
<1>5. /\ \A i \in S : p[i] \in 0 .. n - 1
      /\ \A i, j \in S : p[i] = p[j] => i = j
  BY DEF Orders, IsInjective
<1> HIDE DEF S, n, f
<1>6. \/ \E X \in SUBSET S : q = [k \in S |-> IF k \in X THEN Shifted(row[k].position) ELSE row[k].position]
      \/ \E X \in SUBSET S : q = [k \in S |-> IF k \in X THEN p[k] ELSE Shifted(row[k].position)]
  BY DEF Midway, S
<1>7. CASE \E X \in SUBSET S : q = [k \in S |-> IF k \in X THEN Shifted(row[k].position) ELSE row[k].position]
  BY <1>1, <1>2, <1>3, <1>4, <1>7 DEF Shifted, IsInjective
<1>8. CASE \E X \in SUBSET S : q = [k \in S |-> IF k \in X THEN p[k] ELSE Shifted(row[k].position)]
  BY <1>1, <1>2, <1>3, <1>4, <1>5, <1>8 DEF Shifted, IsInjective
<1>9. QED
  BY <1>6, <1>7, <1>8

-----------------------------------------------------------------------------
(***************************************************************************)
(* The theorems.                                                           *)
(***************************************************************************)
LEMMA NextKeeps ==
  ASSUME IInv, AlbumInv, [Next]_vars
  PROVE  IInv' /\ AlbumInv'
<1>1. ASSUME NEW c \in Clients, BeginUpload(c) \/ Stage(c) \/ Put(c) \/ PutFails(c) \/ ClientFails(c)
                                \/ RemoveObject(c) \/ ForgetTask(c)
      PROVE  IInv' /\ AlbumInv'
  <2>1. IInv'
    BY <1>1, BeginUploadKeeps, StageKeeps, PutKeeps, PutFailsKeeps, ClientFailsKeeps,
       RemoveObjectKeeps, ForgetTaskKeeps
  <2>2. UNCHANGED row
    BY <1>1 DEF BeginUpload, Stage, Put, PutFails, ClientFails, RemoveObject, ForgetTask
  <2>3. QED
    BY <2>1, <2>2, RowsKept
<1>2. ASSUME NEW c \in Clients, CompleteUpload(c) \/ Detach(c) \/ Reorder(c) \/ DeleteRoom(c)
      PROVE  IInv' /\ AlbumInv'
  BY <1>2, CompleteUploadKeeps, DetachKeeps, ReorderKeeps, ReorderKeepsAlbums, DeleteRoomKeeps,
     DeleteRoomKeepsAlbums
<1>3. ASSUME NEW k \in Keys, GraceEnds(k) PROVE IInv' /\ AlbumInv'
  <2>1. UNCHANGED row
    BY <1>3 DEF GraceEnds, attachmentVars
  <2>2. QED
    BY <1>3, <2>1, GraceEndsKeeps, RowsKept
<1>4. ASSUME NEW c \in Cleaners, CleanerStep(c) \/ CleanerFails(c), UNCHANGED attachmentVars
      PROVE  IInv' /\ AlbumInv'
  <2>1. IInv'
    BY <1>4, ClaimOneKeeps, DeleteObjectKeeps, RetireTaskKeeps, ReleaseTaskKeeps,
       DeleteObjectFailsKeeps, RetireTaskFailsKeeps, CleanerCrashKeeps
       DEF CleanerStep, CleanerFails
  <2>2. UNCHANGED row
    BY <1>4 DEF attachmentVars
  <2>3. QED
    BY <2>1, <2>2, RowsKept
<1>5. ASSUME NEW k \in Keys, TaskLeaseExpires(k), UNCHANGED attachmentVars PROVE IInv' /\ AlbumInv'
  <2>1. UNCHANGED row
    BY <1>5 DEF attachmentVars
  <2>2. QED
    BY <1>5, <2>1, TaskLeaseExpiresKeeps, RowsKept
<1>6. CASE UNCHANGED vars
  <2>1. UNCHANGED <<task, objects, cleaner, faults, rooms, row, client, used, stalled>>
    BY <1>6 DEF vars, cleanupVars, attachmentVars
  <2>2. IInv'
    BY <2>1 DEF IInv, TypeInv, KeyInv, Untouched, UploadSound, LeaseSound, LiveSound, Covered,
       DeletedFirst
  <2>3. QED
    BY <2>1, <2>2, RowsKept
<1>7. QED
  BY <1>1, <1>2, <1>3, <1>4, <1>5, <1>6 DEF Next, ClientStep

LEMMA AlwaysSound == Spec => [](IInv /\ AlbumInv)
<1>1. Init => IInv /\ AlbumInv
  BY InitInv, AlbumInit
<1>2. (IInv /\ AlbumInv) /\ [Next]_vars => (IInv /\ AlbumInv)'
  BY NextKeeps
<1>3. QED
  BY <1>1, <1>2, PTL DEF Spec

\* Nobody is about to delete what is attached, and no attachment outlives its room: for
\* any number of runners and requests, whatever fails, unless a lease of the object's
\* task ran out under its runner (completeUpload, lockUploadSafeguard, detach, delete,
\* StorageCleanupService.run).
THEOREM LiveAlwaysKept == Spec => []LiveIsKept
<1>1. IInv => LiveIsKept
  <2> SUFFICES ASSUME IInv PROVE LiveIsKept
    OBVIOUS
  <2>1. \A k \in Keys : row[k].live \in BOOLEAN /\ task[k].overrun \in BOOLEAN
    BY DEF IInv, TypeInv, Row, Task
  <2>2. NothingDeletesLive
    BY <2>1 DEF IInv, KeyInv, LiveSound, LeaseSound, NothingDeletesLive
  <2>3. AttachedRoomExists
    BY <2>1 DEF IInv, KeyInv, LiveSound, AttachedRoomExists
  <2>4. QED
    BY <2>2, <2>3 DEF LiveIsKept
<1>2. QED
  BY <1>1, AlwaysSound, PTL

\* An object without metadata always has a task: no failure of a request, a runner or
\* the store leaves an orphan, because the safeguard commits before the object is
\* written and a task is retired only after its object is deleted (stageUpload, run).
THEOREM NeverAnOrphan == Spec => []NoOrphan
<1>1. IInv => NoOrphan
  BY DEF IInv, TypeInv, KeyInv, Covered, NoOrphan
<1>2. QED
  BY <1>1, AlwaysSound, PTL

\* The images of a target are numbered 0..n-1 within its limit, and no rewrite meets the
\* unique key on the way, for every album limit up to the offset
\* (rewriteAttachmentPositions, prepareUploadTarget).
THEOREM AlbumAlwaysOrdered == Spec => []AlbumOrdered
<1>1. IInv /\ AlbumInv => AlbumOrdered
  <2> SUFFICES ASSUME IInv, AlbumInv PROVE AlbumOrdered
    OBVIOUS
  <2>1. PositionsContiguous
    BY DEF AlbumInv, TargetSound, Numbered, PositionsContiguous
  <2>2. QED
    BY <2>1, RewritesApart DEF AlbumOrdered
<1>2. QED
  BY <1>1, AlwaysSound, PTL

=============================================================================
