# Verification of the hotel booking API

TLA+ models of the NestJS hotel booking service in `src/`, the TLC runs that
check them on small instances, and TLAPS proofs of the results that matter most
for every instance. Paths below are relative to the repository's `src/`.

## 1. The system

An API process serves HTTP requests against MySQL (InnoDB) and Redis. Worker
processes poll outbox tables, send mail, export rooms, publish to Kafka and run
retention. Almost all coordination goes through database rows: row locks inside
one transaction, leases and claim tokens between transactions.

| Component | State | Operations | Meets the others through |
| --- | --- | --- | --- |
| Booking core (`bookings/bookings.service.ts`) | `bookings`, status and change history, idempotency keys | create, approve, reject, updateAdmin, cancelOwn, cancelAdmin | room and booking row locks; rows for the outbox and the stream in the same transaction |
| Window administration (`rooms/room-times.service.ts`) | `room_times` | create, update, delete | the room lock; an unlocked count of the bookings that use a window |
| Room catalog (`rooms/rooms.service.ts`) | rooms, amenities, images | create, update, delete, search | room status read by bookings; cleanup tasks for deleted images |
| Outbox claim protocol (`common/outbox/`) | lease columns of `outbox_events` | claimBatch, release, poll loop | used by the notification and the export dispatcher |
| Notification delivery (`notifications/`) | `email_deliveries`, `email_send_attempts`, BullMQ jobs | dispatch, process, record results, redrive | claims outbox rows; calls the mail provider |
| Lifecycle relay (`bookings/booking-lifecycle-relay.*`) | lease of `booking.lifecycle` rows | claim, publish, mark | reads what the recorder wrote; publishes to Kafka |
| Booking statistics (`reports/booking-stats-*`) | one fact per booking, consumer offsets | apply batch, commit, rebuild | consumes the stream |
| Room export (`reports/room-export-*`) | export jobs, upload safeguards | create, claim, renew, complete, retry, fail | outbox, object storage, storage cleanup, retention |
| Retention (`retention/`) | `scheduled_runs` | claim, recover, complete, fail, close earlier days | deletes old rows of the others |
| Sessions, users (`auth/`, `users/`) | users, identities, sessions, revocation marks | sign in, refresh, authenticate, log out, updateStatus, promote | Redis marks written after a commit |
| Attachments and cleanup (`files/`, `rooms/room-images`) | attachments, cleanup tasks | upload, replace, detach, reorder, delete room, clean | object storage |
| Rate limit, health, configuration, i18n, CLI | counters, none | | |

What is hard here: handlers read before their transaction and lock afterwards;
several rows are locked in an order that has to agree between handlers; usage is
counted without a lock; every asynchronous job can die, stall or answer late
after its lease; the queue may drop, repeat or hold back a job; the provider may
take a message whose answer is lost. `PROJECT.json` lists each hazard at its
line, with the properties that would catch it.

What makes the components correct: a room is never promised twice, a live stay
always lies in an open window, the histories and events written beside a booking
tell exactly its story, a retried request has one effect, the record of a mail
never contradicts what was sent, verdicts are final, nothing is stranded, and
nobody waits for ever.

## 2. Modules

### BookingCore

One client is one request in flight. A handler is a sequence of steps cut where
the code awaits something another transaction can change:

| `pc` | the handler is about to | code |
| --- | --- | --- |
| `key` | lock the idempotency row, replay or refuse | `IdempotencyRepository.lock`, `createInTransaction` |
| `room` | lock the rooms it needs, smallest id first | `lockRoom`, `orderedUniqueRoomIds` |
| `booking` | lock the booking row and compare it with what it read before | `approve`, `updateAdmin`, `reject`, `cancelOwn`, `cancelAdmin` |
| `check` | look for a window, overlaps and usage under those locks | `lockBookingTarget`, `assertNoConfirmedOverlap`, `assertRoomTimeUpdateAllowed` |
| `commit` | write everything and end the transaction | `save`, history, lifecycle row, outbox row, key row |

`Begin...` actions take the request's input from small sets and make the reads
the code makes *before* the transaction (approve and updateAdmin remember room,
window and version). `Commit...` actions contain all writes of the handler,
because nobody sees them before the commit. `Abort` is a rollback at any point:
a lock wait that times out, a dead connection, or a refusal that depends on data
left out (price bound, a room's own version). The overlap probe is a locking
read: it waits for the rows it finds (`ProbeReady`). A window row is locked only
by transactions that hold its room already, so its own lock is left out. Of an
idempotency row only the booking it replays is kept: a completed key is replayed
or refused, and neither writes. The row is not for ever: retention deletes it once
`expires_at` has passed (`retention/retention-due.ts:62`), which is `PurgeKey`. A retry
that comes after that counts as a new request and makes a second booking, in the code
as in the model; what OneBookingPerKey promises ends with the row. (Retention also
deletes old outbox rows; the rows AnnouncedOnce counts are those ever written.)

### BookingLedger

`BookingLedger` is the abstract specification of the booking core: entries with a
status, a room, a stay and a version that change one at a time and at once. A key makes
an entry only while it is free, and is free again once it is forgotten; a decision, a cancellation or an edit follows the lifecycle, raises
the version by one, and an entry becomes or stays CONFIRMED only where it fits beside
the other CONFIRMED ones; an edit changes room or stay. Windows, locks, transactions and
the reads made before them do not occur. `ImplementsLedger` is `BookingLedger!Spec` with
`made <- keys` and an entry for each booking (`LedgerEntry`), whose room is that of its
window: so no window change may move a booking to another room either. Whether
windows cover the stays, and what is written beside a booking, is left to the
properties of BookingCore.

### OutboxDelivery

Each database transaction is one step; provider and Redis calls lie between
steps. Time is two facts about a row: its lease still runs (`live`), its
`available_at` has passed (`due`). Dispatchers claim batches with a fresh token
(expired claims first), hand each claim to the queue under the id
`<event>-<attempt>`, and release a claim whose handoff failed. Workers take a
job, lock the row under token, attempt and lease, count the attempt on the
delivery, call the provider, append the acceptance and write the result fenced
by token and attempt. BullMQ is external and modelled from its use: it ignores a
known id, hands out a stalled job once more, forgets finished jobs. Failures are
actions guarded by the counter `faults`: refused or half-done handoffs, failed
releases and transactions, lost answers and ledger appends, crashes, jobs taken
from a living worker, leases that end under one. An operator may redrive a
`FAILED` event.

### LifecycleStream and ReadModel

The way of one booking change to the statistics: the booking transaction writes an
outbox row under the resulting version; a relay claims rows, parses each payload
(one that does not parse is failed for good), produces them and marks them; Kafka
keeps a log per partition, and one request puts its messages on it in the order of
their versions (`Sequenced`, `Produce`); a consumer group fetches batches,
applies them to `booking_stats_facts` behind the version guard of the upsert, and
then commits offsets; an operator's rebuild rewinds the offsets, empties the table
and looks twice whether the group is empty. A produce request that timed out is not
cancelled: it stays in `late` and may reach the log after newer ones, whatever its relay
does in the meantime and in any order among several. A rebalance
makes batches in hand stale; they are still applied, only their commit is refused.
The claim token is fresh for each cycle; since a relay runs one cycle at a time and
addresses only that cycle's rows, its name stands for the token.

`ReadModel` is the abstract specification: per booking, the newest version and the
version shown; what is shown moves forward to versions that were committed, and only
a rebuild takes it away. `ImplementsReadModel` is `ReadModel!Spec` with
`newest <- booking.version`, `view <- facts.version`, `emptying <- rebuild.pc = "delete"`.

### StorageCleanup, with RoomExport and Attachments on top

`StorageCleanup` holds the cleanup tasks and the runners (`claimOne`, delete the
object, delete the task or release it) and has no specification of its own: the two
modules that extend it add the writers of tasks and objects.

`RoomExport` follows an export from the request over the dispatcher's claim, BullMQ,
the attempt (claim, paged snapshot, renew, generation in a thread, renew, safeguard,
upload, complete or record the failure) to its expiry and its collection by
retention. A token is the number of the claim, an object key a job and a token.
What a generation may answer is the union of what the thread refuses, what it reports, what the
parent does not accept and what it concludes from silence (`Codes`); which of these
are retried is `room-export-failure.ts`.

`Attachments` has the images of a room: an upload stages a safeguard, puts the object
and completes under the room's lock, taking the safeguard away only when no runner has
it; a thumbnail is replaced, an album bounded and numbered; positions are rewritten
in two passes because a unique key forbids duplicates midway (`Midway`); a removed or
replaced object gets a task and is then deleted at once, best effort. The grace of a
safeguard is measured from before its transaction, so an upload that stalls can find it
over before the object is written (`GraceEnds` at `put`) or in the wait for the room's
lock; the keys of the first case are remembered in `stalled`.

### RetentionRuns

One task across days: replicas claim a day's window by inserting its row, take over
an expired one (charging an attempt unless the last one made progress), delete batch by batch and
complete, fail or hand the window back. The four kinds of batch (plain purge, event
chains, export results, storage tasks) differ in their cuts and refusals, and `kind`
chooses one. A purge is one statement, a chain and an export batch a read and a
deletion later; a batch of storage tasks is a row of cleanup calls (`drainStorageTasks`),
each of which leases a task (`ClaimTask`) and deletes, postpones or loses it
(`DeleteTask`, `LostAnswer`). `BatchFails` is a throw anywhere in a batch: what the
statement or transaction did rolls back, what earlier calls deleted stays deleted and
goes to `unrecorded`, which counts the rows whose batch, claim or process was lost.
Deleted objects count as progress of their own (`objects`), as they do in the code.
A job and its event count as one row; tasks that arrive during the run, and cleanup
runners outside of it, are left out.

### Accounts

Requests interleave lock by lock: sign-in (OAuth state, identity lookup with three
attempts, session), refresh with rotation and reuse detection, bearer authentication
through the revocation cache, logout, `updateStatus` with the last-active-admin rule,
CLI promotion. InnoDB rolls back a member of a wait cycle (`Victim`, external: it leaves
every such cycle, so nothing is claimed about lock orders here). Redis
marks are written after the commit and may be lost or expire. Google is a choice
among the claims it vouches for, cryptography a comparison of rotation numbers.

### Others

The `MC...` modules hold the instances' rows, sets and symmetry. The theorems are in
eight modules: `BookingCoreProofs`, `BookingTablesProofs` (which extends it),
`OutboxDeliveryProofs`, `LifecycleStreamProofs`, `RoomExportProofs`,
`AttachmentsProofs`, `RetentionRunsProofs` and `AccountsProofs`.

## 3. Runs

| Run | Bounds | Distinct states | Properties |
| --- | --- | --- | --- |
| BookingConflicts | 2 requests, 2 bookings, 2 keys, 2 rooms (one open late), 2 stays that share one night, versions up to 3, keys purged | 803,000 | NoDoubleBooking, CommitsOnFreshChecks, OneBookingPerKey |
| BookingTransitions | 2 requests, 1 booking, 2 rooms, 3 days, all booking operations, stream on, no symmetry | 40,000 | TypeOK, HistoryAgrees, AnnouncedOnce, ImplementsLedger, RequestsFinish |
| BookingWindows | 2 requests, 1 booking, 1 room, 2 windows (one id unused), 2 adjacent ranges, window and room operations | 690,000 | LiveStayCovered, WindowsKept |
| DeliverySafety | 1 event, 2 dispatchers, 2 workers, 2 failures, 1 redrive, budget 2, claims up to 3 | 537,000 | TypeOK, RecordsAgree, DeliveryTellsTruth, NoDuplicateWithoutFault, ResolvedStays |
| DeliveryLiveness | 1 event, 1 failure, 1 redrive, claims up to 6 | 65,000 | EventResolves |
| DeliveryHandoff | 1 event, no failure, 1 redrive | | HandoffReachesQueue: violated, see 5 |
| Stream | 1 booking, versions up to 2, 2 relays, 1 consumer, 1 failure, 1 rebuild | 62,000 | TypeOK, NothingPassedOver, ImplementsReadModel, CatchesUp |
| RoomExport | 1 job, 4 claims, 2 workers, 2 cleaners, 2 failures, budget 2, pages of 1, catalogs at and above the limit | 38,000 | RowsAgree, ResultAvailable, WorkbookWhole, NoOrphan, ExportSettles |
| Attachments | 4 keys, 1 room, 2 requests, 2 cleaners, album of 3, 2 failures | 762,000 | LiveIsKept, NoOrphan, AlbumOrdered |
| AttachmentsHandoff | 3 keys, 2 requests, 1 cleaner, 2 failures | | AttachedHasObject: violated, see 5 |
| Retention | 2 replicas, 2 days, 2 due rows, batches of 1, drains of 2 calls, budget 2, 1 failure | 2,103,000 | TypeOK, EveryRowCounted, SucceededDrained, RetriesAreEarned, WorkerHoldsWindow |
| Accounts | 2 requests, 2 admins and a newcomer, 2 sessions, 2 OAuth states, 1 rotation | 820,000 | TypeOK, AdminRemains, InactiveHoldsNoSession, RevocationSeen, OneAccountPerIdentity, SessionMovesForward |

What they show, beyond the type invariants:

- *Bookings*: no night of a room is promised twice, a key makes one booking while its
  row lives, and what a handler checked still holds when it commits; histories, notifications and stream
  rows tell the booking's story once each; a live stay lies in an open window although
  usage is counted without a lock; every request finishes; and however requests
  interleave, guests see a ledger that serves them one at a time. The run of
  ImplementsLedger has every booking operation but one booking, so that the comparison
  with others is tested by NoDoubleBooking in BookingConflicts; the theorem has both.
- *Delivery*: event and delivery never contradict each other, SENT means that the
  provider took the message, without a failure nobody is mailed twice, verdicts stay,
  and every event gets one.
- *Stream*: nothing is marked before it is on the topic, no offset is committed past a
  change the facts do not show, no fact mixes two versions; the facts implement
  `ReadModel` and show every booking as it is once changes and failures stop.
- *Exports*: job and event agree, a result that is offered is there and whole, no
  object is left without a task, every export ends and every orphan is deleted.
- *Attachments*: nobody is about to delete what is attached, nothing stays without a
  task unless its upload outlived the grace before the put, albums are numbered without
  gaps and no rewrite meets the unique key midway.
- *Retention*: every deleted row is counted once, or known to be lost with its batch,
  claim or process, and without a fault none is lost. Of storage tasks less is true and
  less is claimed: a batch that throws loses the counts of its earlier calls although
  the run goes on to record the failure, and a task that two runners delete is counted
  by both; no task is counted twice while no call outlives its lease. A success left
  nothing that was due (storage tasks excepted: another runner may have postponed one),
  claims are bounded by attempts and progress, and only an outlived lease costs a living
  run its window.
- *Accounts*: an active admin remains although two deactivate each other, a
  deactivated user keeps no session, a revoked session is never served nor written
  back, sign-ins of one identity make one account (which rests on the unique keys alone,
  whatever the lookups before found).

Why the bounds are enough for the question: a double booking, a stale pre-read
or a lost update needs two requests and two bookings; a wrong lock order needs
two rooms. The two stays of BookingConflicts share the last night of one, which is the
first of the other: a comparison that is one day too narrow misses exactly that. Stays
that lie inside one another are the theorem's. In delivery, one stale claim and one fresh one exist together with two tokens in flight, and a third covers
the claim after a redrive; two failures allow a lease that ends under a living
worker followed by a second mishap. In Stream two versions are the least that can
arrive out of order, and two relays the least that can hold one row one after the
other. In RoomExport two workers are a stale attempt beside a fresh one, and two
cleaners a runner whose lease ran out beside the next; pages of one
row meet the limit exactly and one beyond. Four keys let two uploads compete for
the last place of an album that a third image is leaving. Two days let the closing
of yesterday's window meet its living run. Three identities in Accounts are an admin,
a newcomer, and an admin whose address became the newcomer's.

`MaxVersion` stops edits at a version, `MaxClaims` stops claims at an attempt number,
`MaxFaults`, `MaxRedrives` and `MaxRebuilds` count failures and operator commands,
`MaxRotations` refreshes, `LastDay` days, `Explored` chooses the transitions bookings take in
Stream; the code has none of these limits. `LostReplies` says whether a delete that
is reported as failed may have been carried out; Attachments keeps it off because
the case is the finding of AttachmentsHandoff in a second form. `PurgeKey` stops when a
create that may follow would find no booking id. Where a
behaviour may end (all events resolved, keys or OAuth states used up, the last day
over, or a bound reached) deadlock is not checked; in BookingCore it is. The
liveness runs keep `MaxClaims` above what their failures can use, so that the
bound never hides something stranded.

Each property has a mutant of the code it is about in `PROJECT.json`: the
operator with the suffix after `_` in the same module, a plausible slip (a
dropped re-check, a one-sided overlap, an unfenced update, ...) under which TLC
must find the property violated.

### Fairness

BookingTransitions assumes strong fairness of each request's own steps (`Step`).
InnoDB grants a row lock to its waiters in the order they came, so a lock that is
free again and again is granted to everyone who waits; a handler that can go on
does. New requests, the clock and rollbacks are not assumed to happen. No lock
wait is ever broken off to help: the property says the lock order alone suffices.

DeliveryLiveness assumes weak fairness of the poll loops
(`common/outbox/outbox-poll-loop.ts` reschedules itself after every cycle, failed
or not), of the workers, of time (`BecomesDue`) and of leases nobody works under.
Failures, stalled-job checks, eviction and the operator are not assumed. An error while a
mail is prepared that the worker does not classify is one of the bounded failures; the
code tries it again for as long as it recurs.

Stream assumes weak fairness of the relays' loops, of requests a client still sends
(they end, one way or the other), of leases and backoffs, of consumers (the service
retries its attempt to join until it stops), of the broker's session timeout for a
dead member, and of a rebuild once the operator started it. RoomExport assumes the
same of dispatchers, workers, leases, backoffs, graces and cleanup runners.
Collection by retention and ageing are not assumed. Retention and Accounts state no
liveness: a task may spend its attempts, and a request may be rolled back for ever.

## 4. Proofs

### BookingCoreProofs

Proved for any sets of requests, rooms, windows, bookings,
keys and days satisfying `ConstantsAssumption` (ids are natural numbers, `None`
is no id, the initial windows are rows), without any of the bounds above:

- `TypeCorrect`: Spec => []TypeOK
- `RoomNeverPromisedTwice`: Spec => []NoDoubleBooking
- `ChecksStayFresh`: Spec => []CommitsOnFreshChecks
- `LocksReleased`: Spec => []IdleHoldsNothing
- `LifecycleForward`: Spec => BookingMovesForward

`NoDoubleBooking` is not inductive: a state in which some handler stands at
`commit` with an overlap already confirmed satisfies it, and the next step breaks
it. The inductive invariant `IInv` adds `CommitsOnFreshChecks`, which says, for
each position of each handler, which rows it has locked (`LocksHeld`), which
status it has seen (`StatusSeen`) and what its checks established (`ChecksHold`),
and `IdleHoldsNothing`, without which a lock of an idle client could pass for one
of its next request. The argument has two halves:

- *Quiet steps* (begin, lock, check, abort) write no row. `QuietKeeps` shows that
  they leave every other request's facts alone, so that `BeginSound`, `LockSound`
  and `CheckSound` only have to establish the acting request's own new position.
- *Commits* write rows. `WritesKeep` states what a commit may do to others:
  it changes only bookings it has locked, adds CONFIRMED stays or moves them only
  in rooms it has locked, and only where it found no overlap. Another request at
  `commit` for the same room would have to hold the same lock. `CommitWrites` shows
  this of each of the ten commits.

`LifecycleForward` follows from `StatusSeen` and the booking lock in the same way; the
runs check it as a part of ImplementsLedger.

### BookingTablesProofs

On top of `BookingCoreProofs`, with one more assumption on the constants: the initial
ACTIVE windows of a room do not overlap.

- `LiveStaysCovered`: Spec => []LiveStayCovered
- `WindowsAlwaysKept`: Spec => []WindowsKept
- `KeyMakesOneBooking`: Spec => []OneBookingPerKey
- `HistoryAlwaysAgrees`: Spec => []HistoryAgrees
- `AlwaysAnnouncedOnce`: Spec => []AnnouncedOnce
- `CoreImplementsLedger`: Spec => ImplementsLedger

Three inductive invariants, each next to `IInv`. `WInv` (windows): what a handler found
about windows under its room lock is still so at its commit, because whoever adds a
claim to a window, or changes the window, holds its room (`Confined`), and the steps
that hold no room can only take claims away (`UsageShrinks`, `WindowsStill`): this is
why the unlocked usage count is enough. `KInv` (keys): a request that found its key
unused holds the key's lock until it has written the booking. `JInv` (journals): each
commit appends exactly the rows of the version it makes, and counts are compared
through `FiniteSetTheorems`. OneBookingPerKey is a property of steps: a purge may free a
key at any time, but not one whose row a transaction holds, so what a create found under
the lock is still so when it writes.

The refinement maps begin, lock, check, abort and the clock to a stutter, and each
commit to one action of the ledger or, for windows and rooms, to a stutter. A ledger
action has guards that the commit does not test: they were tested some steps earlier,
and what keeps them true until then is `IInv` (status, no overlap, the room of the
window found), `KInv` (the key is still unused) and, for what an edit asks, `AInv`
(`AskSound`: from the moment its booking is locked an edit names a place other than the
one the booking has). `EntriesKept` is where windows come in: a window that was ever used
keeps its room, so nobody's entry changes under a window commit.

### OutboxDeliveryProofs

Proved for any sets of events, dispatchers and tokens, any finite set of worker slots
(processes times concurrency) and any bounds on claims, failures and redrives:

- `TypeCorrect`: Spec => []TypeOK
- `RecordsNeverContradict`: Spec => []RecordsAgree
- `VerdictsFinal`: Spec => ResolvedStays
- `DeliveryAlwaysTellsTruth`: Spec => []DeliveryTellsTruth
- `NeverTwiceByItself`: Spec => []NoDuplicateWithoutFault

RecordsAgree alone is not inductive: a worker about to record a success whose
delivery row did not exist would leave a PROCESSED event without a SENT delivery.
`ActorsSound` adds that such a row exists from the provider call on (the row is
made in the same transaction as the last look at the claim and never removed),
that a busy slot knows its job, and that a releasing dispatcher knows its claim.
The heart is `VerdictKeeps`: both updates of a result are fenced by the same claim,
and while the event carries it the delivery can only be absent or PENDING.
`StepKeepsVerdict` shows that no action but a redrive passes the fence of a
resolved event.

`CallInv` counts: once leases run out under living workers, several slots may be
calling the provider for one event, so mails plus calls under way are bounded by the
attempts counted on the delivery, and recorded acceptances plus those about to be
recorded by the mails. It holds whatever fails. `QuietInv` is about behaviours without
a failure so far, in which a claim is in one place (`OnePlace`: in one batch, waiting
in the queue, or with the one slot that holds its job) and in force. Hence an event
that can be claimed is in nobody's hands (`Unclaimed`), a busy slot is alone with its
event (`AloneWithEvent`), no active job counts as stalled, and a lease can end only
under an abandoned claim. `Budget` rides on it: a mail is out only for an event that is
PROCESSED or about to be, and the attempts of a round follow the attempt number of the
claim, up to the comparison in `recordProviderFailure`.

### LifecycleStreamProofs

- `TypeCorrect`: Spec => []TypeOK
- `ProcessedStaysOnTopic`: Spec => []ProcessedIsOnTopic
- `FactsStayVersions`: Spec => []FactsAreVersions
- `NothingIsPassedOver`: Spec => []NothingPassedOver, assuming `WorkersStopped`
- `StreamImplementsReadModel`: Spec => ImplementsReadModel

The core of `IInv` is `Recorded`: whatever is in flight (in a relay's hands, in a
request given up on, on the topic) is what a booking transaction wrote, and no such
record changes. So a fact is always one recorded version (`FactSound`), and
duplicates, late requests and batches of evicted consumers can only fall behind the
guard of the upsert. Offsets need more (`GroupInv`): all below a committed offset or a
position is applied, a batch that may still be committed belongs to a member and
everything before it is applied, and a rebuild has the group to itself. That last part
is where `WorkersStopped` is used, and the only place: a member that joins, commits and
leaves between the two looks of a rebuild breaks it, so the other theorems do without
the hypothesis. The refinement maps each step to `Change`, `Refresh`, a step of
emptying or a stutter of `ReadModel`.

### RoomExportProofs

- `RowsAlwaysAgree`: Spec => []RowsAgree
- `ResultAlwaysAvailable`: Spec => []ResultAvailable
- `NeverAnOrphan`: Spec => []NoOrphan
- `WorkbookAlwaysWhole`: Spec => []WorkbookWhole

One claim makes one message, and the message is in one place, with a dispatcher, in
the queue or with one worker (`Circulation`); so one attempt at a time has a claim's
object key. `StoreInv` adds that from the safeguard to the completion the task on that
key is this attempt's, and that a runner which deleted an object may retire the row it
claimed and no later one. ResultAvailable excepts an object whose task lost its lease
under a living runner (`overrun`), see 5; NoOrphan excepts nothing.

WorkbookWhole is about a recursive function: `ReadPages` reads the page after the last
id seen until a page is short. The catalogs are finite sets of positive ids
(`ExportAssumption`), of any size, as are page and limit. `PageSplits` shows that what is
behind a full page is what is left of the table, and `PagesAreTheTable` (the pages make
the table) needs no induction theorem: if it failed somewhere there would be a greatest
id at which it does (`GreatestNumber`), and the page read there moves to a greater one.
The invariant (`Whole`) then carries the set that was read from the attempt's snapshot
through its result to the job row, together with the comparison with the limit.

### AttachmentsProofs

- `LiveAlwaysKept`: Spec => []LiveIsKept
- `NeverAnOrphan`: Spec => []NoOrphan
- `AlbumAlwaysOrdered`: Spec => []AlbumOrdered

A key has one life: generated, staged by one request, attached or given up, detached,
deleted. `KeyInv` says what stands at each stage: an unused key leaves no trace, an
upload that stays within its grace is alone with its key until the object is stored, a
safeguard is in the hands of one runner at most under a running lease, and an attached
key has neither task nor request. NoOrphan excepts the keys in `stalled`. Albums are counted: `Numbered` says that n images are numbered onto 0..n-1,
from which lemmas about finite sets derive that there are no duplicates, that the rest
closes up when one image goes, and that neither pass of a rewrite meets the unique key
while the limit is within the offset.

### RetentionRunsProofs

- `TypeCorrect`: Spec => []TypeOK
- `RetriesAlwaysEarned`: Spec => []RetriesAreEarned
- `WorkerAlwaysHoldsWindow`: Spec => []WorkerHoldsWindow
- `SucceededAlwaysDrained`: Spec => []SucceededDrained
- `EveryRowAlwaysCounted`: Spec => []EveryRowCounted

For any finite set of replicas, any number of days and any finite backlog. `IInv` adds
that no two runs share a token (`TokensApart`), that progress made since the last claim has not
paid for a takeover yet (`ProgressUnspent`: claims plus one pending credit are within
attempts plus deleted rows), and that a run about to report success has seen the end
of what is due (`WorkIsDone`). The batch is `ORDER BY ... LIMIT`: lemmas about least
and greatest elements of finite sets of numbers show that a short batch is all there is.

EveryRowCounted is an account (`Account`): rows gone from the backlog on one side, and on
the other the sum over the windows, the sum over the runs under way and what was lost.
The sums are folds over finite sets. `AddingUp` and `SumChanges` say what a fold does when
one summand changes (again by a least counterexample, here in the size of the set), and
each step then moves amounts between the three: a batch takes rows from the backlog and
adds them to its run, a report moves the run's amount into its window, a throw, a lost
claim or a lost process into the losses. What makes it come out is that a run's counters
start at zero when it claims, and that of a batch when it ends or throws
(`FreshCounters`); that due and waiting rows are kept apart (`RowsApart`); and, for storage
tasks, that until a call outlives its lease its task is leased to it alone
(`CallsApart`), which is why their account is claimed only while nothing failed.

### AccountsProofs

- `TypeCorrect`: Spec => []TypeOK
- `AdminAlwaysRemains`: Spec => []AdminRemains
- `InactiveNeverHoldsSession`: Spec => []InactiveHoldsNoSession
- `RevocationAlwaysSeen`: Spec => []RevocationSeen
- `AccountsStayDistinct`: Spec => []OneAccountPerIdentity
- `SessionsMoveForward`: Spec => SessionMovesForward

From any initial accounts that are distinct and have an active administrator among
them. The argument is the lock discipline: a request is sound (`ReqSound`) when what it
carries agrees with the rows it has locked, and no step of another request changes a
locked row (`Respects`). Beside that the invariant says that every session has its
owner, that a Redis mark names only sessions that are over, that a rotation is spent
once, and that locks are on rows that exist. `AdminAlwaysRemains` then is a matter of
one moment: the deactivation counts the active administrators while it holds all of
them.

### Only model-checked

Liveness (RequestsFinish, EventResolves, CatchesUp, ExportSettles) is out of the prover's
reach. Every other property of a passing run has its theorem.
`IdleHoldsNothing` is the other way round, a theorem only;
`ProcessedIsOnTopic` and `FactsAreVersions` are checked as parts of NothingPassedOver, and
`BookingMovesForward` is a part of ImplementsLedger.

## 5. Findings

**A handoff can be dropped** (DeliveryHandoff). `outbox-dispatcher.service.ts:126`
builds the job id from event and attempt. Attempts go down again on release and to
zero on a redrive, so an id recurs while BullMQ still keeps the finished job, and
`queue.add` then adds nothing. The dispatcher counts the event as queued; it waits
out its lease and is claimed again under the next attempt. EventResolves shows
that it is not lost. The room export dispatcher adds the token for this reason.

**A released cleanup task invites a late upload** (AttachmentsHandoff).
`storage-cleanup.service.ts:120` releases a task after any error, also when the object
is deleted already and only the task's row could not be. An upload that outlived the
grace of its safeguard then finds it unclaimed and publishes metadata for an object
that is gone, which `attachment-metadata.ts:110` means to exclude. It takes a stall
beyond the grace and one failed statement. The attempt to prove LiveIsKept showed that
the same release reaches further when two runners meet: it addresses the task by id
alone, so a runner whose lease ran out clears the lease of the one that claimed the
task after it, and an upload then publishes while that second runner is about to
delete. LiveIsKept and ResultAvailable therefore except objects whose task lost its
lease under a living runner (`overrun`); for all others the theorems show that a runner
which still has the task wins.

Met on the way, without a run of its own: only a refusal by the provider compares the
attempt with the budget (`delivery-worker.service.ts:287`). A claim abandoned by a dead
worker is taken again without looking at it, so a message that kills its worker is
offered beyond `maxAttempts`, where `docs/runbooks/notifications.md:33` speaks of a
"delivery budget before an event becomes `FAILED`". And `drainStorageTasks`
(`retention-tasks.service.ts:105`) loses the counts of a batch when one of its later calls
throws, although `retention-run.service.ts:189` takes care that the "counts for rows
already deleted" do not go with an error; and `storage-cleanup.service.ts:54` counts a
deletion without asking whether the row was still there. EveryRowCounted states what is
left.

## 6. Not modelled, and the plan

Left out for good:

- rate limiting: one atomic Redis script per request, nothing interleaves with it;
- health, configuration, i18n, CLI wiring, deployment and harness scripts: no protocol
  state. The inequalities that configuration enforces between timeouts, leases and graces are the
  reason why a lease or grace that ends while someone works costs a failure
  (`LeaseExpires`, `TaskLeaseExpires`, `RowDue`, `GraceEnds` of Attachments); in RoomExport
  `GraceEnds` does not happen at all during upload and completion, see below;
- list, detail, search and report queries: one read each, nothing depends on them;
- inside the modelled parts: prices, reasons, response bodies, templates, provider
  protocols, workbook format, validation of payloads (a choice of outcome), cryptography.

Listed as hazards and not explored:

- a member that joins, commits and leaves between the two checks of a rebuild: the run
  keeps the workers stopped, as the runbook tells the operator (`WorkersStopped`);
- BullMQ redelivering an export whose worker is alive but stalled: both attempts have
  the same token, hence the same key and safeguard, and the fence of the event no
  longer tells them apart. The model redelivers only jobs whose worker is gone;
- an export stalled between upload and completion for longer than the grace of its
  safeguard: `complete` does not ask whether a runner has claimed it.

Next: relating the stream's bookings (`ChangeBooking`) and the events of OutboxDelivery
to the rows BookingCore writes, which today are two models of one table each.
