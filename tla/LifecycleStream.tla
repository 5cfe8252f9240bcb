--------------------------- MODULE LifecycleStream ---------------------------
(***************************************************************************)
(* The booking lifecycle stream and the read model it feeds.               *)
(*                                                                         *)
(*   a booking transaction writes an outbox row (BookingLifecycleRecorder) *)
(*   a relay claims rows, publishes them and marks them                    *)
(*     (booking-lifecycle-relay.service.ts, *.repository.ts)               *)
(*   Kafka keeps one log per partition, keyed by booking                   *)
(*   a consumer group applies batches to booking_stats_facts and then      *)
(*     commits their offsets (booking-stats-batch.ts,                      *)
(*     booking-stats-projection.service.ts, booking-stats-fact.repository) *)
(*   an operator rewinds the group and empties the table                   *)
(*     (booking-stats-rebuild.service.ts)                                  *)
(*                                                                         *)
(* One SQL statement or transaction, one request to the broker, is a step. *)
(* NOW(6) is two facts of a row: its lease runs (live), it is due.  A      *)
(* claim token is fresh for each cycle and a relay runs one cycle at a     *)
(* time, addressing only the rows of that cycle, so the relay's name       *)
(* stands for it.                                                          *)
(***************************************************************************)
EXTENDS Integers, FiniteSets, Sequences

CONSTANTS
  Bookings,
  Partitions,       \* partitions of the topic
  PartitionOf,      \* booking -> partition: the murmur2 hash of the key
  Relays,           \* BookingLifecycleRelayService instances
  Consumers,        \* KafkaBookingStatsConsumer instances
  BatchSize,        \* relay.claimBatchSize
  DeleteBatch,      \* bookingStatsRebuildDeleteBatchSize
  MaxVersion,       \* bound: changes to one booking
  MaxFaults,        \* bound: crashes, stops, failed and timed out calls
  MaxRebuilds,      \* bound: runs of the rebuild command
  Explored,         \* bound: the transitions bookings take in this instance
  WorkersStopped,   \* the operator keeps the workers down during a rebuild
  None

Statuses == {"PENDING", "CONFIRMED", "REJECTED", "CANCELLED_BY_USER", "CANCELLED_BY_ADMIN",
             "COMPLETED"}
\* What .v1 defines; a change that keeps its status is a change of stay.
Transitions ==
  {<<"null", "PENDING">>, <<"PENDING", "CANCELLED_BY_USER">>, <<"PENDING", "CONFIRMED">>,
   <<"PENDING", "REJECTED">>, <<"PENDING", "CANCELLED_BY_ADMIN">>,
   <<"CONFIRMED", "CANCELLED_BY_ADMIN">>, <<"PENDING", "PENDING">>,
   <<"CONFIRMED", "CONFIRMED">>}
Versions == 1..MaxVersion
Ids == Bookings \X Versions
Payload == [booking : Bookings, version : Versions, from : Statuses \cup {"null"},
            to : Statuses, stay : Nat, moved : BOOLEAN]

ASSUME ConstantsAssumption ==
  /\ PartitionOf \in [Bookings -> Partitions]
  /\ BatchSize \in Nat \ {0} /\ DeleteBatch \in Nat \ {0}
  /\ MaxVersion \in Nat /\ MaxFaults \in Nat /\ MaxRebuilds \in Nat
  /\ WorkersStopped \in BOOLEAN /\ Explored \subseteq Transitions
  /\ None \notin Relays \cup Consumers \cup Payload

OutboxRow == [status : {"NONE", "PENDING", "PROCESSING", "PROCESSED", "FAILED"},
              token : Relays \cup {None}, live : BOOLEAN, due : BOOLEAN,
              payload : Payload \cup {None}]
NoRow == [status |-> "NONE", token |-> None, live |-> FALSE, due |-> FALSE, payload |-> None]
Fact == [version : 0..MaxVersion, status : Statuses \cup {"null"}, stay : Nat]
NoFact == [version |-> 0, status |-> "null", stay |-> 0]
Cycle == [pc : {"idle", "prepare", "publish", "mark", "retry"}, ids : SUBSET Ids]
Resting == [pc |-> "idle", ids |-> {}]
Member == [pc : {"out", "idle", "apply", "commit"}, part : Partitions \cup {None},
           lo : Nat, hi : Nat, stale : BOOLEAN]
Away == [pc |-> "out", part |-> None, lo |-> 0, hi |-> 0, stale |-> FALSE]
Polling == [Away EXCEPT !.pc = "idle"]

VARIABLES
  booking,    \* booking -> the committed row: version, status, stay
  row,        \* outbox_events of the family, by booking and version
  relay,      \* relay -> its cycle
  late,       \* relay -> requests it gave up on; {} once its client is done with one
  log,        \* partition -> messages in offset order
  members,    \* consumers the broker counts in the group
  owner,      \* partition -> the member it is assigned to
  committed,  \* partition -> next offset the group will read (1 is the earliest)
  pos,        \* partition -> next offset its owner will fetch
  cons,       \* consumer -> the batch in its hands
  facts,      \* booking_stats_facts
  rebuild,    \* the rebuild command
  faults,
  rebuilds

relayVars == <<row, relay, late>>
groupVars == <<members, owner, committed, pos, cons>>
vars == <<booking, relayVars, log, groupVars, facts, rebuild, faults, rebuilds>>

Fault == faults < MaxFaults /\ faults' = faults + 1

(***************************************************************************)
(* Booking transactions.                                                   *)
(***************************************************************************)
\* toBookingLifecyclePayload of the saved booking; previousStay only for a change of stay.
ToPayload(b, from, new) ==
  [booking |-> b, version |-> new.version, from |-> from, to |-> new.status,
   stay |-> new.stay, moved |-> from = new.status]

\* The row commits with the booking; its key is the resulting version.
Record(b, from, new) ==
  row' = [row EXCEPT ![<<b, new.version>>] =
            [status |-> "PENDING", token |-> None, live |-> FALSE, due |-> TRUE,
             payload |-> ToPayload(b, from, new)]]

\* Create, cancel, approve, reject, cancelAdmin, updateAdmin: one version up each.
ChangeBooking(b) ==
  \E t \in Explored :
    LET old == booking[b]
        new == [version |-> old.version + 1, status |-> t[2],
                stay |-> IF t[1] = t[2] THEN old.stay + 1 ELSE old.stay]
    IN  /\ old.version < MaxVersion
        /\ old.status = t[1]
        /\ booking' = [booking EXCEPT ![b] = new]
        /\ Record(b, old.status, new)
        /\ UNCHANGED <<relay, late, log, groupVars, facts, rebuild, faults, rebuilds>>

(***************************************************************************)
(* The relay: claim, read back and check, publish, mark.                   *)
(***************************************************************************)
\* Mutant: abandoned claims are never collected.
Expired_Forgotten == {}

Expired == {i \in Ids : row[i].status = "PROCESSING" /\ ~row[i].live}
Due     == {i \in Ids : row[i].status = "PENDING" /\ row[i].due}
AtMost(S, n) == {X \in SUBSET S : Cardinality(X) = (IF Cardinality(S) < n THEN Cardinality(S) ELSE n)}

\* claimBatch: abandoned claims first, arrivals for what is left of the batch.
Batches == UNION {{X \cup Y : Y \in AtMost(Due, BatchSize - Cardinality(X))} :
                    X \in AtMost(Expired, BatchSize)}

Claim(r) ==
  \E S \in Batches :
    /\ relay[r].pc = "idle" /\ S # {}
    /\ row' = [i \in Ids |-> IF i \in S
                 THEN [row[i] EXCEPT !.status = "PROCESSING", !.token = r, !.live = TRUE]
                 ELSE row[i]]
    /\ relay' = [relay EXCEPT ![r] = [pc |-> "prepare", ids |-> S]]
    /\ UNCHANGED <<booking, late, log, groupVars, facts, rebuild, faults, rebuilds>>

\* The rows of the cycle that are still this relay's claim.
Held(r) == {i \in relay[r].ids : row[i].status = "PROCESSING" /\ row[i].token = r}

\* finish: the rows still held take the outcome and lose the claim.
FinishRows(r, status) ==
  [i \in Ids |-> IF i \in Held(r)
     THEN [row[i] EXCEPT !.status = status, !.token = None, !.live = FALSE, !.due = FALSE]
     ELSE row[i]]

\* parseBookingLifecyclePayload: a defined transition, a positive version, and the
\* previous stay exactly when the status is kept.
ParsePayload(p) ==
  /\ p # None
  /\ p.version >= 1
  /\ <<p.from, p.to>> \in Transitions
  /\ p.moved <=> p.from = p.to

\* readClaimed, prepare and markFailed: what does not parse is failed for good.
Prepare(r) ==
  LET publishable == {i \in Held(r) : ParsePayload(row[i].payload)}
      invalid == Held(r) \ publishable
  IN  /\ relay[r].pc = "prepare"
      /\ row' = [i \in Ids |-> IF i \in invalid
                   THEN [row[i] EXCEPT !.status = "FAILED", !.token = None, !.live = FALSE]
                   ELSE row[i]]
      /\ relay' = [relay EXCEPT ![r] = IF publishable = {} THEN Resting
                                       ELSE [pc |-> "publish", ids |-> publishable]]
      /\ UNCHANGED <<booking, late, log, groupVars, facts, rebuild, faults, rebuilds>>

Messages(r) == {row[i].payload : i \in relay[r].ids}

\* readClaimed orders by created_at: one booking's messages leave in version order; the
\* order between bookings is left open.
Sequenced(S) ==
  {s \in UNION {[1..n -> S] : n \in 0..BatchSize} :
     /\ \A m \in S : \E k \in DOMAIN s : s[k] = m
     /\ \A j, k \in DOMAIN s :
          j < k /\ s[j].booking = s[k].booking => s[j].version < s[k].version}

ToPartition(S, p) == {m \in S : PartitionOf[m.booking] = p}

\* A produce request that the partitions parts take.
Produce(S, parts) ==
  \E s \in [parts -> UNION {Sequenced(ToPartition(S, p)) : p \in parts}] :
    /\ \A p \in parts : s[p] \in Sequenced(ToPartition(S, p))
    /\ log' = [p \in Partitions |-> IF p \in parts THEN log[p] \o s[p] ELSE log[p]]

\* Mutant: the rows are marked first and published after.
Publish_Unsent(r) ==
  /\ relay[r].pc = "publish"
  /\ relay' = [relay EXCEPT ![r].pc = "mark"]
  /\ UNCHANGED <<booking, row, late, log, groupVars, facts, rebuild, faults, rebuilds>>

\* send: the broker takes every message; requests given up on before may still be under way.
Publish(r) ==
  /\ relay[r].pc = "publish"
  /\ Produce(Messages(r), Partitions)
  /\ relay' = [relay EXCEPT ![r].pc = "mark"]
  /\ UNCHANGED <<booking, row, late, groupVars, facts, rebuild, faults, rebuilds>>

\* producer.send throws: any of the partitions may have taken its messages.
PublishFails(r) ==
  \E parts \in SUBSET Partitions :
    /\ relay[r].pc = "publish"
    /\ Fault
    /\ Produce(Messages(r), parts)
    /\ relay' = [relay EXCEPT ![r].pc = "retry"]
    /\ UNCHANGED <<booking, row, late, groupVars, facts, rebuild, rebuilds>>

\* withTimeout rejects; the request itself is not cancelled.
PublishTimesOut(r) ==
  /\ relay[r].pc = "publish"
  /\ Fault
  /\ late' = [late EXCEPT ![r] = Append(@, Messages(r))]
  /\ relay' = [relay EXCEPT ![r].pc = "retry"]
  /\ UNCHANGED <<booking, row, log, groupVars, facts, rebuild, rebuilds>>

\* The client's late success, or its own end of retries; a request that is being retried
\* may be overtaken.
LateRequestEnds(r) ==
  \E n \in DOMAIN late[r] :
    /\ late[r][n] # {}
    /\ \E parts \in SUBSET Partitions : Produce(late[r][n], parts)
    /\ late' = [late EXCEPT ![r][n] = {}]
    /\ UNCHANGED <<booking, row, relay, groupVars, facts, rebuild, faults, rebuilds>>

MarkPublished(r) ==
  /\ relay[r].pc = "mark"
  /\ row' = FinishRows(r, "PROCESSED")
  /\ relay' = [relay EXCEPT ![r] = Resting]
  /\ UNCHANGED <<booking, late, log, groupVars, facts, rebuild, faults, rebuilds>>

\* No ceiling on attempts: a broker outage says nothing about the event.
MarkRetry(r) ==
  /\ relay[r].pc = "retry"
  /\ row' = FinishRows(r, "PENDING")
  /\ relay' = [relay EXCEPT ![r] = Resting]
  /\ UNCHANGED <<booking, late, log, groupVars, facts, rebuild, faults, rebuilds>>

\* The process dies, or a statement of the cycle throws and pollOnce gives it up.
RelayCrash(r) ==
  /\ relay[r].pc # "idle"
  /\ Fault
  /\ relay' = [relay EXCEPT ![r] = Resting]
  /\ UNCHANGED <<booking, row, late, log, groupVars, facts, rebuild, rebuilds>>

\* A lease outlasts a whole cycle by configuration: it runs out under a working relay
\* only when that relay stalls.
LeaseRunsOut(i) ==
  /\ row[i].live
  /\ IF i \in relay[row[i].token].ids THEN Fault ELSE UNCHANGED faults
  /\ row' = [row EXCEPT ![i].live = FALSE]
  /\ UNCHANGED <<booking, relay, late, log, groupVars, facts, rebuild, rebuilds>>

BackoffEnds(i) ==
  /\ row[i].status = "PENDING" /\ ~row[i].due
  /\ row' = [row EXCEPT ![i].due = TRUE]
  /\ UNCHANGED <<booking, relay, late, log, groupVars, facts, rebuild, faults, rebuilds>>

(***************************************************************************)
(* The consumer group.                                                     *)
(***************************************************************************)
\* The broker assigns the partitions to the members M; every member starts again from
\* the committed offsets, and a batch fetched before is stale.
Rebalance(M) ==
  /\ members' = M
  /\ owner' \in {f \in [Partitions -> M \cup {None}] :
                   \A p \in Partitions : f[p] = None <=> M = {}}
  /\ pos' = committed
  /\ UNCHANGED committed

AllStale(c, mine) ==
  [d \in Consumers |-> IF d = c THEN mine
                       ELSE [cons[d] EXCEPT !.stale = cons[d].pc \in {"apply", "commit"}]]

\* attempt: ensure the topic, connect, subscribe, run.
Join(c) ==
  /\ cons[c].pc = "out" /\ c \notin members
  /\ WorkersStopped => rebuild.pc = "idle"
  /\ Rebalance(members \cup {c})
  /\ cons' = AllStale(c, Polling)
  /\ UNCHANGED <<booking, relayVars, log, facts, rebuild, faults, rebuilds>>

\* stop: waits for the batch in flight, then leaves.
Leave(c) ==
  /\ cons[c].pc = "idle" /\ c \in members
  /\ Fault
  /\ Rebalance(members \ {c})
  /\ cons' = AllStale(c, Away)
  /\ UNCHANGED <<booking, relayVars, log, facts, rebuild, rebuilds>>

\* The process is killed: the broker counts it until its session times out.
ConsumerCrash(c) ==
  /\ cons[c].pc # "out"
  /\ Fault
  /\ cons' = [cons EXCEPT ![c] = Away]
  /\ UNCHANGED <<booking, relayVars, log, members, owner, committed, pos, facts, rebuild,
                 rebuilds>>

\* The session times out: of a dead member, or of one too slow to send its heartbeat.
Evict(c) ==
  /\ c \in members
  /\ IF cons[c].pc = "out" THEN UNCHANGED faults ELSE Fault
  /\ Rebalance(members \ {c})
  /\ cons' = AllStale(c, IF cons[c].pc \in {"out", "idle"} THEN Away
                         ELSE [cons[c] EXCEPT !.stale = TRUE])
  /\ UNCHANGED <<booking, relayVars, log, facts, rebuild, rebuilds>>

\* eachBatch with a batch of what follows the position.
Fetch(c) ==
  \E p \in Partitions : \E hi \in pos[p] .. Len(log[p]) :
    /\ cons[c].pc = "idle" /\ owner[p] = c
    /\ cons' = [cons EXCEPT ![c] = [pc |-> "apply", part |-> p, lo |-> pos[p], hi |-> hi,
                                    stale |-> FALSE]]
    /\ UNCHANGED <<booking, relayVars, log, members, owner, committed, pos, facts, rebuild,
                   faults, rebuilds>>

ToFact(m) == [version |-> m.version, status |-> m.to, stay |-> m.stay]

\* parseBookingLifecycleMessage: the rest of the envelope is checked as a payload again.
ParseMessage(m) == ParsePayload(m)

\* applyBatch: of the messages that parse, the newest version of each booking.
Newest(c, b) ==
  LET batch == {log[cons[c].part][i] : i \in cons[c].lo .. cons[c].hi}
      mine == {m \in batch : m.booking = b /\ ParseMessage(m)}
  IN  IF mine = {} THEN NoFact
      ELSE ToFact(CHOOSE m \in mine : \A n \in mine : m.version >= n.version)

\* Mutants: booking_version is assigned before the columns that compare with it; the
\* incoming row always replaces the stored one.
Upsert_VersionFirst(stored, incoming) ==
  IF stored = NoFact THEN incoming
  ELSE [stored EXCEPT !.version = IF incoming.version > @ THEN incoming.version ELSE @]
Upsert_Unguarded(stored, incoming) == IF incoming = NoFact THEN stored ELSE incoming

\* The guarded upsert: each column compares the incoming version with the stored one,
\* and booking_version, assigned last, takes the greater.
Upsert(stored, incoming) ==
  LET newer == incoming.version > stored.version
  IN  [status  |-> IF newer THEN incoming.status ELSE stored.status,
       stay    |-> IF newer THEN incoming.stay ELSE stored.stay,
       version |-> IF newer THEN incoming.version ELSE stored.version]

\* One transaction; a member that has lost the partition meanwhile still runs it.
Apply(c) ==
  /\ cons[c].pc = "apply"
  /\ facts' = [b \in Bookings |-> Upsert(facts[b], Newest(c, b))]
  /\ cons' = [cons EXCEPT ![c].pc = "commit"]
  /\ UNCHANGED <<booking, relayVars, log, members, owner, committed, pos, rebuild, faults,
                 rebuilds>>

\* The handler rejects: nothing is committed, the batch is fetched again.
ApplyFails(c) ==
  /\ cons[c].pc = "apply"
  /\ Fault
  /\ cons' = [cons EXCEPT ![c] = IF c \in members THEN Polling ELSE Away]
  /\ UNCHANGED <<booking, relayVars, log, members, owner, committed, pos, facts, rebuild,
                 rebuilds>>

\* resolveOffset and commitOffsetsIfNecessary with last + 1.  The broker refuses a
\* commit of an older generation; another failure leaves the position resolved.
Commit(c) ==
  LET p == cons[c].part
  IN  /\ cons[c].pc = "commit"
      /\ cons' = [cons EXCEPT ![c] = IF c \in members THEN Polling ELSE Away]
      /\ IF cons[c].stale THEN UNCHANGED <<committed, pos, faults>>
         ELSE /\ pos' = [pos EXCEPT ![p] = cons[c].hi + 1]
              /\ \/ committed' = [committed EXCEPT ![p] = cons[c].hi + 1] /\ UNCHANGED faults
                 \/ UNCHANGED committed /\ Fault
      /\ UNCHANGED <<booking, relayVars, log, members, owner, facts, rebuild, rebuilds>>

(***************************************************************************)
(* The rebuild command.                                                    *)
(***************************************************************************)
RebuildMoves(pc, outcome) == rebuild' = [pc |-> pc, outcome |-> outcome]

\* hasActiveMembers and topicExists: refused while the broker counts a member.
RebuildStart ==
  /\ rebuild.pc = "idle" /\ rebuilds < MaxRebuilds
  /\ rebuilds' = rebuilds + 1
  /\ IF members # {} THEN RebuildMoves("idle", "CONSUMER_ACTIVE")
     ELSE RebuildMoves("reset", "none")
  /\ UNCHANGED <<booking, relayVars, log, groupVars, facts, faults>>

\* Mutant: the table is emptied without rewinding the group.
RebuildReset_Skipped ==
  /\ rebuild.pc = "reset"
  /\ RebuildMoves("delete", "none")
  /\ UNCHANGED <<booking, relayVars, log, groupVars, facts, faults, rebuilds>>

\* Mutant: offsets start from zero.
RebuildReset_Zero ==
  /\ rebuild.pc = "reset"
  /\ RebuildMoves("delete", "none")
  /\ committed' = [p \in Partitions |-> 0]
  /\ pos' = committed'
  /\ UNCHANGED <<booking, relayVars, log, members, owner, cons, facts, faults, rebuilds>>

\* resetToEarliest; the client refuses a group with members.
RebuildReset ==
  /\ rebuild.pc = "reset"
  /\ IF members # {}
     THEN RebuildMoves("idle", "FAILED") /\ UNCHANGED <<committed, pos>>
     ELSE /\ RebuildMoves("delete", "none")
          /\ committed' = [p \in Partitions |-> 1]
          /\ pos' = committed'
  /\ UNCHANGED <<booking, relayVars, log, members, owner, cons, facts, faults, rebuilds>>

Stored == {b \in Bookings : facts[b] # NoFact}

\* One bounded DELETE; a short one ends the loop.
RebuildDelete ==
  \E S \in AtMost(Stored, DeleteBatch) :
    /\ rebuild.pc = "delete"
    /\ facts' = [b \in Bookings |-> IF b \in S THEN NoFact ELSE facts[b]]
    /\ IF Cardinality(S) < DeleteBatch THEN RebuildMoves("verify", "none")
       ELSE UNCHANGED rebuild
    /\ UNCHANGED <<booking, relayVars, log, groupVars, faults, rebuilds>>

\* hasActiveMembers again: a member that joined meanwhile fails the command.
RebuildVerify ==
  /\ rebuild.pc = "verify"
  /\ RebuildMoves("idle", IF members = {} THEN "OK" ELSE "CONSUMER_JOINED")
  /\ UNCHANGED <<booking, relayVars, log, groupVars, facts, faults, rebuilds>>

\* A call of the command throws, or the process dies.
RebuildFails ==
  /\ rebuild.pc # "idle"
  /\ Fault
  /\ RebuildMoves("idle", "FAILED")
  /\ UNCHANGED <<booking, relayVars, log, groupVars, facts, rebuilds>>

Init ==
  /\ booking = [b \in Bookings |-> [version |-> 0, status |-> "null", stay |-> 0]]
  /\ row = [i \in Ids |-> NoRow]
  /\ relay = [r \in Relays |-> Resting]
  /\ late = [r \in Relays |-> <<>>]
  /\ log = [p \in Partitions |-> <<>>]
  /\ members = {}
  /\ owner = [p \in Partitions |-> None]
  /\ committed = [p \in Partitions |-> 1]
  /\ pos = committed
  /\ cons = [c \in Consumers |-> Away]
  /\ facts = [b \in Bookings |-> NoFact]
  /\ rebuild = [pc |-> "idle", outcome |-> "none"]
  /\ faults = 0 /\ rebuilds = 0

RelayStep(r) == \/ Claim(r) \/ Prepare(r) \/ Publish(r) \/ MarkPublished(r) \/ MarkRetry(r)
ConsumerStep(c) == Fetch(c) \/ Apply(c) \/ Commit(c)
RebuildStep == RebuildReset \/ RebuildDelete \/ RebuildVerify

Next ==
  \/ \E b \in Bookings : ChangeBooking(b)
  \/ \E r \in Relays : \/ RelayStep(r) \/ LateRequestEnds(r)
                       \/ PublishFails(r) \/ PublishTimesOut(r) \/ RelayCrash(r)
  \/ \E i \in Ids : LeaseRunsOut(i) \/ BackoffEnds(i)
  \/ \E c \in Consumers : \/ Join(c) \/ Leave(c) \/ Evict(c) \/ ConsumerCrash(c)
                          \/ ConsumerStep(c) \/ ApplyFails(c)
  \/ RebuildStart \/ RebuildStep \/ RebuildFails

Spec == Init /\ [][Next]_vars

\* Loops poll, timers fire, sessions and requests end, a started command goes on.
Fairness ==
  /\ \A r \in Relays : WF_vars(RelayStep(r)) /\ WF_vars(LateRequestEnds(r))
  /\ \A i \in Ids : WF_vars(LeaseRunsOut(i)) /\ WF_vars(BackoffEnds(i))
  /\ \A c \in Consumers : /\ WF_vars(Join(c)) /\ WF_vars(ConsumerStep(c))
                          /\ WF_vars(cons[c].pc = "out" /\ Evict(c))
  /\ WF_vars(RebuildStep)

FairSpec == Spec /\ Fairness

-----------------------------------------------------------------------------
\* Types: outbox rows, relay cycles, partitions, members, facts and the rebuild command
\* keep their shape.
TypeOK ==
  /\ booking \in [Bookings -> [version : 0..MaxVersion, status : Statuses \cup {"null"},
                               stay : Nat]]
  /\ row \in [Ids -> OutboxRow]
  /\ relay \in [Relays -> Cycle]
  /\ late \in [Relays -> Seq(SUBSET Payload)]
  /\ log \in [Partitions -> Seq(Payload)]
  /\ members \subseteq Consumers
  /\ owner \in [Partitions -> Consumers \cup {None}]
  /\ committed \in [Partitions -> Nat \ {0}] /\ pos \in [Partitions -> Nat \ {0}]
  /\ cons \in [Consumers -> Member]
  /\ facts \in [Bookings -> Fact]
  /\ rebuild \in [pc : {"idle", "reset", "delete", "verify"},
                  outcome : {"none", "OK", "CONSUMER_ACTIVE", "CONSUMER_JOINED", "FAILED"}]
  /\ faults \in 0..MaxFaults /\ rebuilds \in 0..MaxRebuilds

\* A row is marked PROCESSED only when the topic holds its message, whatever relay
\* crashed, timed out or lost its lease on the way, and no change is ever refused by
\* the publishing gate.
ProcessedIsOnTopic ==
  \A i \in Ids :
    /\ row[i].status # "FAILED"
    /\ row[i].status = "PROCESSED" =>
         \E k \in 1 .. Len(log[PartitionOf[i[1]]]) : log[PartitionOf[i[1]]][k] = row[i].payload

\* The group never moves past a message the read model does not show: everything below
\* a committed offset is in the facts, or has been replaced by a newer version.
CommittedIsApplied ==
  \A p \in Partitions : \A k \in 1 .. committed[p] - 1 :
    facts[log[p][k].booking].version >= log[p][k].version

\* A fact is one version of its booking, whole: duplicates, reordered messages and
\* replays never leave columns of two versions in a row.
FactsAreVersions ==
  \A b \in Bookings :
    facts[b] # NoFact => facts[b] = ToFact(row[<<b, facts[b].version>>].payload)

\* From the outbox through the topic to the facts nothing is passed over or mixed up.
NothingPassedOver == ProcessedIsOnTopic /\ CommittedIsApplied /\ FactsAreVersions

\* What the read model shows of this state.
View == INSTANCE ReadModel WITH
  newest <- [b \in Bookings |-> booking[b].version],
  view <- [b \in Bookings |-> facts[b].version],
  emptying <- rebuild.pc = "delete"

\* The pipeline implements the read model: rows only move forward to committed
\* versions, and only the rebuild takes them away.
ImplementsReadModel == View!Spec

\* Once crashes, rebuilds and changes stop, the read model shows every booking as it is.
CatchesUp == \A b \in Bookings : <>[](facts[b].version = booking[b].version)
=============================================================================
