------------------------ MODULE LifecycleStreamProofs ------------------------
(***************************************************************************)
(* Proofs about LifecycleStream, for any number of bookings, partitions,   *)
(* relays and consumers, any batch sizes and any number of failures.       *)
(*                                                                         *)
(* Whatever is in flight (in a relay's hands, in a request given up on, on *)
(* the topic) is a payload that a booking transaction recorded, and        *)
(* records never change.  So a fact can only be a recorded version, and a  *)
(* batch applied late can only fall behind the version guard.              *)
(***************************************************************************)
EXTENDS LifecycleStream, WellFoundedInduction, TLAPS

\* m is what the transaction that made its version wrote.
Recorded(m) ==
  /\ m \in Payload /\ m.version <= booking[m.booking].version
  /\ row[<<m.booking, m.version>>].payload = m

\* The outbox has one row for each version a booking has had, and each one parses.
RowSound(b, v) ==
  IF v <= booking[b].version
  THEN /\ row[<<b, v>>].status \notin {"NONE", "FAILED"}
       /\ Recorded(row[<<b, v>>].payload) /\ ParsePayload(row[<<b, v>>].payload)
       /\ row[<<b, v>>].payload.booking = b /\ row[<<b, v>>].payload.version = v
  ELSE row[<<b, v>>].status = "NONE"

OnTopic(i) ==
  \E k \in 1 .. Len(log[PartitionOf[i[1]]]) : log[PartitionOf[i[1]]][k] = row[i].payload

\* A relay works on recorded rows, and marks what the topic has.
RelaySound(r) ==
  \A i \in relay[r].ids :
    row[i].status # "NONE" /\ (relay[r].pc = "mark" => OnTopic(i))

LateSound(r) == \A n \in 1 .. Len(late[r]) : \A m \in late[r][n] : Recorded(m)
LogSound(p) == \A k \in 1 .. Len(log[p]) : Recorded(log[p][k])

\* A batch in hand is a stretch of the log.
Holding(c) == cons[c].pc \in {"apply", "commit"}
HandSound(c) ==
  Holding(c) => /\ cons[c].part \in Partitions
                /\ cons[c].lo >= 1 /\ cons[c].lo <= cons[c].hi
                /\ cons[c].hi <= Len(log[cons[c].part])

FactSound(b) ==
  IF facts[b].version = 0 THEN facts[b] = NoFact
  ELSE /\ facts[b].version <= booking[b].version
       /\ facts[b] = ToFact(row[<<b, facts[b].version>>].payload)

OutboxInv ==
  /\ \A b \in Bookings, v \in Versions : RowSound(b, v)
  /\ \A i \in Ids : row[i].status = "PROCESSED" => OnTopic(i)
  /\ \A r \in Relays : RelaySound(r) /\ LateSound(r)
  /\ \A p \in Partitions : LogSound(p)
FactInv == (\A c \in Consumers : HandSound(c)) /\ \A b \in Bookings : FactSound(b)

IInv == TypeOK /\ OutboxInv /\ FactInv

\* The message at offset k of p is in the facts, or a newer one is.
Applied(p, k) == facts[log[p][k].booking].version >= log[p][k].version

OffsetsSound(p) ==
  /\ committed[p] <= Len(log[p]) + 1 /\ pos[p] <= Len(log[p]) + 1
  /\ \A k \in 1 .. Len(log[p]) : k < committed[p] \/ k < pos[p] => Applied(p, k)

\* A batch that may still be committed is a member's, and all before it is applied.
BatchSound(c) ==
  Holding(c) /\ cons[c].stale = FALSE =>
    /\ c \in members
    /\ \A k \in 1 .. Len(log[cons[c].part]) :
         k < cons[c].lo \/ (cons[c].pc = "commit" /\ k <= cons[c].hi) => Applied(cons[c].part, k)

\* A rebuild has the group to itself, and empties the table from the first offset.
RebuildSound ==
  /\ rebuild.pc # "idle" => members = {}
  /\ rebuild.pc = "delete" => \A p \in Partitions : committed[p] = 1 /\ pos[p] = 1

GroupInv ==
  /\ \A p \in Partitions : OffsetsSound(p) /\ owner[p] \in members \cup {None}
  /\ \A c \in Consumers : BatchSound(c)
  /\ RebuildSound

-----------------------------------------------------------------------------
LEMMA ConstantFacts ==
  /\ MaxVersion \in Nat /\ MaxFaults \in Nat /\ MaxRebuilds \in Nat
  /\ \A b \in Bookings, v \in Versions : <<b, v>> \in Ids
  /\ \A i \in Ids : i[1] \in Bookings /\ i[2] \in Versions /\ i = <<i[1], i[2]>>
  /\ \A b \in Bookings : PartitionOf[b] \in Partitions
  /\ \A v \in Versions : v \in Nat /\ v >= 1
BY ConstantsAssumption DEF Ids, Versions

LEMMA InitInv == Init => IInv /\ GroupInv
<1> SUFFICES ASSUME Init PROVE IInv /\ GroupInv
  OBVIOUS
<1>1. NoRow \in OutboxRow /\ Resting \in Cycle /\ Away \in Member
  BY DEF NoRow, OutboxRow, Resting, Cycle, Away, Member
<1>2. NoFact \in Fact /\ 0 \in 0..MaxVersion /\ 0 \in 0..MaxFaults /\ 0 \in 0..MaxRebuilds
  BY ConstantFacts DEF NoFact, Fact
<1>3. TypeOK
  BY <1>1, <1>2, ConstantFacts DEF Init, TypeOK
<1>4. OutboxInv
  <2>1. \A b \in Bookings, v \in Versions : RowSound(b, v)
    <3> SUFFICES ASSUME NEW b \in Bookings, NEW v \in Versions PROVE RowSound(b, v)
      OBVIOUS
    <3>1. <<b, v>> \in Ids /\ ~(v <= 0)
      BY ConstantFacts
    <3>2. row[<<b, v>>] = NoRow /\ booking[b].version = 0
      BY <3>1 DEF Init
    <3>3. QED
      BY <3>1, <3>2 DEF RowSound, NoRow
  <2>2. \A r \in Relays : RelaySound(r) /\ LateSound(r)
    BY DEF Init, RelaySound, LateSound, Resting
  <2>3. \A p \in Partitions : LogSound(p)
    BY DEF Init, LogSound
  <2>4. \A i \in Ids : row[i].status # "PROCESSED"
    BY DEF Init, NoRow
  <2>5. QED
    BY <2>1, <2>2, <2>3, <2>4 DEF OutboxInv
<1>5. FactInv
  BY DEF Init, FactInv, HandSound, Holding, FactSound, Away, NoFact
<1>6. GroupInv
  BY DEF Init, GroupInv, OffsetsSound, BatchSound, Holding, RebuildSound, Away
<1>7. QED
  BY <1>3, <1>4, <1>5, <1>6 DEF IInv

-----------------------------------------------------------------------------
(***************************************************************************)
(* Records: they are made once and never change.                           *)
(***************************************************************************)
\* What a recorded payload is.
LEMMA RecordedFacts ==
  ASSUME IInv, NEW m, Recorded(m)
  PROVE  /\ m \in Payload /\ m.booking \in Bookings /\ m.version \in Versions
         /\ m.version \in Nat /\ m.version >= 1
         /\ <<m.booking, m.version>> \in Ids /\ row[<<m.booking, m.version>>].payload = m
         /\ ParsePayload(m) /\ m.version <= booking[m.booking].version
<1>1. m \in Payload /\ m.booking \in Bookings /\ m.version \in Versions
  BY DEF Recorded, Payload
<1>2. RowSound(m.booking, m.version)
  BY <1>1 DEF IInv, OutboxInv
<1>3. QED
  BY <1>1, <1>2, ConstantFacts DEF Recorded, RowSound

\* A row a relay may hold.
LEMMA RowFacts ==
  ASSUME IInv, NEW i \in Ids, row[i].status # "NONE"
  PROVE  /\ row[i].status # "FAILED" /\ Recorded(row[i].payload) /\ ParsePayload(row[i].payload)
         /\ row[i].payload.booking = i[1] /\ row[i].payload.version = i[2]
         /\ row[i].payload \in Payload
<1>1. i[1] \in Bookings /\ i[2] \in Versions /\ i = <<i[1], i[2]>>
  BY ConstantFacts
<1>2. RowSound(i[1], i[2])
  BY <1>1 DEF IInv, OutboxInv
<1>3. QED
  BY <1>1, <1>2 DEF RowSound, Recorded

\* A step that keeps the recorded payloads keeps all that is said about them.
LEMMA RecordsFrame ==
  ASSUME IInv,
         \A b \in Bookings : booking'[b].version \in Nat /\ booking[b].version \in Nat
                             /\ booking[b].version <= booking'[b].version,
         \A b \in Bookings, v \in Versions :
           v <= booking[b].version => row'[<<b, v>>].payload = row[<<b, v>>].payload
  PROVE  \A m : Recorded(m) => Recorded(m)'
<1> SUFFICES ASSUME NEW m, Recorded(m) PROVE Recorded(m)'
  OBVIOUS
<1>1. /\ m \in Payload /\ m.booking \in Bookings /\ m.version \in Versions /\ m.version \in Nat
      /\ row[<<m.booking, m.version>>].payload = m /\ m.version <= booking[m.booking].version
  BY RecordedFacts
<1>2. row'[<<m.booking, m.version>>].payload = m /\ m.version <= booking'[m.booking].version
  BY <1>1
<1>3. QED
  BY <1>1, <1>2 DEF Recorded

LEMMA FactsFrame ==
  ASSUME IInv, UNCHANGED facts,
         \A b \in Bookings : booking'[b].version \in Nat /\ booking[b].version \in Nat
                             /\ booking[b].version <= booking'[b].version,
         \A b \in Bookings, v \in Versions :
           v <= booking[b].version => row'[<<b, v>>].payload = row[<<b, v>>].payload
  PROVE  \A b \in Bookings : FactSound(b)'
<1> SUFFICES ASSUME NEW b \in Bookings PROVE FactSound(b)'
  OBVIOUS
<1>1. FactSound(b) /\ facts[b].version \in 0..MaxVersion
  BY DEF IInv, FactInv, TypeOK, Fact
<1>2. facts[b].version # 0 => facts[b].version \in Versions
  BY <1>1, ConstantFacts DEF Versions
<1>3. QED
  BY <1>1, <1>2, ConstantFacts DEF FactSound, ToFact


-----------------------------------------------------------------------------
(***************************************************************************)
(* Booking transactions and the relay's statements.                        *)
(***************************************************************************)
LEMMA ChangeKeeps ==
  ASSUME IInv, NEW b \in Bookings, ChangeBooking(b)
  PROVE  IInv'
<1>1. PICK t \in Explored :
        LET old == booking[b]
            new == [version |-> old.version + 1, status |-> t[2],
                    stay |-> IF t[1] = t[2] THEN old.stay + 1 ELSE old.stay]
        IN  /\ old.version < MaxVersion /\ old.status = t[1]
            /\ booking' = [booking EXCEPT ![b] = new] /\ Record(b, old.status, new)
            /\ UNCHANGED <<relay, late, log, groupVars, facts, rebuild, faults, rebuilds>>
  BY Zenon DEF ChangeBooking
<1> DEFINE v == booking[b].version + 1
           y == IF t[1] = t[2] THEN booking[b].stay + 1 ELSE booking[b].stay
           new == [version |-> v, status |-> t[2], stay |-> y]
           pay == ToPayload(b, booking[b].status, new)
           rec == [status |-> "PENDING", token |-> None, live |-> FALSE, due |-> TRUE,
                   payload |-> pay]
<1>2. /\ booking[b].version < MaxVersion /\ booking[b].status = t[1]
      /\ booking' = [booking EXCEPT ![b] = new] /\ row' = [row EXCEPT ![<<b, v>>] = rec]
      /\ UNCHANGED <<relay, late, log, members, owner, committed, pos, cons, facts, rebuild,
                     faults, rebuilds>>
  BY <1>1 DEF Record, groupVars
<1>3. /\ booking[b].version \in 0..MaxVersion /\ booking[b].stay \in Nat
      /\ booking[b].status \in Statuses \cup {"null"}
  BY DEF IInv, TypeOK
<1>4. v \in Versions /\ v \in 0..MaxVersion /\ y \in Nat /\ <<b, v>> \in Ids /\ v = booking[b].version + 1
  BY <1>2, <1>3, ConstantFacts DEF Versions, Ids
<1>5. t[2] \in Statuses /\ <<t[1], t[2]>> \in Transitions
  BY ConstantsAssumption DEF Transitions, Statuses
<1> HIDE DEF v, y
<1>6. /\ new \in [version : 0..MaxVersion, status : Statuses \cup {"null"}, stay : Nat]
      /\ new.version = v
  BY <1>4, <1>5
<1>7. /\ pay \in Payload /\ pay.booking = b /\ pay.version = v /\ ParsePayload(pay)
      /\ rec \in OutboxRow /\ rec.payload = pay /\ rec.status = "PENDING"
  <2> DEFINE kept == t[1] = t[2]
  <2>0. kept \in BOOLEAN
    OBVIOUS
  <2>1. /\ pay = [booking |-> b, version |-> v, from |-> t[1], to |-> t[2], stay |-> y,
                  moved |-> kept]
        /\ kept <=> t[1] = t[2]
    BY <1>2 DEF ToPayload
  <2> HIDE DEF kept
  <2>2. pay \in Payload
    BY <1>2, <1>3, <1>4, <1>5, <2>0, <2>1 DEF Payload
  <2>3. pay # None
    BY <2>2, ConstantsAssumption
  <2>4. pay.version >= 1 /\ <<pay.from, pay.to>> \in Transitions /\ (pay.moved <=> pay.from = pay.to)
    BY <1>4, <1>5, <2>0, <2>1, ConstantFacts
  <2>5. ParsePayload(pay)
    BY <2>3, <2>4 DEF ParsePayload
  <2>6. pay.booking = b /\ pay.version = v
    BY <2>1
  <2> HIDE DEF pay
  <2>7. QED
    BY <2>2, <2>5, <2>6 DEF OutboxRow
<1> HIDE DEF new, pay, rec
<1>a. PICK z \in Payload : /\ z = pay /\ z.booking = b /\ z.version = v /\ ParsePayload(z)
                           /\ rec.payload = z
  BY <1>7
<1>8. /\ booking'[b] = new /\ \A a \in Bookings : a # b => booking'[a] = booking[a]
      /\ row'[<<b, v>>] = rec /\ \A i \in Ids : i # <<b, v>> => row'[i] = row[i]
  BY <1>2, <1>4 DEF IInv, TypeOK
<1>9. TypeOK'
  <2>1. row' \in [Ids -> OutboxRow]
    BY <1>2, <1>4, <1>7 DEF IInv, TypeOK
  <2>2. booking' \in [Bookings -> [version : 0..MaxVersion, status : Statuses \cup {"null"}, stay : Nat]]
    BY <1>2, <1>6 DEF IInv, TypeOK
  <2>3. QED
    BY <1>2, <2>1, <2>2 DEF IInv, TypeOK
<1>10. /\ \A a \in Bookings : /\ booking'[a].version \in Nat /\ booking[a].version \in Nat
                              /\ booking[a].version <= booking'[a].version
       /\ \A a \in Bookings, u \in Versions :
            u <= booking[a].version => row'[<<a, u>>] = row[<<a, u>>]
  <2>1. \A a \in Bookings : booking'[a].version \in Nat /\ booking[a].version \in Nat
    BY <1>9, ConstantFacts DEF IInv, TypeOK
  <2>2. \A a \in Bookings : booking[a].version <= booking'[a].version
    BY <1>4, <1>6, <1>8, <2>1
  <2>3. \A a \in Bookings, u \in Versions : u <= booking[a].version => <<a, u>> # <<b, v>>
    BY <1>4, <2>1, ConstantFacts
  <2>4. QED
    BY <1>8, <2>1, <2>2, <2>3, ConstantFacts
<1>11. \A m : Recorded(m) => Recorded(m)'
  BY <1>10, RecordsFrame
<1>12. \A i \in Ids : row[i].status # "NONE" => row'[i] = row[i]
  <2> SUFFICES ASSUME NEW i \in Ids, row[i].status # "NONE" PROVE row'[i] = row[i]
    OBVIOUS
  <2>1. RowSound(b, v) /\ ~(v <= booking[b].version)
    BY <1>3, <1>4 DEF IInv, OutboxInv
  <2>2. QED
    BY <1>8, <2>1 DEF RowSound
<1>13. \A a \in Bookings, u \in Versions : RowSound(a, u)'
  <2> SUFFICES ASSUME NEW a \in Bookings, NEW u \in Versions PROVE RowSound(a, u)'
    OBVIOUS
  <2>1. CASE u <= booking[a].version
    <3>1. RowSound(a, u) /\ row'[<<a, u>>] = row[<<a, u>>] /\ u <= booking'[a].version
      BY <1>10, <2>1, ConstantFacts DEF IInv, OutboxInv
    <3>2. QED
      BY <1>11, <2>1, <3>1 DEF RowSound, ParsePayload, Recorded
  <2>2. CASE a = b /\ u = v
    <3>1. v <= v
      BY <1>4, ConstantFacts
    <3>2. Recorded(z)'
      BY <1>6, <1>a, <1>8, <3>1 DEF Recorded
    <3>3. QED
      BY <1>6, <1>7, <1>a, <1>8, <2>2, <3>1, <3>2 DEF RowSound, ParsePayload, Recorded
  <2>3. CASE ~(u <= booking[a].version) /\ ~(a = b /\ u = v)
    <3>1. RowSound(a, u) /\ <<a, u>> # <<b, v>> /\ <<a, u>> \in Ids
      BY <2>3, ConstantFacts DEF IInv, OutboxInv
    <3>2. ~(u <= booking'[a].version)
      BY <1>3, <1>4, <1>6, <1>8, <1>10, <2>3, ConstantFacts
    <3>3. QED
      BY <1>8, <2>3, <3>1, <3>2 DEF RowSound
  <2>4. QED
    BY <2>1, <2>2, <2>3
<1>14. \A i \in Ids : row[i].status # "NONE" => (OnTopic(i) => OnTopic(i)')
  BY <1>2, <1>12 DEF OnTopic
<1>15. \A i \in Ids : row'[i].status = "PROCESSED" => OnTopic(i)'
  <2> SUFFICES ASSUME NEW i \in Ids, row'[i].status = "PROCESSED" PROVE OnTopic(i)'
    OBVIOUS
  <2>1. row'[i] = row[i]
    BY <1>7, <1>8
  <2>2. QED
    BY <1>14, <2>1 DEF IInv, OutboxInv
<1>16. \A r \in Relays : RelaySound(r)' /\ LateSound(r)'
  <2>1. \A r \in Relays : relay[r].ids \subseteq Ids
    BY DEF IInv, TypeOK, Cycle
  <2>2. \A r \in Relays : RelaySound(r)'
    BY <1>2, <1>12, <1>14, <2>1 DEF IInv, OutboxInv, RelaySound
  <2>3. \A r \in Relays : LateSound(r)'
    BY <1>2, <1>11 DEF IInv, OutboxInv, LateSound
  <2>4. QED
    BY <2>2, <2>3
<1>17. \A p \in Partitions : LogSound(p)'
  <2> SUFFICES ASSUME NEW p \in Partitions, NEW k \in 1 .. Len(log[p]) PROVE Recorded(log[p][k])'
    BY <1>2 DEF LogSound
  <2>1. Recorded(log[p][k]) /\ log' = log
    BY <1>2 DEF IInv, OutboxInv, LogSound
  <2>2. QED
    BY <1>11, <2>1 DEF Recorded
<1>18. FactInv'
  <2>1. \A a \in Bookings : FactSound(a)'
    BY <1>2, <1>10, FactsFrame
  <2>2. \A c \in Consumers : HandSound(c)'
    BY <1>2 DEF IInv, FactInv, HandSound, Holding
  <2>3. QED
    BY <2>1, <2>2 DEF FactInv
<1>19. QED
  BY <1>9, <1>13, <1>15, <1>16, <1>17, <1>18 DEF IInv, OutboxInv


\* A statement on the rows keeps their payloads, and marks what the topic has.
LEMMA RowsStep ==
  ASSUME IInv, row' \in [Ids -> OutboxRow], relay' \in [Relays -> Cycle],
         \A i \in Ids :
           /\ row'[i].payload = row[i].payload
           /\ row[i].status = "NONE" <=> row'[i].status = "NONE"
           /\ row'[i].status # "FAILED"
           /\ row'[i].status = "PROCESSED" => row[i].status = "PROCESSED" \/ OnTopic(i),
         \A r \in Relays : \A i \in relay'[r].ids :
           row[i].status # "NONE" /\ (relay'[r].pc = "mark" => OnTopic(i)),
         faults' \in 0..MaxFaults,
         UNCHANGED <<booking, late, log, members, owner, committed, pos, cons, facts, rebuild,
                     rebuilds>>
  PROVE  IInv'
<1>1. TypeOK'
  BY DEF IInv, TypeOK
<1>2. /\ \A a \in Bookings : /\ booking'[a].version \in Nat /\ booking[a].version \in Nat
                             /\ booking[a].version <= booking'[a].version
      /\ \A a \in Bookings, u \in Versions :
           u <= booking[a].version => row'[<<a, u>>].payload = row[<<a, u>>].payload
  BY ConstantFacts DEF IInv, TypeOK
<1>3. \A m : Recorded(m) => Recorded(m)'
  BY <1>2, RecordsFrame
<1>4. \A a \in Bookings, u \in Versions : RowSound(a, u)'
  <2> SUFFICES ASSUME NEW a \in Bookings, NEW u \in Versions PROVE RowSound(a, u)'
    OBVIOUS
  <2>1. RowSound(a, u) /\ <<a, u>> \in Ids
    BY ConstantFacts DEF IInv, OutboxInv
  <2>2. QED
    BY <1>3, <2>1 DEF RowSound, ParsePayload, Recorded
<1>5. \A i \in Ids : OnTopic(i)' = OnTopic(i)
  BY DEF OnTopic
<1>6. \A i \in Ids : row'[i].status = "PROCESSED" => OnTopic(i)'
  BY <1>5 DEF IInv, OutboxInv
<1>7. \A r \in Relays : RelaySound(r)'
  <2>1. \A r \in Relays : relay'[r].ids \subseteq Ids
    BY DEF Cycle
  <2>2. QED
    BY <1>5, <2>1 DEF RelaySound
<1>8. \A r \in Relays : LateSound(r)'
  BY <1>3 DEF IInv, OutboxInv, LateSound
<1>9. \A p \in Partitions : LogSound(p)'
  <2> SUFFICES ASSUME NEW p \in Partitions, NEW k \in 1 .. Len(log[p]) PROVE Recorded(log[p][k])'
    BY DEF LogSound
  <2>1. Recorded(log[p][k]) /\ log' = log
    BY DEF IInv, OutboxInv, LogSound
  <2>2. QED
    BY <1>3, <2>1 DEF Recorded
<1>10. FactInv'
  <2>1. \A a \in Bookings : FactSound(a)'
    BY <1>2, FactsFrame
  <2>2. \A c \in Consumers : HandSound(c)'
    BY DEF IInv, FactInv, HandSound, Holding
  <2>3. QED
    BY <2>1, <2>2 DEF FactInv
<1>11. QED
  BY <1>1, <1>4, <1>6, <1>7, <1>8, <1>9, <1>10 DEF IInv, OutboxInv

LEMMA BatchesOfClaimable ==
  ASSUME NEW S \in Batches
  PROVE  S \subseteq Ids /\ \A i \in S : row[i].status \in {"PENDING", "PROCESSING"}
<1>1. \A T : \A n : AtMost(T, n) \subseteq SUBSET T
  BY DEF AtMost
<1>2. PICK X \in AtMost(Expired, BatchSize) :
        S \in {X \cup Y : Y \in AtMost(Due, BatchSize - Cardinality(X))}
  BY Zenon DEF Batches
<1>3. PICK Y \in AtMost(Due, BatchSize - Cardinality(X)) : S = X \cup Y
  BY <1>2
<1>4. X \subseteq Expired /\ Y \subseteq Due
  BY <1>1, <1>2, <1>3
<1>5. QED
  BY <1>3, <1>4 DEF Expired, Due

LEMMA ClaimKeeps ==
  ASSUME IInv, NEW r \in Relays, Claim(r)
  PROVE  IInv'
<1>1. PICK S \in Batches :
        /\ row' = [i \in Ids |-> IF i \in S
                     THEN [row[i] EXCEPT !.status = "PROCESSING", !.token = r, !.live = TRUE]
                     ELSE row[i]]
        /\ relay' = [relay EXCEPT ![r] = [pc |-> "prepare", ids |-> S]]
        /\ UNCHANGED <<booking, late, log, members, owner, committed, pos, cons, facts, rebuild,
                       faults, rebuilds>>
  BY DEF Claim, groupVars
<1>2. S \subseteq Ids /\ \A i \in S : row[i].status \in {"PENDING", "PROCESSING"}
  BY BatchesOfClaimable
<1>3. \A i \in Ids :
        /\ row'[i] \in OutboxRow /\ row'[i].payload = row[i].payload
        /\ row'[i].status = IF i \in S THEN "PROCESSING" ELSE row[i].status
  <2> SUFFICES ASSUME NEW i \in Ids
               PROVE  /\ row'[i] \in OutboxRow /\ row'[i].payload = row[i].payload
                      /\ row'[i].status = IF i \in S THEN "PROCESSING" ELSE row[i].status
    OBVIOUS
  <2> DEFINE x == [row[i] EXCEPT !.status = "PROCESSING", !.token = r, !.live = TRUE]
  <2>1. row'[i] = IF i \in S THEN x ELSE row[i]
    BY <1>1
  <2>2. row[i] \in OutboxRow
    BY DEF IInv, TypeOK
  <2>3. x \in OutboxRow /\ x.payload = row[i].payload /\ x.status = "PROCESSING"
    BY <2>2 DEF OutboxRow
  <2> HIDE DEF x
  <2>4. QED
    BY <2>1, <2>2, <2>3
<1>4. row' \in [Ids -> OutboxRow]
  BY <1>1, <1>3
<1>5. [pc |-> "prepare", ids |-> S] \in Cycle
  BY <1>2 DEF Cycle
<1>6. /\ relay' \in [Relays -> Cycle]
      /\ relay'[r].pc = "prepare" /\ relay'[r].ids = S
      /\ \A q \in Relays : q # r => relay'[q] = relay[q]
  BY <1>1, <1>5 DEF IInv, TypeOK
<1>7. \A i \in Ids : row[i].status # "FAILED"
  BY RowFacts
<1>8. \A q \in Relays : \A i \in relay'[q].ids :
        row[i].status # "NONE" /\ (relay'[q].pc = "mark" => OnTopic(i))
  BY <1>2, <1>6 DEF IInv, OutboxInv, RelaySound
<1>9. /\ \A i \in Ids :
           /\ row'[i].payload = row[i].payload
           /\ row[i].status = "NONE" <=> row'[i].status = "NONE"
           /\ row'[i].status # "FAILED"
           /\ row'[i].status = "PROCESSED" => row[i].status = "PROCESSED" \/ OnTopic(i)
      /\ faults' \in 0..MaxFaults
  <2>1. faults' \in 0..MaxFaults
    BY <1>1 DEF IInv, TypeOK
  <2>2. QED
    BY <1>2, <1>3, <1>7, <2>1
<1>10. QED
  BY <1>1, <1>4, <1>6, <1>8, <1>9, RowsStep

LEMMA RestingFacts ==
  ASSUME IInv, NEW r \in Relays, relay' = [relay EXCEPT ![r] = Resting]
  PROVE  /\ relay' \in [Relays -> Cycle]
         /\ \A q \in Relays : \A i \in relay'[q].ids :
              row[i].status # "NONE" /\ (relay'[q].pc = "mark" => OnTopic(i))
<1>1. Resting \in Cycle /\ Resting.ids = {}
  BY DEF Resting, Cycle
<1>2. /\ relay' \in [Relays -> Cycle] /\ relay'[r].ids = {}
      /\ \A q \in Relays : q # r => relay'[q] = relay[q]
  BY <1>1 DEF IInv, TypeOK
<1>3. QED
  BY <1>2 DEF IInv, OutboxInv, RelaySound

\* Every row a relay reads back parses: nothing is ever failed for good.
LEMMA PrepareKeeps ==
  ASSUME IInv, NEW r \in Relays, Prepare(r)
  PROVE  IInv'
<1> DEFINE publishable == {i \in Held(r) : ParsePayload(row[i].payload)}
           invalid == Held(r) \ publishable
<1>1. /\ row' = [i \in Ids |-> IF i \in invalid
                   THEN [row[i] EXCEPT !.status = "FAILED", !.token = None, !.live = FALSE]
                   ELSE row[i]]
      /\ relay' = [relay EXCEPT ![r] = IF publishable = {} THEN Resting
                                       ELSE [pc |-> "publish", ids |-> publishable]]
      /\ UNCHANGED <<booking, late, log, members, owner, committed, pos, cons, facts, rebuild,
                     faults, rebuilds>>
  BY DEF Prepare, groupVars
<1>2. Held(r) \subseteq Ids /\ \A i \in Held(r) : row[i].status # "NONE"
  BY DEF Held, IInv, TypeOK, Cycle
<1>3. invalid = {} /\ publishable \subseteq Held(r)
  BY <1>2, RowFacts
<1>4. row' = row
  BY <1>1, <1>3 DEF IInv, TypeOK
<1> HIDE DEF publishable, invalid
<1>5. CASE publishable = {}
  <2>1. relay' = [relay EXCEPT ![r] = Resting]
    BY <1>1, <1>5
  <2>2. /\ row' \in [Ids -> OutboxRow] /\ faults' \in 0..MaxFaults
        /\ \A i \in Ids : row[i].status # "FAILED"
    BY <1>1, <1>4, RowFacts DEF IInv, TypeOK
  <2>3. QED
    BY <1>1, <1>4, <2>1, <2>2, RestingFacts, RowsStep
<1>6. CASE publishable # {}
  <2>1. [pc |-> "publish", ids |-> publishable] \in Cycle
    BY <1>2, <1>3 DEF Cycle
  <2>2. /\ relay' \in [Relays -> Cycle]
        /\ relay'[r].pc = "publish" /\ relay'[r].ids = publishable
        /\ \A q \in Relays : q # r => relay'[q] = relay[q]
    BY <1>1, <1>6, <2>1 DEF IInv, TypeOK
  <2>3. \A q \in Relays : \A i \in relay'[q].ids :
          row[i].status # "NONE" /\ (relay'[q].pc = "mark" => OnTopic(i))
    BY <1>2, <1>3, <2>2 DEF IInv, OutboxInv, RelaySound
  <2>4. /\ row' \in [Ids -> OutboxRow] /\ faults' \in 0..MaxFaults
        /\ \A i \in Ids : row[i].status # "FAILED"
    BY <1>1, <1>4, RowFacts DEF IInv, TypeOK
  <2>5. QED
    BY <1>1, <1>4, <2>2, <2>3, <2>4, RowsStep
<1>7. QED
  BY <1>5, <1>6

LEMMA MarkKeeps ==
  ASSUME IInv, NEW r \in Relays, MarkPublished(r) \/ MarkRetry(r)
  PROVE  IInv'
<1>1. PICK s \in {"PROCESSED", "PENDING"} :
        /\ row' = FinishRows(r, s) /\ relay' = [relay EXCEPT ![r] = Resting]
        /\ s = "PROCESSED" => relay[r].pc = "mark"
        /\ UNCHANGED <<booking, late, log, members, owner, committed, pos, cons, facts, rebuild,
                       faults, rebuilds>>
  BY DEF MarkPublished, MarkRetry, groupVars
<1>2. Held(r) \subseteq relay[r].ids /\ Held(r) \subseteq Ids
      /\ \A i \in Held(r) : row[i].status = "PROCESSING"
  BY DEF Held, IInv, TypeOK, Cycle
<1>3. \A i \in Ids :
        /\ row'[i] \in OutboxRow /\ row'[i].payload = row[i].payload
        /\ row'[i].status = IF i \in Held(r) THEN s ELSE row[i].status
  <2> SUFFICES ASSUME NEW i \in Ids
               PROVE  /\ row'[i] \in OutboxRow /\ row'[i].payload = row[i].payload
                      /\ row'[i].status = IF i \in Held(r) THEN s ELSE row[i].status
    OBVIOUS
  <2> DEFINE x == [row[i] EXCEPT !.status = s, !.token = None, !.live = FALSE, !.due = FALSE]
  <2>1. row'[i] = IF i \in Held(r) THEN x ELSE row[i]
    BY <1>1 DEF FinishRows
  <2>2. row[i] \in OutboxRow
    BY DEF IInv, TypeOK
  <2>3. x \in OutboxRow /\ x.payload = row[i].payload /\ x.status = s
    BY <2>2 DEF OutboxRow
  <2> HIDE DEF x
  <2>4. QED
    BY <2>1, <2>2, <2>3
<1>4. row' \in [Ids -> OutboxRow]
  BY <1>1, <1>3 DEF FinishRows
<1>5. \A i \in Ids : row[i].status # "FAILED"
  BY RowFacts
<1>6. s = "PROCESSED" => \A i \in Held(r) : OnTopic(i)
  BY <1>1, <1>2 DEF IInv, OutboxInv, RelaySound
<1>7. /\ \A i \in Ids :
           /\ row'[i].payload = row[i].payload
           /\ row[i].status = "NONE" <=> row'[i].status = "NONE"
           /\ row'[i].status # "FAILED"
           /\ row'[i].status = "PROCESSED" => row[i].status = "PROCESSED" \/ OnTopic(i)
      /\ faults' \in 0..MaxFaults
  BY <1>1, <1>2, <1>3, <1>5, <1>6 DEF IInv, TypeOK
<1>8. QED
  BY <1>1, <1>4, <1>7, RestingFacts, RowsStep

LEMMA FaultFacts ==
  ASSUME IInv, Fault
  PROVE  faults' \in 0..MaxFaults
BY ConstantFacts DEF Fault, IInv, TypeOK

\* A relay dies, or a timer of a row fires.
LEMMA RowTimeKeeps ==
  ASSUME IInv, \/ \E r \in Relays : RelayCrash(r)
               \/ \E i \in Ids : LeaseRunsOut(i) \/ BackoffEnds(i)
  PROVE  IInv'
<1>0. \A i \in Ids : row[i].status # "FAILED"
  BY RowFacts
<1>1. ASSUME NEW r \in Relays, RelayCrash(r) PROVE IInv'
  <2>1. /\ relay' = [relay EXCEPT ![r] = Resting] /\ Fault
        /\ UNCHANGED <<booking, row, late, log, members, owner, committed, pos, cons, facts,
                       rebuild, rebuilds>>
    BY <1>1 DEF RelayCrash, groupVars
  <2>2. row' \in [Ids -> OutboxRow]
    BY <2>1 DEF IInv, TypeOK
  <2>3. QED
    BY <1>0, <2>1, <2>2, FaultFacts, RestingFacts, RowsStep
<1>2. ASSUME NEW i \in Ids, LeaseRunsOut(i) \/ BackoffEnds(i) PROVE IInv'
  <2> DEFINE x == [row[i] EXCEPT !.live = FALSE]
             y == [row[i] EXCEPT !.due = TRUE]
  <2>1. /\ row' = [row EXCEPT ![i] = x] \/ row' = [row EXCEPT ![i] = y]
        /\ Fault \/ faults' = faults
        /\ UNCHANGED <<booking, relay, late, log, members, owner, committed, pos, cons, facts,
                       rebuild, rebuilds>>
    BY <1>2 DEF LeaseRunsOut, BackoffEnds, groupVars
  <2>2. faults' \in 0..MaxFaults
    BY <2>1, FaultFacts DEF IInv, TypeOK
  <2>3. row[i] \in OutboxRow
    BY DEF IInv, TypeOK
  <2>4. /\ x \in OutboxRow /\ x.payload = row[i].payload /\ x.status = row[i].status
        /\ y \in OutboxRow /\ y.payload = row[i].payload /\ y.status = row[i].status
    BY <2>3 DEF OutboxRow
  <2> HIDE DEF x, y
  <2>5. /\ row' \in [Ids -> OutboxRow]
        /\ \A n \in Ids : row'[n].payload = row[n].payload /\ row'[n].status = row[n].status
    BY <2>1, <2>4 DEF IInv, TypeOK
  <2>6. /\ relay' \in [Relays -> Cycle]
        /\ \A q \in Relays : \A n \in relay'[q].ids :
             row[n].status # "NONE" /\ (relay'[q].pc = "mark" => OnTopic(n))
    BY <2>1 DEF IInv, TypeOK, OutboxInv, RelaySound
  <2>7. QED
    BY <1>0, <2>1, <2>2, <2>5, <2>6, RowsStep
<1>3. QED
  BY <1>1, <1>2


-----------------------------------------------------------------------------
(***************************************************************************)
(* Produce requests: partitions only grow, by what the request holds.      *)
(***************************************************************************)
LEMMA SequencedFacts ==
  ASSUME NEW T, NEW s \in Sequenced(T)
  PROVE  /\ s \in Seq(T) /\ \A k \in 1 .. Len(s) : s[k] \in T
         /\ \A m \in T : \E k \in 1 .. Len(s) : s[k] = m
<1>1. PICK n \in 0..BatchSize : s \in [1..n -> T]
  BY DEF Sequenced
<1>2. s \in Seq(T) /\ Len(s) = n /\ DOMAIN s = 1..n
  BY <1>1, ConstantsAssumption
<1>3. \A m \in T : \E k \in DOMAIN s : s[k] = m
  BY DEF Sequenced
<1>4. QED
  BY <1>1, <1>2, <1>3

\* What a produce request does to the topic.
LEMMA ProduceFacts ==
  ASSUME IInv, NEW S, S \subseteq Payload, NEW parts \in SUBSET Partitions, Produce(S, parts)
  PROVE  /\ log' \in [Partitions -> Seq(Payload)]
         /\ \A p \in Partitions :
              /\ Len(log[p]) <= Len(log'[p])
              /\ \A k \in 1 .. Len(log[p]) : log'[p][k] = log[p][k]
              /\ \A k \in 1 .. Len(log'[p]) : k <= Len(log[p]) \/ log'[p][k] \in S
         /\ \A p \in parts : \A m \in S :
              PartitionOf[m.booking] = p => \E k \in 1 .. Len(log'[p]) : log'[p][k] = m
<1>1. PICK s : /\ \A p \in parts : s[p] \in Sequenced(ToPartition(S, p))
               /\ log' = [p \in Partitions |-> IF p \in parts THEN log[p] \o s[p] ELSE log[p]]
  BY Zenon DEF Produce
<1>2. \A p \in Partitions : log[p] \in Seq(Payload)
  BY DEF IInv, TypeOK
<1>3. ASSUME NEW p \in parts
      PROVE  /\ log'[p] \in Seq(Payload) /\ Len(log[p]) <= Len(log'[p])
             /\ \A k \in 1 .. Len(log[p]) : log'[p][k] = log[p][k]
             /\ \A k \in 1 .. Len(log'[p]) : k <= Len(log[p]) \/ log'[p][k] \in S
             /\ \A m \in S : PartitionOf[m.booking] = p =>
                  \E k \in 1 .. Len(log'[p]) : log'[p][k] = m
  <2> DEFINE T == ToPartition(S, p)
  <2>1. T \subseteq S /\ T \subseteq Payload /\ \A m \in S : PartitionOf[m.booking] = p => m \in T
    BY DEF ToPartition
  <2>2. s[p] \in Sequenced(T) /\ log'[p] = log[p] \o s[p]
    BY <1>1
  <2> HIDE DEF T
  <2>3. PICK t : t = s[p] /\ t \in Seq(T) /\ (\A k \in 1 .. Len(t) : t[k] \in T)
                 /\ \A m \in T : \E k \in 1 .. Len(t) : t[k] = m
    BY <2>2, SequencedFacts
  <2>4. PICK u : u = log[p] /\ u \in Seq(Payload)
    BY <1>2
  <2>5. t \in Seq(Payload) /\ log'[p] = u \o t
    BY <2>1, <2>2, <2>3, <2>4
  <2>6. /\ u \o t \in Seq(Payload) /\ Len(u \o t) = Len(u) + Len(t)
        /\ Len(u) \in Nat /\ Len(t) \in Nat
        /\ \A k \in 1 .. Len(u) : (u \o t)[k] = u[k]
        /\ \A k \in 1 .. Len(t) : (u \o t)[Len(u) + k] = t[k]
    BY <2>4, <2>5
  <2>7. \A k \in 1 .. Len(u \o t) : k <= Len(u) \/ (u \o t)[k] \in S
    <3> SUFFICES ASSUME NEW k \in 1 .. Len(u \o t), ~(k <= Len(u)) PROVE (u \o t)[k] \in S
      OBVIOUS
    <3>1. k - Len(u) \in 1 .. Len(t) /\ Len(u) + (k - Len(u)) = k
      BY <2>6
    <3>2. QED
      BY <2>1, <2>3, <2>6, <3>1
  <2>8. \A m \in S : PartitionOf[m.booking] = p => \E k \in 1 .. Len(u \o t) : (u \o t)[k] = m
    <3> SUFFICES ASSUME NEW m \in S, PartitionOf[m.booking] = p
                 PROVE  \E k \in 1 .. Len(u \o t) : (u \o t)[k] = m
      OBVIOUS
    <3>1. PICK k \in 1 .. Len(t) : t[k] = m
      BY <2>1, <2>3
    <3>2. Len(u) + k \in 1 .. Len(u \o t) /\ (u \o t)[Len(u) + k] = m
      BY <2>6, <3>1
    <3>3. QED
      BY <3>2
  <2>9. QED
    BY <2>4, <2>5, <2>6, <2>7, <2>8
<1>4. \A p \in Partitions \ parts : log'[p] = log[p] /\ Len(log[p]) \in Nat
  BY <1>1, <1>2
<1>5. log' \in [Partitions -> Seq(Payload)]
  BY <1>1, <1>2, <1>3, <1>4
<1>6. QED
  BY <1>3, <1>4, <1>5

\* What is on the topic stays there.
LEMMA OnTopicStays ==
  ASSUME IInv, log' \in [Partitions -> Seq(Payload)], UNCHANGED row,
         \A p \in Partitions : /\ Len(log[p]) <= Len(log'[p])
                               /\ \A k \in 1 .. Len(log[p]) : log'[p][k] = log[p][k]
  PROVE  /\ \A i \in Ids : OnTopic(i) => OnTopic(i)'
         /\ \A q \in Relays : relay[q].pc = "mark" => \A i \in relay[q].ids : OnTopic(i)'
<1>1. \A p \in Partitions : Len(log[p]) \in Nat /\ Len(log'[p]) \in Nat
  BY DEF IInv, TypeOK
<1>2. \A i \in Ids : OnTopic(i) => OnTopic(i)'
  <2> SUFFICES ASSUME NEW i \in Ids, OnTopic(i) PROVE OnTopic(i)'
    OBVIOUS
  <2>1. PICK p \in Partitions : p = PartitionOf[i[1]]
    BY ConstantFacts
  <2>2. PICK k \in 1 .. Len(log[p]) : log[p][k] = row[i].payload
    BY <2>1 DEF OnTopic
  <2>3. k \in 1 .. Len(log'[p]) /\ log'[p][k] = row'[i].payload
    BY <1>1, <2>2
  <2>4. QED
    BY <2>1, <2>3 DEF OnTopic
<1>3. \A q \in Relays : relay[q].ids \subseteq Ids
  BY DEF IInv, TypeOK, Cycle
<1>4. QED
  BY <1>2, <1>3 DEF IInv, OutboxInv, RelaySound

\* A step that adds recorded messages to the topic, or only moves requests about.
LEMMA TopicStep ==
  ASSUME IInv, log' \in [Partitions -> Seq(Payload)],
         \A p \in Partitions :
           /\ Len(log[p]) <= Len(log'[p])
           /\ \A k \in 1 .. Len(log[p]) : log'[p][k] = log[p][k]
           /\ \A k \in 1 .. Len(log'[p]) : k <= Len(log[p]) \/ Recorded(log'[p][k]),
         relay' \in [Relays -> Cycle],
         \A q \in Relays : /\ relay'[q].ids = relay[q].ids
                           /\ relay'[q].pc = "mark" => \A i \in relay[q].ids : OnTopic(i)',
         late' \in [Relays -> Seq(SUBSET Payload)],
         \A q \in Relays : \A n \in 1 .. Len(late'[q]) : \A m \in late'[q][n] : Recorded(m),
         faults' \in 0..MaxFaults,
         UNCHANGED <<booking, row, members, owner, committed, pos, cons, facts, rebuild, rebuilds>>
  PROVE  IInv'
<1>1. TypeOK'
  BY DEF IInv, TypeOK
<1>2. \A m : Recorded(m)' = Recorded(m)
  BY DEF Recorded
<1>3. \A p \in Partitions : Len(log[p]) \in Nat /\ Len(log'[p]) \in Nat
  BY DEF IInv, TypeOK
<1>4. \A i \in Ids : OnTopic(i) => OnTopic(i)'
  BY OnTopicStays
<1>5. \A a \in Bookings, u \in Versions : RowSound(a, u)'
  <2> SUFFICES ASSUME NEW a \in Bookings, NEW u \in Versions PROVE RowSound(a, u)'
    OBVIOUS
  <2>1. RowSound(a, u)
    BY DEF IInv, OutboxInv
  <2>2. QED
    BY <2>1 DEF RowSound, ParsePayload, Recorded
<1>6. \A i \in Ids : row'[i].status = "PROCESSED" => OnTopic(i)'
  BY <1>4 DEF IInv, OutboxInv
<1>7. \A q \in Relays : RelaySound(q)'
  BY DEF IInv, OutboxInv, RelaySound
<1>8. \A q \in Relays : LateSound(q)'
  BY <1>2 DEF LateSound
<1>9. \A p \in Partitions : LogSound(p)'
  <2> SUFFICES ASSUME NEW p \in Partitions, NEW k \in 1 .. Len(log'[p]) PROVE Recorded(log[p][k])'
    BY DEF LogSound
  <2>1. PICK m : m = log'[p][k]
    OBVIOUS
  <2>2. Recorded(m)
    <3>1. CASE k <= Len(log[p])
      <4>1. k \in 1 .. Len(log[p])
        BY <1>3, <3>1
      <4>2. Recorded(log[p][k]) /\ log'[p][k] = log[p][k]
        BY <4>1 DEF IInv, OutboxInv, LogSound
      <4>3. QED
        BY <2>1, <4>2
    <3>2. CASE ~(k <= Len(log[p]))
      BY <2>1, <3>2
    <3>3. QED
      BY <3>1, <3>2
  <2>3. QED
    BY <1>2, <2>1, <2>2 DEF Recorded
<1>10. FactInv'
  <2>1. \A a \in Bookings : FactSound(a)'
    BY DEF IInv, FactInv, FactSound
  <2>2. \A c \in Consumers : HandSound(c)'
    <3> SUFFICES ASSUME NEW c \in Consumers, Holding(c) PROVE HandSound(c)'
      BY DEF HandSound, Holding
    <3>1. /\ cons[c].part \in Partitions /\ cons[c].lo >= 1 /\ cons[c].lo <= cons[c].hi
          /\ cons[c].hi <= Len(log[cons[c].part]) /\ cons[c].hi \in Nat
      BY DEF IInv, TypeOK, Member, FactInv, HandSound
    <3>2. cons[c].hi <= Len(log'[cons[c].part])
      BY <1>3, <3>1
    <3>3. QED
      BY <3>1, <3>2 DEF HandSound
  <2>3. QED
    BY <2>1, <2>2 DEF FactInv
<1>11. QED
  BY <1>1, <1>5, <1>6, <1>7, <1>8, <1>9, <1>10 DEF IInv, OutboxInv

\* What a relay sends is recorded.
LEMMA MessagesFacts ==
  ASSUME IInv, NEW r \in Relays
  PROVE  /\ Messages(r) \subseteq Payload /\ \A m \in Messages(r) : Recorded(m)
         /\ \A i \in relay[r].ids : /\ i \in Ids /\ row[i].payload \in Messages(r)
                                    /\ row[i].payload.booking = i[1]
<1>1. relay[r].ids \subseteq Ids /\ \A i \in relay[r].ids : row[i].status # "NONE"
  BY DEF IInv, TypeOK, Cycle, OutboxInv, RelaySound
<1>2. \A i \in relay[r].ids : /\ Recorded(row[i].payload) /\ row[i].payload \in Payload
                              /\ row[i].payload.booking = i[1]
  BY <1>1, RowFacts
<1>3. QED
  BY <1>1, <1>2 DEF Messages

LEMMA RelayMoves ==
  ASSUME IInv, NEW r \in Relays, NEW s \in {"mark", "retry"},
         relay' = [relay EXCEPT ![r].pc = s]
  PROVE  /\ relay' \in [Relays -> Cycle] /\ relay'[r].pc = s
         /\ \A q \in Relays : relay'[q].ids = relay[q].ids /\ (q # r => relay'[q].pc = relay[q].pc)
<1> DEFINE x == [relay[r] EXCEPT !.pc = s]
<1>1. relay[r] \in Cycle /\ relay \in [Relays -> Cycle]
  BY DEF IInv, TypeOK
<1>2. x \in Cycle /\ x.pc = s /\ x.ids = relay[r].ids
  BY <1>1 DEF Cycle
<1>3. relay' = [relay EXCEPT ![r] = x]
  OBVIOUS
<1> HIDE DEF x
<1>4. QED
  BY <1>1, <1>2, <1>3

\* A relay that goes on to mark its rows has them on the topic.
LEMMA PublishKeeps ==
  ASSUME IInv, NEW r \in Relays, Publish(r) \/ PublishFails(r) \/ PublishTimesOut(r)
  PROVE  IInv'
<1>1. \A q \in Relays : \A n \in 1 .. Len(late[q]) : \A m \in late[q][n] : Recorded(m)
  BY DEF IInv, OutboxInv, LateSound
<1>2. Messages(r) \subseteq Payload /\ \A m \in Messages(r) : Recorded(m)
  BY MessagesFacts
<1>3. ASSUME NEW parts \in SUBSET Partitions, Produce(Messages(r), parts), UNCHANGED late,
             NEW s \in {"mark", "retry"}, relay' = [relay EXCEPT ![r].pc = s],
             s = "mark" => parts = Partitions, faults' \in 0..MaxFaults,
             UNCHANGED <<booking, row, members, owner, committed, pos, cons, facts, rebuild,
                         rebuilds>>
      PROVE  IInv'
  <2>1. /\ log' \in [Partitions -> Seq(Payload)]
        /\ \A p \in Partitions :
             /\ Len(log[p]) <= Len(log'[p])
             /\ \A k \in 1 .. Len(log[p]) : log'[p][k] = log[p][k]
             /\ \A k \in 1 .. Len(log'[p]) : k <= Len(log[p]) \/ log'[p][k] \in Messages(r)
        /\ \A p \in parts : \A m \in Messages(r) :
             PartitionOf[m.booking] = p => \E k \in 1 .. Len(log'[p]) : log'[p][k] = m
    <3>1. PICK S : S = Messages(r)
      OBVIOUS
    <3>2. S \subseteq Payload /\ Produce(S, parts)
      BY <1>2, <1>3, <3>1
    <3>3. /\ log' \in [Partitions -> Seq(Payload)]
          /\ \A p \in Partitions :
               /\ Len(log[p]) <= Len(log'[p])
               /\ \A k \in 1 .. Len(log[p]) : log'[p][k] = log[p][k]
               /\ \A k \in 1 .. Len(log'[p]) : k <= Len(log[p]) \/ log'[p][k] \in S
          /\ \A p \in parts : \A m \in S :
               PartitionOf[m.booking] = p => \E k \in 1 .. Len(log'[p]) : log'[p][k] = m
      BY <3>2, ProduceFacts, ZenonT(30)
    <3>4. QED
      BY <3>1, <3>3
  <2>2. \A p \in Partitions : \A k \in 1 .. Len(log'[p]) :
          k <= Len(log[p]) \/ Recorded(log'[p][k])
    BY <1>2, <2>1
  <2>3. /\ relay' \in [Relays -> Cycle] /\ relay'[r].pc = s
        /\ \A q \in Relays : relay'[q].ids = relay[q].ids /\ (q # r => relay'[q].pc = relay[q].pc)
    BY <1>3, RelayMoves
  <2>4. s = "mark" => \A i \in relay[r].ids : OnTopic(i)'
    <3> SUFFICES ASSUME s = "mark", NEW i \in relay[r].ids PROVE OnTopic(i)'
      OBVIOUS
    <3>1. i \in Ids /\ row[i].payload \in Messages(r) /\ row[i].payload.booking = i[1]
      BY MessagesFacts
    <3>2. PICK p \in Partitions : p = PartitionOf[i[1]]
      BY <3>1, ConstantFacts
    <3>3. \E k \in 1 .. Len(log'[p]) : log'[p][k] = row[i].payload
      BY <1>3, <2>1, <3>1, <3>2
    <3>4. QED
      BY <1>3, <3>2, <3>3 DEF OnTopic
  <2>5. \A q \in Relays : relay[q].pc = "mark" => \A i \in relay[q].ids : OnTopic(i)'
    BY <1>3, <2>1, OnTopicStays
  <2>6. /\ late' \in [Relays -> Seq(SUBSET Payload)]
        /\ \A q \in Relays : \A n \in 1 .. Len(late'[q]) : \A m \in late'[q][n] : Recorded(m)
    BY <1>1, <1>3 DEF IInv, TypeOK
  <2>7. \A q \in Relays : /\ relay'[q].ids = relay[q].ids
                          /\ relay'[q].pc = "mark" => \A i \in relay[q].ids : OnTopic(i)'
    BY <2>3, <2>4, <2>5
  <2>8. QED
    BY <1>3, <2>1, <2>2, <2>3, <2>6, <2>7, TopicStep
<1>4. CASE Publish(r)
  <2>1. faults' \in 0..MaxFaults
    BY <1>4 DEF Publish, IInv, TypeOK
  <2>2. QED
    BY <1>3, <1>4, <2>1 DEF Publish, groupVars
<1>5. CASE PublishFails(r)
  <2>1. PICK parts \in SUBSET Partitions :
          /\ Fault /\ Produce(Messages(r), parts) /\ relay' = [relay EXCEPT ![r].pc = "retry"]
          /\ UNCHANGED <<booking, row, late, members, owner, committed, pos, cons, facts, rebuild,
                         rebuilds>>
    BY <1>5 DEF PublishFails, groupVars
  <2>2. QED
    BY <1>3, <2>1, FaultFacts
<1>6. CASE PublishTimesOut(r)
  <2>1. /\ Fault /\ late' = [late EXCEPT ![r] = Append(late[r], Messages(r))]
        /\ relay' = [relay EXCEPT ![r].pc = "retry"]
        /\ UNCHANGED <<booking, row, log, members, owner, committed, pos, cons, facts, rebuild,
                       rebuilds>>
    BY <1>6 DEF PublishTimesOut, groupVars
  <2>2. /\ relay' \in [Relays -> Cycle] /\ relay'[r].pc = "retry"
        /\ \A q \in Relays : relay'[q].ids = relay[q].ids /\ (q # r => relay'[q].pc = relay[q].pc)
    BY <2>1, RelayMoves
  <2>3. \A i \in Ids : OnTopic(i)' = OnTopic(i)
    BY <2>1 DEF OnTopic
  <2>4. \A q \in Relays : relay[q].ids \subseteq Ids
    BY DEF IInv, TypeOK, Cycle
  <2>5. \A q \in Relays : /\ relay'[q].ids = relay[q].ids
                          /\ relay'[q].pc = "mark" => \A i \in relay[q].ids : OnTopic(i)'
    BY <2>2, <2>3, <2>4 DEF IInv, OutboxInv, RelaySound
  <2> DEFINE M == Messages(r)
             x == Append(late[r], M)
  <2>6. late \in [Relays -> Seq(SUBSET Payload)] /\ M \in SUBSET Payload
    BY <1>2 DEF IInv, TypeOK
  <2>7. \A m \in M : Recorded(m)
    BY <1>2
  <2> HIDE DEF M
  <2>8. /\ x \in Seq(SUBSET Payload) /\ Len(x) = Len(late[r]) + 1 /\ Len(late[r]) \in Nat
        /\ x[Len(late[r]) + 1] = M /\ \A n \in 1 .. Len(late[r]) : x[n] = late[r][n]
    BY <2>6
  <2>9. \A n \in 1 .. Len(x) : \A m \in x[n] : Recorded(m)
    <3> SUFFICES ASSUME NEW n \in 1 .. Len(x), NEW m \in x[n] PROVE Recorded(m)
      OBVIOUS
    <3>1. n \in 1 .. Len(late[r]) \/ n = Len(late[r]) + 1
      BY <2>8
    <3>2. QED
      BY <1>1, <2>7, <2>8, <3>1
  <2>10. late' = [late EXCEPT ![r] = x]
    BY <2>1 DEF M
  <2> HIDE DEF x
  <2>11. /\ late' \in [Relays -> Seq(SUBSET Payload)] /\ late'[r] = x
         /\ \A q \in Relays : q # r => late'[q] = late[q]
    BY <2>6, <2>8, <2>10
  <2>12. \A q \in Relays : \A n \in 1 .. Len(late'[q]) : \A m \in late'[q][n] : Recorded(m)
    BY <1>1, <2>9, <2>11
  <2>13. /\ log' \in [Partitions -> Seq(Payload)]
         /\ \A p \in Partitions :
              /\ Len(log[p]) <= Len(log'[p])
              /\ \A k \in 1 .. Len(log[p]) : log'[p][k] = log[p][k]
              /\ \A k \in 1 .. Len(log'[p]) : k <= Len(log[p]) \/ Recorded(log'[p][k])
    BY <2>1 DEF IInv, TypeOK
  <2>14. QED
    BY <2>1, <2>2, <2>5, <2>11, <2>12, <2>13, FaultFacts, TopicStep
<1>7. QED
  BY <1>4, <1>5, <1>6

LEMMA LateKeeps ==
  ASSUME IInv, NEW r \in Relays, LateRequestEnds(r)
  PROVE  IInv'
<1>0. PICK n \in DOMAIN late[r] : \E parts \in SUBSET Partitions :
        /\ Produce(late[r][n], parts)
        /\ late' = [late EXCEPT ![r][n] = {}]
        /\ UNCHANGED <<booking, row, relay, members, owner, committed, pos, cons, facts, rebuild,
                       faults, rebuilds>>
  BY DEF LateRequestEnds, groupVars
<1>1. PICK parts \in SUBSET Partitions : Produce(late[r][n], parts)
  BY <1>0
<1>2. /\ late' = [late EXCEPT ![r][n] = {}]
      /\ UNCHANGED <<booking, row, relay, members, owner, committed, pos, cons, facts, rebuild,
                     faults, rebuilds>>
  BY <1>0
<1>3. late[r] \in Seq(SUBSET Payload) /\ late \in [Relays -> Seq(SUBSET Payload)]
  BY DEF IInv, TypeOK
<1>4. \A q \in Relays : \A k \in 1 .. Len(late[q]) : \A m \in late[q][k] : Recorded(m)
  BY DEF IInv, OutboxInv, LateSound
<1> DEFINE rest == [late[r] EXCEPT ![n] = {}]
<1>5. /\ n \in 1 .. Len(late[r]) /\ late[r][n] \in SUBSET Payload
      /\ rest \in Seq(SUBSET Payload) /\ Len(rest) = Len(late[r])
      /\ \A k \in 1 .. Len(rest) : rest[k] = {} \/ rest[k] = late[r][k]
      /\ late' = [late EXCEPT ![r] = rest]
  BY <1>2, <1>3
<1> HIDE DEF rest
<1>6. \A m \in late[r][n] : Recorded(m)
  BY <1>4, <1>5
<1>7. PICK S : S = late[r][n]
  OBVIOUS
<1>8. /\ log' \in [Partitions -> Seq(Payload)]
      /\ \A p \in Partitions :
           /\ Len(log[p]) <= Len(log'[p])
           /\ \A k \in 1 .. Len(log[p]) : log'[p][k] = log[p][k]
           /\ \A k \in 1 .. Len(log'[p]) : k <= Len(log[p]) \/ log'[p][k] \in S
  <2>1. S \subseteq Payload /\ Produce(S, parts)
    BY <1>1, <1>5, <1>7
  <2>2. QED
    BY <2>1, ProduceFacts
<1>9. \A p \in Partitions : \A k \in 1 .. Len(log'[p]) : k <= Len(log[p]) \/ Recorded(log'[p][k])
  BY <1>6, <1>7, <1>8
<1>10. /\ late' \in [Relays -> Seq(SUBSET Payload)] /\ late'[r] = rest
       /\ \A q \in Relays : q # r => late'[q] = late[q]
  BY <1>3, <1>5
<1>11. \A q \in Relays : \A k \in 1 .. Len(late'[q]) : \A m \in late'[q][k] : Recorded(m)
  <2>1. \A k \in 1 .. Len(rest) : \A m \in rest[k] : Recorded(m)
    BY <1>4, <1>5
  <2>2. QED
    BY <1>4, <1>10, <2>1
<1>12. \A q \in Relays : relay[q].pc = "mark" => \A i \in relay[q].ids : OnTopic(i)'
  BY <1>2, <1>8, OnTopicStays
<1>13. /\ relay' \in [Relays -> Cycle] /\ faults' \in 0..MaxFaults
       /\ \A q \in Relays : /\ relay'[q].ids = relay[q].ids
                            /\ relay'[q].pc = "mark" => \A i \in relay[q].ids : OnTopic(i)'
  BY <1>2, <1>12 DEF IInv, TypeOK
<1>14. QED
  BY <1>2, <1>8, <1>9, <1>10, <1>11, <1>13, TopicStep

-----------------------------------------------------------------------------
(***************************************************************************)
(* The consumer group and the rebuild.                                     *)
(***************************************************************************)
\* A step of the readers leaves the outbox and the topic alone.
LEMMA ReadStep ==
  ASSUME IInv, members' \subseteq Consumers, owner' \in [Partitions -> Consumers \cup {None}],
         committed' \in [Partitions -> Nat \ {0}], pos' \in [Partitions -> Nat \ {0}],
         cons' \in [Consumers -> Member], \A c \in Consumers : HandSound(c)',
         facts' \in [Bookings -> Fact], \A b \in Bookings : FactSound(b)',
         rebuild' \in [pc : {"idle", "reset", "delete", "verify"},
                       outcome : {"none", "OK", "CONSUMER_ACTIVE", "CONSUMER_JOINED", "FAILED"}],
         faults' \in 0..MaxFaults, rebuilds' \in 0..MaxRebuilds,
         UNCHANGED <<booking, row, relay, late, log>>
  PROVE  IInv'
<1>1. TypeOK'
  BY DEF IInv, TypeOK
<1>2. \A a \in Bookings, u \in Versions : RowSound(a, u)'
  <2> SUFFICES ASSUME NEW a \in Bookings, NEW u \in Versions PROVE RowSound(a, u)'
    OBVIOUS
  <2>1. RowSound(a, u)
    BY DEF IInv, OutboxInv
  <2>2. QED
    BY <2>1 DEF RowSound, ParsePayload, Recorded
<1>3. \A i \in Ids : row'[i].status = "PROCESSED" => OnTopic(i)'
  BY DEF IInv, OutboxInv, OnTopic
<1>4. \A r \in Relays : RelaySound(r)' /\ LateSound(r)'
  <2>1. \A r \in Relays : RelaySound(r)'
    BY DEF IInv, OutboxInv, RelaySound, OnTopic
  <2>2. \A m : Recorded(m)' = Recorded(m)
    BY DEF Recorded
  <2>3. \A r \in Relays : LateSound(r)'
    BY <2>2 DEF IInv, OutboxInv, LateSound
  <2>4. QED
    BY <2>1, <2>3
<1>5. \A p \in Partitions : LogSound(p)'
  BY DEF IInv, OutboxInv, LogSound, Recorded
<1>6. QED
  BY <1>1, <1>2, <1>3, <1>4, <1>5 DEF IInv, OutboxInv, FactInv

LEMMA FactsRest ==
  ASSUME IInv, UNCHANGED <<booking, row, facts>>
  PROVE  facts' \in [Bookings -> Fact] /\ \A b \in Bookings : FactSound(b)'
BY DEF IInv, TypeOK, FactInv, FactSound

\* After a rebalance no batch in hand may be committed.
LEMMA RebalanceKeeps ==
  ASSUME IInv, NEW c \in Consumers, NEW M \in SUBSET Consumers, NEW mine \in Member,
         \/ mine.pc \in {"out", "idle"}
         \/ /\ Holding(c) /\ mine.pc = cons[c].pc /\ mine.stale = TRUE
            /\ mine.part = cons[c].part /\ mine.lo = cons[c].lo /\ mine.hi = cons[c].hi,
         Rebalance(M), cons' = AllStale(c, mine), faults' \in 0..MaxFaults,
         UNCHANGED <<booking, row, relay, late, log, facts, rebuild, rebuilds>>
  PROVE  IInv' /\ \A d \in Consumers : Holding(d)' => cons'[d].stale = TRUE
<1>1. /\ members' = M /\ owner' \in [Partitions -> M \cup {None}]
      /\ pos' = committed /\ committed' = committed
  BY DEF Rebalance
<1>2. \A d \in Consumers :
        /\ cons'[d] \in Member
        /\ d = c => cons'[d] = mine
        /\ d # c => /\ cons'[d].pc = cons[d].pc /\ cons'[d].part = cons[d].part
                    /\ cons'[d].lo = cons[d].lo /\ cons'[d].hi = cons[d].hi
                    /\ Holding(d) => cons'[d].stale = TRUE
  <2> SUFFICES ASSUME NEW d \in Consumers
               PROVE  /\ cons'[d] \in Member
                      /\ d = c => cons'[d] = mine
                      /\ d # c => /\ cons'[d].pc = cons[d].pc /\ cons'[d].part = cons[d].part
                                  /\ cons'[d].lo = cons[d].lo /\ cons'[d].hi = cons[d].hi
                                  /\ Holding(d) => cons'[d].stale = TRUE
    OBVIOUS
  <2> DEFINE s == cons[d].pc \in {"apply", "commit"}
             x == [cons[d] EXCEPT !.stale = s]
  <2>1. s \in BOOLEAN /\ (Holding(d) => s = TRUE)
    BY DEF Holding
  <2>2. cons'[d] = IF d = c THEN mine ELSE x
    BY DEF AllStale
  <2> HIDE DEF s
  <2>3. cons[d] \in Member
    BY DEF IInv, TypeOK
  <2>4. /\ x \in Member /\ x.pc = cons[d].pc /\ x.part = cons[d].part
        /\ x.lo = cons[d].lo /\ x.hi = cons[d].hi /\ x.stale = s
    BY <2>1, <2>3 DEF Member
  <2> HIDE DEF x
  <2>5. QED
    BY <2>1, <2>2, <2>4
<1>3. cons' \in [Consumers -> Member]
  BY <1>2 DEF AllStale
<1>4. \A d \in Consumers : Holding(d)' => Holding(d) /\ cons'[d].stale = TRUE
                             /\ cons'[d].part = cons[d].part
                             /\ cons'[d].lo = cons[d].lo /\ cons'[d].hi = cons[d].hi
  BY <1>2 DEF Holding
<1>5. \A d \in Consumers : HandSound(d)'
  <2> SUFFICES ASSUME NEW d \in Consumers, Holding(d)' PROVE HandSound(d)'
    BY DEF HandSound
  <2>1. HandSound(d) /\ Holding(d) /\ cons'[d].part = cons[d].part
        /\ cons'[d].lo = cons[d].lo /\ cons'[d].hi = cons[d].hi
    BY <1>4 DEF IInv, FactInv
  <2>2. QED
    BY <2>1 DEF HandSound
<1>6. /\ owner' \in [Partitions -> Consumers \cup {None}] /\ members' \subseteq Consumers
      /\ committed' \in [Partitions -> Nat \ {0}] /\ pos' \in [Partitions -> Nat \ {0}]
      /\ rebuild' \in [pc : {"idle", "reset", "delete", "verify"},
                       outcome : {"none", "OK", "CONSUMER_ACTIVE", "CONSUMER_JOINED", "FAILED"}]
      /\ rebuilds' \in 0..MaxRebuilds
  BY <1>1 DEF IInv, TypeOK
<1>7. facts' \in [Bookings -> Fact] /\ \A b \in Bookings : FactSound(b)'
  BY FactsRest
<1>8. IInv'
  BY <1>3, <1>5, <1>6, <1>7, ReadStep
<1>9. QED
  BY <1>4, <1>8

LEMMA ShapeFacts == /\ Away \in Member /\ Away.pc = "out"
                    /\ Polling \in Member /\ Polling.pc = "idle"
BY DEF Away, Polling, Member

LEMMA MembershipKeeps ==
  ASSUME IInv, NEW c \in Consumers, Join(c) \/ Leave(c) \/ Evict(c)
  PROVE  /\ IInv' /\ \A d \in Consumers : Holding(d)' => cons'[d].stale = TRUE
         /\ UNCHANGED <<log, facts, rebuild, committed>> /\ pos' = committed
         /\ \A p \in Partitions : owner'[p] \in members' \cup {None}
         /\ WorkersStopped = TRUE /\ rebuild.pc # "idle" => members' \subseteq members
<1>1. PICK M \in SUBSET Consumers :
        /\ Rebalance(M)
        /\ WorkersStopped = TRUE /\ rebuild.pc # "idle" => M \subseteq members
  BY DEF Join, Leave, Evict, IInv, TypeOK
<1>2. PICK mine \in Member :
        /\ cons' = AllStale(c, mine)
        /\ \/ mine.pc \in {"out", "idle"}
           \/ /\ Holding(c) /\ mine.pc = cons[c].pc /\ mine.stale = TRUE
              /\ mine.part = cons[c].part /\ mine.lo = cons[c].lo /\ mine.hi = cons[c].hi
  <2> DEFINE x == [cons[c] EXCEPT !.stale = TRUE]
  <2>1. cons[c] \in Member
    BY DEF IInv, TypeOK
  <2>2. /\ x \in Member /\ x.pc = cons[c].pc /\ x.stale = TRUE /\ x.part = cons[c].part
        /\ x.lo = cons[c].lo /\ x.hi = cons[c].hi
    BY <2>1 DEF Member
  <2>3. \/ cons' = AllStale(c, Polling) \/ cons' = AllStale(c, Away)
        \/ cons[c].pc \notin {"out", "idle"} /\ cons' = AllStale(c, x)
    BY DEF Join, Leave, Evict
  <2> HIDE DEF x
  <2>4. cons[c].pc \notin {"out", "idle"} => Holding(c)
    BY <2>1 DEF Holding, Member
  <2>5. QED
    BY <2>2, <2>3, <2>4, ShapeFacts
<1>3. /\ UNCHANGED <<booking, row, relay, late, log, facts, rebuild, rebuilds>>
      /\ Fault \/ faults' = faults
  BY DEF Join, Leave, Evict, relayVars
<1>4. faults' \in 0..MaxFaults
  BY <1>3, FaultFacts DEF IInv, TypeOK
<1>5. IInv' /\ \A d \in Consumers : Holding(d)' => cons'[d].stale = TRUE
  BY <1>1, <1>2, <1>3, <1>4, RebalanceKeeps
<1>6. /\ members' = M /\ owner' \in [Partitions -> M \cup {None}]
      /\ pos' = committed /\ committed' = committed
  BY <1>1 DEF Rebalance
<1>7. QED
  BY <1>1, <1>3, <1>5, <1>6


\* One consumer changes what it has in hand.
LEMMA HandKeeps ==
  ASSUME IInv, NEW c \in Consumers,
         Fetch(c) \/ ConsumerCrash(c) \/ ApplyFails(c) \/ Commit(c)
  PROVE  IInv'
<1>1. ASSUME NEW x \in Member, cons' = [cons EXCEPT ![c] = x],
             x.pc \in {"apply", "commit"} =>
               /\ x.part \in Partitions /\ x.lo >= 1 /\ x.lo <= x.hi /\ x.hi <= Len(log[x.part]),
             committed' \in [Partitions -> Nat \ {0}], pos' \in [Partitions -> Nat \ {0}],
             Fault \/ faults' = faults,
             UNCHANGED <<booking, row, relay, late, log, members, owner, facts, rebuild, rebuilds>>
      PROVE  IInv'
  <2>1. /\ cons' \in [Consumers -> Member] /\ cons'[c] = x
        /\ \A d \in Consumers : d # c => cons'[d] = cons[d]
    BY <1>1 DEF IInv, TypeOK
  <2>2. \A d \in Consumers : HandSound(d)'
    <3>1. HandSound(c)'
      BY <1>1, <2>1 DEF HandSound, Holding
    <3>2. ASSUME NEW d \in Consumers, d # c PROVE HandSound(d)'
      <4>1. HandSound(d) /\ cons'[d] = cons[d] /\ log' = log
        BY <1>1, <2>1, <3>2 DEF IInv, FactInv
      <4>2. QED
        BY <4>1 DEF HandSound, Holding
    <3>3. QED
      BY <3>1, <3>2
  <2>3. faults' \in 0..MaxFaults
    BY <1>1, FaultFacts DEF IInv, TypeOK
  <2>4. /\ owner' \in [Partitions -> Consumers \cup {None}] /\ members' \subseteq Consumers
        /\ rebuild' \in [pc : {"idle", "reset", "delete", "verify"},
                         outcome : {"none", "OK", "CONSUMER_ACTIVE", "CONSUMER_JOINED", "FAILED"}]
        /\ rebuilds' \in 0..MaxRebuilds
    BY <1>1 DEF IInv, TypeOK
  <2>5. facts' \in [Bookings -> Fact] /\ \A b \in Bookings : FactSound(b)'
    BY <1>1, FactsRest
  <2>6. QED
    BY <1>1, <2>1, <2>2, <2>3, <2>4, <2>5, ReadStep
<1>2. CASE Fetch(c)
  <2>1. PICK p \in Partitions, hi \in Nat :
          /\ hi >= pos[p] /\ hi <= Len(log[p])
          /\ cons' = [cons EXCEPT ![c] = [pc |-> "apply", part |-> p, lo |-> pos[p], hi |-> hi,
                                          stale |-> FALSE]]
          /\ UNCHANGED <<booking, row, relay, late, log, members, owner, committed, pos, facts,
                         rebuild, faults, rebuilds>>
    <3>1. PICK p \in Partitions : \E hi \in pos[p] .. Len(log[p]) :
            /\ cons' = [cons EXCEPT ![c] = [pc |-> "apply", part |-> p, lo |-> pos[p], hi |-> hi,
                                            stale |-> FALSE]]
            /\ UNCHANGED <<booking, relayVars, log, members, owner, committed, pos, facts,
                           rebuild, faults, rebuilds>>
      BY <1>2 DEF Fetch
    <3>2. PICK hi \in pos[p] .. Len(log[p]) :
            /\ cons' = [cons EXCEPT ![c] = [pc |-> "apply", part |-> p, lo |-> pos[p], hi |-> hi,
                                            stale |-> FALSE]]
            /\ UNCHANGED <<booking, relayVars, log, members, owner, committed, pos, facts,
                           rebuild, faults, rebuilds>>
      BY <3>1
    <3>3. pos[p] \in Nat /\ Len(log[p]) \in Nat
      BY DEF IInv, TypeOK
    <3>4. hi \in Nat /\ hi >= pos[p] /\ hi <= Len(log[p])
      BY <3>2, <3>3
    <3>5. QED
      BY <3>2, <3>4 DEF relayVars
  <2> DEFINE x == [pc |-> "apply", part |-> p, lo |-> pos[p], hi |-> hi, stale |-> FALSE]
  <2>2. pos[p] \in Nat /\ pos[p] >= 1
    BY DEF IInv, TypeOK
  <2>3. /\ x \in Member /\ x.part = p /\ x.lo = pos[p] /\ x.hi = hi
    BY <2>1, <2>2 DEF Member
  <2>4. cons' = [cons EXCEPT ![c] = x]
    BY <2>1
  <2> HIDE DEF x
  <2>5. committed' \in [Partitions -> Nat \ {0}] /\ pos' \in [Partitions -> Nat \ {0}]
    BY <2>1 DEF IInv, TypeOK
  <2>6. QED
    BY <1>1, <2>1, <2>2, <2>3, <2>4, <2>5
<1>3. CASE ConsumerCrash(c) \/ ApplyFails(c)
  <2>1. PICK x \in {Away, Polling} : cons' = [cons EXCEPT ![c] = x]
    BY <1>3 DEF ConsumerCrash, ApplyFails
  <2>2. /\ Fault
        /\ UNCHANGED <<booking, row, relay, late, log, members, owner, committed, pos, facts,
                       rebuild, rebuilds>>
    BY <1>3 DEF ConsumerCrash, ApplyFails, relayVars
  <2>3. committed' \in [Partitions -> Nat \ {0}] /\ pos' \in [Partitions -> Nat \ {0}]
    BY <2>2 DEF IInv, TypeOK
  <2>4. QED
    BY <1>1, <2>1, <2>2, <2>3, ShapeFacts
<1>4. CASE Commit(c)
  <2>1. PICK x \in {Away, Polling} : cons' = [cons EXCEPT ![c] = x]
    BY <1>4 DEF Commit
  <2>2. PICK p : p = cons[c].part
    OBVIOUS
  <2>3. /\ cons[c].pc = "commit" /\ (Fault \/ faults' = faults)
        /\ pos' = pos \/ pos' = [pos EXCEPT ![p] = cons[c].hi + 1]
        /\ committed' = committed \/ committed' = [committed EXCEPT ![p] = cons[c].hi + 1]
        /\ UNCHANGED <<booking, row, relay, late, log, members, owner, facts, rebuild, rebuilds>>
    BY <1>4, <2>2 DEF Commit, relayVars
  <2>4. cons[c].hi + 1 \in Nat \ {0}
    BY DEF IInv, TypeOK, Member
  <2>5. committed' \in [Partitions -> Nat \ {0}] /\ pos' \in [Partitions -> Nat \ {0}]
    <3>1. committed \in [Partitions -> Nat \ {0}] /\ pos \in [Partitions -> Nat \ {0}]
      BY DEF IInv, TypeOK
    <3>2. committed' \in [Partitions -> Nat \ {0}]
      BY <2>3, <2>4, <3>1
    <3> QED
      BY <2>3, <2>4, <3>1, <3>2
  <2>6. QED
    BY <1>1, <2>1, <2>3, <2>5, ShapeFacts
<1>5. QED
  BY <1>2, <1>3, <1>4

\* Of a set of messages of one booking, the newest is one of them.
LEMMA NewestExists ==
  ASSUME NEW T, T \subseteq Payload, T # {}
  PROVE  \E m \in T : \A n \in T : m.version >= n.version
<1> DEFINE gap(m) == MaxVersion - m.version
           G == {gap(m) : m \in T}
<1>1. \A m \in T : m.version \in Nat /\ m.version <= MaxVersion
  BY ConstantFacts DEF Payload, Versions
<1>2. G \subseteq Nat /\ G # {}
  BY <1>1, ConstantFacts
<1>3. PICK g \in G : \A h \in G : <<h, g>> \notin OpToRel(<, Nat)
  BY <1>2, NatLessThanWellFounded, WFMin
<1>4. PICK m \in T : g = gap(m)
  BY <1>3
<1>5. ASSUME NEW n \in T PROVE m.version >= n.version
  <2>1. ~(gap(n) < gap(m))
    BY <1>1, <1>2, <1>3, <1>4 DEF OpToRel
  <2>2. QED
    BY <1>1, <1>4, <2>1, ConstantFacts
<1>6. QED
  BY <1>5

\* What a batch brings to a booking: nothing, or a recorded version that no message of
\* the batch is newer than.
LEMMA NewestFacts ==
  ASSUME IInv, NEW c \in Consumers, Holding(c), NEW b \in Bookings
  PROVE  /\ Newest(c, b) \in Fact
         /\ Newest(c, b) = NoFact
            \/ /\ Newest(c, b).version \in Versions
               /\ Newest(c, b).version <= booking[b].version
               /\ Newest(c, b) = ToFact(row[<<b, Newest(c, b).version>>].payload)
         /\ \A k \in cons[c].lo .. cons[c].hi :
              log[cons[c].part][k].booking = b => 
                log[cons[c].part][k].version <= Newest(c, b).version
<1> DEFINE batch == {log[cons[c].part][i] : i \in cons[c].lo .. cons[c].hi}
           mine == {m \in batch : m.booking = b /\ ParseMessage(m)}
<1>1. /\ cons[c].part \in Partitions /\ cons[c].lo >= 1 /\ cons[c].hi <= Len(log[cons[c].part])
      /\ cons[c].lo \in Nat /\ cons[c].hi \in Nat /\ Len(log[cons[c].part]) \in Nat
  BY DEF IInv, FactInv, HandSound, TypeOK, Member
<1>2. \A k \in cons[c].lo .. cons[c].hi : Recorded(log[cons[c].part][k])
  <2>1. \A k \in cons[c].lo .. cons[c].hi : k \in 1 .. Len(log[cons[c].part])
    BY <1>1
  <2>2. QED
    BY <1>1, <2>1 DEF IInv, OutboxInv, LogSound
<1>3. \A m \in batch : Recorded(m)
  BY <1>2
<1>4. \A m \in batch : m.booking = b => m \in mine
  BY <1>3, RecordedFacts DEF ParseMessage
<1>5. \A m \in mine : Recorded(m) /\ m.booking = b
  BY <1>3
<1>6. \A k \in cons[c].lo .. cons[c].hi : log[cons[c].part][k].booking = b =>
        log[cons[c].part][k] \in mine
  BY <1>4
<1>7. Newest(c, b) = IF mine = {} THEN NoFact
                     ELSE ToFact(CHOOSE m \in mine : \A n \in mine : m.version >= n.version)
  BY DEF Newest
<1> HIDE DEF mine, batch
<1>8. CASE mine = {}
  <2>1. NoFact \in Fact
    BY ConstantFacts DEF NoFact, Fact
  <2>2. QED
    BY <1>6, <1>7, <1>8, <2>1
<1>9. CASE mine # {}
  <2>1. mine \subseteq Payload
    BY <1>5 DEF Recorded
  <2>2. \E m \in mine : \A n \in mine : m.version >= n.version
    BY <1>9, <2>1, NewestExists
  <2>3. PICK m \in mine : (\A n \in mine : m.version >= n.version) /\ Newest(c, b) = ToFact(m)
    BY <1>7, <1>9, <2>2
  <2>4. /\ m \in Payload /\ m.booking = b /\ m.version \in Versions /\ m.version \in Nat
        /\ row[<<b, m.version>>].payload = m /\ m.version <= booking[b].version
    BY <1>5, RecordedFacts
  <2>5. /\ ToFact(m) \in Fact /\ ToFact(m).version = m.version
    BY <2>4, ConstantFacts DEF ToFact, Fact, Payload, Versions
  <2>6. \A n \in mine : n.version \in Nat
    BY <2>1, ConstantFacts DEF Payload
  <2>7. \A k \in cons[c].lo .. cons[c].hi : log[cons[c].part][k].booking = b =>
          log[cons[c].part][k].version <= m.version
    BY <1>6, <2>3, <2>4, <2>6
  <2>8. QED
    BY <2>3, <2>4, <2>5, <2>7
<1>10. QED
  BY <1>8, <1>9


\* The guarded upsert keeps one of the two rows, whole: the newer.
LEMMA UpsertFacts ==
  ASSUME NEW stored \in Fact, NEW incoming \in Fact
  PROVE  Upsert(stored, incoming) = IF incoming.version > stored.version THEN incoming ELSE stored
<1>1. CASE incoming.version > stored.version
  BY <1>1 DEF Upsert, Fact
<1>2. CASE ~(incoming.version > stored.version)
  BY <1>2 DEF Upsert, Fact
<1>3. QED
  BY <1>1, <1>2

\* A batch, however late, moves facts forward only, and at least to what it brings.
LEMMA ApplyKeeps ==
  ASSUME IInv, NEW c \in Consumers, Apply(c)
  PROVE  /\ IInv'
         /\ \A b \in Bookings : /\ facts[b].version <= facts'[b].version
                                /\ Newest(c, b).version <= facts'[b].version
         /\ cons[c].pc = "apply" /\ cons'[c].pc = "commit" /\ cons'[c].stale = cons[c].stale
         /\ cons'[c].part = cons[c].part /\ cons'[c].lo = cons[c].lo /\ cons'[c].hi = cons[c].hi
         /\ \A d \in Consumers : d # c => cons'[d] = cons[d]
         /\ UNCHANGED <<booking, log, members, owner, committed, pos, rebuild>>
<1> DEFINE x == [cons[c] EXCEPT !.pc = "commit"]
<1>1. /\ cons[c].pc = "apply" /\ cons' = [cons EXCEPT ![c] = x]
      /\ facts' = [b \in Bookings |-> Upsert(facts[b], Newest(c, b))]
      /\ UNCHANGED <<booking, row, relay, late, log, members, owner, committed, pos, rebuild,
                     faults, rebuilds>>
  BY DEF Apply, relayVars
<1>2. cons[c] \in Member /\ Holding(c)
  BY <1>1 DEF IInv, TypeOK, Holding
<1>3. /\ x \in Member /\ x.pc = "commit" /\ x.part = cons[c].part /\ x.lo = cons[c].lo
      /\ x.hi = cons[c].hi /\ x.stale = cons[c].stale
  BY <1>2 DEF Member
<1> HIDE DEF x
<1>4. /\ cons' \in [Consumers -> Member] /\ cons'[c] = x
      /\ \A d \in Consumers : d # c => cons'[d] = cons[d]
  BY <1>1, <1>3 DEF IInv, TypeOK
<1>5. \A d \in Consumers : HandSound(d)'
  <2>1. HandSound(c)'
    <3>1. HandSound(c)
      BY DEF IInv, FactInv
    <3>2. QED
      BY <1>1, <1>2, <1>3, <1>4, <3>1 DEF HandSound
  <2>2. ASSUME NEW d \in Consumers, d # c PROVE HandSound(d)'
    <3>1. HandSound(d) /\ cons'[d] = cons[d] /\ log' = log
      BY <1>1, <1>4, <2>2 DEF IInv, FactInv
    <3>2. QED
      BY <3>1 DEF HandSound, Holding
  <2>3. QED
    BY <2>1, <2>2
<1>6. ASSUME NEW b \in Bookings
      PROVE  /\ facts'[b] \in Fact /\ facts[b].version <= facts'[b].version
             /\ Newest(c, b).version <= facts'[b].version /\ FactSound(b)'
  <2>1. PICK n \in Fact :
          /\ n = Newest(c, b)
          /\ n = NoFact \/ /\ n.version \in Versions /\ n.version <= booking[b].version
                           /\ n = ToFact(row[<<b, n.version>>].payload)
    BY <1>2, NewestFacts
  <2>2. facts[b] \in Fact /\ FactSound(b)
    BY DEF IInv, TypeOK, FactInv
  <2>3. facts'[b] = IF n.version > facts[b].version THEN n ELSE facts[b]
    BY <1>1, <2>1, <2>2, UpsertFacts
  <2>4. n.version \in Nat /\ facts[b].version \in Nat
    BY <2>2, ConstantFacts DEF Fact
  <2>5. facts'[b] \in Fact /\ facts[b].version <= facts'[b].version /\ n.version <= facts'[b].version
    BY <2>2, <2>3, <2>4
  <2>6. CASE n.version > facts[b].version
    <3>1. n # NoFact /\ n.version # 0
      BY <2>4, <2>6 DEF NoFact
    <3>2. facts'[b] = n /\ row' = row /\ booking' = booking
      BY <1>1, <2>3, <2>6
    <3>3. FactSound(b)'
      BY <2>1, <3>1, <3>2 DEF FactSound
    <3>4. QED
      BY <2>1, <2>5, <3>3
  <2>7. CASE ~(n.version > facts[b].version)
    <3>1. facts'[b] = facts[b] /\ row' = row /\ booking' = booking
      BY <1>1, <2>3, <2>7
    <3>2. FactSound(b)'
      BY <2>2, <3>1 DEF FactSound
    <3>3. QED
      BY <2>1, <2>5, <3>2
  <2>8. QED
    BY <2>6, <2>7
<1>7. facts' \in [Bookings -> Fact]
  BY <1>1, <1>6
<1>8. /\ owner' \in [Partitions -> Consumers \cup {None}] /\ members' \subseteq Consumers
      /\ committed' \in [Partitions -> Nat \ {0}] /\ pos' \in [Partitions -> Nat \ {0}]
      /\ rebuild' \in [pc : {"idle", "reset", "delete", "verify"},
                       outcome : {"none", "OK", "CONSUMER_ACTIVE", "CONSUMER_JOINED", "FAILED"}]
      /\ rebuilds' \in 0..MaxRebuilds /\ faults' \in 0..MaxFaults
  BY <1>1 DEF IInv, TypeOK
<1>9. IInv'
  BY <1>1, <1>4, <1>5, <1>6, <1>7, <1>8, ReadStep
<1>10. QED
  BY <1>1, <1>3, <1>4, <1>6, <1>9

\* What the rebuild command does, and that it keeps the invariant.
LEMMA RebuildKeeps ==
  ASSUME IInv, RebuildStart \/ RebuildReset \/ RebuildDelete \/ RebuildVerify \/ RebuildFails
  PROVE  /\ IInv'
         /\ UNCHANGED <<booking, row, log, members, owner, cons>>
         /\ \/ facts' = facts
            \/ /\ rebuild.pc = "delete" /\ UNCHANGED <<committed, pos>>
               /\ \A b \in Bookings : facts'[b] \in {NoFact, facts[b]}
         /\ \/ UNCHANGED <<committed, pos>>
            \/ \A p \in Partitions : committed'[p] = 1 /\ pos'[p] = 1
         /\ rebuild'.pc # "idle" /\ rebuild.pc = "idle" => members = {}
         /\ rebuild'.pc = "delete" =>
              \/ rebuild.pc = "delete" /\ UNCHANGED <<committed, pos>>
              \/ rebuild.pc = "reset" /\ facts' = facts
                 /\ \A p \in Partitions : committed'[p] = 1 /\ pos'[p] = 1
<1> DEFINE Rebuilds == [pc : {"idle", "reset", "delete", "verify"},
                        outcome : {"none", "OK", "CONSUMER_ACTIVE", "CONSUMER_JOINED", "FAILED"}]
<1>1. ASSUME facts' \in [Bookings -> Fact], \A b \in Bookings : facts'[b] \in {NoFact, facts[b]},
             committed' \in [Partitions -> Nat \ {0}], pos' \in [Partitions -> Nat \ {0}],
             rebuild' \in Rebuilds, rebuilds' \in 0..MaxRebuilds, Fault \/ faults' = faults,
             UNCHANGED <<booking, row, relay, late, log, members, owner, cons>>
      PROVE  IInv'
  <2>1. \A b \in Bookings : FactSound(b)'
    <3> SUFFICES ASSUME NEW b \in Bookings PROVE FactSound(b)'
      OBVIOUS
    <3>1. FactSound(b) /\ facts'[b] \in {NoFact, facts[b]} /\ row' = row /\ booking' = booking
      BY <1>1 DEF IInv, FactInv
    <3>2. NoFact.version = 0
      BY DEF NoFact
    <3>3. QED
      BY <3>1, <3>2 DEF FactSound
  <2>2. \A c \in Consumers : HandSound(c)'
    BY <1>1 DEF IInv, FactInv, HandSound, Holding
  <2>3. faults' \in 0..MaxFaults
    BY <1>1, FaultFacts DEF IInv, TypeOK
  <2>4. /\ members' \subseteq Consumers /\ owner' \in [Partitions -> Consumers \cup {None}]
        /\ cons' \in [Consumers -> Member]
    BY <1>1 DEF IInv, TypeOK
  <2>5. QED
    BY <1>1, <2>1, <2>2, <2>3, <2>4, ReadStep
<1>2. /\ facts \in [Bookings -> Fact] /\ rebuild \in Rebuilds /\ rebuilds \in 0..MaxRebuilds
      /\ committed \in [Partitions -> Nat \ {0}] /\ pos \in [Partitions -> Nat \ {0}]
  BY DEF IInv, TypeOK
<1>3. CASE RebuildStart
  <2>1. /\ rebuild.pc = "idle" /\ rebuilds < MaxRebuilds /\ rebuilds' = rebuilds + 1
        /\ \/ members = {} /\ rebuild' = [pc |-> "reset", outcome |-> "none"]
           \/ rebuild' = [pc |-> "idle", outcome |-> "CONSUMER_ACTIVE"]
        /\ UNCHANGED <<booking, row, relay, late, log, members, owner, committed, pos, cons,
                       facts, faults>>
    BY <1>3 DEF RebuildStart, RebuildMoves, relayVars, groupVars
  <2>2. rebuilds' \in 0..MaxRebuilds
    BY <1>2, <2>1, ConstantFacts
  <2>3. rebuild' \in Rebuilds
    BY <2>1
  <2>4. IInv'
    BY <1>1, <1>2, <2>1, <2>2, <2>3
  <2>5. QED
    BY <2>1, <2>4
<1>4. CASE RebuildReset
  <2>1. /\ rebuild.pc = "reset"
        /\ \/ UNCHANGED <<committed, pos>> /\ rebuild' = [pc |-> "idle", outcome |-> "FAILED"]
           \/ /\ rebuild' = [pc |-> "delete", outcome |-> "none"]
              /\ committed' = [p \in Partitions |-> 1] /\ pos' = committed'
        /\ UNCHANGED <<booking, row, relay, late, log, members, owner, cons, facts, faults, rebuilds>>
    BY <1>4 DEF RebuildReset, RebuildMoves, relayVars
  <2>2. committed' \in [Partitions -> Nat \ {0}] /\ pos' \in [Partitions -> Nat \ {0}]
    BY <1>2, <2>1
  <2>3. rebuild' \in Rebuilds
    BY <2>1
  <2>4. IInv'
    BY <1>1, <1>2, <2>1, <2>2, <2>3
  <2>5. QED
    BY <2>1, <2>4
<1>5. CASE RebuildDelete
  <2>1. PICK S : /\ rebuild.pc = "delete"
                 /\ facts' = [b \in Bookings |-> IF b \in S THEN NoFact ELSE facts[b]]
                 /\ rebuild' = [pc |-> "verify", outcome |-> "none"] \/ rebuild' = rebuild
                 /\ UNCHANGED <<booking, row, relay, late, log, members, owner, committed, pos,
                                cons, faults, rebuilds>>
    BY <1>5 DEF RebuildDelete, RebuildMoves, relayVars, groupVars
  <2>2. NoFact \in Fact
    BY ConstantFacts DEF NoFact, Fact
  <2>3. facts' \in [Bookings -> Fact] /\ \A b \in Bookings : facts'[b] \in {NoFact, facts[b]}
    BY <1>2, <2>1, <2>2
  <2>4. rebuild' \in Rebuilds
    BY <1>2, <2>1
  <2>5. IInv'
    BY <1>1, <1>2, <2>1, <2>3, <2>4
  <2>6. QED
    BY <2>1, <2>3, <2>5
<1>6. CASE RebuildVerify \/ RebuildFails
  <2>1. /\ rebuild.pc # "idle" /\ (Fault \/ faults' = faults)
        /\ \E o \in {"OK", "CONSUMER_JOINED", "FAILED"} : rebuild' = [pc |-> "idle", outcome |-> o]
        /\ UNCHANGED <<booking, row, relay, late, log, members, owner, committed, pos, cons,
                       facts, rebuilds>>
    BY <1>6 DEF RebuildVerify, RebuildFails, RebuildMoves, relayVars, groupVars
  <2>2. rebuild' \in Rebuilds /\ rebuild'.pc = "idle"
    BY <2>1
  <2>3. IInv'
    BY <1>1, <1>2, <2>1, <2>2
  <2>4. QED
    BY <2>1, <2>2, <2>3
<1>7. QED
  BY <1>3, <1>4, <1>5, <1>6

LEMMA NextInv == IInv /\ [Next]_vars => IInv'
<1> SUFFICES ASSUME IInv, [Next]_vars PROVE IInv'
  OBVIOUS
<1>1. ASSUME NEW b \in Bookings, ChangeBooking(b) PROVE IInv'
  BY <1>1, ChangeKeeps
<1>2. ASSUME NEW r \in Relays, RelayStep(r) \/ LateRequestEnds(r) \/ PublishFails(r)
                               \/ PublishTimesOut(r) \/ RelayCrash(r) PROVE IInv'
  BY <1>2, ClaimKeeps, PrepareKeeps, PublishKeeps, MarkKeeps, LateKeeps, RowTimeKeeps DEF RelayStep
<1>3. ASSUME NEW i \in Ids, LeaseRunsOut(i) \/ BackoffEnds(i) PROVE IInv'
  BY <1>3, RowTimeKeeps
<1>4. ASSUME NEW c \in Consumers, Join(c) \/ Leave(c) \/ Evict(c) \/ ConsumerCrash(c)
                                  \/ ConsumerStep(c) \/ ApplyFails(c) PROVE IInv'
  BY <1>4, MembershipKeeps, HandKeeps, ApplyKeeps DEF ConsumerStep
<1>5. CASE RebuildStart \/ RebuildStep \/ RebuildFails
  BY <1>5, RebuildKeeps DEF RebuildStep
<1>6. CASE UNCHANGED vars
  <2>1. UNCHANGED <<booking, row, relay, late, log, members, owner, committed, pos, cons, facts,
                    rebuild, faults, rebuilds>>
    BY <1>6 DEF vars, relayVars, groupVars
  <2>2. /\ members' \subseteq Consumers /\ owner' \in [Partitions -> Consumers \cup {None}]
        /\ committed' \in [Partitions -> Nat \ {0}] /\ pos' \in [Partitions -> Nat \ {0}]
        /\ cons' \in [Consumers -> Member]
        /\ rebuild' \in [pc : {"idle", "reset", "delete", "verify"},
                         outcome : {"none", "OK", "CONSUMER_ACTIVE", "CONSUMER_JOINED", "FAILED"}]
        /\ faults' \in 0..MaxFaults /\ rebuilds' \in 0..MaxRebuilds
    BY <2>1 DEF IInv, TypeOK
  <2>3. \A c \in Consumers : HandSound(c)'
    BY <2>1 DEF IInv, FactInv, HandSound, Holding
  <2>4. facts' \in [Bookings -> Fact] /\ \A b \in Bookings : FactSound(b)'
    BY <2>1, FactsRest
  <2>5. QED
    BY <2>1, <2>2, <2>3, <2>4, ReadStep
<1>7. QED
  BY <1>1, <1>2, <1>3, <1>4, <1>5, <1>6 DEF Next

\* Types: outbox rows, relay cycles, late requests, partitions, members, facts and the
\* rebuild command keep their shape.
THEOREM TypeCorrect == Spec => []TypeOK
<1>1. Init => IInv
  BY InitInv
<1>2. IInv => TypeOK
  BY DEF IInv
<1>3. QED
  BY <1>1, <1>2, NextInv, PTL DEF Spec

\* The relay never marks a row PROCESSED that the topic does not have, whatever fails,
\* crashes, times out or comes late, and never fails a row for good.
THEOREM ProcessedStaysOnTopic == Spec => []ProcessedIsOnTopic
<1>1. Init => IInv
  BY InitInv
<1>2. IInv => ProcessedIsOnTopic
  BY RowFacts DEF IInv, OutboxInv, ProcessedIsOnTopic, OnTopic
<1>3. QED
  BY <1>1, <1>2, NextInv, PTL DEF Spec

\* A row of the read model is one recorded version of its booking, whole, under any
\* duplication, reordering, replay or rebuild, with workers running or stopped.
THEOREM FactsStayVersions == Spec => []FactsAreVersions
<1>1. Init => IInv
  BY InitInv
<1>2. IInv => FactsAreVersions
  BY DEF IInv, FactInv, FactSound, FactsAreVersions
<1>3. QED
  BY <1>1, <1>2, NextInv, PTL DEF Spec


-----------------------------------------------------------------------------
(***************************************************************************)
(* Offsets: nothing below a position of the group is missing from the      *)
(* facts.  A rebuild empties the facts, so this needs the group to itself: *)
(* the operator stops the workers (WorkersStopped).                        *)
(***************************************************************************)
LEMMA LogTypes ==
  ASSUME IInv
  PROVE  /\ \A p \in Partitions : /\ Len(log[p]) \in Nat /\ committed[p] \in Nat /\ committed[p] >= 1
                                  /\ pos[p] \in Nat /\ pos[p] >= 1
         /\ \A p \in Partitions : \A k \in 1 .. Len(log[p]) :
              /\ log[p][k] \in Payload /\ log[p][k].booking \in Bookings
              /\ log[p][k].version \in Nat /\ log[p][k].version >= 1
         /\ \A b \in Bookings : facts[b].version \in Nat
         /\ \A c \in Consumers : /\ cons[c].lo \in Nat /\ cons[c].hi \in Nat
                                 /\ cons[c].stale \in BOOLEAN
<1>1. \A p \in Partitions : /\ Len(log[p]) \in Nat /\ committed[p] \in Nat /\ committed[p] >= 1
                            /\ pos[p] \in Nat /\ pos[p] >= 1
  BY DEF IInv, TypeOK
<1>2. \A m \in Payload : m.booking \in Bookings /\ m.version \in Nat /\ m.version >= 1
  BY ConstantFacts DEF Payload
<1>3. \A p \in Partitions : \A k \in 1 .. Len(log[p]) : log[p][k] \in Payload
  BY DEF IInv, TypeOK
<1>4. \A b \in Bookings : facts[b].version \in Nat
  BY ConstantFacts DEF IInv, TypeOK, Fact
<1>5. \A c \in Consumers : cons[c].lo \in Nat /\ cons[c].hi \in Nat /\ cons[c].stale \in BOOLEAN
  BY DEF IInv, TypeOK, Member
<1>6. QED
  BY <1>1, <1>2, <1>3, <1>4, <1>5

\* What has been applied stays applied while the topic grows and facts move forward.
LEMMA AppliedStays ==
  ASSUME IInv, IInv',
         \A p \in Partitions : /\ Len(log[p]) <= Len(log'[p])
                               /\ \A k \in 1 .. Len(log[p]) : log'[p][k] = log[p][k],
         \A b \in Bookings : facts[b].version <= facts'[b].version
  PROVE  \A p \in Partitions : \A k \in 1 .. Len(log[p]) : Applied(p, k) => Applied(p, k)'
<1> SUFFICES ASSUME NEW p \in Partitions, NEW k \in 1 .. Len(log[p]), Applied(p, k)
             PROVE  Applied(p, k)'
  OBVIOUS
<1>1. PICK m : m = log[p][k] /\ m = log'[p][k]
  OBVIOUS
<1>2. m.booking \in Bookings /\ m.version \in Nat /\ facts[m.booking].version \in Nat
  BY <1>1, LogTypes
<1>3. facts'[m.booking].version \in Nat
  BY <1>2, ConstantFacts DEF IInv, TypeOK, Fact
<1>4. facts'[m.booking].version >= m.version
  BY <1>1, <1>2, <1>3 DEF Applied
<1>5. QED
  BY <1>1, <1>4 DEF Applied

\* The positions keep their meaning, and so does every batch that did not change hands.
LEMMA OffsetsStay ==
  ASSUME IInv, IInv', GroupInv,
         \A p \in Partitions : /\ Len(log[p]) <= Len(log'[p])
                               /\ \A k \in 1 .. Len(log[p]) : log'[p][k] = log[p][k],
         \A b \in Bookings : facts[b].version <= facts'[b].version,
         UNCHANGED members
  PROVE  /\ UNCHANGED <<committed, pos>> => \A p \in Partitions : OffsetsSound(p)'
         /\ \A c \in Consumers : cons'[c] = cons[c] => BatchSound(c)'
<1>1. \A p \in Partitions : \A k \in 1 .. Len(log[p]) : Applied(p, k) => Applied(p, k)'
  BY AppliedStays
<1>2. \A p \in Partitions : Len(log[p]) \in Nat /\ Len(log'[p]) \in Nat
                            /\ committed[p] \in Nat /\ pos[p] \in Nat
  BY LogTypes DEF IInv, TypeOK
<1>3. ASSUME UNCHANGED <<committed, pos>>, NEW p \in Partitions PROVE OffsetsSound(p)'
  <2>1. OffsetsSound(p)
    BY DEF GroupInv
  <2>2. committed'[p] <= Len(log'[p]) + 1 /\ pos'[p] <= Len(log'[p]) + 1
    BY <1>2, <1>3, <2>1 DEF OffsetsSound
  <2>3. ASSUME NEW k \in 1 .. Len(log'[p]), k < committed'[p] \/ k < pos'[p] PROVE Applied(p, k)'
    <3>1. k \in 1 .. Len(log[p])
      BY <1>2, <1>3, <2>1, <2>3 DEF OffsetsSound
    <3>2. QED
      BY <1>1, <1>3, <2>1, <2>3, <3>1 DEF OffsetsSound
  <2>4. QED
    BY <2>2, <2>3 DEF OffsetsSound
<1>4. ASSUME NEW c \in Consumers, cons'[c] = cons[c] PROVE BatchSound(c)'
  <2> SUFFICES ASSUME Holding(c), cons[c].stale = FALSE PROVE BatchSound(c)'
    BY <1>4 DEF BatchSound, Holding
  <2>1. BatchSound(c) /\ HandSound(c) /\ cons[c].lo \in Nat /\ cons[c].hi \in Nat
    BY LogTypes DEF GroupInv, IInv, FactInv
  <2>2. PICK p \in Partitions : p = cons[c].part
    BY <2>1 DEF HandSound
  <2>3. /\ c \in members /\ cons[c].lo <= cons[c].hi /\ cons[c].hi <= Len(log[p])
        /\ \A k \in 1 .. Len(log[p]) :
             k < cons[c].lo \/ (cons[c].pc = "commit" /\ k <= cons[c].hi) => Applied(p, k)
    BY <2>1, <2>2 DEF BatchSound, HandSound
  <2>4. ASSUME NEW k \in 1 .. Len(log'[p]),
               k < cons[c].lo \/ (cons[c].pc = "commit" /\ k <= cons[c].hi)
        PROVE  Applied(p, k)'
    <3>1. k \in 1 .. Len(log[p])
      BY <1>2, <2>1, <2>3, <2>4
    <3>2. QED
      BY <1>1, <2>3, <2>4, <3>1
  <2>5. p = cons'[c].part /\ c \in members'
    BY <1>4, <2>2, <2>3
  <2>6. QED
    BY <1>4, <2>4, <2>5 DEF BatchSound
<1>5. QED
  BY <1>3, <1>4

\* Booking transactions and relays leave the readers alone, and the topic only grows.
LEMMA WritersStep ==
  ASSUME IInv,
         \/ \E b \in Bookings : ChangeBooking(b)
         \/ \E r \in Relays : \/ RelayStep(r) \/ LateRequestEnds(r)
                              \/ PublishFails(r) \/ PublishTimesOut(r) \/ RelayCrash(r)
         \/ \E i \in Ids : LeaseRunsOut(i) \/ BackoffEnds(i)
  PROVE  /\ UNCHANGED <<members, owner, committed, pos, cons, facts, rebuild>>
         /\ \A p \in Partitions : /\ Len(log[p]) <= Len(log'[p])
                                  /\ \A k \in 1 .. Len(log[p]) : log'[p][k] = log[p][k]
<1>0. UNCHANGED log => \A p \in Partitions :
        Len(log[p]) <= Len(log'[p]) /\ \A k \in 1 .. Len(log[p]) : log'[p][k] = log[p][k]
  BY LogTypes
<1>1. ASSUME NEW b \in Bookings, ChangeBooking(b)
      PROVE  UNCHANGED <<members, owner, committed, pos, cons, facts, rebuild, log>>
  BY <1>1, Zenon DEF ChangeBooking, groupVars
<1>2. ASSUME NEW r \in Relays, \/ Claim(r) \/ Prepare(r) \/ MarkPublished(r) \/ MarkRetry(r)
                               \/ PublishTimesOut(r) \/ RelayCrash(r)
      PROVE  UNCHANGED <<members, owner, committed, pos, cons, facts, rebuild, log>>
  BY <1>2, Zenon DEF Claim, Prepare, MarkPublished, MarkRetry, PublishTimesOut, RelayCrash, groupVars
<1>3. ASSUME NEW i \in Ids, LeaseRunsOut(i) \/ BackoffEnds(i)
      PROVE  UNCHANGED <<members, owner, committed, pos, cons, facts, rebuild, log>>
  BY <1>3, Zenon DEF LeaseRunsOut, BackoffEnds, groupVars
<1>4. ASSUME NEW r \in Relays, Publish(r) \/ PublishFails(r) \/ LateRequestEnds(r)
      PROVE  /\ UNCHANGED <<members, owner, committed, pos, cons, facts, rebuild>>
             /\ \A p \in Partitions : /\ Len(log[p]) <= Len(log'[p])
                                      /\ \A k \in 1 .. Len(log[p]) : log'[p][k] = log[p][k]
  <2>1. UNCHANGED <<members, owner, committed, pos, cons, facts, rebuild>>
    BY <1>4, Zenon DEF Publish, PublishFails, LateRequestEnds, groupVars
  <2>2. PICK S \in SUBSET Payload : \E parts \in SUBSET Partitions : Produce(S, parts)
    <3>1. CASE Publish(r) \/ PublishFails(r)
      <4>1. Messages(r) \in SUBSET Payload
        BY MessagesFacts
      <4>2. \E parts \in SUBSET Partitions : Produce(Messages(r), parts)
        BY <3>1 DEF Publish, PublishFails
      <4>3. QED
        BY <4>1, <4>2
    <3>2. CASE LateRequestEnds(r)
      <4>1. PICK n \in DOMAIN late[r] : \E parts \in SUBSET Partitions : Produce(late[r][n], parts)
        BY <3>2 DEF LateRequestEnds
      <4>2. late[r] \in Seq(SUBSET Payload)
        BY DEF IInv, TypeOK
      <4>3. late[r][n] \in SUBSET Payload
        BY <4>1, <4>2
      <4>4. QED
        BY <4>1, <4>3
    <3>3. QED
      BY <1>4, <3>1, <3>2
  <2>3. PICK parts \in SUBSET Partitions : Produce(S, parts)
    BY <2>2
  <2>4. QED
    BY <2>1, <2>3, ProduceFacts
<1>5. QED
  BY <1>0, <1>1, <1>2, <1>3, <1>4 DEF RelayStep


\* Joining, leaving and evicting: everybody reads on from the committed offsets, and no
\* batch fetched before may move them.
LEMMA MembershipGroup ==
  ASSUME WorkersStopped = TRUE, IInv, GroupInv, NEW c \in Consumers,
         Join(c) \/ Leave(c) \/ Evict(c)
  PROVE  GroupInv'
<1>1. /\ IInv' /\ \A d \in Consumers : Holding(d)' => cons'[d].stale = TRUE
      /\ UNCHANGED <<log, facts, rebuild, committed>> /\ pos' = committed
      /\ \A p \in Partitions : owner'[p] \in members' \cup {None}
      /\ rebuild.pc # "idle" => members' \subseteq members
  BY MembershipKeeps
<1>2. \A p \in Partitions : OffsetsSound(p)'
  BY <1>1 DEF GroupInv, OffsetsSound, Applied
<1>3. \A d \in Consumers : BatchSound(d)'
  BY <1>1 DEF BatchSound
<1>4. RebuildSound'
  BY <1>1 DEF GroupInv, RebuildSound
<1>5. QED
  BY <1>1, <1>2, <1>3, <1>4 DEF GroupInv

\* Fetching from the position, giving a batch up, and committing past it.
LEMMA HandGroup ==
  ASSUME IInv, IInv', GroupInv, NEW c \in Consumers,
         Fetch(c) \/ ConsumerCrash(c) \/ ApplyFails(c) \/ Commit(c)
  PROVE  GroupInv'
<1>1. /\ UNCHANGED <<log, members, owner, facts, rebuild>>
      /\ \A d \in Consumers : d # c => cons'[d] = cons[d]
  BY DEF Fetch, ConsumerCrash, ApplyFails, Commit, IInv, TypeOK
<1>2. /\ UNCHANGED <<committed, pos>> => \A p \in Partitions : OffsetsSound(p)'
      /\ \A d \in Consumers : cons'[d] = cons[d] => BatchSound(d)'
  <2>1. \A p \in Partitions : /\ Len(log[p]) <= Len(log'[p])
                              /\ \A k \in 1 .. Len(log[p]) : log'[p][k] = log[p][k]
    BY <1>1, LogTypes
  <2>2. \A b \in Bookings : facts[b].version <= facts'[b].version
    BY <1>1, LogTypes
  <2>3. QED
    BY <1>1, <2>1, <2>2, OffsetsStay
<1>3. \A p \in Partitions : \A k : Applied(p, k)' = Applied(p, k)
  BY <1>1 DEF Applied
<1>4. CASE Fetch(c)
  <2>1. PICK p \in Partitions : /\ owner[p] = c /\ cons'[c].part = p /\ cons'[c].lo = pos[p]
                                /\ cons'[c].pc = "apply"
    BY <1>4 DEF Fetch, IInv, TypeOK
  <2>2. UNCHANGED <<committed, pos>>
    BY <1>4 DEF Fetch
  <2>3. c \in members
    BY <2>1, ConstantsAssumption DEF GroupInv
  <2>4. OffsetsSound(p)
    BY DEF GroupInv
  <2>5. BatchSound(c)'
    BY <1>1, <1>3, <2>1, <2>3, <2>4 DEF BatchSound, OffsetsSound
  <2>6. RebuildSound'
    BY <1>1, <2>2 DEF GroupInv, RebuildSound
  <2>7. QED
    BY <1>1, <1>2, <2>2, <2>5, <2>6 DEF GroupInv
<1>5. CASE ConsumerCrash(c) \/ ApplyFails(c)
  <2>1. cons'[c] \in {Away, Polling} /\ UNCHANGED <<committed, pos>>
    BY <1>5 DEF ConsumerCrash, ApplyFails, IInv, TypeOK
  <2>2. BatchSound(c)'
    BY <2>1, ShapeFacts DEF BatchSound, Holding
  <2>3. RebuildSound'
    BY <1>1, <2>1 DEF GroupInv, RebuildSound
  <2>4. QED
    BY <1>1, <1>2, <2>1, <2>2, <2>3 DEF GroupInv
<1>6. CASE Commit(c)
  <2>1. cons'[c] \in {Away, Polling} /\ cons[c].pc = "commit"
    BY <1>6 DEF Commit, IInv, TypeOK
  <2>2. BatchSound(c)'
    BY <2>1, ShapeFacts DEF BatchSound, Holding
  <2>3. CASE cons[c].stale
    <3>1. UNCHANGED <<committed, pos>>
      BY <1>6, <2>3 DEF Commit
    <3>2. RebuildSound'
      BY <1>1, <3>1 DEF GroupInv, RebuildSound
    <3>3. QED
      BY <1>1, <1>2, <2>2, <3>1, <3>2 DEF GroupInv
  <2>4. CASE ~cons[c].stale
    <3>1. cons[c].stale = FALSE /\ Holding(c) /\ cons[c].hi \in Nat
      BY <2>1, <2>4, LogTypes DEF Holding
    <3>2. PICK p \in Partitions : p = cons[c].part
      BY <3>1 DEF IInv, FactInv, HandSound
    <3>3. /\ c \in members /\ cons[c].hi <= Len(log[p])
          /\ \A k \in 1 .. Len(log[p]) : k <= cons[c].hi => Applied(p, k)
      BY <2>1, <3>1, <3>2 DEF GroupInv, BatchSound, IInv, FactInv, HandSound
    <3>4. /\ pos' = [pos EXCEPT ![p] = cons[c].hi + 1]
          /\ committed' = committed \/ committed' = [committed EXCEPT ![p] = cons[c].hi + 1]
      BY <1>6, <2>4, <3>2 DEF Commit
    <3>5. OffsetsSound(p)'
      <4>1. /\ pos'[p] = cons[c].hi + 1
            /\ committed'[p] = committed[p] \/ committed'[p] = cons[c].hi + 1
        BY <3>4 DEF IInv, TypeOK
      <4>2. OffsetsSound(p) /\ Len(log[p]) \in Nat /\ committed[p] \in Nat
        BY LogTypes DEF GroupInv
      <4>3. \A k \in 1 .. Len(log[p]) : k < cons[c].hi + 1 => k <= cons[c].hi
        BY <3>1, <4>2
      <4>4. \A k \in 1 .. Len(log[p]) : k < committed'[p] \/ k < pos'[p] => Applied(p, k)
        BY <3>3, <4>1, <4>2, <4>3 DEF OffsetsSound
      <4>5. committed'[p] <= Len(log[p]) + 1 /\ pos'[p] <= Len(log[p]) + 1
        BY <3>1, <3>3, <4>1, <4>2 DEF OffsetsSound
      <4>6. QED
        BY <1>1, <1>3, <4>4, <4>5 DEF OffsetsSound
    <3>6. ASSUME NEW q \in Partitions, q # p PROVE OffsetsSound(q)'
      <4>1. pos'[q] = pos[q] /\ committed'[q] = committed[q] /\ OffsetsSound(q)
        BY <3>4, <3>6 DEF IInv, TypeOK, GroupInv
      <4>2. QED
        BY <1>1, <1>3, <4>1 DEF OffsetsSound
    <3>7. RebuildSound'
      BY <1>1, <3>3 DEF GroupInv, RebuildSound
    <3>8. \A q \in Partitions : OffsetsSound(q)'
      BY <3>5, <3>6
    <3>9. QED
      BY <1>1, <1>2, <2>2, <3>7, <3>8 DEF GroupInv
  <2>5. QED
    BY <2>3, <2>4
<1>7. QED
  BY <1>4, <1>5, <1>6

\* Applying a batch: from then on all of it may be committed.
LEMMA ApplyGroup ==
  ASSUME IInv, GroupInv, NEW c \in Consumers, Apply(c)
  PROVE  GroupInv'
<1>1. /\ IInv'
      /\ \A b \in Bookings : /\ facts[b].version <= facts'[b].version
                             /\ Newest(c, b).version <= facts'[b].version
      /\ cons[c].pc = "apply" /\ cons'[c].pc = "commit" /\ cons'[c].stale = cons[c].stale
      /\ cons'[c].part = cons[c].part /\ cons'[c].lo = cons[c].lo /\ cons'[c].hi = cons[c].hi
      /\ \A d \in Consumers : d # c => cons'[d] = cons[d]
      /\ UNCHANGED <<booking, log, members, owner, committed, pos, rebuild>>
  BY ApplyKeeps
<1>2. \A p \in Partitions : /\ Len(log[p]) <= Len(log'[p])
                            /\ \A k \in 1 .. Len(log[p]) : log'[p][k] = log[p][k]
  BY <1>1, LogTypes
<1>3. /\ UNCHANGED <<committed, pos>> => \A p \in Partitions : OffsetsSound(p)'
      /\ \A d \in Consumers : cons'[d] = cons[d] => BatchSound(d)'
  BY <1>1, <1>2, OffsetsStay
<1>4. BatchSound(c)'
  <2> SUFFICES ASSUME cons[c].stale = FALSE PROVE BatchSound(c)'
    BY <1>1 DEF BatchSound
  <2>1. Holding(c) /\ cons[c].lo \in Nat /\ cons[c].hi \in Nat
    BY <1>1, LogTypes DEF Holding
  <2>2. PICK p \in Partitions : p = cons[c].part
    BY <2>1 DEF IInv, FactInv, HandSound
  <2>3. c \in members /\ \A k \in 1 .. Len(log[p]) : k < cons[c].lo => Applied(p, k)
    BY <2>1, <2>2 DEF GroupInv, BatchSound
  <2>4. ASSUME NEW k \in 1 .. Len(log[p]), k < cons[c].lo \/ k <= cons[c].hi PROVE Applied(p, k)'
    <3>1. CASE k < cons[c].lo
      BY <1>1, <1>2, <2>3, <3>1, AppliedStays
    <3>2. CASE ~(k < cons[c].lo)
      <4>1. k \in cons[c].lo .. cons[c].hi /\ Len(log[p]) \in Nat
        BY <2>1, <2>4, <3>2, LogTypes
      <4>2. PICK m : m = log[p][k] /\ m = log'[p][k]
        BY <1>1
      <4>3. m.booking \in Bookings /\ m.version \in Nat
        BY <4>2, LogTypes
      <4>4. m.version <= Newest(c, m.booking).version /\ Newest(c, m.booking) \in Fact
        BY <2>1, <2>2, <4>1, <4>2, <4>3, NewestFacts
      <4>5. Newest(c, m.booking).version <= facts'[m.booking].version
        BY <1>1, <4>3
      <4>6. facts'[m.booking].version \in Nat /\ Newest(c, m.booking).version \in Nat
        BY <1>1, <4>3, <4>4, ConstantFacts DEF IInv, TypeOK, Fact
      <4>7. facts'[m.booking].version >= m.version
        BY <4>3, <4>4, <4>5, <4>6
      <4>8. QED
        BY <4>2, <4>7 DEF Applied
    <3>3. QED
      BY <3>1, <3>2
  <2>5. QED
    BY <1>1, <2>2, <2>3, <2>4 DEF BatchSound
<1>5. RebuildSound'
  BY <1>1 DEF GroupInv, RebuildSound
<1>6. QED
  BY <1>1, <1>3, <1>4, <1>5 DEF GroupInv

\* The rebuild: rows go only when no offset and no batch speaks of them.
LEMMA RebuildGroup ==
  ASSUME IInv, GroupInv,
         RebuildStart \/ RebuildReset \/ RebuildDelete \/ RebuildVerify \/ RebuildFails
  PROVE  GroupInv'
<1>1. /\ IInv'
      /\ UNCHANGED <<booking, row, log, members, owner, cons>>
      /\ \/ facts' = facts
         \/ /\ rebuild.pc = "delete" /\ UNCHANGED <<committed, pos>>
            /\ \A b \in Bookings : facts'[b] \in {NoFact, facts[b]}
      /\ \/ UNCHANGED <<committed, pos>>
         \/ \A p \in Partitions : committed'[p] = 1 /\ pos'[p] = 1
      /\ rebuild'.pc # "idle" /\ rebuild.pc = "idle" => members = {}
      /\ rebuild'.pc = "delete" =>
           \/ rebuild.pc = "delete" /\ UNCHANGED <<committed, pos>>
           \/ rebuild.pc = "reset" /\ facts' = facts
              /\ \A p \in Partitions : committed'[p] = 1 /\ pos'[p] = 1
  BY RebuildKeeps
<1>2. RebuildSound'
  BY <1>1 DEF GroupInv, RebuildSound
<1>3. ASSUME \A p \in Partitions : committed'[p] = 1 /\ pos'[p] = 1, NEW p \in Partitions
      PROVE  OffsetsSound(p)'
  <2>1. Len(log'[p]) \in Nat
    BY <1>1, LogTypes
  <2>2. QED
    BY <1>3, <2>1 DEF OffsetsSound
<1>4. CASE facts' = facts
  <2>1. \A p \in Partitions : OffsetsSound(p)'
    BY <1>1, <1>3, <1>4 DEF GroupInv, OffsetsSound, Applied
  <2>2. \A c \in Consumers : BatchSound(c)'
    BY <1>1, <1>4 DEF GroupInv, BatchSound, Holding, Applied
  <2>3. QED
    BY <1>1, <1>2, <2>1, <2>2 DEF GroupInv
<1>5. CASE rebuild.pc = "delete" /\ UNCHANGED <<committed, pos>>
  <2>1. members = {} /\ \A p \in Partitions : committed[p] = 1 /\ pos[p] = 1
    BY <1>5 DEF GroupInv, RebuildSound
  <2>2. \A p \in Partitions : OffsetsSound(p)'
    BY <1>3, <1>5, <2>1
  <2>3. \A c \in Consumers : BatchSound(c)'
    <3>1. \A c \in Consumers : ~(Holding(c) /\ cons[c].stale = FALSE)
      BY <2>1 DEF GroupInv, BatchSound
    <3>2. QED
      BY <1>1, <3>1 DEF BatchSound, Holding
  <2>4. QED
    BY <1>1, <1>2, <2>2, <2>3 DEF GroupInv
<1>6. QED
  BY <1>1, <1>4, <1>5

LEMMA NextGroup == ASSUME WorkersStopped = TRUE PROVE IInv /\ GroupInv /\ [Next]_vars => GroupInv'
<1> SUFFICES ASSUME IInv, GroupInv, [Next]_vars PROVE GroupInv'
  OBVIOUS
<1>0. IInv'
  BY NextInv
<1>1. ASSUME \/ \E b \in Bookings : ChangeBooking(b)
             \/ \E r \in Relays : \/ RelayStep(r) \/ LateRequestEnds(r)
                                  \/ PublishFails(r) \/ PublishTimesOut(r) \/ RelayCrash(r)
             \/ \E i \in Ids : LeaseRunsOut(i) \/ BackoffEnds(i)
      PROVE  GroupInv'
  <2>1. /\ UNCHANGED <<members, owner, committed, pos, cons, facts, rebuild>>
        /\ \A p \in Partitions : /\ Len(log[p]) <= Len(log'[p])
                                 /\ \A k \in 1 .. Len(log[p]) : log'[p][k] = log[p][k]
    BY <1>1, WritersStep
  <2>2. \A b \in Bookings : facts[b].version <= facts'[b].version
    BY <2>1, LogTypes
  <2>3. (\A p \in Partitions : OffsetsSound(p)') /\ \A c \in Consumers : BatchSound(c)'
    BY <1>0, <2>1, <2>2, OffsetsStay
  <2>4. RebuildSound' /\ \A p \in Partitions : owner'[p] \in members' \cup {None}
    BY <2>1 DEF GroupInv, RebuildSound
  <2>5. QED
    BY <2>3, <2>4 DEF GroupInv
<1>2. ASSUME NEW c \in Consumers, Join(c) \/ Leave(c) \/ Evict(c) \/ ConsumerCrash(c)
                                  \/ ConsumerStep(c) \/ ApplyFails(c) PROVE GroupInv'
  BY <1>0, <1>2, MembershipGroup, HandGroup, ApplyGroup DEF ConsumerStep
<1>3. CASE RebuildStart \/ RebuildStep \/ RebuildFails
  BY <1>3, RebuildGroup DEF RebuildStep
<1>4. CASE UNCHANGED vars
  <2>1. UNCHANGED <<log, members, owner, committed, pos, cons, facts, rebuild>>
    BY <1>4 DEF vars, groupVars
  <2>2. QED
    BY <2>1 DEF GroupInv, OffsetsSound, BatchSound, RebuildSound, Holding, Applied
<1>5. QED
  BY <1>1, <1>2, <1>3, <1>4 DEF Next

\* From the outbox through the topic to the facts nothing is passed over or mixed up,
\* as long as a rebuild finds the workers stopped: what the relay marks is on the topic,
\* what the group has committed past is in the facts, and each fact is one version.
THEOREM NothingIsPassedOver ==
  ASSUME WorkersStopped = TRUE PROVE Spec => []NothingPassedOver
<1>1. Init => IInv /\ GroupInv
  BY InitInv
<1>2. IInv /\ GroupInv /\ [Next]_vars => IInv' /\ GroupInv'
  BY NextInv, NextGroup
<1>3. IInv /\ GroupInv => NothingPassedOver
  <2> SUFFICES ASSUME IInv, GroupInv PROVE NothingPassedOver
    OBVIOUS
  <2>1. ProcessedIsOnTopic
    BY RowFacts DEF IInv, OutboxInv, ProcessedIsOnTopic, OnTopic
  <2>2. FactsAreVersions
    BY DEF IInv, FactInv, FactSound, FactsAreVersions
  <2>3. CommittedIsApplied
    <3> SUFFICES ASSUME NEW p \in Partitions, NEW k \in 1 .. committed[p] - 1 PROVE Applied(p, k)
      BY DEF CommittedIsApplied, Applied
    <3>1. /\ OffsetsSound(p) /\ Len(log[p]) \in Nat /\ committed[p] \in Nat
      BY LogTypes DEF GroupInv
    <3>2. k \in 1 .. Len(log[p]) /\ k < committed[p]
      BY <3>1 DEF OffsetsSound
    <3>3. QED
      BY <3>1, <3>2 DEF OffsetsSound
  <2>4. QED
    BY <2>1, <2>2, <2>3 DEF NothingPassedOver
<1>4. QED
  BY <1>1, <1>2, <1>3, PTL DEF Spec


-----------------------------------------------------------------------------
(***************************************************************************)
(* The pipeline implements ReadModel, with workers running or stopped.     *)
(***************************************************************************)
\* Of the writers only a booking transaction moves a booking, one version up.
LEMMA BookingMoves ==
  ASSUME IInv,
         \/ \E b \in Bookings : ChangeBooking(b)
         \/ \E r \in Relays : \/ RelayStep(r) \/ LateRequestEnds(r)
                              \/ PublishFails(r) \/ PublishTimesOut(r) \/ RelayCrash(r)
         \/ \E i \in Ids : LeaseRunsOut(i) \/ BackoffEnds(i)
  PROVE  \/ UNCHANGED booking
         \/ \E b \in Bookings : /\ booking'[b].version = booking[b].version + 1
                                /\ \A a \in Bookings : a # b => booking'[a] = booking[a]
<1>1. ASSUME NEW b \in Bookings, ChangeBooking(b)
      PROVE  /\ booking'[b].version = booking[b].version + 1
             /\ \A a \in Bookings : a # b => booking'[a] = booking[a]
  <2>1. PICK t \in Explored :
          booking' = [booking EXCEPT ![b] =
            [version |-> booking[b].version + 1, status |-> t[2],
             stay |-> IF t[1] = t[2] THEN booking[b].stay + 1 ELSE booking[b].stay]]
    BY <1>1, Zenon DEF ChangeBooking
  <2>2. QED
    BY <2>1 DEF IInv, TypeOK
<1>2. ASSUME NEW r \in Relays, \/ RelayStep(r) \/ LateRequestEnds(r)
                               \/ PublishFails(r) \/ PublishTimesOut(r) \/ RelayCrash(r)
      PROVE  UNCHANGED booking
  BY <1>2, Zenon DEF RelayStep, Claim, Prepare, Publish, MarkPublished, MarkRetry, LateRequestEnds,
                     PublishFails, PublishTimesOut, RelayCrash
<1>3. ASSUME NEW i \in Ids, LeaseRunsOut(i) \/ BackoffEnds(i) PROVE UNCHANGED booking
  BY <1>3, Zenon DEF LeaseRunsOut, BackoffEnds
<1>4. QED
  BY <1>1, <1>2, <1>3

LEMMA ViewInit == Init => View!Init
<1> SUFFICES ASSUME Init PROVE View!Init
  OBVIOUS
<1>1. \A b \in Bookings : booking[b].version = 0 /\ facts[b].version = 0
  BY DEF Init, NoFact
<1>2. rebuild.pc # "delete"
  BY DEF Init
<1>3. QED
  BY <1>1, <1>2 DEF View!Init

\* A step whose effect on bookings, facts and rebuild is known.
LEMMA ViewStutters ==
  ASSUME UNCHANGED <<booking, facts, rebuild>>
  PROVE  UNCHANGED View!vars
BY DEF View!vars

LEMMA ViewChanges ==
  ASSUME IInv, IInv', UNCHANGED <<facts, rebuild>>, NEW b \in Bookings,
         booking'[b].version = booking[b].version + 1,
         \A a \in Bookings : a # b => booking'[a] = booking[a]
  PROVE  View!Change(b)
BY DEF View!Change

LEMMA ViewRefreshes ==
  ASSUME IInv, IInv', UNCHANGED <<booking, rebuild>>,
         \A b \in Bookings : facts[b].version <= facts'[b].version
  PROVE  View!Refresh
<1>1. \A b \in Bookings : /\ facts[b].version \in Nat /\ facts'[b].version \in Nat
                          /\ booking[b].version \in Nat
  BY ConstantFacts DEF IInv, TypeOK, Fact
<1>2. \A b \in Bookings : facts'[b].version <= booking[b].version
  <2> SUFFICES ASSUME NEW b \in Bookings PROVE facts'[b].version <= booking[b].version
    OBVIOUS
  <2>1. FactSound(b)' /\ booking' = booking
    BY DEF IInv, FactInv
  <2>2. QED
    BY <1>1, <2>1 DEF FactSound
<1>3. \A b \in Bookings : facts'[b].version \in facts[b].version .. booking[b].version
  BY <1>1, <1>2
<1>4. QED
  BY <1>3 DEF View!Refresh

LEMMA ViewRebuilds ==
  ASSUME IInv, RebuildStart \/ RebuildReset \/ RebuildDelete \/ RebuildVerify \/ RebuildFails
  PROVE  View!StartEmptying \/ View!Forget \/ View!StopEmptying \/ UNCHANGED View!vars
<1>1. /\ UNCHANGED booking
      /\ \/ facts' = facts
         \/ rebuild.pc = "delete" /\ \A b \in Bookings : facts'[b] \in {NoFact, facts[b]}
  BY RebuildKeeps
<1>2. CASE facts' = facts
  <2>1. CASE rebuild.pc = "delete" /\ rebuild'.pc # "delete"
    BY <1>1, <1>2, <2>1 DEF View!StopEmptying
  <2>2. CASE rebuild.pc # "delete" /\ rebuild'.pc = "delete"
    BY <1>1, <1>2, <2>2 DEF View!StartEmptying
  <2>3. CASE (rebuild.pc = "delete") = (rebuild'.pc = "delete")
    BY <1>1, <1>2, <2>3 DEF View!vars
  <2>4. QED
    BY <2>1, <2>2, <2>3
<1>3. CASE rebuild.pc = "delete" /\ \A b \in Bookings : facts'[b] \in {NoFact, facts[b]}
  <2>1. \A b \in Bookings : facts'[b].version \in {0, facts[b].version}
    BY <1>3 DEF NoFact
  <2>2. QED
    BY <1>1, <1>3, <2>1 DEF View!Forget
<1>4. QED
  BY <1>1, <1>2, <1>3

LEMMA ViewNext == IInv /\ [Next]_vars => [View!Next]_(View!vars)
<1> SUFFICES ASSUME IInv, [Next]_vars PROVE View!Next \/ UNCHANGED View!vars
  OBVIOUS
<1>0. IInv'
  BY NextInv
<1>1. ASSUME \/ \E b \in Bookings : ChangeBooking(b)
             \/ \E r \in Relays : \/ RelayStep(r) \/ LateRequestEnds(r)
                                  \/ PublishFails(r) \/ PublishTimesOut(r) \/ RelayCrash(r)
             \/ \E i \in Ids : LeaseRunsOut(i) \/ BackoffEnds(i)
      PROVE  View!Next \/ UNCHANGED View!vars
  <2>1. UNCHANGED <<facts, rebuild>>
    BY <1>1, WritersStep
  <2>2. CASE UNCHANGED booking
    BY <2>1, <2>2, ViewStutters
  <2>3. CASE \E b \in Bookings : /\ booking'[b].version = booking[b].version + 1
                                 /\ \A a \in Bookings : a # b => booking'[a] = booking[a]
    <3>1. \E b \in Bookings : View!Change(b)
      BY <1>0, <2>1, <2>3, ViewChanges
    <3>2. QED
      BY <3>1 DEF View!Next
  <2>4. QED
    BY <1>1, <2>2, <2>3, BookingMoves
<1>2. ASSUME NEW c \in Consumers, \/ Join(c) \/ Leave(c) \/ Evict(c) \/ ConsumerCrash(c)
                                  \/ Fetch(c) \/ Commit(c) \/ ApplyFails(c)
      PROVE  UNCHANGED View!vars
  <2>1. UNCHANGED <<booking, facts, rebuild>>
    BY <1>2, Zenon DEF Join, Leave, Evict, ConsumerCrash, Fetch, Commit, ApplyFails
  <2>2. QED
    BY <2>1, ViewStutters
<1>3. ASSUME NEW c \in Consumers, Apply(c) PROVE View!Next
  <2>1. /\ UNCHANGED <<booking, rebuild>>
        /\ \A b \in Bookings : facts[b].version <= facts'[b].version
    BY <1>3, ApplyKeeps
  <2>2. View!Refresh
    BY <1>0, <2>1, ViewRefreshes
  <2>3. QED
    BY <2>2 DEF View!Next
<1>4. CASE RebuildStart \/ RebuildStep \/ RebuildFails
  BY <1>4, ViewRebuilds DEF RebuildStep, View!Next
<1>5. CASE UNCHANGED vars
  <2>1. UNCHANGED <<booking, facts, rebuild>>
    BY <1>5 DEF vars
  <2>2. QED
    BY <2>1, ViewStutters
<1>6. QED
  BY <1>1, <1>2, <1>3, <1>4, <1>5 DEF Next, ConsumerStep

\* The pipeline implements the read model: a row only ever moves forward to a version its
\* booking has had, whatever is duplicated, late or applied by an evicted consumer, and
\* only the rebuild command takes it away.
THEOREM StreamImplementsReadModel == Spec => ImplementsReadModel
<1>1. Init => IInv /\ View!Init
  BY InitInv, ViewInit
<1>2. IInv /\ [Next]_vars => IInv' /\ [View!Next]_(View!vars)
  BY NextInv, ViewNext
<1>3. QED
  BY <1>1, <1>2, PTL DEF Spec, ImplementsReadModel, View!Spec

=============================================================================
