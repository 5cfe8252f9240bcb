------------------------ MODULE RetentionRunsProofs ------------------------
(***************************************************************************)
(* Proofs about RetentionRuns, for any number of replicas and days and any *)
(* backlog, batch size, attempt budget and number of faults.               *)
(*                                                                         *)
(* The account of deleted rows is kept in sums over days and replicas: a   *)
(* step moves an amount from one to another, or takes rows from the        *)
(* backlog and adds as many.                                               *)
(***************************************************************************)
EXTENDS RetentionRuns, FiniteSetTheorems, TLAPS

\* A claim token names one claim of its window, and no two runs share one.
TokensApart ==
  \A r \in Replicas : Working(r) =>
    /\ replica[r].day \in Days
    /\ replica[r].token <= MyRun(r).claims
    /\ MyRun(r).status # "NONE"
    /\ \A q \in Replicas \ {r} :
         Working(q) /\ replica[q].day = replica[r].day => replica[q].token # replica[r].token

\* What an attempt has deleted since it was claimed has not paid for a takeover yet.
ProgressUnspent ==
  \A d \in Days :
    LET run == ledger[d]
    IN  run.claims + (IF run.progressed THEN 1 ELSE 0)
          <= run.attempts + run.deleted + run.objects

\* A run of anything but storage tasks that is about to report success saw the end of
\* what is due: nothing becomes due again, so an end once seen stays.
EndSeen(r) ==
  /\ replica[r].pc = "delete" /\ ~Full(replica[r].ids) => due \subseteq replica[r].ids
  /\ replica[r].pc = "record" /\ replica[r].code = "none" => due = {}

WorkIsDone ==
  kind # "drain" => /\ waiting = {}
                    /\ \A r \in Replicas : EndSeen(r)
                    /\ \A d \in Days : ledger[d].status = "SUCCEEDED" => ledger[d].left = {}

\* A cycle that is about to claim knows its day.
ClaimsADay == \A r \in Replicas : replica[r].pc = "claim" => replica[r].day \in Days

\* The inductive invariant.
IInv == /\ TypeOK /\ ClaimsADay /\ TokensApart /\ ProgressUnspent /\ WorkIsDone
        /\ WorkerHoldsWindow

-----------------------------------------------------------------------------
(* Finite sets of numbers, and the batch ORDER BY ... LIMIT takes. *)

\* Every nonempty set of numbers has a least one.
LEMMA LeastElement ==
  ASSUME NEW T, T \subseteq Nat, T # {}
  PROVE  \E m \in T : \A n \in T : m <= n
<1>1. PICK m \in T : \A n \in T : <<n, m>> \notin OpToRel(<, Nat)
  BY NatLessThanWellFounded, WFMin
<1>2. ASSUME NEW n \in T PROVE m <= n
  <2>1. ~(n < m)
    BY <1>1, <1>2 DEF OpToRel
  <2> QED
    BY <2>1
<1> QED
  BY <1>2

\* Every nonempty finite set of numbers has a greatest one: the element with the fewest
\* others above it.
LEMMA GreatestElement ==
  ASSUME NEW T, T \subseteq Nat, T # {}, IsFiniteSet(T)
  PROVE  \E m \in T : \A n \in T : n <= m
<1> DEFINE Above(i) == {n \in T : n > i}
           Ranks == {Cardinality(Above(i)) : i \in T}
<1>1. \A i \in T : IsFiniteSet(Above(i)) /\ Cardinality(Above(i)) \in Nat
  <2>1. ASSUME NEW i \in T PROVE IsFiniteSet(Above(i))
    <3>1. Above(i) \in SUBSET T
      OBVIOUS
    <3> QED
      BY <3>1, FS_Subset
  <2> QED
    BY <2>1, FS_CardinalityType
<1>2. Ranks \subseteq Nat /\ Ranks # {}
  BY <1>1
<1>3. PICK c \in Ranks : \A d \in Ranks : c <= d
  BY <1>2, LeastElement
<1>4. PICK m \in T : c = Cardinality(Above(m))
  OBVIOUS
<1>5. ASSUME NEW n \in T, n > m PROVE FALSE
  <2>0. ASSUME NEW x \in Above(n) PROVE x \in Above(m)
    <3>1. x \in Nat /\ n \in Nat /\ m \in Nat /\ x \in T /\ x > n
      OBVIOUS
    <3>2. x > m
      BY <1>5, <3>1
    <3> QED
      BY <3>1, <3>2
  <2>1. Above(n) \in SUBSET Above(m) /\ n \in Above(m) /\ n \notin Above(n)
    <3>1. n \in Nat
      OBVIOUS
    <3>2. ~(n > n)
      BY <3>1
    <3> QED
      BY <1>5, <2>0, <3>2
  <2>2. Cardinality(Above(n)) <= Cardinality(Above(m)) /\ Cardinality(Above(n)) # Cardinality(Above(m))
    BY <1>1, <2>1, FS_Subset
  <2>3. Cardinality(Above(m)) <= Cardinality(Above(n))
    BY <1>3, <1>4
  <2>4. Cardinality(Above(n)) \in Nat /\ Cardinality(Above(m)) \in Nat
    BY <1>1
  <2> HIDE DEF Above
  <2> QED
    BY <2>2, <2>3, <2>4
<1>6. ASSUME NEW n \in T PROVE n <= m
  BY <1>5
<1> QED
  BY <1>6

\* A batch that is not full is everything that was due.
LEMMA ShortBatchIsAll ==
  ASSUME RetentionAssumption, due \subseteq Nat, IsFiniteSet(due)
  PROVE  /\ Oldest \subseteq due /\ IsFiniteSet(Oldest) /\ Cardinality(Oldest) \in Nat
         /\ ~Full(Oldest) => Oldest = due
<1> DEFINE Below(i) == {k \in due : k < i}
<1>0. BatchSize \in Nat \ {0}
  BY DEF RetentionAssumption
<1>1. Oldest \in SUBSET due /\ Oldest = {i \in due : Cardinality(Below(i)) < BatchSize}
  BY DEF Oldest
<1>2. IsFiniteSet(Oldest) /\ Cardinality(Oldest) \in Nat
  BY <1>1, FS_Subset, FS_CardinalityType
<1>3. \A i \in Nat : IsFiniteSet(Below(i)) /\ Cardinality(Below(i)) \in Nat
  <2>1. ASSUME NEW i \in Nat PROVE IsFiniteSet(Below(i))
    <3>1. Below(i) \in SUBSET due
      OBVIOUS
    <3> QED
      BY <3>1, FS_Subset
  <2> QED
    BY <2>1, FS_CardinalityType
<1>4. Cardinality(Oldest) <= BatchSize
  <2>1. CASE Oldest = {}
    BY <1>0, <2>1, FS_EmptySet
  <2>2. CASE Oldest # {}
    <3>1. PICK m \in Oldest : \A n \in Oldest : n <= m
      BY <1>1, <1>2, <2>2, GreatestElement
    <3>2. Oldest \in SUBSET (Below(m) \cup {m})
      <4>1. ASSUME NEW x \in Oldest, x # m PROVE x \in Below(m)
        <5>1. x \in Nat /\ m \in Nat /\ x <= m /\ x \in due
          BY <1>1, <3>1
        <5>2. x < m
          BY <4>1, <5>1
        <5> QED
          BY <5>1, <5>2
      <4> QED
        BY <4>1
    <3>3. m \in Nat /\ Cardinality(Below(m)) < BatchSize /\ m \notin Below(m)
      BY <1>1
    <3>4. IsFiniteSet(Below(m) \cup {m}) /\ Cardinality(Below(m) \cup {m}) = Cardinality(Below(m)) + 1
      BY <1>3, <3>3, FS_AddElement
    <3>5. Cardinality(Oldest) <= Cardinality(Below(m) \cup {m})
      BY <3>2, <3>4, FS_Subset
    <3> QED
      BY <1>0, <1>2, <1>3, <3>3, <3>4, <3>5
  <2> QED
    BY <2>1, <2>2
<1>5. ASSUME Oldest # due PROVE Full(Oldest)
  <2>1. PICK m \in due \ Oldest : \A n \in due \ Oldest : m <= n
    BY <1>1, <1>5, LeastElement
  <2>2. Below(m) \in SUBSET Oldest /\ m \in Nat
    <3>1. ASSUME NEW x \in Below(m) PROVE x \in Oldest
      <4>1. x \in due /\ x \in Nat /\ m \in Nat /\ x < m
        OBVIOUS
      <4>2. ~(m <= x)
        BY <4>1
      <4> QED
        BY <2>1, <4>1, <4>2
    <3> QED
      BY <3>1
  <2>3. BatchSize <= Cardinality(Below(m))
    BY <1>0, <1>1, <1>3, <2>1, <2>2
  <2>4. Cardinality(Below(m)) <= Cardinality(Oldest)
    BY <1>2, <2>2, FS_Subset
  <2> QED
    BY <1>0, <1>2, <1>3, <1>4, <2>2, <2>3, <2>4 DEF Full
<1> QED
  BY <1>1, <1>2, <1>5

-----------------------------------------------------------------------------
(* The steps. *)

\* The backlog is finite, so is what is due.
LEMMA RowsFinite ==
  /\ IsFiniteSet(Rows) /\ Rows \subseteq Nat
  /\ \A S \in SUBSET Rows : IsFiniteSet(S) /\ Cardinality(S) \in Nat
<1>1. \A k \in Kinds : Backlog[k] \subseteq Nat /\ IsFiniteSet(Backlog[k])
  BY RetentionAssumption
<1>2. Rows = ((Backlog["purge"] \cup Backlog["chain"]) \cup Backlog["export"]) \cup Backlog["drain"]
  BY DEF Rows, Kinds
<1>3. /\ IsFiniteSet(Backlog["purge"]) /\ IsFiniteSet(Backlog["chain"])
      /\ IsFiniteSet(Backlog["export"]) /\ IsFiniteSet(Backlog["drain"])
  BY <1>1 DEF Kinds
<1>4. IsFiniteSet(Backlog["purge"] \cup Backlog["chain"])
  BY <1>3, FS_Union
<1>5. IsFiniteSet((Backlog["purge"] \cup Backlog["chain"]) \cup Backlog["export"])
  BY <1>3, <1>4, FS_Union
<1>6. IsFiniteSet(Rows)
  BY <1>2, <1>3, <1>5, FS_Union
<1>7. Rows \subseteq Nat
  BY <1>1, <1>2 DEF Kinds
<1>8. ASSUME NEW S \in SUBSET Rows PROVE IsFiniteSet(S) /\ Cardinality(S) \in Nat
  BY <1>6, FS_Subset, FS_CardinalityType
<1> QED
  BY <1>6, <1>7, <1>8

\* The shapes of rows and cycles the steps write.
LEMMA Shapes ==
  /\ NoRun \in Run /\ NoRun.status = "NONE" /\ NoRun.claims = 0 /\ NoRun.attempts = 0
  /\ NoRun.deleted = 0 /\ NoRun.objects = 0 /\ NoRun.progressed = FALSE
  /\ Idle \in Replica /\ Idle.pc = "idle"
BY RetentionAssumption DEF NoRun, Run, Idle, Replica, Codes

\* What a step does to the ledger when it neither claims nor completes a window: counts
\* and claims stay, and only a window without a running lease is closed.
Closing ==
  /\ ledger' \in [Days -> Run]
  /\ \A d \in Days :
       /\ ledger'[d].claims = ledger[d].claims /\ ledger'[d].attempts = ledger[d].attempts
       /\ ledger'[d].deleted = ledger[d].deleted /\ ledger'[d].objects = ledger[d].objects
       /\ ledger'[d].progressed = ledger[d].progressed
       /\ ledger[d].status # "NONE" => ledger'[d].status # "NONE"
       /\ ledger'[d].status = "SUCCEEDED" => ledger'[d] = ledger[d]
       /\ ledger[d].status = "CLAIMED" /\ ledger[d].live => ledger'[d] = ledger[d]

\* A replica that leaves its cycle, or begins one, beside such a step keeps the invariant.
LEMMA LeavingKeeps ==
  ASSUME IInv, NEW r \in Replicas, Closing,
         NEW n \in Replica, replica' = [replica EXCEPT ![r] = n],
         n.pc \in {"idle", "claim"}, n.pc = "claim" => n.day \in Days,
         UNCHANGED <<day, kind, due, waiting>>, unrecorded' \in Nat,
         faults' \in 0..MaxFaults, faults' = 0 => faults = 0
  PROVE  IInv'
<1>0. TypeOK /\ ClaimsADay /\ TokensApart /\ ProgressUnspent /\ WorkIsDone /\ WorkerHoldsWindow
  BY DEF IInv
<1>1. /\ replica'[r] = n /\ ~Working(r)'
      /\ \A q \in Replicas \ {r} : /\ replica'[q] = replica[q] /\ Working(q)' = Working(q)
      /\ replica' \in [Replicas -> Replica]
  BY <1>0 DEF TypeOK, Working
<1>2. TypeOK'
  BY <1>0, <1>1 DEF TypeOK, Closing
<1>3. ClaimsADay'
  BY <1>0, <1>1 DEF ClaimsADay
<1>4. TokensApart'
  <2> SUFFICES ASSUME NEW q \in Replicas, Working(q)'
               PROVE  /\ replica'[q].day \in Days /\ replica'[q].token <= MyRun(q)'.claims
                      /\ MyRun(q)'.status # "NONE"
                      /\ \A s \in Replicas \ {q} : Working(s)' /\ replica'[s].day = replica'[q].day
                           => replica'[s].token # replica'[q].token
    BY DEF TokensApart
  <2>1. q # r /\ Working(q) /\ replica'[q] = replica[q]
    BY <1>1
  <2>2. /\ replica[q].day \in Days /\ replica[q].token <= MyRun(q).claims
        /\ MyRun(q).status # "NONE"
        /\ \A s \in Replicas \ {q} : Working(s) /\ replica[s].day = replica[q].day
             => replica[s].token # replica[q].token
    BY <1>0, <2>1 DEF TokensApart
  <2> QED
    BY <1>1, <2>1, <2>2 DEF MyRun, Closing
<1>5. ProgressUnspent'
  BY <1>0 DEF ProgressUnspent, Closing
<1>6. WorkIsDone'
  BY <1>0, <1>1 DEF WorkIsDone, EndSeen, Closing
<1>7. WorkerHoldsWindow'
  <2> SUFFICES ASSUME faults' = 0, NEW q \in Replicas, Working(q)' PROVE Mine(q)'
    BY DEF WorkerHoldsWindow
  <2>1. q # r /\ Working(q) /\ replica'[q] = replica[q] /\ replica[q].day \in Days
    BY <1>0, <1>1 DEF TokensApart
  <2>2. Mine(q)
    BY <1>0, <2>1 DEF WorkerHoldsWindow
  <2> QED
    BY <2>1, <2>2 DEF Mine, MyRun, Closing
<1> QED
  BY <1>2, <1>3, <1>4, <1>5, <1>6, <1>7 DEF IInv

\* A working replica that goes on with its run keeps the invariant.
LEMMA WorkingKeeps ==
  ASSUME IInv, NEW r \in Replicas, replica[r].pc \in {"batch", "delete"},
         NEW n \in Replica, replica' = [replica EXCEPT ![r] = n],
         n.pc \in {"batch", "delete", "record"},
         n.day = replica[r].day, n.token = replica[r].token,
         UNCHANGED <<day, kind, ledger>>, unrecorded' \in Nat,
         faults' \in 0..MaxFaults, faults' = 0 => faults = 0,
         due' \subseteq Rows, waiting' \subseteq Rows,
         kind # "drain" => due' \subseteq due /\ waiting' = waiting /\ EndSeen(r)'
  PROVE  IInv'
<1>0. TypeOK /\ ClaimsADay /\ TokensApart /\ ProgressUnspent /\ WorkIsDone /\ WorkerHoldsWindow
  BY DEF IInv
<1>1. /\ replica'[r] = n /\ Working(r)' /\ Working(r)
      /\ \A q \in Replicas \ {r} : replica'[q] = replica[q] /\ Working(q)' = Working(q)
      /\ replica' \in [Replicas -> Replica]
  BY <1>0 DEF TypeOK, Working
<1>2. TypeOK'
  BY <1>0, <1>1 DEF TypeOK
<1>3. ClaimsADay'
  BY <1>0, <1>1 DEF ClaimsADay
<1>4. \A q \in Replicas : /\ Working(q)' = Working(q) /\ replica'[q].day = replica[q].day
                          /\ replica'[q].token = replica[q].token
  <2>1. Working(r)' = Working(r)
    BY <1>1 DEF Working
  <2> QED
    BY <1>1, <2>1
<1>5. TokensApart'
  BY <1>0, <1>4 DEF TokensApart, MyRun
<1>6. ProgressUnspent'
  BY <1>0 DEF ProgressUnspent
<1>7. WorkIsDone'
  <2> SUFFICES ASSUME kind # "drain"
               PROVE  /\ waiting' = {} /\ \A q \in Replicas : EndSeen(q)'
                      /\ \A d \in Days : ledger[d].status = "SUCCEEDED" => ledger[d].left = {}
    BY DEF WorkIsDone
  <2>1. /\ waiting' = {}
        /\ \A d \in Days : ledger[d].status = "SUCCEEDED" => ledger[d].left = {}
    BY <1>0 DEF WorkIsDone
  <2>2. ASSUME NEW q \in Replicas \ {r} PROVE EndSeen(q)'
    <3>1. EndSeen(q) /\ replica'[q] = replica[q] /\ due' \subseteq due
      BY <1>0, <1>1 DEF WorkIsDone
    <3> QED
      BY <3>1 DEF EndSeen, Full
  <2> QED
    BY <2>1, <2>2
<1>8. WorkerHoldsWindow'
  BY <1>0, <1>4 DEF WorkerHoldsWindow, Mine, MyRun
<1> QED
  BY <1>2, <1>3, <1>5, <1>6, <1>7, <1>8 DEF IInv

\* The end of a batch: the run goes on, or stops; it stops without a code only when
\* nothing waits, nothing was cut short and nothing was refused.
BatchLeaves(r, n, new) ==
  /\ replica' = [replica EXCEPT ![r] = new]
  /\ new.pc \in {"batch", "record"}
  /\ new.day = replica[r].day /\ new.token = replica[r].token
  /\ new.deleted = replica[r].deleted + n /\ new.removed = 0 /\ new.ids = {}

LEMMA BatchEndsWell ==
  ASSUME TypeOK, NEW r \in Replicas, NEW n \in Nat, NEW o \in Nat, NEW more \in BOOLEAN,
         NEW cut \in BOOLEAN, NEW refused \in BOOLEAN, BatchEnds(r, n, o, more, cut, refused)
  PROVE  \E new \in Replica :
           /\ BatchLeaves(r, n, new)
           /\ new.pc = "record" /\ new.code = "none" => ~more /\ ~cut /\ ~refused
<1> DEFINE me == replica[r]
<1>1. me \in Replica /\ replica \in [Replicas -> Replica]
  BY DEF TypeOK
<1>3. PICK stop \in {cut, cut \/ more} :
        replica' = [replica EXCEPT ![r] = [me EXCEPT
          !.deleted = me.deleted + n, !.objects = me.objects + o,
          !.ids = {}, !.calls = 0, !.removed = 0,
          !.code = IF stop \/ refused THEN "continuation" ELSE me.code,
          !.pc = IF more /\ ~stop THEN "batch" ELSE "record"]]
  BY <1>1 DEF BatchEnds
<1> DEFINE code == IF stop \/ refused THEN "continuation" ELSE me.code
           pc == IF more /\ ~stop THEN "batch" ELSE "record"
           k == me.deleted + n
           l == me.objects + o
           new == [me EXCEPT !.deleted = k, !.objects = l, !.ids = {}, !.calls = 0,
                             !.removed = 0, !.code = code, !.pc = pc]
<1>4. code \in Codes /\ pc \in {"batch", "record"} /\ k \in Nat /\ l \in Nat
  BY <1>1 DEF Replica, Codes
<1>5. pc = "record" /\ code = "none" => ~more /\ ~cut /\ ~refused
  OBVIOUS
<1>6. replica' = [replica EXCEPT ![r] = new]
  BY <1>3
<1> HIDE DEF code, pc, k, l
<1>7. /\ new \in Replica /\ new.pc = pc /\ new.code = code /\ new.day = me.day
      /\ new.token = me.token /\ new.deleted = k /\ new.removed = 0 /\ new.ids = {}
  BY <1>1, <1>4 DEF Replica
<1> HIDE DEF new
<1> QED
  BY <1>4, <1>5, <1>6, <1>7 DEF k, BatchLeaves

\* So a batch keeps the invariant when stopping without a code means nothing is due.
LEMMA BatchKeeps ==
  ASSUME IInv, NEW r \in Replicas, replica[r].pc \in {"batch", "delete"},
         NEW n \in Nat, NEW o \in Nat, NEW more \in BOOLEAN,
         NEW cut \in BOOLEAN, NEW refused \in BOOLEAN, BatchEnds(r, n, o, more, cut, refused),
         UNCHANGED <<day, kind, ledger, unrecorded, faults>>,
         due' \subseteq due, waiting' \subseteq Rows, kind # "drain" => waiting' = waiting,
         kind # "drain" /\ ~more /\ ~cut /\ ~refused => due' = {}
  PROVE  IInv'
<1>1. TypeOK /\ faults \in 0..MaxFaults /\ unrecorded \in Nat
  BY DEF IInv, TypeOK
<1>2. PICK new \in Replica :
        /\ BatchLeaves(r, n, new)
        /\ new.pc = "record" /\ new.code = "none" => ~more /\ ~cut /\ ~refused
  BY <1>1, BatchEndsWell
<1>3. replica'[r] = new /\ due' \subseteq Rows
  BY <1>1, <1>2 DEF TypeOK, BatchLeaves
<1>4. kind # "drain" => EndSeen(r)'
  BY <1>2, <1>3 DEF EndSeen, BatchLeaves
<1> QED
  BY <1>1, <1>2, <1>3, <1>4, WorkingKeeps DEF BatchLeaves

\* The end of a cleanup call: the run goes on with its batch.
LEMMA CallEndsWell ==
  ASSUME TypeOK, NEW r \in Replicas, NEW n \in {0, 1}, NEW code \in Codes,
         CallEnds(r, n, code)
  PROVE  \E new \in Replica :
           /\ replica' = [replica EXCEPT ![r] = new]
           /\ new.pc = "batch" /\ new.ids = {}
           /\ new.day = replica[r].day /\ new.token = replica[r].token
           /\ new.deleted = replica[r].deleted /\ new.removed = replica[r].removed + n
<1> DEFINE me == replica[r]
           k == me.removed + n
           new == [me EXCEPT !.pc = "batch", !.ids = {}, !.removed = k, !.code = code]
<1>1. me \in Replica /\ replica \in [Replicas -> Replica] /\ {} \subseteq Rows
  BY DEF TypeOK
<1>2. k \in Nat
  BY <1>1 DEF Replica
<1>3. replica' = [replica EXCEPT ![r] = new]
  BY <1>1 DEF CallEnds
<1> HIDE DEF k
<1>4. /\ new \in Replica /\ new.pc = "batch" /\ new.ids = {} /\ new.day = me.day
      /\ new.token = me.token /\ new.deleted = me.deleted /\ new.removed = k
  BY <1>1, <1>2 DEF Replica
<1> HIDE DEF new
<1> QED
  BY <1>3, <1>4 DEF k

\* A thrown batch leaves a run that reports a failure.
LEMMA ThrowsWell ==
  ASSUME TypeOK, NEW r \in Replicas, Throws(r)
  PROVE  \E new \in Replica :
           /\ replica' = [replica EXCEPT ![r] = new]
           /\ new.pc = "record" /\ new.code = "failure" /\ new.ids = {}
           /\ new.day = replica[r].day /\ new.token = replica[r].token
           /\ new.deleted = replica[r].deleted /\ new.removed = 0
<1> DEFINE me == replica[r]
           new == [me EXCEPT !.pc = "record", !.ids = {}, !.calls = 0, !.removed = 0,
                             !.code = "failure"]
<1>1. me \in Replica /\ replica \in [Replicas -> Replica] /\ {} \subseteq Rows
  BY DEF TypeOK
<1>2. replica' = [replica EXCEPT ![r] = new]
  BY <1>1 DEF Throws
<1>3. /\ new \in Replica /\ new.pc = "record" /\ new.code = "failure" /\ new.ids = {}
      /\ new.day = me.day /\ new.token = me.token /\ new.deleted = me.deleted
      /\ new.removed = 0
  BY <1>1 DEF Replica, Codes
<1> HIDE DEF new
<1> QED
  BY <1>2, <1>3

\* A cleanup call begins, or ends.
LEMMA CallKeeps ==
  ASSUME IInv, NEW r \in Replicas, replica[r].pc \in {"batch", "delete"}, kind = "drain",
         NEW new \in Replica, replica' = [replica EXCEPT ![r] = new],
         new.pc \in {"batch", "delete"},
         new.day = replica[r].day, new.token = replica[r].token,
         UNCHANGED <<day, kind, ledger>>, unrecorded' \in Nat,
         faults' \in 0..MaxFaults, faults' = 0 => faults = 0,
         due' \subseteq Rows, waiting' \subseteq Rows
  PROVE  IInv'
BY WorkingKeeps

\* Every batch.
LEMMA BatchStepKeeps ==
  ASSUME IInv, NEW r \in Replicas, Batch(r)
  PROVE  IInv'
<1> DEFINE ids == replica[r].ids
<1>0. /\ TypeOK /\ WorkIsDone /\ replica[r] \in Replica /\ ids \subseteq Rows
      /\ due \subseteq Rows /\ waiting \subseteq Rows
      /\ replica \in [Replicas -> Replica] /\ faults \in 0..MaxFaults /\ unrecorded \in Nat
      /\ replica[r].removed \in Nat /\ replica[r].calls \in Nat
  BY DEF IInv, TypeOK, Replica
<1>1. due \subseteq Nat /\ IsFiniteSet(due)
  BY <1>0, RowsFinite
<1>2. Oldest \subseteq due /\ Oldest \subseteq Rows /\ (~Full(Oldest) => Oldest = due)
  BY <1>0, <1>1, ShortBatchIsAll, RetentionAssumption
<1>3. \A T : Full(T) \in BOOLEAN
  BY DEF Full
<1>4. BatchSize # 0 /\ ~Full({})
  BY RetentionAssumption, FS_EmptySet DEF Full
<1>5. CASE Purge(r)
  <2>1. /\ replica[r].pc = "batch" /\ kind = "purge" /\ due' = due \ Oldest
        /\ BatchEnds(r, Cardinality(Oldest), 0, Full(Oldest), FALSE, FALSE)
        /\ UNCHANGED <<day, kind, ledger, waiting, unrecorded, faults>>
    BY <1>5 DEF Purge
  <2>2. ~Full(Oldest) => due' = {}
    BY <1>2, <2>1
  <2>3. PICK n \in Nat : n = Cardinality(Oldest)
    BY <1>2, RowsFinite
  <2>4. BatchEnds(r, n, 0, Full(Oldest), FALSE, FALSE)
    BY <2>1, <2>3
  <2> HIDE DEF Full
  <2> QED
    BY <1>0, <1>2, <1>3, <2>1, <2>2, <2>4, BatchKeeps
<1>6. CASE SelectBatch(r)
  <2>1. /\ replica[r].pc = "batch" /\ kind # "drain"
        /\ UNCHANGED <<day, kind, ledger, due, waiting, unrecorded, faults>>
    BY <1>6 DEF SelectBatch
  <2>2. CASE BatchEnds(r, 0, 0, TRUE, TRUE, FALSE)
    BY <1>0, <2>1, <2>2, BatchKeeps
  <2>3. CASE due = {} /\ BatchEnds(r, 0, 0, FALSE, FALSE, FALSE)
    BY <1>0, <2>1, <2>3, BatchKeeps
  <2>4. CASE replica' = [replica EXCEPT ![r].pc = "delete", ![r].ids = Oldest]
    <3> DEFINE n == [replica[r] EXCEPT !.pc = "delete", !.ids = Oldest]
    <3>1. replica' = [replica EXCEPT ![r] = n]
      BY <1>0, <2>4 DEF TypeOK
    <3>2. /\ n \in Replica /\ n.pc = "delete" /\ n.ids = Oldest
          /\ n.day = replica[r].day /\ n.token = replica[r].token
      BY <1>0, <1>2 DEF Replica
    <3> HIDE DEF n
    <3>3. replica'[r] = n
      BY <1>0, <3>1 DEF TypeOK
    <3>4. EndSeen(r)'
      BY <1>2, <2>1, <3>2, <3>3 DEF EndSeen, Full
    <3> QED
      BY <1>0, <2>1, <3>1, <3>2, <3>4, WorkingKeeps
  <2> QED
    BY <1>6, <2>2, <2>3, <2>4 DEF SelectBatch
<1>7. ASSUME replica[r].pc = "delete", kind # "drain", ~Full(ids) PROVE due \subseteq ids
  BY <1>0, <1>7 DEF WorkIsDone, EndSeen
<1>8. CASE DeleteChain(r)
  <2>1. /\ replica[r].pc = "delete" /\ kind = "chain" /\ due' = due \ ids
        /\ BatchEnds(r, Cardinality(ids \cap due), 0, Full(ids), FALSE, FALSE)
        /\ UNCHANGED <<day, kind, ledger, waiting, unrecorded, faults>>
    BY <1>8 DEF DeleteChain
  <2>2. ~Full(ids) => due' = {}
    BY <1>7, <2>1
  <2>3. PICK n \in Nat : n = Cardinality(ids \cap due)
    BY <1>0, RowsFinite
  <2>4. BatchEnds(r, n, 0, Full(ids), FALSE, FALSE) /\ due' \subseteq due
    BY <2>1, <2>3
  <2> QED
    BY <1>0, <1>3, <2>1, <2>2, <2>4, BatchKeeps
<1>9. CASE DeleteExports(r)
  <2>1. PICK done \in Prefixes(ids), refusals \in SUBSET Rows :
          /\ refusals \subseteq done
          /\ due' = due \ (done \ refusals)
          /\ BatchEnds(r, Cardinality((done \ refusals) \cap due),
                       Cardinality((done \ refusals) \ Keyless),
                       IF done \ refusals = {} THEN refusals # {} ELSE Full(ids),
                       Cut(done, ids), refusals # {})
    <3>1. \A done \in Prefixes(ids) : done \subseteq Rows
      BY <1>0 DEF Prefixes
    <3> QED
      BY <1>9, <3>1 DEF DeleteExports
  <2>2. /\ replica[r].pc = "delete" /\ kind = "export"
        /\ UNCHANGED <<day, kind, ledger, waiting, unrecorded, faults>>
    BY <1>9 DEF DeleteExports
  <2> DEFINE more == IF done \ refusals = {} THEN refusals # {} ELSE Full(ids)
             cut == Cut(done, ids)
             refused == refusals # {}
  <2>3. more \in BOOLEAN /\ cut \in BOOLEAN /\ refused \in BOOLEAN
    BY <1>3 DEF Cut
  <2>4. PICK n \in Nat, o \in Nat :
          n = Cardinality((done \ refusals) \cap due) /\ o = Cardinality((done \ refusals) \ Keyless)
    <3>1. (done \ refusals) \cap due \in SUBSET Rows /\ (done \ refusals) \ Keyless \in SUBSET Rows
      BY <1>0 DEF Prefixes
    <3> QED
      BY <3>1, RowsFinite
  <2>5. ~more /\ ~cut /\ ~refused => due' = {}
    <3> SUFFICES ASSUME ~more, ~cut, ~refused PROVE due' = {}
      OBVIOUS
    <3>1. done = ids /\ refusals = {}
      BY DEF Cut
    <3>2. ~Full(ids)
      BY <1>4, <3>1
    <3> QED
      BY <1>7, <2>1, <2>2, <3>1, <3>2
  <2>6. BatchEnds(r, n, o, more, cut, refused) /\ due' \subseteq due
    BY <2>1, <2>4
  <2> HIDE DEF more, cut, refused
  <2> QED
    BY <1>0, <2>2, <2>3, <2>5, <2>6, BatchKeeps
<1>10. CASE ClaimTask(r)
  <2>1. /\ replica[r].pc = "batch" /\ kind = "drain"
        /\ UNCHANGED <<day, kind, ledger, unrecorded, faults>>
    BY <1>10 DEF ClaimTask
  <2>2. ASSUME UNCHANGED <<due, waiting>>, NEW more \in BOOLEAN, NEW cut \in BOOLEAN,
               BatchEnds(r, replica[r].removed, 0, more, cut, FALSE)
        PROVE  IInv'
    <3>1. PICK n \in Nat : n = replica[r].removed
      BY <1>0
    <3>2. BatchEnds(r, n, 0, more, cut, FALSE)
      BY <2>2, <3>1
    <3> QED
      BY <1>0, <2>1, <2>2, <3>2, BatchKeeps
  <2>3. ASSUME NEW i \in due, due' = due \ {i}, waiting' = waiting \cup {i},
               replica' = [replica EXCEPT ![r] =
                 [replica[r] EXCEPT !.pc = "delete", !.ids = {i}, !.calls = @ + 1]]
        PROVE  IInv'
    <3> DEFINE k == replica[r].calls + 1
               n == [replica[r] EXCEPT !.pc = "delete", !.ids = {i}, !.calls = k]
    <3>1. replica' = [replica EXCEPT ![r] = n]
      BY <1>0, <2>3 DEF Replica
    <3>2. k \in Nat /\ {i} \subseteq Rows
      BY <1>0
    <3> HIDE DEF k
    <3>3. /\ n \in Replica /\ n.pc = "delete"
          /\ n.day = replica[r].day /\ n.token = replica[r].token
      BY <1>0, <3>2 DEF Replica
    <3> HIDE DEF n
    <3> QED
      BY <1>0, <2>1, <2>3, <3>1, <3>3, CallKeeps
  <2> QED
    BY <1>10, <2>2, <2>3, Zenon DEF ClaimTask
<1>11. CASE DeleteTask(r)
  <2>1. /\ replica[r].pc = "delete" /\ kind = "drain" /\ due' = due \ ids
        /\ UNCHANGED <<day, kind, ledger, unrecorded, faults>>
    BY <1>11 DEF DeleteTask
  <2>2. waiting' \subseteq Rows
    BY <1>0, <1>11 DEF DeleteTask
  <2>3. PICK n \in {0, 1}, code \in Codes : CallEnds(r, n, code)
    BY <1>0, <1>11 DEF DeleteTask, Replica, Codes
  <2> QED
    BY <1>0, <2>1, <2>2, <2>3, CallEndsWell, CallKeeps
<1> QED
  BY <1>5, <1>6, <1>8, <1>9, <1>10, <1>11 DEF Batch

\* A batch that throws.
LEMMA ThrowsKeeps ==
  ASSUME IInv, NEW r \in Replicas, replica[r].pc \in {"batch", "delete"}, Throws(r),
         UNCHANGED <<day, kind, ledger>>, unrecorded' \in Nat,
         faults' \in 0..MaxFaults, faults' = 0 => faults = 0,
         due' \subseteq due, waiting' \subseteq waiting
  PROVE  IInv'
<1>0. /\ TypeOK /\ WorkIsDone /\ replica \in [Replicas -> Replica]
      /\ due \subseteq Rows /\ waiting \subseteq Rows
  BY DEF IInv, TypeOK
<1>1. PICK new \in Replica :
        /\ replica' = [replica EXCEPT ![r] = new]
        /\ new.pc = "record" /\ new.code = "failure"
        /\ new.day = replica[r].day /\ new.token = replica[r].token
  BY <1>0, ThrowsWell
<1>2. replica'[r] = new
  BY <1>0, <1>1
<1>3. EndSeen(r)'
  BY <1>1, <1>2 DEF EndSeen
<1>4. kind # "drain" => waiting' = waiting
  BY <1>0 DEF WorkIsDone
<1> QED
  BY <1>0, <1>1, <1>3, <1>4, WorkingKeeps

LEMMA BatchFailsKeeps ==
  ASSUME IInv, NEW r \in Replicas, BatchFails(r)
  PROVE  IInv'
<1>1. unrecorded \in Nat /\ replica[r].removed \in Nat /\ faults \in 0..MaxFaults
  BY DEF IInv, TypeOK, Replica
<1>2. /\ replica[r].pc \in {"batch", "delete"} /\ Throws(r)
      /\ UNCHANGED <<day, kind, ledger, due, waiting, faults>>
      /\ unrecorded' = unrecorded + replica[r].removed
  BY DEF BatchFails
<1>3. unrecorded' \in Nat
  BY <1>1, <1>2
<1> QED
  BY <1>1, <1>2, <1>3, ThrowsKeeps

\* A deletion whose answer is lost.
LEMMA LostAnswerKeeps ==
  ASSUME IInv, NEW r \in Replicas, LostAnswer(r)
  PROVE  IInv'
<1>0. /\ TypeOK /\ due \subseteq Rows /\ waiting \subseteq Rows
      /\ unrecorded \in Nat /\ faults \in 0..MaxFaults
  BY DEF IInv, TypeOK
<1>1. /\ replica[r].pc \in {"batch", "delete"} /\ UNCHANGED <<day, kind, ledger>>
      /\ faults < MaxFaults /\ faults' = faults + 1
  BY DEF LostAnswer, Fault
<1>2. PICK gone : /\ due' = due \ gone /\ waiting' = waiting \ gone
                  /\ unrecorded' = unrecorded + Cardinality(gone \cap (due \cup waiting))
  BY Zenon DEF LostAnswer
<1>3. gone \cap (due \cup waiting) \in SUBSET Rows
  BY <1>0
<1>4. Cardinality(gone \cap (due \cup waiting)) \in Nat
  BY <1>3, RowsFinite
<1>5. /\ unrecorded' \in Nat /\ faults' \in 0..MaxFaults /\ faults' # 0
      /\ due' \subseteq due /\ waiting' \subseteq waiting
  BY <1>0, <1>1, <1>2, <1>4, RetentionAssumption
<1>6. CASE kind = "drain"
  <2>1. CallEnds(r, 0, "continuation") /\ 0 \in {0, 1} /\ "continuation" \in Codes
    BY <1>6 DEF LostAnswer, Codes
  <2>2. PICK n, code : n = 0 /\ code = "continuation"
    OBVIOUS
  <2>3. CallEnds(r, n, code) /\ n \in {0, 1} /\ code \in Codes
    BY <2>1, <2>2
  <2>4. due' \subseteq Rows /\ waiting' \subseteq Rows
    BY <1>0, <1>5
  <2> QED
    BY <1>0, <1>1, <1>5, <1>6, <2>3, <2>4, CallEndsWell, CallKeeps
<1>7. CASE kind # "drain"
  <2>1. Throws(r)
    BY <1>7 DEF LostAnswer
  <2> QED
    BY <1>1, <1>5, <2>1, ThrowsKeeps
<1> QED
  BY <1>6, <1>7

\* An unchanged ledger closes nothing.
LEMMA NothingCloses ==
  ASSUME TypeOK, ledger' = ledger
  PROVE  Closing
BY DEF TypeOK, Closing

\* Tick: closeAbandonedBefore touches no window with a running lease.
LEMMA TickKeeps ==
  ASSUME IInv, NEW r \in Replicas, Tick(r)
  PROVE  IInv'
<1>0. /\ TypeOK /\ ledger \in [Days -> Run] /\ day \in Days /\ unrecorded \in Nat
      /\ faults \in 0..MaxFaults
  BY DEF IInv, TypeOK
<1>1. Closing
  <2>1. ledger' = ClosedBefore(day)
    BY DEF Tick
  <2>2. ASSUME NEW d \in Days
        PROVE  LET c == [ledger[d] EXCEPT !.status = "FAILED", !.token = 0, !.code = "stopped"]
               IN  /\ c \in Run /\ c.claims = ledger[d].claims /\ c.attempts = ledger[d].attempts
                   /\ c.deleted = ledger[d].deleted /\ c.objects = ledger[d].objects
                   /\ c.progressed = ledger[d].progressed
                   /\ c.status = "FAILED"
    <3>1. ledger[d] \in Run
      BY <1>0
    <3> QED
      BY <3>1 DEF Run, Codes
  <2>3. ASSUME NEW d \in Days
        PROVE  \/ ledger'[d] = ledger[d]
               \/ /\ ledger[d].status = "CLAIMED" /\ ~ledger[d].live
                  /\ ledger'[d] = [ledger[d] EXCEPT !.status = "FAILED", !.token = 0,
                                                    !.code = "stopped"]
    BY <2>1 DEF ClosedBefore
  <2>4. DOMAIN ledger' = Days /\ ledger' = [d \in Days |-> ledger'[d]]
    BY <2>1 DEF ClosedBefore
  <2>5. ledger' \in [Days -> Run]
    <3>1. ASSUME NEW d \in Days PROVE ledger'[d] \in Run
      BY <1>0, <2>2, <2>3
    <3> QED
      BY <2>4, <3>1
  <2>6. ASSUME NEW d \in Days
        PROVE  /\ ledger'[d].claims = ledger[d].claims /\ ledger'[d].attempts = ledger[d].attempts
               /\ ledger'[d].deleted = ledger[d].deleted /\ ledger'[d].objects = ledger[d].objects
               /\ ledger'[d].progressed = ledger[d].progressed
               /\ ledger[d].status # "NONE" => ledger'[d].status # "NONE"
               /\ ledger'[d].status = "SUCCEEDED" => ledger'[d] = ledger[d]
               /\ ledger[d].status = "CLAIMED" /\ ledger[d].live => ledger'[d] = ledger[d]
    <3>1. CASE ledger'[d] = ledger[d]
      BY <3>1
    <3>2. CASE ledger'[d] # ledger[d]
      <4>1. /\ ledger'[d].claims = ledger[d].claims /\ ledger'[d].attempts = ledger[d].attempts
            /\ ledger'[d].deleted = ledger[d].deleted /\ ledger'[d].objects = ledger[d].objects
            /\ ledger'[d].progressed = ledger[d].progressed
            /\ ledger'[d].status = "FAILED"
        <5>1. PICK c \in Run : /\ c.claims = ledger[d].claims /\ c.attempts = ledger[d].attempts
                              /\ c.deleted = ledger[d].deleted /\ c.objects = ledger[d].objects
                              /\ c.progressed = ledger[d].progressed
                              /\ c.status = "FAILED" /\ ledger'[d] = c
          BY <2>2, <2>3, <3>2
        <5> QED
          BY <5>1
      <4>2. ~ledger[d].live
        BY <2>3, <3>2
      <4> QED
        BY <4>1, <4>2
    <3> QED
      BY <3>1, <3>2
  <2> QED
    BY <2>5, <2>6, Zenon DEF Closing
<1> DEFINE n == [Idle EXCEPT !.pc = "claim", !.day = day]
<1>2. n \in Replica /\ n.pc = "claim" /\ n.day = day
  <2>1. Idle \in Replica /\ day \in 0..LastDay
    BY <1>0, Shapes, RetentionAssumption DEF Days
  <2> QED
    BY <2>1 DEF Replica
<1>3. replica' = [replica EXCEPT ![r] = n]
      /\ UNCHANGED <<day, kind, due, waiting, unrecorded, faults>>
  BY DEF Tick
<1> HIDE DEF n
<1> QED
  BY <1>0, <1>1, <1>2, <1>3, LeavingKeeps

\* A claim, by election or by takeover, of a window no run holds.
LEMMA ClaimsKeeps ==
  ASSUME IInv, NEW r \in Replicas, replica[r].pc = "claim",
         NEW run \in Run, Claims(r, run), run.status = "CLAIMED", run.live = TRUE,
         MyRun(r).status = "NONE" \/ Recoverable(MyRun(r)),
         run.token = MyRun(r).claims + 1 \/ (MyRun(r).status = "NONE" /\ run.token = 1),
         run.claims = run.token, run.progressed = FALSE,
         run.claims <= run.attempts + run.deleted + run.objects,
         UNCHANGED <<day, kind, due, waiting, unrecorded, faults>>
  PROVE  IInv'
<1> DEFINE me == replica[r]
           n == [me EXCEPT !.pc = "batch", !.token = run.token, !.attempt = run.attempts,
                           !.owed = due]
           d == me.day
<1>0. /\ TypeOK /\ ClaimsADay /\ TokensApart /\ ProgressUnspent /\ WorkIsDone /\ WorkerHoldsWindow
      /\ replica \in [Replicas -> Replica] /\ me \in Replica /\ due \subseteq Rows
      /\ ledger \in [Days -> Run] /\ d \in Days /\ ledger[d] \in Run
  BY DEF IInv, TypeOK, ClaimsADay
<1>1. ledger' = [ledger EXCEPT ![d] = run] /\ replica' = [replica EXCEPT ![r] = n]
  BY DEF Claims
<1>2. /\ n \in Replica /\ n.pc = "batch" /\ n.token = run.token /\ n.day = d
      /\ n.attempt = run.attempts
  BY <1>0 DEF Replica, Run
<1> HIDE DEF n
<1>3. /\ replica'[r] = n /\ replica' \in [Replicas -> Replica]
      /\ \A q \in Replicas \ {r} : replica'[q] = replica[q] /\ Working(q)' = Working(q)
      /\ Working(r)' /\ ~Working(r)
  BY <1>0, <1>1, <1>2 DEF Working
<1>4. /\ ledger'[d] = run /\ ledger' \in [Days -> Run]
      /\ \A e \in Days \ {d} : ledger'[e] = ledger[e]
  BY <1>0, <1>1
<1>5. ledger[d].claims \in Nat /\ run.token \in Nat
  BY <1>0 DEF Run
\* No run of the window carries the new token.
<1>6. ASSUME NEW q \in Replicas, Working(q), replica[q].day = d
      PROVE  replica[q].token < run.token
  <2>1. replica[q].token <= ledger[d].claims /\ ledger[d].status # "NONE"
    BY <1>0, <1>6 DEF TokensApart, MyRun
  <2>2. replica[q].token \in Nat
    BY <1>0 DEF Replica
  <2> QED
    BY <1>5, <2>1, <2>2 DEF MyRun
<1>7. TypeOK'
  BY <1>0, <1>3, <1>4 DEF TypeOK
<1>8. ClaimsADay'
  BY <1>0, <1>2, <1>3 DEF ClaimsADay
<1>9. TokensApart'
  <2>1. ASSUME NEW q \in Replicas, Working(q)'
        PROVE  /\ replica'[q].day \in Days /\ replica'[q].token <= ledger'[replica'[q].day].claims
               /\ ledger'[replica'[q].day].status # "NONE"
    <3>1. CASE q = r
      BY <1>0, <1>2, <1>3, <1>4, <1>5, <3>1
    <3>2. CASE q # r
      <4>1. /\ Working(q) /\ replica'[q] = replica[q] /\ replica[q].day \in Days
            /\ replica[q].token <= ledger[replica[q].day].claims
            /\ ledger[replica[q].day].status # "NONE"
        BY <1>0, <1>3, <2>1, <3>2 DEF TokensApart, MyRun
      <4>2. CASE replica[q].day # d
        BY <1>4, <4>1, <4>2
      <4>3. CASE replica[q].day = d
        <5>1. replica[q].token < run.token /\ replica[q].token \in Nat
          BY <1>0, <1>6, <4>1, <4>3 DEF Replica
        <5> QED
          BY <1>4, <1>5, <4>1, <4>3, <5>1
      <4> QED
        BY <4>2, <4>3
    <3> QED
      BY <3>1, <3>2
  <2>2. ASSUME NEW q \in Replicas, Working(q)', NEW s \in Replicas \ {q}, Working(s)',
               replica'[s].day = replica'[q].day
        PROVE  replica'[s].token # replica'[q].token
    <3>0. \A x \in Replicas : replica[x].token \in Nat
      BY <1>0 DEF Replica
    <3>1. CASE q = r
      <4>1. replica[s].token < run.token /\ replica'[s] = replica[s] /\ replica'[q].token = run.token
        BY <1>2, <1>3, <1>6, <2>2, <3>1
      <4> QED
        BY <1>5, <3>0, <4>1
    <3>2. CASE s = r
      <4>1. replica[q].token < run.token /\ replica'[q] = replica[q] /\ replica'[s].token = run.token
        BY <1>2, <1>3, <1>6, <2>2, <3>2
      <4> QED
        BY <1>5, <3>0, <4>1
    <3>3. CASE q # r /\ s # r
      BY <1>0, <1>3, <2>2, <3>3 DEF TokensApart
    <3> QED
      BY <3>1, <3>2, <3>3
  <2> QED
    BY <2>1, <2>2 DEF TokensApart, MyRun
<1>10. ProgressUnspent'
  <2>1. run.claims + 0 <= run.attempts + run.deleted + run.objects
    BY DEF Run
  <2> QED
    BY <1>0, <1>4, <2>1 DEF ProgressUnspent
<1>11. WorkIsDone'
  <2> SUFFICES ASSUME kind # "drain"
               PROVE  /\ waiting = {} /\ \A q \in Replicas : EndSeen(q)'
                      /\ \A e \in Days : ledger'[e].status = "SUCCEEDED" => ledger'[e].left = {}
    BY DEF WorkIsDone
  <2>1. /\ waiting = {} /\ \A q \in Replicas : EndSeen(q)
        /\ \A e \in Days : ledger[e].status = "SUCCEEDED" => ledger[e].left = {}
    BY <1>0 DEF WorkIsDone
  <2>2. \A q \in Replicas : EndSeen(q)'
    BY <1>2, <1>3, <2>1 DEF EndSeen
  <2> QED
    BY <1>4, <2>1, <2>2
<1>12. WorkerHoldsWindow'
  <2> SUFFICES ASSUME faults = 0, NEW q \in Replicas, Working(q)' PROVE Mine(q)'
    BY DEF WorkerHoldsWindow
  <2>1. CASE q = r
    BY <1>2, <1>3, <1>4, <2>1 DEF Mine, MyRun
  <2>2. CASE q # r
    <3>1. Working(q) /\ Mine(q) /\ replica'[q] = replica[q] /\ replica[q].day \in Days
      BY <1>0, <1>3, <2>2 DEF WorkerHoldsWindow, TokensApart
    <3>2. replica[q].day # d
      BY <3>1 DEF Mine, MyRun, Recoverable
    <3> QED
      BY <1>4, <3>1, <3>2 DEF Mine, MyRun
  <2> QED
    BY <2>1, <2>2
<1> QED
  BY <1>7, <1>8, <1>9, <1>10, <1>11, <1>12 DEF IInv

\* Claim: elected, taking over, writing the budget off, or going away.
LEMMA ClaimKeeps ==
  ASSUME IInv, NEW r \in Replicas, Claim(r)
  PROVE  IInv'
<1> DEFINE old == MyRun(r)
           d == replica[r].day
<1>0. /\ TypeOK /\ d \in Days /\ ledger \in [Days -> Run] /\ old \in Run /\ replica[r].pc = "claim"
      /\ unrecorded \in Nat /\ faults \in 0..MaxFaults /\ ProgressUnspent /\ old = ledger[d]
  BY DEF IInv, TypeOK, ClaimsADay, Claim, MyRun
<1>1. UNCHANGED <<day, kind, due, waiting, unrecorded, faults>>
  BY DEF Claim
<1>2. Idle \in Replica /\ Idle.pc = "idle"
  BY Shapes
<1>3. CASE old.status = "NONE" /\ Claims(r, [NoRun EXCEPT !.status = "CLAIMED", !.token = 1,
                                       !.live = TRUE, !.attempts = 1, !.claims = 1])
  <2> DEFINE run == [NoRun EXCEPT !.status = "CLAIMED", !.token = 1, !.live = TRUE,
                                  !.attempts = 1, !.claims = 1]
  <2>1. /\ run \in Run /\ run.status = "CLAIMED" /\ run.live = TRUE /\ run.token = 1
        /\ run.claims = 1 /\ run.attempts = 1 /\ run.deleted = 0 /\ run.objects = 0
        /\ run.progressed = FALSE
    <3>1. NoRun \in Run /\ 1 \in 0..MaxAttempts
      BY Shapes, RetentionAssumption
    <3>2. NoRun.deleted = 0 /\ NoRun.objects = 0 /\ NoRun.progressed = FALSE
      BY Shapes
    <3> QED
      BY <3>1, <3>2 DEF Run
  <2>2. Claims(r, run)
    BY <1>3
  <2> HIDE DEF run
  <2>3. run.claims <= run.attempts + run.deleted + run.objects
    BY <2>1
  <2> QED
    BY <1>0, <1>1, <1>3, <2>1, <2>2, <2>3, ClaimsKeeps
<1>4. CASE /\ Recoverable(old) /\ BudgetLeft(old)
           /\ Claims(r, [old EXCEPT !.token = old.claims + 1, !.claims = @ + 1,
                                    !.live = TRUE, !.attempts = @ + Charge(old),
                                    !.progressed = FALSE, !.code = "none"])
  <2> DEFINE run == [old EXCEPT !.token = old.claims + 1, !.claims = old.claims + 1,
                                !.live = TRUE, !.attempts = old.attempts + Charge(old),
                                !.progressed = FALSE, !.code = "none"]
  <2>1. /\ old.claims \in Nat /\ old.attempts \in 0..MaxAttempts /\ old.deleted \in Nat
        /\ old.objects \in Nat /\ old.progressed \in BOOLEAN /\ old.status = "CLAIMED"
    BY <1>0, <1>4 DEF Run, Recoverable
  <2>2. Charge(old) \in {0, 1} /\ old.attempts < MaxAttempts /\ MaxAttempts \in Nat
    BY <1>4, RetentionAssumption DEF Charge, BudgetLeft
  <2>3. old.attempts + Charge(old) \in 0..MaxAttempts /\ old.claims + 1 \in Nat
    BY <2>1, <2>2
  <2>4. /\ run \in Run /\ run.status = "CLAIMED" /\ run.live = TRUE
        /\ run.token = old.claims + 1 /\ run.claims = old.claims + 1
        /\ run.attempts = old.attempts + Charge(old) /\ run.deleted = old.deleted
        /\ run.objects = old.objects /\ run.progressed = FALSE
    BY <1>0, <2>1, <2>3 DEF Run, Codes
  <2>5. Claims(r, run)
    BY <1>4
  <2> HIDE DEF run
  <2>6. old.claims + (IF old.progressed THEN 1 ELSE 0)
          <= old.attempts + old.deleted + old.objects
    BY <1>0 DEF ProgressUnspent
  <2>7. run.claims <= run.attempts + run.deleted + run.objects
    <3>1. CASE Charge(old) = 1
      BY <2>1, <2>4, <2>6, <3>1
    <3>2. CASE Charge(old) = 0
      <4>1. old.progressed = TRUE
        BY <2>1, <3>2 DEF Charge
      <4> QED
        BY <2>1, <2>4, <2>6, <3>2, <4>1
    <3> QED
      BY <2>2, <3>1, <3>2
  <2> QED
    BY <1>0, <1>1, <1>4, <2>4, <2>5, <2>7, ClaimsKeeps
<1>5. CASE Recoverable(old) /\ ledger' = [ledger EXCEPT ![d] = Abandoned(old)] /\ Ends(r)
  <2>1. /\ Abandoned(old) \in Run /\ Abandoned(old).claims = old.claims
        /\ Abandoned(old).attempts = old.attempts /\ Abandoned(old).deleted = old.deleted
        /\ Abandoned(old).objects = old.objects
        /\ Abandoned(old).progressed = old.progressed /\ Abandoned(old).status = "FAILED"
    BY <1>0 DEF Abandoned, Run, Codes
  <2>2. /\ ledger' \in [Days -> Run] /\ ledger'[d] = Abandoned(old)
        /\ \A e \in Days \ {d} : ledger'[e] = ledger[e]
    BY <1>0, <1>5, <2>1
  <2>3. Closing
    BY <1>0, <1>5, <2>1, <2>2 DEF Closing, Recoverable
  <2> QED
    BY <1>0, <1>1, <1>2, <1>5, <2>3, LeavingKeeps DEF Ends
<1>6. CASE Ends(r) /\ UNCHANGED ledger
  BY <1>0, <1>1, <1>2, <1>6, NothingCloses, LeavingKeeps DEF Ends
<1> QED
  BY <1>3, <1>4, <1>5, <1>6 DEF Claim

\* Losing the claim or the process: what was deleted is not recorded.
LEMMA FailureKeeps ==
  ASSUME IInv, NEW r \in Replicas, ClaimFails(r) \/ Crash(r)
  PROVE  IInv'
<1>0. /\ TypeOK /\ faults \in 0..MaxFaults /\ unrecorded \in Nat
      /\ replica[r].deleted \in Nat /\ replica[r].removed \in Nat /\ Idle \in Replica /\ Idle.pc = "idle"
  BY Shapes DEF IInv, TypeOK, Replica
<1>1. /\ faults' = faults + 1 /\ faults < MaxFaults /\ replica' = [replica EXCEPT ![r] = Idle]
      /\ ledger' = ledger /\ UNCHANGED <<day, kind, due, waiting>>
      /\ unrecorded' \in {unrecorded, unrecorded + replica[r].deleted + replica[r].removed}
  BY DEF ClaimFails, Crash, Fault, Ends, ClaimLost
<1>2. faults' \in 0..MaxFaults /\ (faults' = 0 => faults = 0) /\ unrecorded' \in Nat
  BY <1>0, <1>1, RetentionAssumption
<1> QED
  BY <1>0, <1>1, <1>2, NothingCloses, LeavingKeeps

\* The end of a run: complete, hand back or give up; or too late.
LEMMA RecordKeeps ==
  ASSUME IInv, NEW r \in Replicas, Record(r)
  PROVE  IInv'
<1> DEFINE me == replica[r]
           d == me.day
<1>0. /\ TypeOK /\ ClaimsADay /\ TokensApart /\ ProgressUnspent /\ WorkIsDone /\ WorkerHoldsWindow
      /\ faults \in 0..MaxFaults /\ unrecorded \in Nat
      /\ replica \in [Replicas -> Replica] /\ me \in Replica
      /\ Idle \in Replica /\ Idle.pc = "idle"
  BY Shapes DEF IInv, TypeOK
<1>1. /\ me.pc = "record" /\ replica' = [replica EXCEPT ![r] = Idle]
      /\ UNCHANGED <<day, kind, due, waiting, faults>>
  BY DEF Record, Ends
<1>2. Working(r)
  BY <1>1 DEF Working
<1>3. d \in Days /\ ledger \in [Days -> Run] /\ ledger[d] \in Run
  BY <1>0, <1>2 DEF TokensApart, TypeOK
<1>4. CASE ~Mine(r) /\ ClaimLost(r) /\ UNCHANGED ledger
  <2>1. unrecorded' \in Nat
    BY <1>0, <1>4 DEF ClaimLost, Replica
  <2> QED
    BY <1>0, <1>1, <1>4, <2>1, NothingCloses, LeavingKeeps
<1>5. CASE /\ Mine(r) /\ UNCHANGED unrecorded
           /\ ledger' = [ledger EXCEPT ![d] = Closed(Counted(@, me.deleted, me.objects), me)]
  <2> DEFINE run == ledger[d]
             c == Counted(run, me.deleted, me.objects)
             new == Closed(c, me)
  <2>1. /\ me.deleted \in Nat /\ me.attempt \in 0..MaxAttempts /\ me.code \in Codes
        /\ run.deleted \in Nat /\ run.claims \in Nat /\ run.attempts \in 0..MaxAttempts
        /\ run.progressed \in BOOLEAN /\ me.objects \in Nat /\ run.objects \in Nat
    BY <1>0, <1>3 DEF Replica, Run
  <2>2. /\ c \in Run /\ c.deleted = run.deleted + me.deleted
        /\ c.objects = run.objects + me.objects
        /\ c.progressed = (run.progressed \/ me.deleted > 0 \/ me.objects > 0)
        /\ c.claims = run.claims /\ c.attempts = run.attempts /\ c.status = run.status
    <3> DEFINE p == run.progressed \/ me.deleted > 0 \/ me.objects > 0
               k == run.deleted + me.deleted
               l == run.objects + me.objects
    <3>1. p \in BOOLEAN /\ k \in Nat /\ l \in Nat /\ run \in Run
      BY <1>3, <2>1
    <3>2. c = [run EXCEPT !.deleted = k, !.objects = l, !.progressed = p]
      BY <3>1 DEF Counted, Run
    <3> HIDE DEF p, k, l, c
    <3>3. /\ c \in Run /\ c.deleted = k /\ c.objects = l /\ c.progressed = p
          /\ c.claims = run.claims /\ c.attempts = run.attempts /\ c.status = run.status
      BY <3>1, <3>2 DEF Run
    <3> QED
      BY <3>3 DEF p, k, l
  <2>3. run.status = "CLAIMED" /\ run.token = me.token /\ run.live = TRUE
    BY <1>3, <1>5 DEF Mine, MyRun, Run
  <2> HIDE DEF c
  <2>4. /\ new \in Run /\ new.claims = c.claims /\ new.attempts = c.attempts
        /\ new.deleted = c.deleted /\ new.objects = c.objects /\ new.progressed = c.progressed
        /\ new.status # "NONE"
        /\ new.status = "SUCCEEDED" => me.code = "none" /\ new.left = me.owed \cap due
    <3>0. me.owed \cap due \in SUBSET Rows
      BY <1>0 DEF Replica
    <3>1. CASE me.code = "none"
      <4>1. new = [c EXCEPT !.status = "SUCCEEDED", !.token = 0, !.live = FALSE,
                            !.left = me.owed \cap due]
        BY <3>1 DEF Closed
      <4> HIDE DEF new
      <4> QED
        BY <2>2, <3>0, <3>1, <4>1 DEF Run
    <3>2. CASE me.code # "none" /\ me.attempt < MaxAttempts
      <4>1. new = [c EXCEPT !.live = FALSE, !.code = me.code]
        BY <3>2 DEF Closed
      <4> HIDE DEF new
      <4> QED
        BY <2>1, <2>2, <2>3, <4>1 DEF Run
    <3>3. CASE me.code # "none" /\ ~(me.attempt < MaxAttempts)
      <4>1. new = [c EXCEPT !.status = "FAILED", !.token = 0, !.live = FALSE, !.code = me.code]
        BY <3>3 DEF Closed
      <4> HIDE DEF new
      <4> QED
        BY <2>1, <2>2, <4>1 DEF Run
    <3> QED
      BY <3>1, <3>2, <3>3
  <2>5. ledger' = [ledger EXCEPT ![d] = new]
    BY <1>5 DEF c
  <2> HIDE DEF new
  <2>6. /\ ledger' \in [Days -> Run] /\ ledger'[d] = new
        /\ \A e \in Days \ {d} : ledger'[e] = ledger[e]
    BY <1>3, <2>4, <2>5
  <2>7. /\ replica'[r] = Idle /\ replica' \in [Replicas -> Replica] /\ ~Working(r)'
        /\ \A q \in Replicas \ {r} : replica'[q] = replica[q] /\ Working(q)' = Working(q)
    BY <1>0, <1>1 DEF Working
  <2>8. TypeOK'
    BY <1>0, <1>1, <1>5, <2>6, <2>7 DEF TypeOK
  <2>9. ClaimsADay'
    BY <1>0, <2>7 DEF ClaimsADay
  <2>10. TokensApart'
    <3> SUFFICES ASSUME NEW q \in Replicas, Working(q)'
                 PROVE  /\ replica'[q].day \in Days
                        /\ replica'[q].token <= ledger'[replica'[q].day].claims
                        /\ ledger'[replica'[q].day].status # "NONE"
                        /\ \A s \in Replicas \ {q} :
                             Working(s)' /\ replica'[s].day = replica'[q].day
                               => replica'[s].token # replica'[q].token
      BY DEF TokensApart, MyRun
    <3>1. q # r /\ Working(q) /\ replica'[q] = replica[q]
      BY <2>7
    <3>2. /\ replica[q].day \in Days /\ replica[q].token <= ledger[replica[q].day].claims
          /\ ledger[replica[q].day].status # "NONE"
          /\ \A s \in Replicas \ {q} : Working(s) /\ replica[s].day = replica[q].day
               => replica[s].token # replica[q].token
      BY <1>0, <3>1 DEF TokensApart, MyRun
    <3>3. \A e \in Days : ledger'[e].claims = ledger[e].claims
                          /\ (ledger[e].status # "NONE" => ledger'[e].status # "NONE")
      BY <2>2, <2>4, <2>6
    <3> QED
      BY <2>7, <3>1, <3>2, <3>3
  <2>11. ProgressUnspent'
    <3>1. run.claims + (IF run.progressed THEN 1 ELSE 0)
            <= run.attempts + run.deleted + run.objects
      BY <1>0, <1>3 DEF ProgressUnspent
    <3>2. new.claims + (IF new.progressed THEN 1 ELSE 0)
            <= new.attempts + new.deleted + new.objects
      <4>1. CASE run.progressed
        BY <2>1, <2>2, <2>4, <3>1, <4>1
      <4>2. CASE ~run.progressed /\ (me.deleted > 0 \/ me.objects > 0)
        BY <2>1, <2>2, <2>4, <3>1, <4>2
      <4>3. CASE ~run.progressed /\ ~(me.deleted > 0 \/ me.objects > 0)
        BY <2>1, <2>2, <2>4, <3>1, <4>3
      <4> QED
        BY <4>1, <4>2, <4>3
    <3> QED
      BY <1>0, <2>6, <3>2 DEF ProgressUnspent
  <2>12. WorkIsDone'
    <3> SUFFICES ASSUME kind # "drain"
                 PROVE  /\ waiting = {} /\ \A q \in Replicas : EndSeen(q)'
                        /\ \A e \in Days : ledger'[e].status = "SUCCEEDED" => ledger'[e].left = {}
      BY <1>1 DEF WorkIsDone
    <3>1. /\ waiting = {} /\ \A q \in Replicas : EndSeen(q)
          /\ \A e \in Days : ledger[e].status = "SUCCEEDED" => ledger[e].left = {}
      BY <1>0 DEF WorkIsDone
    <3>2. \A q \in Replicas : EndSeen(q)'
      BY <1>0, <1>1, <2>7, <3>1 DEF EndSeen
    <3>3. new.status = "SUCCEEDED" => new.left = {}
      BY <1>1, <2>4, <3>1 DEF EndSeen
    <3> QED
      BY <2>6, <3>1, <3>2, <3>3
  <2>13. WorkerHoldsWindow'
    <3> SUFFICES ASSUME faults = 0, NEW q \in Replicas, Working(q)' PROVE Mine(q)'
      BY <1>1 DEF WorkerHoldsWindow
    <3>1. q # r /\ Working(q) /\ Mine(q) /\ replica'[q] = replica[q] /\ replica[q].day \in Days
      BY <1>0, <2>7 DEF WorkerHoldsWindow, TokensApart
    <3>2. replica[q].day # d
      BY <1>0, <1>2, <1>5, <3>1 DEF Mine, MyRun, TokensApart
    <3> QED
      BY <2>6, <3>1, <3>2 DEF Mine, MyRun
  <2> QED
    BY <2>8, <2>9, <2>10, <2>11, <2>12, <2>13 DEF IInv
<1> QED
  BY <1>4, <1>5 DEF Record

\* Time and the provider's grace.
LEMMA TimeKeeps ==
  ASSUME IInv, \/ \E d \in Days : LeaseExpires(d)
               \/ \E i \in Rows : RowDue(i)
               \/ NextDay
               \/ UNCHANGED vars
  PROVE  IInv'
<1>0. /\ TypeOK /\ ClaimsADay /\ TokensApart /\ ProgressUnspent /\ WorkIsDone /\ WorkerHoldsWindow
      /\ faults \in 0..MaxFaults /\ ledger \in [Days -> Run]
  BY DEF IInv, TypeOK
<1>1. ASSUME NEW d \in Days, LeaseExpires(d) PROVE IInv'
  <2> DEFINE new == [ledger[d] EXCEPT !.live = FALSE]
  <2>1. /\ UNCHANGED <<day, kind, due, waiting, replica, unrecorded>> /\ ledger[d].live
        /\ ledger' = [ledger EXCEPT ![d] = new]
        /\ faults' = faults \/ (faults < MaxFaults /\ faults' = faults + 1)
        /\ (\E r \in Replicas : HoldsRun(r, d)) => faults' = faults + 1
    BY <1>0, <1>1 DEF LeaseExpires, Fault
  <2>2. /\ new \in Run /\ new.claims = ledger[d].claims /\ new.attempts = ledger[d].attempts
        /\ new.deleted = ledger[d].deleted /\ new.objects = ledger[d].objects
        /\ new.progressed = ledger[d].progressed
        /\ new.status = ledger[d].status /\ new.left = ledger[d].left
    <3>1. ledger[d] \in Run
      BY <1>0
    <3> QED
      BY <3>1 DEF Run
  <2> HIDE DEF new
  <2>3. /\ ledger' \in [Days -> Run] /\ ledger'[d] = new
        /\ \A e \in Days \ {d} : ledger'[e] = ledger[e]
    BY <1>0, <2>1, <2>2
  <2>4. faults' \in 0..MaxFaults /\ (faults' = 0 => faults = 0)
    BY <1>0, <2>1, RetentionAssumption
  <2>5. TypeOK'
    BY <1>0, <2>1, <2>3, <2>4 DEF TypeOK
  <2>6. ClaimsADay'
    BY <1>0, <2>1 DEF ClaimsADay
  <2>7. TokensApart'
    <3>1. \A e \in Days : ledger'[e].claims = ledger[e].claims /\ ledger'[e].status = ledger[e].status
      BY <2>2, <2>3
    <3> QED
      BY <1>0, <2>1, <3>1 DEF TokensApart, MyRun, Working
  <2>8. ProgressUnspent'
    BY <1>0, <2>2, <2>3 DEF ProgressUnspent
  <2>9. WorkIsDone'
    <3>1. \A e \in Days : ledger'[e].left = ledger[e].left /\ ledger'[e].status = ledger[e].status
      BY <2>2, <2>3
    <3> QED
      BY <1>0, <2>1, <3>1 DEF WorkIsDone, EndSeen
  <2>10. WorkerHoldsWindow'
    <3> SUFFICES ASSUME faults' = 0, NEW r \in Replicas, Working(r) PROVE Mine(r)'
      BY <2>1 DEF WorkerHoldsWindow, Working
    <3>1. Mine(r) /\ replica[r].day \in Days
      BY <1>0, <2>4 DEF WorkerHoldsWindow, TokensApart
    <3>2. ~HoldsRun(r, d)
      BY <1>0, <2>1
    <3>3. replica[r].day # d
      BY <3>1, <3>2 DEF HoldsRun, Mine, MyRun
    <3> QED
      BY <2>1, <2>3, <3>1, <3>3 DEF Mine, MyRun
  <2> QED
    BY <2>5, <2>6, <2>7, <2>8, <2>9, <2>10 DEF IInv
<1>2. ASSUME NEW i \in Rows, RowDue(i) PROVE IInv'
  <2>1. /\ UNCHANGED <<day, kind, ledger, replica, unrecorded>> /\ i \in waiting
        /\ due' = due \cup {i} /\ waiting' = waiting \ {i}
        /\ faults' = faults \/ (faults < MaxFaults /\ faults' = faults + 1)
    BY <1>2 DEF RowDue, Fault
  <2>2. kind = "drain"
    BY <1>0, <2>1 DEF WorkIsDone
  <2>3. TypeOK' /\ (faults' = 0 => faults = 0)
    <3>1. faults' \in 0..MaxFaults /\ (faults' = 0 => faults = 0)
      BY <1>0, <2>1, RetentionAssumption
    <3> QED
      BY <1>0, <2>1, <3>1 DEF TypeOK
  <2>4. ClaimsADay' /\ ProgressUnspent'
    BY <1>0, <2>1 DEF ClaimsADay, ProgressUnspent
  <2>5. TokensApart' /\ WorkerHoldsWindow'
    BY <1>0, <2>1, <2>3 DEF TokensApart, WorkerHoldsWindow, MyRun, Working, Mine
  <2>6. WorkIsDone'
    BY <2>1, <2>2 DEF WorkIsDone
  <2> QED
    BY <2>3, <2>4, <2>5, <2>6 DEF IInv
<1>3. CASE NextDay \/ UNCHANGED vars
  <2>1. /\ UNCHANGED <<kind, ledger, due, waiting, replica, unrecorded, faults>> /\ day' \in Days
    BY <1>0, <1>3, RetentionAssumption DEF NextDay, vars, TypeOK, Days
  <2>2. TypeOK'
    BY <1>0, <2>1 DEF TypeOK
  <2>3. ClaimsADay' /\ ProgressUnspent' /\ WorkIsDone'
    BY <1>0, <2>1 DEF ClaimsADay, ProgressUnspent, WorkIsDone, EndSeen
  <2>4. TokensApart' /\ WorkerHoldsWindow'
    BY <1>0, <2>1 DEF TokensApart, WorkerHoldsWindow, MyRun, Working, Mine
  <2> QED
    BY <2>2, <2>3, <2>4 DEF IInv
<1> QED
  BY <1>1, <1>2, <1>3

\* The initial state: no window is claimed, nothing is postponed.
LEMMA InitIInv == Init => IInv
<1> SUFFICES ASSUME Init PROVE IInv
  OBVIOUS
<1>1. \A d \in Days : ledger[d] = NoRun
  BY DEF Init
<1>2. \A r \in Replicas : replica[r] = Idle
  BY DEF Init
<1>3. \A r \in Replicas : ~Working(r) /\ replica[r].pc = "idle"
  BY <1>2, Shapes DEF Working
<1>4. due \subseteq Rows
  BY RetentionAssumption DEF Init, Rows
<1>5. TypeOK
  <2>1. day \in Days /\ faults \in 0..MaxFaults /\ unrecorded \in Nat
    BY RetentionAssumption DEF Init, Days
  <2> QED
    BY <1>4, <2>1, Shapes DEF Init, TypeOK
<1>6. ClaimsADay /\ TokensApart /\ WorkerHoldsWindow
  BY <1>3 DEF ClaimsADay, TokensApart, WorkerHoldsWindow
<1>7. ProgressUnspent
  BY <1>1, Shapes DEF ProgressUnspent
<1>8. WorkIsDone
  <2>1. waiting = {}
    BY DEF Init
  <2>2. \A r \in Replicas : EndSeen(r)
    BY <1>3 DEF EndSeen
  <2>3. \A d \in Days : ledger[d].status # "SUCCEEDED"
    BY <1>1, Shapes
  <2> QED
    BY <2>1, <2>2, <2>3 DEF WorkIsDone
<1> QED
  BY <1>5, <1>6, <1>7, <1>8 DEF IInv

\* Every step keeps the invariant.
LEMMA NextIInv == IInv /\ [Next]_vars => IInv'
<1> SUFFICES ASSUME IInv, [Next]_vars PROVE IInv'
  OBVIOUS
<1>1. ASSUME NEW r \in Replicas, CycleStep(r) PROVE IInv'
  BY <1>1, TickKeeps, ClaimKeeps, BatchStepKeeps, RecordKeeps DEF CycleStep
<1>2. ASSUME NEW r \in Replicas, ClaimFails(r) \/ BatchFails(r) \/ LostAnswer(r) \/ Crash(r)
      PROVE  IInv'
  BY <1>2, FailureKeeps, BatchFailsKeeps, LostAnswerKeeps
<1> QED
  BY <1>1, <1>2, TimeKeeps DEF Next

\* The inductive invariant holds in every reachable state.
LEMMA Invariance == Spec => []IInv
BY InitIInv, NextIInv, PTL DEF Spec

\* Ledger rows and cycles keep their shape; in particular no window is ever charged more
\* than MaxAttempts attempts (ScheduledRunRepository.recover).
THEOREM TypeCorrect == Spec => []TypeOK
<1>1. IInv => TypeOK
  BY DEF IInv
<1> QED
  BY <1>1, Invariance, PTL

\* A window is claimed at most once per charged attempt plus once per row or object it
\* deleted, whatever fails and whoever takes over.
THEOREM RetriesAlwaysEarned == Spec => []RetriesAreEarned
<1>1. IInv => RetriesAreEarned
  <2> SUFFICES ASSUME IInv, NEW d \in Days
               PROVE  ledger[d].claims
                        <= ledger[d].attempts + ledger[d].deleted + ledger[d].objects
    BY DEF RetriesAreEarned
  <2>1. ledger[d] \in Run
    BY DEF IInv, TypeOK
  <2>2. /\ ledger[d].claims \in Nat /\ ledger[d].attempts \in Nat
        /\ ledger[d].deleted \in Nat /\ ledger[d].objects \in Nat
    BY <2>1, RetentionAssumption DEF Run
  <2>3. ledger[d].claims + (IF ledger[d].progressed THEN 1 ELSE 0)
          <= ledger[d].attempts + ledger[d].deleted + ledger[d].objects
    BY DEF IInv, ProgressUnspent
  <2> QED
    BY <2>2, <2>3
<1> QED
  BY <1>1, Invariance, PTL

\* Without a fault a working run always holds its window: no takeover and no closing of
\* earlier days takes it away, however many replicas tick.
THEOREM WorkerAlwaysHoldsWindow == Spec => []WorkerHoldsWindow
<1>1. IInv => WorkerHoldsWindow
  BY DEF IInv
<1> QED
  BY <1>1, Invariance, PTL

\* A window recorded SUCCEEDED left nothing that was due when its last run began, for any
\* backlog and batch size: a short batch really is the last one.
THEOREM SucceededAlwaysDrained == Spec => []SucceededDrained
<1>1. IInv => SucceededDrained
  BY DEF IInv, WorkIsDone, SucceededDrained
<1> QED
  BY <1>1, Invariance, PTL

-----------------------------------------------------------------------------
(***************************************************************************)
(* Sums over finite sets: the counters of the ledger and of the replicas.  *)
(***************************************************************************)
First(T) == CHOOSE x \in T : TRUE
\* it adds up the numbers of f.
Adds(f, S, it) ==
  it = [T \in SUBSET S |-> IF T = {} THEN 0 ELSE f[First(T)] + it[T \ {First(T)}]]
Sums(f, S) == CHOOSE it : Adds(f, S, it)
Total(f, S) == Sums(f, S)[S]

\* What the ledger and what the cycles count, and the same sums over them.
OfWindow == [d \in Days |-> ledger[d].deleted]
OfCycle == [r \in Replicas |-> replica[r].deleted + replica[r].removed]
AddsWindows(it) ==
  it = [T \in SUBSET Days |->
          IF T = {} THEN 0 ELSE ledger[First(T)].deleted + it[T \ {First(T)}]]
AddsCycles(it) ==
  it = [T \in SUBSET Replicas |->
          IF T = {} THEN 0
          ELSE replica[First(T)].deleted + replica[First(T)].removed + it[T \ {First(T)}]]

LEMMA TotalIs ==
  /\ MapThenSumSet(LAMBDA d : ledger[d].deleted, Days) = Total(OfWindow, Days)
  /\ MapThenSumSet(LAMBDA r : replica[r].deleted + replica[r].removed, Replicas)
       = Total(OfCycle, Replicas)
<1>1. MapThenSumSet(LAMBDA d : ledger[d].deleted, Days) = (CHOOSE it : AddsWindows(it))[Days]
  BY Zenon DEF MapThenSumSet, MapThenFoldSet, First, AddsWindows
<1>2. MapThenSumSet(LAMBDA r : replica[r].deleted + replica[r].removed, Replicas)
        = (CHOOSE it : AddsCycles(it))[Replicas]
  BY Zenon DEF MapThenSumSet, MapThenFoldSet, First, AddsCycles
<1>3. ASSUME NEW it PROVE Adds(OfWindow, Days, it) <=> AddsWindows(it)
  <2>1. \A T \in SUBSET Days : T # {} => First(T) \in Days
    BY DEF First
  <2>2. \A T \in SUBSET Days : T # {} => OfWindow[First(T)] = ledger[First(T)].deleted
    BY <2>1 DEF OfWindow
  <2> QED
    BY <2>2 DEF Adds, AddsWindows
<1>4. ASSUME NEW it PROVE Adds(OfCycle, Replicas, it) <=> AddsCycles(it)
  <2>1. \A T \in SUBSET Replicas : T # {} => First(T) \in Replicas
    BY DEF First
  <2>2. \A T \in SUBSET Replicas :
          T # {} => OfCycle[First(T)] = replica[First(T)].deleted + replica[First(T)].removed
    BY <2>1 DEF OfCycle
  <2> QED
    BY <2>2 DEF Adds, AddsCycles
<1>5. (CHOOSE it : AddsWindows(it)) = Sums(OfWindow, Days)
  BY <1>3 DEF Sums
<1>6. (CHOOSE it : AddsCycles(it)) = Sums(OfCycle, Replicas)
  BY <1>4 DEF Sums
<1> QED
  BY <1>1, <1>2, <1>5, <1>6 DEF Total

\* Without its first element a set is one smaller.
LEMMA WithoutFirst ==
  ASSUME NEW S, IsFiniteSet(S), NEW T \in SUBSET S
  PROVE  /\ Cardinality(T) \in Nat
         /\ T # {} => /\ First(T) \in T /\ First(T) \in S /\ T \ {First(T)} \in SUBSET S
                      /\ Cardinality(T \ {First(T)}) = Cardinality(T) - 1
                      /\ Cardinality(T) > 0
<1>1. IsFiniteSet(T) /\ Cardinality(T) \in Nat
  BY FS_Subset, FS_CardinalityType
<1>2. ASSUME T # {} PROVE First(T) \in T
  BY <1>2 DEF First
<1>3. ASSUME T # {}
      PROVE  /\ Cardinality(T \ {First(T)}) = Cardinality(T) - 1
             /\ Cardinality(T) > 0
  <2>1. Cardinality(T) # 0
    BY <1>1, <1>3, FS_EmptySet
  <2>2. Cardinality(T \ {First(T)}) = Cardinality(T) - 1
    BY <1>1, <1>2, <1>3, FS_RemoveElement
  <2> QED
    BY <1>1, <2>1, <2>2
<1> QED
  BY <1>1, <1>2, <1>3

\* it adds up correctly for the sets of at most n elements.
AddsUpTo(f, S, it, n) ==
  \A T \in SUBSET S : Cardinality(T) <= n =>
    it[T] = IF T = {} THEN 0 ELSE f[First(T)] + it[T \ {First(T)}]

\* The recursion over the subsets of a finite set has a solution: one that adds up for
\* the smaller sets extends to the next size.
LEMMA AddingUp ==
  ASSUME NEW S, IsFiniteSet(S), NEW f
  PROVE  Adds(f, S, Sums(f, S))
<1> DEFINE Solved(n) == \E it : it = [T \in SUBSET S |-> it[T]] /\ AddsUpTo(f, S, it, n)
           Open == {n \in Nat : ~Solved(n)}
<1>1. Open = {}
  <2> SUFFICES ASSUME Open # {} PROVE FALSE
    OBVIOUS
  <2>1. PICK n \in Open : \A k \in Open : n <= k
    BY LeastElement
  <2>2. n \in Nat /\ ~Solved(n)
    OBVIOUS
  <2>3. CASE n = 0
    <3> DEFINE z == [T \in SUBSET S |-> 0]
    <3>1. ASSUME NEW T \in SUBSET S, Cardinality(T) <= 0 PROVE T = {}
      <4>1. T # {} => Cardinality(T) > 0 /\ Cardinality(T) \in Nat
        BY WithoutFirst
      <4> QED
        BY <3>1, <4>1
    <3>2. AddsUpTo(f, S, z, 0)
      BY <3>1 DEF AddsUpTo
    <3>3. z = [T \in SUBSET S |-> z[T]]
      OBVIOUS
    <3> HIDE DEF z
    <3> QED
      BY <2>2, <2>3, <3>2, <3>3
  <2>4. CASE n # 0
    <3>1. n - 1 \in Nat /\ ~(n <= n - 1)
      BY <2>2, <2>4
    <3>2. Solved(n - 1)
      BY <2>1, <3>1
    <3> HIDE DEF Open
    <3>3. PICK it : it = [T \in SUBSET S |-> it[T]] /\ AddsUpTo(f, S, it, n - 1)
      BY <3>2
    <3> DEFINE up == [T \in SUBSET S |-> IF Cardinality(T) = n
                                         THEN f[First(T)] + it[T \ {First(T)}]
                                         ELSE it[T]]
    <3>4. \A T \in SUBSET S : Cardinality(T) < n => up[T] = it[T]
      <4> SUFFICES ASSUME NEW T \in SUBSET S, Cardinality(T) < n PROVE Cardinality(T) # n
        OBVIOUS
      <4> QED
        BY <2>2, WithoutFirst
    <3>5. AddsUpTo(f, S, up, n)
      <4> SUFFICES ASSUME NEW T \in SUBSET S, Cardinality(T) <= n
                   PROVE  up[T] = IF T = {} THEN 0
                                  ELSE f[First(T)] + up[T \ {First(T)}]
        BY DEF AddsUpTo
      <4>1. Cardinality(T) \in Nat
        BY WithoutFirst
      <4>2. CASE T = {}
        <5>1. Cardinality(T) = 0
          BY <4>2, FS_EmptySet
        <5>2. up[T] = it[T]
          BY <2>2, <2>4, <3>4, <5>1
        <5>3. it[T] = 0
          <6>1. Cardinality(T) <= n - 1
            BY <2>2, <2>4, <5>1
          <6> QED
            BY <3>3, <4>2, <6>1 DEF AddsUpTo
        <5> QED
          BY <4>2, <5>2, <5>3
      <4>3. CASE T # {}
        <5>1. PICK R \in SUBSET S : R = T \ {First(T)} /\ Cardinality(R) = Cardinality(T) - 1
          BY <4>3, WithoutFirst
        <5>2. Cardinality(R) < n
          BY <2>2, <4>1, <5>1
        <5>3. up[R] = it[R]
          BY <3>4, <5>2
        <5>4. CASE Cardinality(T) = n
          BY <4>3, <5>1, <5>3, <5>4
        <5>5. CASE Cardinality(T) # n
          <6>1. Cardinality(T) < n /\ Cardinality(T) <= n - 1
            BY <2>2, <4>1, <5>5
          <6>2. it[T] = f[First(T)] + it[R]
            BY <3>3, <4>3, <5>1, <6>1 DEF AddsUpTo
          <6> QED
            BY <3>4, <4>3, <5>1, <5>3, <6>1, <6>2
        <5> QED
          BY <5>4, <5>5
      <4> QED
        BY <4>2, <4>3
    <3>6. up = [T \in SUBSET S |-> up[T]]
      OBVIOUS
    <3> HIDE DEF up
    <3> QED
      BY <2>2, <3>5, <3>6
  <2> QED
    BY <2>3, <2>4
<1>2. Cardinality(S) \in Nat
  BY FS_CardinalityType
<1>3. Solved(Cardinality(S))
  BY <1>1, <1>2
<1> HIDE DEF Open
<1>4. PICK it : it = [T \in SUBSET S |-> it[T]] /\ AddsUpTo(f, S, it, Cardinality(S))
  BY <1>3
<1>5. \A T \in SUBSET S : Cardinality(T) <= Cardinality(S)
  BY FS_Subset
<1>6. Adds(f, S, it)
  BY <1>4, <1>5 DEF Adds, AddsUpTo
<1> QED
  BY <1>6, Zenon DEF Sums

\* The sums, set by set.
LEMMA SumStep ==
  ASSUME NEW S, IsFiniteSet(S), NEW f
  PROVE  \A T \in SUBSET S :
           Sums(f, S)[T] = IF T = {} THEN 0
                           ELSE f[First(T)] + Sums(f, S)[T \ {First(T)}]
<1>1. PICK it : it = Sums(f, S)
  OBVIOUS
<1>2. Adds(f, S, it)
  BY <1>1, AddingUp
<1>3. \A T \in SUBSET S : it[T] = IF T = {} THEN 0
                                 ELSE f[First(T)] + it[T \ {First(T)}]
  BY <1>2 DEF Adds
<1> QED
  BY <1>1, <1>3

\* Counters that are numbers add up to a number, and zeros to zero.
LEMMA SumType ==
  ASSUME NEW S, IsFiniteSet(S), NEW f, \A x \in S : f[x] \in Nat
  PROVE  /\ \A T \in SUBSET S : Sums(f, S)[T] \in Nat
         /\ (\A x \in S : f[x] = 0) => \A T \in SUBSET S : Sums(f, S)[T] = 0
<1> DEFINE Good(T) == /\ Sums(f, S)[T] \in Nat
                      /\ (\A x \in S : f[x] = 0) => Sums(f, S)[T] = 0
           Bad == {T \in SUBSET S : ~Good(T)}
           Sizes == {Cardinality(T) : T \in Bad}
<1> SUFFICES ASSUME Bad # {} PROVE FALSE
  OBVIOUS
<1>s. \A T \in SUBSET S : Cardinality(T) \in Nat
  BY WithoutFirst
<1>1. Sizes \subseteq Nat /\ Sizes # {}
  BY <1>s
<1>2. PICK n \in Sizes : \A k \in Sizes : n <= k
  BY <1>1, LeastElement
<1>3. PICK T \in SUBSET S : ~Good(T) /\ Cardinality(T) = n
  OBVIOUS
<1>t. Sums(f, S)[T] = IF T = {} THEN 0 ELSE f[First(T)] + Sums(f, S)[T \ {First(T)}]
  BY SumStep
<1>4. T # {}
  BY <1>3, <1>t
<1>w. /\ First(T) \in S /\ T \ {First(T)} \in SUBSET S
      /\ Cardinality(T \ {First(T)}) = Cardinality(T) - 1
  BY <1>4, WithoutFirst
<1>5. PICK R \in SUBSET S : R = T \ {First(T)} /\ Cardinality(R) = n - 1 /\ First(T) \in S
  BY <1>3, <1>w
<1>6. n \in Nat /\ ~(n <= n - 1)
  BY <1>1
<1>7. R \notin Bad
  BY <1>2, <1>5, <1>6
<1>8. Good(R)
  BY <1>7
<1>9. Sums(f, S)[T] = f[First(T)] + Sums(f, S)[R]
  BY <1>4, <1>5, <1>t
<1>10. Good(T)
  BY <1>5, <1>8, <1>9
<1> QED
  BY <1>3, <1>10

\* When one counter changes, the total changes by as much.
LEMMA SumChanges ==
  ASSUME NEW S, IsFiniteSet(S), NEW f, NEW g, NEW x,
         \A y \in S : f[y] \in Nat /\ g[y] \in Nat,
         \A y \in S : y # x => f[y] = g[y]
  PROVE  /\ Total(f, S) \in Nat /\ Total(g, S) \in Nat
         /\ x \notin S => Total(g, S) = Total(f, S)
         /\ x \in S => Total(g, S) + f[x] = Total(f, S) + g[x]
<1> DEFINE F(T) == Sums(f, S)[T]
           G(T) == Sums(g, S)[T]
           Good(T) == IF x \in T THEN G(T) + f[x] = F(T) + g[x]
                      ELSE G(T) = F(T)
           Bad == {T \in SUBSET S : ~Good(T)}
           Sizes == {Cardinality(T) : T \in Bad}
<1>0. \A T \in SUBSET S : F(T) \in Nat /\ G(T) \in Nat
  BY SumType
<1>1. Bad = {}
  <2> SUFFICES ASSUME Bad # {} PROVE FALSE
    OBVIOUS
  <2>s. \A T \in SUBSET S : Cardinality(T) \in Nat
    BY WithoutFirst
  <2>1. Sizes \subseteq Nat /\ Sizes # {}
    BY <2>s
  <2>2. PICK n \in Sizes : \A k \in Sizes : n <= k
    BY <2>1, LeastElement
  <2>3. PICK T \in SUBSET S : ~Good(T) /\ Cardinality(T) = n
    OBVIOUS
  <2>t. /\ F(T) = IF T = {} THEN 0 ELSE f[First(T)] + F(T \ {First(T)})
        /\ G(T) = IF T = {} THEN 0 ELSE g[First(T)] + G(T \ {First(T)})
    BY SumStep
  <2>4. T # {}
    BY <2>3, <2>t
  <2>w. /\ First(T) \in S /\ First(T) \in T /\ T \ {First(T)} \in SUBSET S
        /\ Cardinality(T \ {First(T)}) = Cardinality(T) - 1
    BY <2>4, WithoutFirst
  <2>5. PICK R \in SUBSET S : /\ R = T \ {First(T)} /\ Cardinality(R) = n - 1
                              /\ First(T) \in S /\ First(T) \in T
    BY <2>3, <2>w
  <2>6. n \in Nat /\ ~(n <= n - 1)
    BY <2>1
  <2>7. R \notin Bad
    BY <2>2, <2>5, <2>6
  <2>8. Good(R)
    BY <2>7
  <2>9. F(T) = f[First(T)] + F(R) /\ G(T) = g[First(T)] + G(R)
    BY <2>4, <2>5, <2>t
  <2>10. F(T) \in Nat /\ G(T) \in Nat /\ F(R) \in Nat /\ G(R) \in Nat
    BY <1>0, <2>3
  <2> HIDE DEF F, G
  <2>11. CASE First(T) = x
    <3>1. x \in T /\ x \notin R /\ G(R) = F(R)
      BY <2>5, <2>8, <2>11
    <3>2. Good(T)
      BY <2>5, <2>9, <2>10, <2>11, <3>1
    <3> QED
      BY <2>3, <3>2
  <2>12. CASE First(T) # x
    <3>1. (x \in T <=> x \in R) /\ f[First(T)] = g[First(T)]
      BY <2>5, <2>12
    <3>2. x \in T => f[x] \in Nat /\ g[x] \in Nat
      BY <2>3
    <3>3. Good(T)
      BY <2>5, <2>8, <2>9, <2>10, <3>1, <3>2
    <3> QED
      BY <2>3, <3>3
  <2> QED
    BY <2>11, <2>12
<1>2. Good(S)
  BY <1>1
<1> QED
  BY <1>0, <1>2 DEF Total

-----------------------------------------------------------------------------
(***************************************************************************)
(* Where the deleted rows are counted.                                     *)
(***************************************************************************)
Account ==
  Cardinality(Backlog[kind] \ (due \cup waiting))
    = unrecorded + (Total(OfWindow, Days) + Total(OfCycle, Replicas))

\* The account of storage tasks balances until a fault; that of the others always, and
\* without a fault every one of their rows is on record.
Counts == /\ kind # "drain" \/ faults = 0 => Account
          /\ kind # "drain" /\ faults = 0 => unrecorded = 0

\* A row waits or is due, never both.
RowsApart == due \cup waiting \subseteq Backlog[kind] /\ due \cap waiting = {}

\* Until a call outlives its lease, its task is leased to it alone.
CallsApart ==
  kind = "drain" /\ faults = 0 =>
    \A r \in Replicas :
      /\ replica[r].ids \subseteq waiting
      /\ replica[r].pc = "delete" => \E i : replica[r].ids = {i}
      /\ \A q \in Replicas \ {r} : replica[q].ids \cap replica[r].ids = {}

\* Who has not claimed has deleted nothing, only a batch of storage tasks has removed some;
\* a window nobody claimed counts nothing.
Fresh(c) ==
  /\ c.pc \in {"idle", "claim"} => c.deleted = 0
  /\ c.pc \in {"idle", "claim", "record"} \/ kind # "drain" => c.removed = 0
FreshCounters ==
  /\ \A r \in Replicas : Fresh(replica[r])
  /\ \A d \in Days : ledger[d].status = "NONE" => ledger[d].deleted = 0

CountInv == RowsApart /\ CallsApart /\ FreshCounters /\ Counts

LEMMA CounterTypes ==
  ASSUME TypeOK
  PROVE  /\ \A d \in Days : ledger[d].deleted \in Nat
         /\ \A r \in Replicas : replica[r].deleted \in Nat /\ replica[r].removed \in Nat
         /\ unrecorded \in Nat /\ IsFiniteSet(Days) /\ IsFiniteSet(Replicas) /\ 1 \in Days
<1>1. LastDay \in Nat /\ 1 \in Int /\ 1 \in 1..LastDay
  BY RetentionAssumption
<1>2. IsFiniteSet(Days) /\ 1 \in Days
  BY <1>1, FS_Interval DEF Days
<1> QED
  BY <1>2, RetentionAssumption DEF TypeOK, Run, Replica

\* Rows R leave the backlog: as many more are counted as R has.
LEMMA GoneGrows ==
  ASSUME TypeOK, RowsApart, kind' = kind, NEW R \in SUBSET (due \cup waiting),
         due' \cup waiting' = (due \cup waiting) \ R
  PROVE  /\ Cardinality(Backlog[kind'] \ (due' \cup waiting'))
              = Cardinality(Backlog[kind] \ (due \cup waiting)) + Cardinality(R)
         /\ Cardinality(Backlog[kind] \ (due \cup waiting)) \in Nat /\ Cardinality(R) \in Nat
<1> DEFINE G == Backlog[kind] \ (due \cup waiting)
           H == Backlog[kind'] \ (due' \cup waiting')
<1>1. Backlog[kind] \subseteq Rows
  BY DEF TypeOK, Rows
<1>2. G \in SUBSET Rows /\ R \in SUBSET Rows
  BY <1>1 DEF RowsApart
<1>3. H = G \cup R /\ G \cap R = {}
  BY DEF RowsApart
<1>4. IsFiniteSet(G) /\ IsFiniteSet(R) /\ Cardinality(G) \in Nat /\ Cardinality(R) \in Nat
  BY <1>2, RowsFinite
<1> HIDE DEF G, H
<1>5. Cardinality(G \cap R) = 0
  BY <1>3, FS_EmptySet
<1>6. Cardinality(G \cup R) = Cardinality(G) + Cardinality(R) - Cardinality(G \cap R)
  BY <1>4, FS_Union
<1>7. Cardinality(H) = Cardinality(G) + Cardinality(R)
  BY <1>3, <1>4, <1>5, <1>6
<1> QED
  BY <1>4, <1>7 DEF G, H

\* A step that counts as many rows as it deletes, in one window, one cycle or the log,
\* keeps the account.
LEMMA Balance ==
  ASSUME TypeOK, TypeOK', RowsApart, Account, kind' = kind,
         NEW R \in SUBSET (due \cup waiting),
         due' \cup waiting' = (due \cup waiting) \ R,
         NEW d \in Days, NEW r \in Replicas,
         \A e \in Days : e # d => ledger'[e].deleted = ledger[e].deleted,
         \A q \in Replicas : q # r => replica'[q] = replica[q],
         unrecorded' + ledger'[d].deleted + (replica'[r].deleted + replica'[r].removed)
           = unrecorded + ledger[d].deleted + (replica[r].deleted + replica[r].removed)
               + Cardinality(R)
  PROVE  Account'
<1>1. /\ \A e \in Days : ledger[e].deleted \in Nat /\ ledger'[e].deleted \in Nat
      /\ \A q \in Replicas : /\ replica[q].deleted + replica[q].removed \in Nat
                             /\ replica'[q].deleted + replica'[q].removed \in Nat
      /\ unrecorded \in Nat /\ unrecorded' \in Nat /\ IsFiniteSet(Days) /\ IsFiniteSet(Replicas)
  <2>1. /\ \A e \in Days : ledger'[e].deleted \in Nat
        /\ \A q \in Replicas : replica'[q].deleted \in Nat /\ replica'[q].removed \in Nat
        /\ unrecorded' \in Nat
    BY DEF TypeOK, Run, Replica
  <2> QED
    BY <2>1, CounterTypes
<1>2. PICK f, g : f = OfWindow /\ g = OfWindow'
  OBVIOUS
<1>a. /\ \A e \in Days : f[e] = ledger[e].deleted /\ g[e] = ledger'[e].deleted
  BY <1>2 DEF OfWindow
<1>3. /\ Total(f, Days) \in Nat /\ Total(g, Days) \in Nat
      /\ Total(g, Days) + f[d] = Total(f, Days) + g[d]
  <2>1. /\ \A y \in Days : f[y] \in Nat /\ g[y] \in Nat
        /\ \A y \in Days : y # d => f[y] = g[y]
    BY <1>1, <1>a
  <2>2. IsFiniteSet(Days) /\ d \in Days
    BY <1>1
  <2>3. /\ Total(f, Days) \in Nat /\ Total(g, Days) \in Nat
        /\ d \notin Days => Total(g, Days) = Total(f, Days)
        /\ d \in Days => Total(g, Days) + f[d] = Total(f, Days) + g[d]
    BY <2>1, <2>2, SumChanges
  <2> QED
    BY <2>2, <2>3
<1>4. PICK h, i : h = OfCycle /\ i = OfCycle'
  OBVIOUS
<1>b. \A q \in Replicas : /\ h[q] = replica[q].deleted + replica[q].removed
                          /\ i[q] = replica'[q].deleted + replica'[q].removed
  BY <1>4 DEF OfCycle
<1>5. /\ Total(h, Replicas) \in Nat /\ Total(i, Replicas) \in Nat
      /\ Total(i, Replicas) + h[r] = Total(h, Replicas) + i[r]
  <2>1. \A y \in Replicas : h[y] \in Nat /\ i[y] \in Nat
    BY <1>1, <1>b
  <2>2. ASSUME NEW y \in Replicas, y # r PROVE h[y] = i[y]
    <3>1. replica'[y] = replica[y]
      BY <2>2
    <3> QED
      BY <1>b, <3>1
  <2>3. /\ \A y \in Replicas : h[y] \in Nat /\ i[y] \in Nat
        /\ \A y \in Replicas : y # r => h[y] = i[y]
    BY <2>1, <2>2
  <2>4. IsFiniteSet(Replicas) /\ r \in Replicas
    BY <1>1
  <2>5. /\ Total(h, Replicas) \in Nat /\ Total(i, Replicas) \in Nat
        /\ r \notin Replicas => Total(i, Replicas) = Total(h, Replicas)
        /\ r \in Replicas => Total(i, Replicas) + h[r] = Total(h, Replicas) + i[r]
    BY <2>3, <2>4, SumChanges
  <2> QED
    BY <2>4, <2>5
<1>6. PICK a, b \in Nat :
        /\ a = Cardinality(Backlog[kind] \ (due \cup waiting))
        /\ b = Cardinality(Backlog[kind'] \ (due' \cup waiting'))
        /\ b = a + Cardinality(R) /\ Cardinality(R) \in Nat
  <2>1. /\ Cardinality(Backlog[kind'] \ (due' \cup waiting'))
             = Cardinality(Backlog[kind] \ (due \cup waiting)) + Cardinality(R)
        /\ Cardinality(Backlog[kind] \ (due \cup waiting)) \in Nat /\ Cardinality(R) \in Nat
    BY GoneGrows
  <2>2. Cardinality(Backlog[kind'] \ (due' \cup waiting')) \in Nat
    BY <2>1
  <2> QED
    BY <2>1, <2>2, Zenon
<1>7. a = unrecorded + (Total(f, Days) + Total(h, Replicas))
  BY <1>2, <1>4, <1>6 DEF Account
<1>8. /\ unrecorded' + g[d] + i[r] = unrecorded + f[d] + h[r] + Cardinality(R)
      /\ f[d] \in Nat /\ g[d] \in Nat /\ h[r] \in Nat /\ i[r] \in Nat
  BY <1>1, <1>a, <1>b
<1>9. b = unrecorded' + (Total(g, Days) + Total(i, Replicas))
  <2>1. PICK u \in Nat, v \in Nat, c \in Nat :
          u = unrecorded /\ v = unrecorded' /\ c = Cardinality(R)
    BY <1>1, <1>6
  <2>2. PICK F \in Nat, G \in Nat, H \in Nat, I \in Nat :
          /\ F = Total(f, Days) /\ G = Total(g, Days)
          /\ H = Total(h, Replicas) /\ I = Total(i, Replicas)
    BY <1>3, <1>5
  <2>3. /\ G + f[d] = F + g[d] /\ I + h[r] = H + i[r]
        /\ v + g[d] + i[r] = u + f[d] + h[r] + c
        /\ a = u + F + H /\ b = a + c
    BY <1>3, <1>5, <1>6, <1>7, <1>8, <2>1, <2>2
  <2>4. b = v + (G + I)
    BY <1>8, <2>3
  <2> QED
    BY <2>1, <2>2, <2>4
<1> QED
  BY <1>2, <1>4, <1>6, <1>9 DEF Account

\* So does one that deletes and counts nothing.
LEMMA SameCounts ==
  ASSUME Account, kind' = kind,
         due' \cup waiting' = due \cup waiting, unrecorded' = unrecorded,
         \A e \in Days : ledger'[e].deleted = ledger[e].deleted,
         replica' = replica
  PROVE  Account'
<1>1. OfWindow' = OfWindow /\ OfCycle' = OfCycle
  BY DEF OfWindow, OfCycle
<1> QED
  BY <1>1 DEF Account

\* A call that ends, or a cycle that keeps what it has, leaves the leases of the others.
LEMMA CallsStayApart ==
  ASSUME TypeOK, CallsApart, NEW r \in Replicas, NEW new \in Replica,
         replica' = [replica EXCEPT ![r] = new], kind' = kind, faults' = 0 => faults = 0,
         \/ new.ids = {} /\ new.pc # "delete" /\ waiting \ replica[r].ids \subseteq waiting'
         \/ new.ids = replica[r].ids /\ new.pc # "delete" /\ waiting \subseteq waiting'
  PROVE  CallsApart'
<1> SUFFICES ASSUME kind = "drain", faults = 0, NEW s \in Replicas
             PROVE  /\ replica'[s].ids \subseteq waiting'
                    /\ replica'[s].pc = "delete" => \E i : replica'[s].ids = {i}
                    /\ \A q \in Replicas \ {s} : replica'[q].ids \cap replica'[s].ids = {}
  BY DEF CallsApart
<1>1. \A q \in Replicas : replica'[q] = IF q = r THEN new ELSE replica[q]
  BY DEF TypeOK
<1>2. \A q \in Replicas : /\ replica[q].ids \subseteq waiting
                          /\ replica[q].pc = "delete" => \E i : replica[q].ids = {i}
                          /\ \A p \in Replicas \ {q} : replica[p].ids \cap replica[q].ids = {}
  BY DEF CallsApart
<1>3. new.ids \subseteq replica[r].ids /\ new.pc # "delete" /\ new.ids \subseteq waiting'
  BY <1>2
<1>4. CASE s = r
  <2>1. ASSUME NEW q \in Replicas \ {s} PROVE replica'[q].ids \cap replica'[s].ids = {}
    <3>1. replica'[q] = replica[q] /\ replica'[s] = new /\ replica[q].ids \cap replica[r].ids = {}
      BY <1>1, <1>2, <1>4
    <3> QED
      BY <1>3, <3>1
  <2> QED
    BY <1>1, <1>3, <1>4, <2>1
<1>5. CASE s # r
  <2>1. replica'[s] = replica[s] /\ replica[s].ids \cap replica[r].ids = {}
    BY <1>1, <1>2, <1>5
  <2>2. replica[s].ids \subseteq waiting'
    BY <1>2, <2>1
  <2>3. ASSUME NEW q \in Replicas \ {s} PROVE replica'[q].ids \cap replica'[s].ids = {}
    <3>1. replica'[q].ids \subseteq replica[q].ids
      BY <1>1, <1>3
    <3>2. replica[q].ids \cap replica[s].ids = {}
      BY <1>2
    <3> QED
      BY <2>1, <3>1, <3>2
  <2> QED
    BY <1>2, <2>1, <2>2, <2>3
<1> QED
  BY <1>4, <1>5

\* A step of one cycle that counts what it deletes keeps the counts.
LEMMA StepCounts ==
  ASSUME TypeOK, TypeOK', CountInv, NEW r \in Replicas, NEW new \in Replica, NEW d \in Days,
         replica' = [replica EXCEPT ![r] = new], kind' = kind, faults' = 0 => faults = 0,
         \A e \in Days : e # d => ledger'[e].deleted = ledger[e].deleted,
         \A e \in Days : ledger'[e].status = "NONE" => ledger'[e].deleted = 0,
         Fresh(new), NEW R \in SUBSET (due \cup waiting),
         due' \cup waiting' = (due \cup waiting) \ R, RowsApart', CallsApart',
         kind # "drain" /\ faults' = 0 => unrecorded' = 0,
         kind # "drain" \/ faults' = 0 =>
           unrecorded' + ledger'[d].deleted + (new.deleted + new.removed)
             = unrecorded + ledger[d].deleted + (replica[r].deleted + replica[r].removed)
                 + Cardinality(R)
  PROVE  CountInv'
<1>1. replica'[r] = new /\ \A q \in Replicas : q # r => replica'[q] = replica[q]
  BY DEF TypeOK
<1>2. FreshCounters'
  <2>1. \A c : Fresh(c)' <=> Fresh(c)
    BY DEF Fresh
  <2>2. ASSUME NEW q \in Replicas PROVE Fresh(replica'[q])
    <3>1. Fresh(replica[q])
      BY DEF CountInv, FreshCounters
    <3> QED
      BY <1>1, <3>1
  <2>3. \A q \in Replicas :
          /\ replica'[q].pc \in {"idle", "claim"} => replica'[q].deleted = 0
          /\ replica'[q].pc \in {"idle", "claim", "record"} \/ kind' # "drain"
               => replica'[q].removed = 0
    BY <2>2 DEF Fresh
  <2> QED
    BY <2>3 DEF FreshCounters, Fresh
<1>3. ASSUME kind' # "drain" \/ faults' = 0 PROVE Account'
  <2>1. Account
    BY <1>3 DEF CountInv, Counts
  <2>2. unrecorded' + ledger'[d].deleted + (replica'[r].deleted + replica'[r].removed)
          = unrecorded + ledger[d].deleted + (replica[r].deleted + replica[r].removed)
              + Cardinality(R)
    BY <1>1, <1>3
  <2>3. RowsApart
    BY DEF CountInv
  <2> QED
    BY <1>1, <2>1, <2>2, <2>3, Balance
<1>4. Counts'
  BY <1>3 DEF Counts
<1> QED
  BY <1>2, <1>4 DEF CountInv

\* The same for a step that leaves the ledger alone.
LEMMA CycleCounts ==
  ASSUME TypeOK, TypeOK', CountInv, NEW r \in Replicas, NEW new \in Replica,
         replica' = [replica EXCEPT ![r] = new], UNCHANGED kind, faults' = 0 => faults = 0,
         \A e \in Days : /\ ledger'[e].deleted = ledger[e].deleted
                         /\ ledger'[e].status = "NONE" => ledger[e].status = "NONE",
         Fresh(new), NEW R \in SUBSET (due \cup waiting),
         due' \cup waiting' = (due \cup waiting) \ R, RowsApart', CallsApart',
         kind # "drain" /\ faults' = 0 => unrecorded' = 0,
         kind # "drain" \/ faults' = 0 =>
           unrecorded' + (new.deleted + new.removed)
             = unrecorded + (replica[r].deleted + replica[r].removed) + Cardinality(R)
  PROVE  CountInv'
<1>1. PICK d \in Days : d = 1
  BY CounterTypes
<1>2. /\ ledger'[d].deleted = ledger[d].deleted /\ ledger[d].deleted \in Nat
      /\ unrecorded \in Nat /\ unrecorded' \in Nat
      /\ replica[r].deleted + replica[r].removed \in Nat /\ new.deleted + new.removed \in Nat
      /\ Cardinality(R) \in Nat
  <2>1. R \in SUBSET Rows
    BY DEF TypeOK
  <2>2. unrecorded' \in Nat /\ new.deleted + new.removed \in Nat
    BY DEF TypeOK, Replica
  <2> QED
    BY <2>1, <2>2, CounterTypes, RowsFinite
<1>3. kind # "drain" \/ faults' = 0 =>
        unrecorded' + ledger'[d].deleted + (new.deleted + new.removed)
          = unrecorded + ledger[d].deleted + (replica[r].deleted + replica[r].removed)
              + Cardinality(R)
  BY <1>2
<1>4. \A e \in Days : ledger'[e].status = "NONE" => ledger'[e].deleted = 0
  BY DEF CountInv, FreshCounters
<1>5. \A e \in Days : e # d => ledger'[e].deleted = ledger[e].deleted
  OBVIOUS
<1> QED
  BY <1>3, <1>4, <1>5, StepCounts

\* The end of a batch counts what the batch deleted, that of storage tasks what its calls
\* have counted.
LEMMA BatchCounted ==
  ASSUME TypeOK, TypeOK', CountInv, NEW r \in Replicas, NEW n \in Nat, NEW o \in Nat,
         NEW more \in BOOLEAN, NEW cut \in BOOLEAN, NEW refused \in BOOLEAN,
         BatchEnds(r, n, o, more, cut, refused),
         UNCHANGED <<kind, ledger, waiting, unrecorded, faults>>, NEW R \in SUBSET due,
         due' = due \ R, replica[r].removed + Cardinality(R) = n
  PROVE  CountInv'
<1>1. PICK new \in Replica :
        /\ BatchLeaves(r, n, new)
        /\ new.pc = "record" /\ new.code = "none" => ~more /\ ~cut /\ ~refused
  BY BatchEndsWell
<1>2. RowsApart /\ CallsApart /\ Counts
  BY DEF CountInv
<1>3. CallsApart'
  BY <1>1, <1>2, CallsStayApart DEF BatchLeaves
<1>4. Fresh(new)
  BY <1>1 DEF Fresh, BatchLeaves
<1>5. /\ R \in SUBSET (due \cup waiting) /\ RowsApart'
      /\ due' \cup waiting' = (due \cup waiting) \ R
  BY <1>2 DEF RowsApart
<1>6. R \in SUBSET Rows
  BY DEF TypeOK
<1>7. /\ Cardinality(R) \in Nat /\ replica[r].deleted \in Nat /\ replica[r].removed \in Nat
      /\ unrecorded \in Nat
  BY <1>6, RowsFinite, CounterTypes
<1>8. unrecorded' + (new.deleted + new.removed)
        = unrecorded + (replica[r].deleted + replica[r].removed) + Cardinality(R)
  BY <1>1, <1>7 DEF BatchLeaves
<1>9. kind # "drain" /\ faults' = 0 => unrecorded' = 0
  BY <1>2 DEF Counts
<1>10. UNCHANGED kind /\ (faults' = 0 => faults = 0)
       /\ \A e \in Days : /\ ledger'[e].deleted = ledger[e].deleted
                          /\ ledger'[e].status = "NONE" => ledger[e].status = "NONE"
  OBVIOUS
<1> QED
  BY <1>1, <1>3, <1>4, <1>5, <1>8, <1>9, <1>10, CycleCounts DEF BatchLeaves

\* The batches.
LEMMA BatchCounts ==
  ASSUME TypeOK, TypeOK', CountInv, NEW r \in Replicas, Batch(r)
  PROVE  CountInv'
<1> DEFINE ids == replica[r].ids
<1>0. /\ RowsApart /\ CallsApart /\ Counts /\ Fresh(replica[r])
      /\ replica \in [Replicas -> Replica] /\ replica[r] \in Replica
      /\ replica[r].removed \in Nat /\ replica[r].deleted \in Nat /\ unrecorded \in Nat
  BY CounterTypes DEF CountInv, FreshCounters, TypeOK
<1>1. Oldest \in SUBSET due
  BY DEF Oldest
<1>2. \A R \in SUBSET due : Cardinality(R) \in Nat
  <2>1. \A R \in SUBSET due : R \in SUBSET Rows
    BY DEF TypeOK
  <2> QED
    BY <2>1, RowsFinite
<1>3. kind # "drain" => replica[r].removed = 0
  BY <1>0 DEF Fresh
<1>4. \A T : Full(T) \in BOOLEAN
  BY DEF Full
\* A batch of anything but storage tasks that deletes R.
<1>5. ASSUME kind # "drain", NEW R \in SUBSET due, NEW o \in Nat, NEW more \in BOOLEAN,
             NEW cut \in BOOLEAN, NEW refused \in BOOLEAN, due' = due \ R,
             BatchEnds(r, Cardinality(R), o, more, cut, refused),
             UNCHANGED <<kind, ledger, waiting, unrecorded, faults>>
      PROVE  CountInv'
  <2>1. PICK n \in Nat : n = Cardinality(R)
    BY <1>2, <1>5
  <2>2. BatchEnds(r, n, o, more, cut, refused) /\ n = replica[r].removed + Cardinality(R)
    BY <1>3, <1>5, <2>1
  <2> QED
    BY <1>5, <2>1, <2>2, BatchCounted
<1>6. CASE Purge(r)
  <2>1. /\ due' = due \ Oldest /\ kind # "drain"
        /\ BatchEnds(r, Cardinality(Oldest), 0, Full(Oldest), FALSE, FALSE)
        /\ UNCHANGED <<kind, ledger, waiting, unrecorded, faults>>
    BY <1>6 DEF Purge
  <2> HIDE DEF Full
  <2> QED
    BY <1>1, <1>4, <1>5, <2>1
<1>7. CASE SelectBatch(r)
  <2>1. UNCHANGED <<kind, ledger, due, waiting, unrecorded, faults>> /\ kind # "drain"
    BY <1>7 DEF SelectBatch
  <2>2. ASSUME NEW more \in BOOLEAN, NEW cut \in BOOLEAN, BatchEnds(r, 0, 0, more, cut, FALSE)
        PROVE  CountInv'
    <3>1. PICK R \in SUBSET due : R = {}
      OBVIOUS
    <3>2. Cardinality(R) = 0 /\ due' = due \ R
      BY <2>1, <3>1, FS_EmptySet
    <3>3. BatchEnds(r, Cardinality(R), 0, more, cut, FALSE)
      BY <2>2, <3>2
    <3>4. UNCHANGED <<kind, ledger, waiting, unrecorded, faults>>
      BY <2>1
    <3>5. PICK o \in Nat, refused \in BOOLEAN : o = 0 /\ refused = FALSE
      OBVIOUS
    <3>6. BatchEnds(r, Cardinality(R), o, more, cut, refused)
      BY <3>3, <3>5
    <3> QED
      BY <1>5, <2>1, <3>2, <3>4, <3>6
  <2>3. CASE replica' = [replica EXCEPT ![r].pc = "delete", ![r].ids = Oldest]
    <3> DEFINE n == [replica[r] EXCEPT !.pc = "delete", !.ids = Oldest]
    <3>1. replica' = [replica EXCEPT ![r] = n]
      BY <1>0, <2>3
    <3>2. /\ n \in Replica /\ n.pc = "delete" /\ n.deleted = replica[r].deleted
          /\ n.removed = replica[r].removed
      <4>1. Oldest \subseteq Rows
        BY <1>1 DEF TypeOK
      <4> QED
        BY <1>0, <4>1 DEF Replica
    <3> HIDE DEF n
    <3>3. Fresh(n)
      BY <1>3, <2>1, <3>2 DEF Fresh
    <3>4. CallsApart' /\ RowsApart' /\ due' \cup waiting' = (due \cup waiting) \ {}
      BY <1>0, <2>1 DEF CallsApart, RowsApart
    <3>5. unrecorded' + (n.deleted + n.removed)
            = unrecorded + (replica[r].deleted + replica[r].removed) + Cardinality({})
      BY <1>0, <2>1, <3>2, FS_EmptySet
    <3>6. /\ UNCHANGED kind /\ (faults' = 0 => faults = 0)
          /\ (kind # "drain" /\ faults' = 0 => unrecorded' = 0)
          /\ {} \in SUBSET (due \cup waiting)
          /\ \A e \in Days : /\ ledger'[e].deleted = ledger[e].deleted
                             /\ ledger'[e].status = "NONE" => ledger[e].status = "NONE"
      BY <1>0, <2>1 DEF Counts
    <3> QED
      BY <3>1, <3>2, <3>3, <3>4, <3>5, <3>6, CycleCounts
  <2> QED
    BY <1>7, <2>2, <2>3, Zenon DEF SelectBatch
<1>8. CASE DeleteChain(r)
  <2>1. /\ due' = due \ ids /\ kind # "drain"
        /\ BatchEnds(r, Cardinality(ids \cap due), 0, Full(ids), FALSE, FALSE)
        /\ UNCHANGED <<kind, ledger, waiting, unrecorded, faults>>
    BY <1>8 DEF DeleteChain
  <2>2. ids \cap due \in SUBSET due /\ due' = due \ (ids \cap due)
    BY <2>1
  <2> HIDE DEF Full
  <2> QED
    BY <1>4, <1>5, <2>1, <2>2
<1>9. CASE DeleteExports(r)
  <2>1. PICK done \in Prefixes(ids), refusals \in SUBSET ids :
          /\ due' = due \ (done \ refusals)
          /\ BatchEnds(r, Cardinality((done \ refusals) \cap due),
                       Cardinality((done \ refusals) \ Keyless),
                       IF done \ refusals = {} THEN refusals # {} ELSE Full(ids),
                       Cut(done, ids), refusals # {})
    <3>1. PICK done \in Prefixes(ids) : \E refusals \in SUBSET (done \ Keyless) :
            LET removable == done \ refusals
            IN  /\ due' = due \ removable
                /\ BatchEnds(r, Cardinality(removable \cap due),
                             Cardinality(removable \ Keyless),
                             IF removable = {} THEN refusals # {} ELSE Full(ids),
                             Cut(done, ids), refusals # {})
      BY <1>9, Zenon DEF DeleteExports
    <3>2. SUBSET (done \ Keyless) \subseteq SUBSET ids
      BY DEF Prefixes
    <3> QED
      BY <3>1, <3>2, Zenon
  <2>2. kind # "drain" /\ UNCHANGED <<kind, ledger, waiting, unrecorded, faults>>
    BY <1>9 DEF DeleteExports
  <2>3. (done \ refusals) \ Keyless \in SUBSET Rows
    BY <1>0 DEF Prefixes, Replica
  <2>4. PICK o \in Nat, more \in BOOLEAN, cut \in BOOLEAN, refused \in BOOLEAN :
          BatchEnds(r, Cardinality((done \ refusals) \cap due), o, more, cut, refused)
    <3>1. Cardinality((done \ refusals) \ Keyless) \in Nat
      BY <2>3, RowsFinite
    <3>2. /\ (IF done \ refusals = {} THEN refusals # {} ELSE Full(ids)) \in BOOLEAN
          /\ Cut(done, ids) \in BOOLEAN /\ (refusals # {}) \in BOOLEAN
      BY <1>4 DEF Cut
    <3> QED
      BY <2>1, <3>1, <3>2
  <2>5. /\ (done \ refusals) \cap due \in SUBSET due
        /\ due' = due \ ((done \ refusals) \cap due)
    BY <2>1
  <2> QED
    BY <1>5, <2>2, <2>4, <2>5
\* Storage tasks: a call that begins, or ends.
<1>10. CASE ClaimTask(r)
  <2>1. UNCHANGED <<kind, ledger, unrecorded, faults>> /\ kind = "drain"
    BY <1>10 DEF ClaimTask
  <2>2. ASSUME UNCHANGED <<due, waiting>>, NEW more \in BOOLEAN, NEW cut \in BOOLEAN,
               BatchEnds(r, replica[r].removed, 0, more, cut, FALSE)
        PROVE  CountInv'
    <3>1. PICK R \in SUBSET due : R = {}
      OBVIOUS
    <3>2. PICK n \in Nat : n = replica[r].removed
      BY <1>0
    <3>3. Cardinality(R) = 0 /\ due' = due \ R
      BY <2>2, <3>1, FS_EmptySet
    <3>4. n = replica[r].removed + Cardinality(R)
      BY <3>2, <3>3
    <3>5. PICK o \in Nat, refused \in BOOLEAN : o = 0 /\ refused = FALSE
      OBVIOUS
    <3>6. BatchEnds(r, n, o, more, cut, refused)
      BY <2>2, <3>2, <3>5
    <3>7. UNCHANGED <<kind, ledger, waiting, unrecorded, faults>>
      BY <2>1, <2>2
    <3> QED
      BY <3>3, <3>4, <3>6, <3>7, BatchCounted
  <2>3. ASSUME NEW i \in due, due' = due \ {i}, waiting' = waiting \cup {i},
               replica' = [replica EXCEPT ![r] =
                 [replica[r] EXCEPT !.pc = "delete", !.ids = {i}, !.calls = @ + 1]]
        PROVE  CountInv'
    <3> DEFINE k == replica[r].calls + 1
               n == [replica[r] EXCEPT !.pc = "delete", !.ids = {i}, !.calls = k]
    <3>1. replica' = [replica EXCEPT ![r] = n]
      BY <1>0, <2>3 DEF Replica
    <3>2. k \in Nat /\ {i} \subseteq Rows
      BY <1>0 DEF Replica, TypeOK
    <3> HIDE DEF k
    <3>3. /\ n \in Replica /\ n.pc = "delete" /\ n.ids = {i}
          /\ n.deleted = replica[r].deleted /\ n.removed = replica[r].removed
      BY <1>0, <3>2 DEF Replica
    <3> HIDE DEF n
    <3>4. Fresh(n)
      BY <2>1, <3>3 DEF Fresh
    <3>5. RowsApart' /\ due' \cup waiting' = (due \cup waiting) \ {}
      BY <1>0, <2>1, <2>3 DEF RowsApart
    <3>6. CallsApart'
      <4> SUFFICES ASSUME kind = "drain", faults = 0, NEW s \in Replicas
                   PROVE  /\ replica'[s].ids \subseteq waiting'
                          /\ replica'[s].pc = "delete" => \E j : replica'[s].ids = {j}
                          /\ \A q \in Replicas \ {s} : replica'[q].ids \cap replica'[s].ids = {}
        BY <2>1 DEF CallsApart
      <4>1. \A q \in Replicas : replica'[q] = IF q = r THEN n ELSE replica[q]
        BY <1>0, <3>1
      <4>2. \A q \in Replicas : /\ replica[q].ids \subseteq waiting
                                /\ replica[q].pc = "delete" => \E j : replica[q].ids = {j}
                                /\ \A p \in Replicas \ {q} :
                                     replica[p].ids \cap replica[q].ids = {}
        BY <1>0 DEF CallsApart
      <4>3. i \notin waiting
        BY <1>0 DEF RowsApart
      <4>4. CASE s = r
        BY <2>3, <3>3, <4>1, <4>2, <4>3, <4>4
      <4>5. CASE s # r
        BY <2>3, <3>3, <4>1, <4>2, <4>3, <4>5
      <4> QED
        BY <4>4, <4>5
    <3>7. unrecorded' + (n.deleted + n.removed)
            = unrecorded + (replica[r].deleted + replica[r].removed) + Cardinality({})
      BY <1>0, <2>1, <3>3, FS_EmptySet
    <3>8. /\ (faults' = 0 => faults = 0) /\ {} \in SUBSET (due \cup waiting)
          /\ (kind # "drain" /\ faults' = 0 => unrecorded' = 0)
          /\ \A e \in Days : /\ ledger'[e].deleted = ledger[e].deleted
                             /\ ledger'[e].status = "NONE" => ledger[e].status = "NONE"
      BY <2>1
    <3> QED
      BY <2>1, <3>1, <3>3, <3>4, <3>5, <3>6, <3>7, <3>8, CycleCounts
  <2> QED
    BY <1>10, <2>2, <2>3, Zenon DEF ClaimTask
<1>11. CASE DeleteTask(r)
  <2>1. /\ UNCHANGED <<kind, ledger, unrecorded, faults>> /\ kind = "drain"
        /\ replica[r].pc = "delete" /\ due' = due \ ids
    BY <1>11 DEF DeleteTask
  <2>2. ASSUME NEW n \in {0, 1}, NEW code \in Codes, CallEnds(r, n, code),
               NEW R \in SUBSET (due \cup waiting), due' \cup waiting' = (due \cup waiting) \ R,
               RowsApart', waiting \ ids \subseteq waiting',
               faults = 0 => Cardinality(R) = n
        PROVE  CountInv'
    <3>1. PICK new \in Replica :
            /\ replica' = [replica EXCEPT ![r] = new] /\ new.pc = "batch" /\ new.ids = {}
            /\ new.deleted = replica[r].deleted /\ new.removed = replica[r].removed + n
      BY <2>2, CallEndsWell
    <3>2. CallsApart'
      BY <1>0, <2>1, <2>2, <3>1, CallsStayApart
    <3>3. Fresh(new)
      BY <2>1, <3>1 DEF Fresh
    <3>4. kind # "drain" \/ faults' = 0 =>
            unrecorded' + (new.deleted + new.removed)
              = unrecorded + (replica[r].deleted + replica[r].removed) + Cardinality(R)
      <4> SUFFICES ASSUME faults = 0
                   PROVE  unrecorded' + (new.deleted + new.removed)
                            = unrecorded + (replica[r].deleted + replica[r].removed)
                                + Cardinality(R)
        BY <2>1
      <4> QED
        BY <1>0, <2>1, <2>2, <3>1
    <3>5. /\ (faults' = 0 => faults = 0)
          /\ (kind # "drain" /\ faults' = 0 => unrecorded' = 0)
          /\ \A e \in Days : /\ ledger'[e].deleted = ledger[e].deleted
                             /\ ledger'[e].status = "NONE" => ledger[e].status = "NONE"
      BY <2>1
    <3> QED
      BY <2>1, <2>2, <3>1, <3>2, <3>3, <3>4, <3>5, CycleCounts
  <2>3. CASE waiting' = waiting \ ids /\ CallEnds(r, 1, replica[r].code)
    <3>1. PICK n, code : n = 1 /\ code = replica[r].code
      OBVIOUS
    <3>2. n \in {0, 1} /\ code \in Codes /\ CallEnds(r, n, code)
      BY <1>0, <2>3, <3>1 DEF Replica
    <3>3. PICK R : R = ids \cap (due \cup waiting)
      OBVIOUS
    <3>4. /\ R \in SUBSET (due \cup waiting) /\ due' \cup waiting' = (due \cup waiting) \ R
          /\ RowsApart' /\ waiting \ ids \subseteq waiting'
      BY <1>0, <2>1, <2>3, <3>3 DEF RowsApart
    <3>5. faults = 0 => Cardinality(R) = n
      <4> SUFFICES ASSUME faults = 0 PROVE Cardinality(R) = 1
        BY <3>1
      <4>1. ids \subseteq waiting /\ \E i : ids = {i}
        BY <1>0, <2>1 DEF CallsApart
      <4>2. \E i : R = {i}
        BY <3>3, <4>1
      <4> QED
        BY <4>2, FS_Singleton
    <3> QED
      BY <2>2, <3>2, <3>4, <3>5
  <2>4. CASE waiting' = waiting \cup (ids \cap due) /\ CallEnds(r, 0, "continuation")
    <3>1. PICK n, code : n = 0 /\ code = "continuation"
      OBVIOUS
    <3>2. n \in {0, 1} /\ code \in Codes /\ CallEnds(r, n, code)
      BY <2>4, <3>1 DEF Codes
    <3>3. PICK R : R = {}
      OBVIOUS
    <3>4. /\ R \in SUBSET (due \cup waiting) /\ due' \cup waiting' = (due \cup waiting) \ R
          /\ RowsApart' /\ waiting \ ids \subseteq waiting'
      BY <1>0, <2>1, <2>4, <3>3 DEF RowsApart
    <3>5. faults = 0 => Cardinality(R) = n
      BY <3>1, <3>3, FS_EmptySet
    <3> QED
      BY <2>2, <3>2, <3>4, <3>5
  <2> QED
    BY <1>11, <2>3, <2>4, Zenon DEF DeleteTask
<1> QED
  BY <1>6, <1>7, <1>8, <1>9, <1>10, <1>11 DEF Batch

\* A batch that throws, or loses an answer: what was deleted is accounted for in the log.
LEMMA FailureCounts ==
  ASSUME IInv, TypeOK', CountInv, NEW r \in Replicas, BatchFails(r) \/ LostAnswer(r)
  PROVE  CountInv'
<1>0. /\ TypeOK /\ RowsApart /\ CallsApart /\ Counts /\ Fresh(replica[r]) /\ WorkIsDone
      /\ replica[r].removed \in Nat /\ replica[r].deleted \in Nat /\ unrecorded \in Nat
      /\ faults \in 0..MaxFaults
  BY CounterTypes DEF CountInv, FreshCounters, IInv, TypeOK
<1>1. /\ UNCHANGED <<day, kind, ledger>>
      /\ \A e \in Days : /\ ledger'[e].deleted = ledger[e].deleted
                         /\ ledger'[e].status = "NONE" => ledger[e].status = "NONE"
  BY DEF BatchFails, LostAnswer
<1>2. kind # "drain" => replica[r].removed = 0 /\ waiting = {}
  BY <1>0 DEF Fresh, WorkIsDone
<1>3. CASE BatchFails(r)
  <2>1. /\ UNCHANGED <<due, waiting, faults>> /\ Throws(r)
        /\ unrecorded' = unrecorded + replica[r].removed
    BY <1>3 DEF BatchFails
  <2>2. PICK new \in Replica :
          /\ replica' = [replica EXCEPT ![r] = new]
          /\ new.pc = "record" /\ new.code = "failure" /\ new.ids = {}
          /\ new.day = replica[r].day /\ new.token = replica[r].token
          /\ new.deleted = replica[r].deleted /\ new.removed = 0
    BY <1>0, <2>1, ThrowsWell
  <2>3. CallsApart'
    BY <1>0, <1>1, <2>1, <2>2, CallsStayApart
  <2>4. Fresh(new)
    BY <2>2 DEF Fresh
  <2>5. RowsApart' /\ due' \cup waiting' = (due \cup waiting) \ {}
    BY <1>0, <1>1, <2>1 DEF RowsApart
  <2>6. kind # "drain" /\ faults' = 0 => unrecorded' = 0
    BY <1>0, <1>2, <2>1 DEF Counts
  <2>7. unrecorded' + (new.deleted + new.removed)
          = unrecorded + (replica[r].deleted + replica[r].removed) + Cardinality({})
    BY <1>0, <2>1, <2>2, FS_EmptySet
  <2>8. (faults' = 0 => faults = 0) /\ {} \in SUBSET (due \cup waiting) /\ UNCHANGED kind
    BY <1>1, <2>1
  <2> QED
    BY <1>0, <1>1, <2>2, <2>3, <2>4, <2>5, <2>6, <2>7, <2>8, CycleCounts
<1>4. CASE LostAnswer(r)
  <2>0. faults' = faults + 1
    BY <1>4 DEF LostAnswer, Fault
  <2>1. faults' # 0 /\ (faults' = 0 => faults = 0)
    BY <1>0, <2>0
  <2>2. PICK gone : /\ due' = due \ gone /\ waiting' = waiting \ gone
                    /\ unrecorded' = unrecorded + Cardinality(gone \cap (due \cup waiting))
    BY <1>4, Zenon DEF LostAnswer
  <2>3. PICK R : R = gone \cap (due \cup waiting)
    OBVIOUS
  <2>4. /\ R \in SUBSET (due \cup waiting) /\ RowsApart'
        /\ due' \cup waiting' = (due \cup waiting) \ R
    BY <1>0, <1>1, <2>2, <2>3 DEF RowsApart
  <2>5. CallsApart'
    BY <2>1 DEF CallsApart
  <2>6. CASE kind = "drain"
    <3>1. PICK n, code : n = 0 /\ code = "continuation"
      OBVIOUS
    <3>2. n \in {0, 1} /\ code \in Codes /\ CallEnds(r, n, code)
      BY <1>4, <2>6, <3>1 DEF LostAnswer, Codes
    <3>3. PICK new \in Replica :
            /\ replica' = [replica EXCEPT ![r] = new]
            /\ new.pc = "batch" /\ new.ids = {}
            /\ new.day = replica[r].day /\ new.token = replica[r].token
            /\ new.deleted = replica[r].deleted /\ new.removed = replica[r].removed + n
      BY <1>0, <3>2, CallEndsWell
    <3>4. Fresh(new)
      BY <2>6, <3>3 DEF Fresh
    <3> QED
      BY <1>0, <1>1, <2>1, <2>4, <2>5, <2>6, <3>3, <3>4, CycleCounts
  <2>7. CASE kind # "drain"
    <3>1. Throws(r)
      BY <1>4, <2>7 DEF LostAnswer
    <3>2. PICK new \in Replica :
            /\ replica' = [replica EXCEPT ![r] = new]
            /\ new.pc = "record" /\ new.code = "failure" /\ new.ids = {}
            /\ new.day = replica[r].day /\ new.token = replica[r].token
            /\ new.deleted = replica[r].deleted /\ new.removed = 0
      BY <1>0, <3>1, ThrowsWell
    <3>3. Fresh(new)
      BY <3>2 DEF Fresh
    <3>4. R \in SUBSET Rows
      BY <1>0, <2>4 DEF TypeOK
    <3>5. unrecorded' + (new.deleted + new.removed)
            = unrecorded + (replica[r].deleted + replica[r].removed) + Cardinality(R)
      <4>1. Cardinality(R) \in Nat
        BY <3>4, RowsFinite
      <4> QED
        BY <1>0, <1>2, <2>2, <2>3, <2>7, <3>2, <4>1
    <3> QED
      BY <1>0, <1>1, <2>1, <2>4, <2>5, <3>2, <3>3, <3>5, CycleCounts
  <2> QED
    BY <2>6, <2>7
<1> QED
  BY <1>3, <1>4

\* The election: a window is counted on from where the attempts before left it.
LEMMA ElectionCounts ==
  ASSUME IInv, TypeOK', CountInv, NEW r \in Replicas, Tick(r) \/ Claim(r) \/ ClaimFails(r)
  PROVE  CountInv'
<1>0. /\ TypeOK /\ RowsApart /\ CallsApart /\ Counts /\ Fresh(replica[r])
      /\ Idle \in Replica /\ Idle.pc = "idle" /\ Idle.deleted = 0 /\ Idle.removed = 0
      /\ Idle.ids = {}
      /\ replica[r] \in Replica /\ replica \in [Replicas -> Replica] /\ faults \in 0..MaxFaults
  BY Shapes DEF IInv, TypeOK, CountInv, FreshCounters, Idle
<1>1. UNCHANGED <<kind, due, waiting, unrecorded>>
  BY DEF Tick, Claim, ClaimFails
<1>t. faults' = 0 => faults = 0
  BY <1>0 DEF Tick, Claim, ClaimFails, Fault
<1>d. replica[r].pc \in {"idle", "claim"}
  BY DEF Tick, Claim, ClaimFails
<1>m. replica[r].deleted = 0 /\ replica[r].removed = 0
  BY <1>0, <1>d DEF Fresh
<1>2. \E new \in Replica :
        /\ replica' = [replica EXCEPT ![r] = new] /\ new.deleted = 0 /\ new.removed = 0
        /\ new.pc # "delete" /\ (new.ids = {} \/ new.ids = replica[r].ids)
  <2>1. CASE Tick(r)
    <3> DEFINE n == [Idle EXCEPT !.pc = "claim", !.day = day]
    <3>1. replica' = [replica EXCEPT ![r] = n]
      BY <2>1 DEF Tick
    <3>2. day \in 0..LastDay
      BY <1>0, RetentionAssumption DEF TypeOK, Days
    <3>3. /\ n \in Replica /\ n.pc = "claim" /\ n.deleted = 0 /\ n.removed = 0 /\ n.ids = {}
      BY <1>0, <3>2 DEF Replica
    <3> HIDE DEF n
    <3> QED
      BY <3>1, <3>3
  <2>2. CASE Claim(r) \/ ClaimFails(r)
    <3>1. Ends(r) \/ \E run : Claims(r, run)
      BY <2>2, Zenon DEF Claim, ClaimFails
    <3>2. CASE Ends(r)
      BY <1>0, <3>2 DEF Ends
    <3>3. ASSUME NEW run, Claims(r, run)
          PROVE  \E new \in Replica :
                   /\ replica' = [replica EXCEPT ![r] = new]
                   /\ new.deleted = 0 /\ new.removed = 0
                   /\ new.pc # "delete" /\ (new.ids = {} \/ new.ids = replica[r].ids)
      <4> DEFINE n == [replica[r] EXCEPT !.pc = "batch", !.token = run.token,
                                         !.attempt = run.attempts, !.owed = due]
      <4>1. replica' = [replica EXCEPT ![r] = n]
        BY <1>0, <3>3 DEF Claims
      <4>2. n.deleted = 0 /\ n.removed = 0 /\ n.pc = "batch" /\ n.ids = replica[r].ids
        BY <1>0, <1>m DEF Replica
      <4> HIDE DEF n
      <4>3. n = replica'[r]
        BY <1>0, <4>1
      <4>4. n \in Replica
        BY <4>3 DEF TypeOK
      <4> QED
        BY <4>1, <4>2, <4>4
    <3> QED
      BY <3>1, <3>2, <3>3
  <2> QED
    BY <2>1, <2>2
<1>3. \A d \in Days : /\ ledger'[d].deleted = ledger[d].deleted
                      /\ ledger'[d].status = "NONE" => ledger[d].status = "NONE"
  <2> SUFFICES ASSUME NEW d \in Days
               PROVE  /\ ledger'[d].deleted = ledger[d].deleted
                      /\ ledger'[d].status = "NONE" => ledger[d].status = "NONE"
    OBVIOUS
  <2>0. ledger[d] \in Run /\ ledger \in [Days -> Run]
    BY <1>0 DEF TypeOK
  <2>1. CASE Tick(r)
    <3>1. ledger'[d] = ledger[d]
          \/ ledger'[d] = [ledger[d] EXCEPT !.status = "FAILED", !.token = 0, !.code = "stopped"]
      BY <2>1 DEF Tick, ClosedBefore
    <3> QED
      BY <2>0, <3>1 DEF Run
  <2>2. CASE ClaimFails(r)
    BY <2>2 DEF ClaimFails
  <2>3. CASE Claim(r)
    <3> DEFINE e == replica[r].day
               old == ledger[e]
               took == [old EXCEPT !.token = old.claims + 1, !.claims = @ + 1, !.live = TRUE,
                                   !.attempts = @ + Charge(old), !.progressed = FALSE,
                                   !.code = "none"]
               first == [NoRun EXCEPT !.status = "CLAIMED", !.token = 1, !.live = TRUE,
                                      !.attempts = 1, !.claims = 1]
    <3>1. e \in Days /\ old \in Run
      <4>1. replica[r].pc = "claim"
        BY <2>3 DEF Claim
      <4> QED
        BY <1>0, <4>1 DEF IInv, ClaimsADay, TypeOK
    <3>2. \/ UNCHANGED ledger
          \/ old.status = "NONE" /\ ledger' = [ledger EXCEPT ![e] = first]
          \/ Recoverable(old) /\ ledger' = [ledger EXCEPT ![e] = took]
          \/ ledger' = [ledger EXCEPT ![e] = Abandoned(old)]
      BY <2>3, Zenon DEF Claim, Claims, MyRun
    <3>3. first.deleted = 0 /\ first.status = "CLAIMED"
      BY DEF NoRun
    <3>4. took.deleted = old.deleted /\ took.status = old.status
      <4>1. PICK c, a : c = old.claims + 1 /\ a = old.attempts + Charge(old)
        OBVIOUS
      <4>2. took = [old EXCEPT !.token = c, !.claims = c, !.live = TRUE, !.attempts = a,
                               !.progressed = FALSE, !.code = "none"]
        BY <3>1, <4>1 DEF Run
      <4> QED
        BY <3>1, <4>2 DEF Run
    <3>5. Abandoned(old).deleted = old.deleted /\ Abandoned(old).status = "FAILED"
      BY <3>1 DEF Abandoned, Run
    <3>6. old.status = "NONE" => old.deleted = 0
      BY <3>1 DEF CountInv, FreshCounters
    <3> HIDE DEF first, took, e
    <3>7. CASE d # e
      BY <2>0, <3>1, <3>2, <3>7
    <3>8. CASE d = e
      BY <2>0, <3>1, <3>2, <3>3, <3>4, <3>5, <3>6, <3>8 DEF Recoverable
    <3> QED
      BY <3>7, <3>8
  <2> QED
    BY <2>1, <2>2, <2>3
<1>4. PICK new \in Replica :
        /\ replica' = [replica EXCEPT ![r] = new] /\ new.deleted = 0 /\ new.removed = 0
        /\ new.pc # "delete" /\ (new.ids = {} \/ new.ids = replica[r].ids)
  BY <1>2
<1>5. CallsApart'
  BY <1>0, <1>1, <1>t, <1>4, CallsStayApart
<1>6. Fresh(new)
  BY <1>4 DEF Fresh
<1>7. /\ RowsApart' /\ due' \cup waiting' = (due \cup waiting) \ {}
      /\ {} \in SUBSET (due \cup waiting)
  BY <1>0, <1>1 DEF RowsApart
<1>8. kind # "drain" /\ faults' = 0 => unrecorded' = 0
  BY <1>0, <1>1, <1>t DEF Counts
<1>9. unrecorded' + (new.deleted + new.removed)
        = unrecorded + (replica[r].deleted + replica[r].removed) + Cardinality({})
  <2>1. unrecorded \in Nat
    BY <1>0 DEF TypeOK
  <2> QED
    BY <1>1, <1>m, <1>4, <2>1, FS_EmptySet
<1>10. UNCHANGED kind
  BY <1>1
<1> QED
  BY <1>0, <1>3, <1>4, <1>5, <1>6, <1>7, <1>8, <1>9, <1>10, <1>t, CycleCounts

\* The end of a run: its count moves to the window, or leaves through the log.
LEMMA EndCounts ==
  ASSUME IInv, TypeOK', CountInv, NEW r \in Replicas, Record(r) \/ Crash(r)
  PROVE  CountInv'
<1> DEFINE me == replica[r]
           d == me.day
<1>0. /\ TypeOK /\ RowsApart /\ CallsApart /\ Counts /\ FreshCounters
      /\ Idle \in Replica /\ Idle.pc = "idle" /\ Idle.deleted = 0 /\ Idle.removed = 0
      /\ Idle.ids = {}
      /\ me \in Replica /\ me.deleted \in Nat /\ me.removed \in Nat /\ me.objects \in Nat
      /\ faults \in 0..MaxFaults
  BY Shapes DEF IInv, TypeOK, CountInv, Idle, Replica
<1>1. Working(r) /\ UNCHANGED <<kind, due, waiting>> /\ Ends(r)
  BY DEF Record, Crash, Working
<1>2. d \in Days /\ ledger[d] \in Run /\ ledger[d].status # "NONE"
  BY <1>0, <1>1 DEF IInv, TokensApart, MyRun, TypeOK
<1>3. /\ ledger[d].deleted \in Nat /\ ledger[d].objects \in Nat /\ unrecorded \in Nat
  BY <1>0, <1>2 DEF Run, TypeOK
<1>4. replica' = [replica EXCEPT ![r] = Idle]
  BY <1>1 DEF Ends
<1>5. CallsApart'
  <2>1. faults' = 0 => faults = 0
    BY <1>0 DEF Record, Crash, Fault
  <2> QED
    BY <1>0, <1>1, <1>4, <2>1, CallsStayApart
<1>6. Fresh(Idle)
  BY <1>0 DEF Fresh
<1>7. /\ RowsApart' /\ due' \cup waiting' = (due \cup waiting) \ {}
      /\ {} \in SUBSET (due \cup waiting)
  BY <1>0, <1>1 DEF RowsApart
<1>8. CASE ClaimLost(r) /\ UNCHANGED ledger /\ (Crash(r) \/ ~Mine(r))
  <2>1. faults' # 0 /\ (faults' = 0 => faults = 0)
    <3>1. CASE Crash(r)
      BY <1>0, <3>1 DEF Crash, Fault
    <3>2. CASE Record(r) /\ ~Mine(r)
      <4>1. faults' = faults /\ WorkerHoldsWindow
        BY <3>2 DEF Record, IInv
      <4> QED
        BY <1>1, <3>2, <4>1 DEF WorkerHoldsWindow
    <3> QED
      BY <1>8, <3>1, <3>2
  <2>2. unrecorded' = unrecorded + me.deleted + me.removed
    BY <1>8 DEF ClaimLost
  <2>3. unrecorded' + (Idle.deleted + Idle.removed)
          = unrecorded + (replica[r].deleted + replica[r].removed) + Cardinality({})
    BY <1>0, <1>3, <2>2, FS_EmptySet
  <2>4. \A e \in Days : /\ ledger'[e].deleted = ledger[e].deleted
                        /\ ledger'[e].status = "NONE" => ledger[e].status = "NONE"
    BY <1>8
  <2>5. UNCHANGED kind
    BY <1>1
  <2> QED
    BY <1>0, <1>4, <1>5, <1>6, <1>7, <2>1, <2>3, <2>4, <2>5, CycleCounts
<1>9. CASE /\ UNCHANGED <<unrecorded, faults>> /\ me.pc = "record"
           /\ ledger' = [ledger EXCEPT ![d] = Closed(Counted(ledger[d], me.deleted, me.objects), me)]
  <2> DEFINE c == Counted(ledger[d], me.deleted, me.objects)
             run == Closed(c, me)
  <2>1. c.deleted = ledger[d].deleted + me.deleted /\ c.status = ledger[d].status /\ c \in Run
    <3>1. PICK k \in Nat, l \in Nat :
            k = ledger[d].deleted + me.deleted /\ l = ledger[d].objects + me.objects
      BY <1>0, <1>3
    <3>2. PICK more \in BOOLEAN :
            more = (ledger[d].progressed \/ me.deleted > 0 \/ me.objects > 0)
      OBVIOUS
    <3>3. c = [ledger[d] EXCEPT !.deleted = k, !.objects = l, !.progressed = more]
      BY <1>2, <3>1, <3>2 DEF Counted, Run
    <3> QED
      BY <1>2, <3>1, <3>3 DEF Run
  <2>r. ledger' = [ledger EXCEPT ![d] = run]
    BY <1>9
  <2> HIDE DEF c
  <2>2. PICK left : left = me.owed \cap due
    OBVIOUS
  <2> DEFINE w == [c EXCEPT !.status = "SUCCEEDED", !.token = 0, !.live = FALSE, !.left = left]
             h == [c EXCEPT !.live = FALSE, !.code = me.code]
             x == [c EXCEPT !.status = "FAILED", !.token = 0, !.live = FALSE, !.code = me.code]
  <2>3. run \in {w, h, x}
    BY <2>2 DEF Closed
  <2>4. w.deleted = c.deleted /\ w.status = "SUCCEEDED"
    BY <2>1 DEF Run
  <2>5. h.deleted = c.deleted /\ h.status = c.status
    BY <2>1 DEF Run
  <2>6. x.deleted = c.deleted /\ x.status = "FAILED"
    BY <2>1 DEF Run
  <2> HIDE DEF w, h, x, run
  <2>7. run.deleted = ledger[d].deleted + me.deleted /\ run.status # "NONE"
    BY <1>2, <2>1, <2>3, <2>4, <2>5, <2>6
  <2>8. ledger'[d] = run /\ \A e \in Days : e # d => ledger'[e] = ledger[e]
    <3>1. ledger \in [Days -> Run]
      BY <1>0 DEF TypeOK
    <3> QED
      BY <1>2, <2>r, <3>1
  <2>9. me.removed = 0
    BY <1>0, <1>9 DEF FreshCounters, Fresh
  <2>10. unrecorded' + ledger'[d].deleted + (Idle.deleted + Idle.removed)
           = unrecorded + ledger[d].deleted + (replica[r].deleted + replica[r].removed)
               + Cardinality({})
    BY <1>0, <1>3, <1>9, <2>7, <2>8, <2>9, FS_EmptySet
  <2>11. kind # "drain" /\ faults' = 0 => unrecorded' = 0
    BY <1>0, <1>9 DEF Counts
  <2>12. \A e \in Days : ledger'[e].status = "NONE" => ledger'[e].deleted = 0
    <3> SUFFICES ASSUME NEW e \in Days, ledger'[e].status = "NONE" PROVE ledger'[e].deleted = 0
      OBVIOUS
    <3>1. e # d /\ ledger'[e] = ledger[e]
      BY <2>7, <2>8
    <3> QED
      BY <1>0, <3>1 DEF FreshCounters
  <2>13. \A e \in Days : e # d => ledger'[e].deleted = ledger[e].deleted
    BY <2>8
  <2>14. kind' = kind /\ (faults' = 0 => faults = 0)
    BY <1>1, <1>9
  <2>15. PICK day0 \in Days : day0 = d
    BY <1>2
  <2> QED
    BY <1>0, <1>2, <1>4, <1>5, <1>6, <1>7, <2>10, <2>11, <2>12, <2>13, <2>14, <2>15, StepCounts
<1> QED
  BY <1>0, <1>2, <1>8, <1>9 DEF Record, Crash, TypeOK

\* Time, and a postponed row that is due again, count nothing.
LEMMA TimeCounts ==
  ASSUME IInv, TypeOK', CountInv,
         \/ \E d \in Days : LeaseExpires(d)
         \/ \E i \in Rows : RowDue(i)
         \/ NextDay \/ UNCHANGED vars
  PROVE  CountInv'
<1>0. /\ TypeOK /\ RowsApart /\ CallsApart /\ Counts /\ FreshCounters /\ faults \in 0..MaxFaults
  BY DEF CountInv, IInv, TypeOK
<1>1. UNCHANGED <<kind, replica, unrecorded>>
  BY DEF LeaseExpires, RowDue, NextDay, vars
<1>t. faults' = 0 => faults = 0
  BY <1>0 DEF LeaseExpires, RowDue, NextDay, vars, Fault
<1>2. RowsApart' /\ CallsApart' /\ due' \cup waiting' = due \cup waiting
  <2>1. ASSUME NEW i \in Rows, RowDue(i)
        PROVE  RowsApart' /\ CallsApart' /\ due' \cup waiting' = due \cup waiting
    <3>1. RowsApart' /\ due' \cup waiting' = due \cup waiting
      BY <1>0, <1>1, <2>1 DEF RowDue, RowsApart
    <3>2. ASSUME faults' = 0, NEW q \in Replicas, i \in replica[q].ids PROVE FALSE
      <4>1. faults' = faults + 1
        BY <2>1, <3>2 DEF RowDue, Fault
      <4> QED
        BY <1>0, <3>2, <4>1
    <3>3. waiting' = waiting \ {i}
      BY <2>1 DEF RowDue
    <3>4. CallsApart'
      <4> SUFFICES ASSUME kind = "drain", faults' = 0, NEW q \in Replicas
                   PROVE  /\ replica[q].ids \subseteq waiting'
                          /\ replica[q].pc = "delete" => \E j : replica[q].ids = {j}
                          /\ \A p \in Replicas \ {q} : replica[p].ids \cap replica[q].ids = {}
        BY <1>1 DEF CallsApart
      <4>1. /\ replica[q].ids \subseteq waiting
            /\ replica[q].pc = "delete" => \E j : replica[q].ids = {j}
            /\ \A p \in Replicas \ {q} : replica[p].ids \cap replica[q].ids = {}
        BY <1>0, <1>t DEF CallsApart
      <4>2. i \notin replica[q].ids
        BY <3>2
      <4> QED
        BY <3>3, <4>1, <4>2
    <3> QED
      BY <3>1, <3>4
  <2>2. ASSUME UNCHANGED <<due, waiting>>
        PROVE  RowsApart' /\ CallsApart' /\ due' \cup waiting' = due \cup waiting
    BY <1>0, <1>1, <1>t, <2>2 DEF RowsApart, CallsApart
  <2>3. (\E i \in Rows : RowDue(i)) \/ UNCHANGED <<due, waiting>>
    BY DEF LeaseExpires, NextDay, vars
  <2> QED
    BY <2>1, <2>2, <2>3
<1>3. \A e \in Days : ledger'[e].deleted = ledger[e].deleted /\ ledger'[e].status = ledger[e].status
  <2>1. ASSUME NEW d \in Days, LeaseExpires(d), NEW e \in Days
        PROVE  ledger'[e].deleted = ledger[e].deleted /\ ledger'[e].status = ledger[e].status
    <3>1. ledger[e] \in Run /\ ledger \in [Days -> Run]
      BY <1>0 DEF TypeOK
    <3>2. ledger'[e] = ledger[e] \/ ledger'[e] = [ledger[e] EXCEPT !.live = FALSE]
      BY <2>1, <3>1 DEF LeaseExpires
    <3> QED
      BY <3>1, <3>2 DEF Run
  <2>2. (\E d \in Days : LeaseExpires(d)) \/ UNCHANGED ledger
    BY DEF RowDue, NextDay, vars
  <2> QED
    BY <2>1, <2>2
<1>4. Counts'
  <2>1. Account => Account'
    BY <1>1, <1>2, <1>3, SameCounts
  <2> QED
    BY <1>0, <1>1, <1>t, <2>1 DEF Counts
<1>5. FreshCounters'
  BY <1>0, <1>1, <1>3 DEF FreshCounters, Fresh
<1> QED
  BY <1>2, <1>4, <1>5 DEF CountInv

LEMMA InitCounts == Init => CountInv
<1> SUFFICES ASSUME Init PROVE CountInv
  OBVIOUS
<1>1. /\ Idle.deleted = 0 /\ Idle.removed = 0 /\ Idle.pc = "idle" /\ Idle.ids = {}
      /\ NoRun.deleted = 0 /\ TypeOK
  BY InitIInv DEF Idle, NoRun, IInv
<1>2. /\ \A d \in Days : ledger[d].deleted = 0
      /\ \A r \in Replicas : replica[r] = Idle
  BY <1>1 DEF Init
<1>3. IsFiniteSet(Days) /\ IsFiniteSet(Replicas)
  BY <1>1, CounterTypes
<1>4. PICK f, h : f = OfWindow /\ h = OfCycle
  OBVIOUS
<1>5. Sums(f, Days)[Days] = 0 /\ Sums(h, Replicas)[Replicas] = 0
  <2>1. /\ \A d \in Days : f[d] \in Nat /\ f[d] = 0
        /\ \A r \in Replicas : h[r] \in Nat /\ h[r] = 0
    BY <1>1, <1>2, <1>4 DEF OfWindow, OfCycle
  <2>2. \A T \in SUBSET Days : Sums(f, Days)[T] = 0
    BY <1>3, <2>1, SumType
  <2>3. \A T \in SUBSET Replicas : Sums(h, Replicas)[T] = 0
    BY <1>3, <2>1, SumType
  <2> QED
    BY <2>2, <2>3
<1>6. due = Backlog[kind] /\ waiting = {} /\ unrecorded = 0
  BY DEF Init
<1>7. Backlog[kind] \ (due \cup waiting) = {}
  BY <1>6
<1>8. Account
  BY <1>4, <1>5, <1>6, <1>7, FS_EmptySet DEF Account, Total
<1>9. CallsApart /\ FreshCounters
  BY <1>1, <1>2 DEF CallsApart, FreshCounters, Fresh
<1> QED
  BY <1>6, <1>8, <1>9 DEF CountInv, RowsApart, Counts

LEMMA NextCounts == IInv /\ CountInv /\ [Next]_vars => CountInv'
<1> SUFFICES ASSUME IInv, CountInv, [Next]_vars PROVE CountInv'
  OBVIOUS
<1>1. TypeOK /\ TypeOK'
  BY NextIInv DEF IInv
<1>2. ASSUME NEW r \in Replicas,
             CycleStep(r) \/ ClaimFails(r) \/ BatchFails(r) \/ LostAnswer(r) \/ Crash(r)
      PROVE  CountInv'
  BY <1>1, <1>2, BatchCounts, FailureCounts, ElectionCounts, EndCounts DEF CycleStep
<1> QED
  BY <1>1, <1>2, TimeCounts DEF Next

\* Every deleted row is counted exactly once - in scheduled_runs, in a run under way, or
\* among those a fault left unrecorded - and without a fault every one is on record, for
\* any replicas, days, backlog and batch size: accumulateCounts over takeovers and closings
\* neither loses nor repeats one.  For storage tasks, whose counts drainStorageTasks gives
\* up when a later call throws, no task is counted twice while no call outlives its lease.
THEOREM EveryRowAlwaysCounted == Spec => []EveryRowCounted
<1>1. CountInv => EveryRowCounted
  <2>1. PICK w, c : w = Total(OfWindow, Days) /\ c = Total(OfCycle, Replicas)
    OBVIOUS
  <2>2. CountedRows = w + c
    BY <2>1, TotalIs, Zenon DEF CountedRows
  <2>3. Account => Cardinality(Backlog[kind] \ (due \cup waiting)) = unrecorded + CountedRows
    BY <2>1, <2>2 DEF Account
  <2> QED
    BY <2>2, <2>3 DEF CountInv, Counts, EveryRowCounted
<1> QED
  BY <1>1, InitCounts, NextCounts, Invariance, PTL DEF Spec

=============================================================================
