------------------------------ MODULE ReadModel ------------------------------
(***************************************************************************)
(* What the statistics read model promises about the bookings it mirrors:  *)
(* a row is absent or shows a version the booking has had, it only ever    *)
(* moves to newer versions, and only a rebuild takes it away.  Nothing is  *)
(* said of outboxes, brokers, batches or offsets.                          *)
(***************************************************************************)
EXTENDS Naturals

CONSTANT Bookings

VARIABLES
  newest,     \* booking -> its version, 0 before it exists
  view,       \* booking -> the version the read model shows, 0 for no row
  emptying    \* a rebuild is deleting rows

vars == <<newest, view, emptying>>

Init ==
  /\ newest = [b \in Bookings |-> 0]
  /\ view = [b \in Bookings |-> 0]
  /\ emptying = FALSE

\* A booking transaction commits the next version.
Change(b) ==
  /\ newest' = [newest EXCEPT ![b] = @ + 1]
  /\ UNCHANGED <<view, emptying>>

\* Rows move to versions that have been committed, never backwards.
Refresh ==
  /\ view' \in [Bookings -> UNION {view[b] .. newest[b] : b \in Bookings}]
  /\ \A b \in Bookings : view'[b] \in view[b] .. newest[b]
  /\ UNCHANGED <<newest, emptying>>

StartEmptying == ~emptying /\ emptying' = TRUE /\ UNCHANGED <<newest, view>>

Forget ==
  /\ emptying
  /\ \A b \in Bookings : view'[b] \in {0, view[b]}
  /\ DOMAIN view' = Bookings
  /\ UNCHANGED newest
  /\ emptying' \in BOOLEAN

StopEmptying == emptying /\ emptying' = FALSE /\ UNCHANGED <<newest, view>>

Next == (\E b \in Bookings : Change(b)) \/ Refresh \/ StartEmptying \/ Forget \/ StopEmptying

Spec == Init /\ [][Next]_vars
=============================================================================
