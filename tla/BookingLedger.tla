---------------------------- MODULE BookingLedger ----------------------------
(***************************************************************************)
(* What the booking API promises its guests: a ledger whose entries change *)
(* one at a time and at once.  A key makes an entry only while it is free, *)
(* and is free again once it is forgotten; an entry moves along its        *)
(* lifecycle one version at a time, and it becomes, or stays, CONFIRMED    *)
(* only where it fits beside every other CONFIRMED entry.  Nothing is said *)
(* of windows, row locks, transactions or reads made before them.          *)
(***************************************************************************)
EXTENDS Naturals

CONSTANTS Bookings, Rooms, Stays, Keys, None

VARIABLES
  ledger,  \* booking -> its status, room, stay and version
  made     \* idempotency key -> the booking it stands for, or None

vars == <<ledger, made>>

Absent == [status |-> "NONE", room |-> 0, stay |-> <<0, 0>>, version |-> 0]

Init ==
  /\ ledger = [b \in Bookings |-> Absent]
  /\ made = [k \in Keys |-> None]

Apart(s, t) == s[2] <= t[1] \/ t[2] <= s[1]

\* Room r is free of promises to others for the stay s.
Fits(b, r, s) ==
  \A c \in Bookings \ {b} :
    ledger[c].status = "CONFIRMED" /\ ledger[c].room = r => Apart(ledger[c].stay, s)

Make(k, b) ==
  /\ made[k] = None
  /\ ledger[b].status = "NONE"
  /\ \E r \in Rooms, s \in Stays :
       /\ s[1] < s[2]
       /\ ledger' = [ledger EXCEPT ![b] =
            [status |-> "PENDING", room |-> r, stay |-> s, version |-> 1]]
  /\ made' = [made EXCEPT ![k] = b]

Turn(b, to) ==
  /\ ledger' = [ledger EXCEPT ![b].status = to, ![b].version = @ + 1]
  /\ UNCHANGED made

Confirm(b) ==
  /\ ledger[b].status = "PENDING"
  /\ Fits(b, ledger[b].room, ledger[b].stay)
  /\ Turn(b, "CONFIRMED")

Refuse(b) ==
  /\ ledger[b].status = "PENDING"
  /\ \E to \in {"REJECTED", "CANCELLED_BY_USER"} : Turn(b, to)

Cancel(b) ==
  /\ ledger[b].status \in {"PENDING", "CONFIRMED"}
  /\ Turn(b, "CANCELLED_BY_ADMIN")

\* A live entry moves to another room or other dates; a confirmed one only where it fits.
Move(b) ==
  \E r \in Rooms, s \in Stays :
    /\ s[1] < s[2]
    /\ <<r, s>> # <<ledger[b].room, ledger[b].stay>>
    /\ ledger[b].status = "PENDING" \/ (ledger[b].status = "CONFIRMED" /\ Fits(b, r, s))
    /\ ledger' = [ledger EXCEPT ![b].room = r, ![b].stay = s, ![b].version = @ + 1]
    /\ UNCHANGED made

\* The key outlives its retention: it may make another entry, and the first one stays.
Forget(k) ==
  /\ made[k] # None
  /\ made' = [made EXCEPT ![k] = None]
  /\ UNCHANGED ledger

Next ==
  \/ \E k \in Keys : Forget(k)
  \/ \E b \in Bookings :
       \/ \E k \in Keys : Make(k, b)
       \/ Confirm(b) \/ Refuse(b) \/ Cancel(b) \/ Move(b)

Spec == Init /\ [][Next]_vars
=============================================================================
