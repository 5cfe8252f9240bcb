------------------------------ MODULE MCAccounts ------------------------------
(* Two admins and a newcomer, for TLC. *)
EXTENDS Accounts, TLC

Admin(g, e) == [subject |-> g, email |-> e, role |-> "ADMIN", status |-> "ACTIVE"]

MCSeed == [u \in Users |-> CASE u = 1 -> Admin("g1", "e1")
                             [] u = 2 -> Admin("g2", "e2")
                             [] OTHER -> None]
\* An admin, the newcomer, and an admin whose address became the newcomer's.
MCClaims == {<<"g1", "e1">>, <<"g3", "e3">>, <<"g2", "e3">>}

Symmetry == Permutations(Clients) \cup Permutations(States)
===============================================================================
