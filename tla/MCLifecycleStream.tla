-------------------------- MODULE MCLifecycleStream --------------------------
(* Instances of LifecycleStream for TLC. *)
EXTENDS LifecycleStream, TLC

CONSTANTS b1, p1

OneEach == b1 :> p1
\* A booking is created and its stay changed again and again.
Moves == {<<"null", "PENDING">>, <<"PENDING", "PENDING">>}
=============================================================================
