-------------------------- MODULE MCOutboxDelivery --------------------------
(* Instances of OutboxDelivery for TLC. *)
EXTENDS OutboxDelivery, TLC

Symmetry == Permutations(Tokens) \cup Permutations(Dispatchers) \cup Permutations(Workers)
            \cup Permutations(Events)
=============================================================================
