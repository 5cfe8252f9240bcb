---------------------------- MODULE MCAttachments ----------------------------
(* Instances of Attachments for TLC. *)
EXTENDS Attachments, TLC

Symmetry == Permutations(Keys) \cup Permutations(Clients) \cup Permutations(Cleaners)
=============================================================================
