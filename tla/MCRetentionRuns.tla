--------------------------- MODULE MCRetentionRuns ---------------------------
(* Instances of RetentionRuns for TLC. *)
EXTENDS RetentionRuns, TLC

\* Two rows of everything: two batches, or two cleanup calls of one batch.
MCBacklog == [k \in Kinds |-> {1, 2}]
Symmetry == Permutations(Replicas)
==============================================================================
