------------------------- MODULE MCCheckpointStore -------------------------
(***************************************************************************)
(* CheckpointStore with calls and ids that are interchangeable.            *)
(***************************************************************************)
EXTENDS CheckpointStore, TLC

Symmetry == Permutations(Calls) \cup Permutations(Ids)
=============================================================================
