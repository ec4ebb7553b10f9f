------------------------- MODULE MCExecutionStream -------------------------
(***************************************************************************)
(* Instances of ExecutionStream for TLC.                                   *)
(***************************************************************************)
EXTENDS ExecutionStream, TLC

\* Tasks and sessions are interchangeable; used in runs without liveness.
MCSymmetry == Permutations(Tasks) \cup Permutations(Sessions)
=============================================================================
