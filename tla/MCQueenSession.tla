---------------------------- MODULE MCQueenSession ----------------------------
(* Instances of QueenSession.                                              *)
EXTENDS QueenSession

\* States that differ only in the phase of a queen that is over and replaced are one.
View == <<workerVars, calls, queenVars, runVars, [q \in Listening |-> phase[q]]>>
=============================================================================
