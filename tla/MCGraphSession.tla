--------------------------- MODULE MCGraphSession ---------------------------
(***************************************************************************)
(* Instances of GraphSession for TLC, over the graphs of MCGraph.          *)
(***************************************************************************)
EXTENDS MCGraph, GraphSession
=============================================================================
