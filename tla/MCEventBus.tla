------------------------------ MODULE MCEventBus ------------------------------
(* Instances of EventBus.                                                  *)
EXTENDS EventBus

CONSTANTS p1, p2
=============================================================================
