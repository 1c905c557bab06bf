------------------------- MODULE MCCycleController -------------------------
(* Two cycles for TLC. *)
EXTENDS CycleController

CONSTANTS a, b
=============================================================================
