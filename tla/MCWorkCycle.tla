----------------------------- MODULE MCWorkCycle -----------------------------
(* An operator and two findings for TLC. *)
EXTENDS WorkCycle

CONSTANTS o, f, g
=============================================================================
