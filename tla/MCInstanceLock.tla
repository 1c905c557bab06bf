--------------------------- MODULE MCInstanceLock ---------------------------
(* Instances of InstanceLock for TLC.                                          *)
EXTENDS InstanceLock

CONSTANTS a, b, c, d, e, r, here, there

\* Two daemons with a data directory each and one root, and a command on the first.
OneRoot == [p \in Procs |-> CASE p = a -> <<d, r>> [] p = b -> <<e, r>> [] OTHER -> <<d>>]
Sandboxed == [p \in Procs |-> IF p = b THEN there ELSE here]
=============================================================================
