---------------------------- MODULE MCAgentRuns ----------------------------
(* Instances of AgentRuns for TLC: which runs there are and where they work. *)
EXTENDS AgentRuns

CONSTANTS m1, m2, c1, c2, i1, w1

\* Every run in one worktree, where they compete for it.
OneTree == [r \in Runs |-> w1]
=============================================================================
