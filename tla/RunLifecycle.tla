---------------------------- MODULE RunLifecycle ----------------------------
(***************************************************************************)
(* What the run supervisor promises its callers: a run's record goes       *)
(* none -> starting -> running <-> waiting and ends exactly once; at most  *)
(* one agent works in a worktree; and no record ends while its agent still *)
(* works.  How launches, cancels, drains and crashes achieve that is in    *)
(* AgentRuns, which implements this module.                                *)
(***************************************************************************)
EXTENDS FiniteSets

CONSTANTS
    Runs,        \* agent runs
    tree         \* [Runs -> worktrees]: where each run's agent works

VARIABLES
    status,      \* each run's record
    working      \* runs whose agent works: alive, and not told to stop at once

lifecycleVars == <<status, working>>

LiveStatuses == {"starting", "running", "waiting"}
TerminalStatuses == {"finished", "failed", "cancelled", "interrupted"}

\* Runs that stand in the way of an agent for r in its worktree.
Rivals(r) == {q \in working \ {r} : tree[q] = tree[r]}

Init == /\ status = [r \in Runs |-> "none"]
        /\ working = {}

\* A launch records its run.
Create(r) == /\ status[r] = "none"
             /\ status' = [status EXCEPT ![r] = "starting"]
             /\ UNCHANGED working

\* The agent starts, unless the run was withdrawn as its session arrived.
Begin(r) == /\ status[r] = "starting"
            /\ status' = [status EXCEPT ![r] = "running"]
            /\ \/ Rivals(r) = {} /\ working' = working \cup {r}
               \/ UNCHANGED working

\* The agent's turns.
Turn(r) == /\ status[r] \in {"running", "waiting"}
           /\ status' \in {[status EXCEPT ![r] = "running"], [status EXCEPT ![r] = "waiting"]}
           /\ UNCHANGED working

\* Agents stop working, and the records of some runs end, their agents with them.
Settle(ended, stopped) ==
    /\ \A r \in ended : status[r] \in LiveStatuses
    /\ \E s \in TerminalStatuses :
         status' = [r \in Runs |-> IF r \in ended THEN s ELSE status[r]]
    /\ working' = working \ (ended \cup stopped)

Next == \/ \E r \in Runs : Create(r) \/ Begin(r) \/ Turn(r)
        \/ \E ended, stopped \in SUBSET Runs : Settle(ended, stopped)

Spec == Init /\ [][Next]_lifecycleVars
=============================================================================
