----------------------------- MODULE AgentRuns -----------------------------
(***************************************************************************)
(* Agent runs in one daemon (apps/server/src/services/run/,                *)
(* agent-run-service.ts, worktree-mutation-guard.ts, daemon-drain.ts):     *)
(* launches, the sessions they start, their supervision, the operator's    *)
(* and the cycle's commands, drains, crashes and the recovery at a start.  *)
(*                                                                         *)
(* A step runs from one await to the next: the daemon is one event loop.   *)
(* An operator called a mutant is a bug the runs must find in the one that *)
(* follows it; the specification uses none of them.                        *)
(***************************************************************************)
EXTENDS Naturals, FiniteSets

CONSTANTS
    Runs, Worktrees,
    tree,            \* [Runs -> Worktrees]
    ManualRuns,      \* started by an operator
    CycleRuns,       \* started by a work cycle, as one of its steps
    ControlledRuns,  \* read-only investigations: one turn, a deadline
    Checked,         \* reviews whose adopted checks run before their agent
    Scoped,          \* runs in a roadmap's scope, which take a phase claim
    Capacity,        \* how many phase claims may be held at once
    Faults,          \* which operations may fail, see FaultKinds
    MaxCrashes,      \* bound: crashes of the daemon
    NoRun

FaultKinds == {"removal",    \* a launch's directory cannot be removed
               "register",   \* storage cannot register the run's directory
               "strand",     \* a launch throws once its row is committed, and nothing ends the row
               "consumer",   \* supervision throws: a storage write, an assessment
               "finalize",   \* ending the run's record throws
               "identity",   \* the agent's process record is not written
               "reap"}       \* a process group survives SIGTERM and SIGKILL

ASSUME KindsAssumption ==
    /\ ManualRuns \cup CycleRuns \cup ControlledRuns = Runs
    /\ ManualRuns \cap (CycleRuns \cup ControlledRuns) = {}
    /\ CycleRuns \cap ControlledRuns = {}
    /\ Checked \subseteq Runs \ ControlledRuns
    /\ Scoped \subseteq Runs \ ControlledRuns
ASSUME TreeAssumption == tree \in [Runs -> Worktrees]
ASSUME BoundsAssumption ==
    /\ IsFiniteSet(Runs)
    /\ Capacity \in Nat /\ MaxCrashes \in Nat
    /\ Faults \subseteq FaultKinds
    /\ NoRun \notin Runs

VARIABLES
    status,       \* [Runs -> RunStatuses]: the run rows; "drained" is interrupted, reason daemon-drain
    reserved,     \* launch reservations (rows)
    directory,    \* run directories on disk
    claims,       \* phase claims (rows) held by runs
    identity,     \* process records on disk
    cycleStatus,  \* [Worktrees -> CycleStatuses]
    cycleRun,     \* [Worktrees -> Runs \cup {NoRun}]: currentRunId
    agent,        \* [Runs -> AgentStates]: the agents' processes
    phase,        \* [Runs -> Phases]: where the launch or the supervision stands
    withdrawn,    \* cycle launches whose AbortController is aborted
    cancelReq,    \* live runs with cancelRequested
    drainInt,     \* live runs with drainInterrupted
    resuming,     \* [Worktrees -> ResumeStages]: a resume command between its checks and its write
    daemon,       \* see DaemonStates
    signalled,    \* serviceStopping
    crashes

durable == <<status, reserved, directory, claims, identity>>
cycles == <<cycleStatus, cycleRun>>
sessions == <<withdrawn, cancelReq, drainInt>>
daemonVars == <<daemon, signalled, crashes>>
vars == <<durable, cycles, agent, phase, sessions, resuming, daemonVars>>

LiveStatuses == {"starting", "running", "waiting"}
TerminalStatuses == {"finished", "failed", "cancelled", "interrupted", "drained"}
RunStatuses == {"none"} \cup LiveStatuses \cup TerminalStatuses
CycleStatuses == {"none", "running", "paused", "stopped"}  \* paused: or waiting for attention
\* late: a backend launch whose caller has gone, its process not spawned yet; born: spawned and given its
\* prompt, its session not with the launch yet; ending: told to end after its turn; loose: killed, its
\* exit awaited by nobody; stray: the daemon it ran under has stopped, and no start knows of it or could
\* end it.
AgentStates == {"none", "late", "born", "working", "ending", "killed", "loose", "stray", "exited"}
Alive == {"working", "ending", "killed", "loose", "stray"}
Phases == {"idle", "admitted", "preflight", "reserving", "reserved", "preparing", "cleaning",
           "registering", "snapshot", "checks", "proceeding", "looking", "spawning",
           "outliving", "supervised", "overdue", "orphaned", "over"}
ResumeStages == {"none", "gating", "checked"}
Draining == {"draining", "stopping", "interrupting", "stopped"}   \* state.draining
Interrupting == {"interrupting", "stopped"}                       \* state.interrupting
Serving == {"up"} \cup Draining
DaemonStates == Serving \cup {"reaping", "clearing", "finishing"}

In(w) == {r \in Runs : tree[r] = w}
Live(r) == status[r] \in LiveStatuses
LiveIn(w) == {r \in In(w) : Live(r)}
\* state.live: the sessions a supervisor consumes.
Sessions == {r \in Runs : phase[r] = "supervised"}
Working(r) == agent[r] \in {"working", "ending"}

Init ==
    /\ status = [r \in Runs |-> "none"]
    /\ reserved = {} /\ directory = {} /\ claims = {} /\ identity = {}
    /\ cycleStatus = [w \in Worktrees |-> "none"]
    /\ cycleRun = [w \in Worktrees |-> NoRun]
    /\ agent = [r \in Runs |-> "none"]
    /\ phase = [r \in Runs |-> "idle"]
    /\ withdrawn = {} /\ cancelReq = {} /\ drainInt = {}
    /\ resuming = [w \in Worktrees |-> "none"]
    /\ daemon = "up" /\ signalled = FALSE /\ crashes = 0

-----------------------------------------------------------------------------
(* The worktree guard and the preconditions of a launch.                   *)

\* The phases a review's launch continues through after its adopted checks began.
AfterChecks == {"checks", "proceeding", "looking", "spawning", "outliving"}
Held(r) == r \in Checked /\ phase[r] \in AfterChecks
\* Inside the launch's hold on the worktree (`during`, or `hold` for a review's checks).
Holding(r) == phase[r] \in {"preflight", "reserving", "reserved", "preparing", "cleaning",
                            "registering", "snapshot"} \cup AfterChecks
\* Its agent lost supervision and has not exited.
Terminating(r) == phase[r] \in {"outliving", "overdue", "orphaned"}

NoTerminatingAgent(w) == \A r \in In(w) : ~Terminating(r)
Available(w) == \A r \in In(w) : ~Holding(r) /\ ~Terminating(r)

\* The launch's AbortController is registered until launch() returns.
Armed(r) == /\ r \in CycleRuns /\ ~Held(r)
            /\ phase[r] = "admitted" \/ Holding(r)
\* A pending launch finishCycleTurn or a drain can cancel while its session starts.
Pending(r) == r \notin ManualRuns /\ phase[r] \in {"looking", "spawning"}

Authority(r) == cycleStatus[tree[r]] = "running" /\ cycleRun[tree[r]] = r
ManualControl(w) == NoTerminatingAgent(w) /\ cycleStatus[w] # "running"
\* A live investigation holds its cycle's commands.
Investigating(w) ==
    \E r \in ControlledRuns \cap In(w) : Live(r) \/ Holding(r) \/ phase[r] = "admitted"

-----------------------------------------------------------------------------
(* Updates several actions share.                                          *)

Go(r, p) == phase' = [phase EXCEPT ![r] = p]
Become(r, a) == agent' = [agent EXCEPT ![r] = a]
\* A kill ends the process group; what was told to end or works is then only exiting.
Kill(S) == agent' = [r \in Runs |-> IF r \in S /\ Working(r) THEN "killed" ELSE agent[r]]

\* Mutant: a claim outlives its run.
FinalizeKeeping(S, s) ==
    /\ status' = [r \in Runs |-> IF r \in S /\ Live(r) THEN s ELSE status[r]]
    /\ UNCHANGED claims

\* RunJournal.finalize: the records of S that are live end as s, and S's claims go.
Finalize(S, s) ==
    /\ status' = [r \in Runs |-> IF r \in S /\ Live(r) THEN s ELSE status[r]]
    /\ claims' = claims \ S
Unfinalized == UNCHANGED <<status, claims>>

\* A launch that made no run: its cycle may launch the run again, anyone else has a new id.
Refused(r) == /\ Go(r, IF r \in CycleRuns /\ status[r] = "none" THEN "idle" ELSE "over")
              /\ withdrawn' = withdrawn \ {r}

\* A launch whose backend was asked for a process: not spawned yet, or on its way to the launch.
Asked(r) == phase[r] = "spawning" /\ agent[r] # "born"
Arriving(r) == phase[r] = "spawning" /\ agent[r] = "born"

\* Pending launches cancelled: each ends its run's record, and a session still coming is late.
EndLaunches(S) ==
    /\ Finalize(S, IF daemon \in Draining THEN "drained" ELSE "cancelled")
    /\ phase' = [r \in Runs |-> IF r \in S THEN "over" ELSE phase[r]]
    /\ withdrawn' = withdrawn \ S

LaunchCancelled(r) ==
    /\ EndLaunches({r})
    /\ agent' = [agent EXCEPT ![r] = IF Asked(r) THEN "late" ELSE @]

\* Aborting a cycle launch (its deadline, cancelStartingChecks): its next phase refuses it, and a
\* session still starting is cancelled. r may be NoRun.
Abort(r) ==
    IF \E q \in Runs : q = r /\ Armed(q) /\ Pending(q)
    THEN LaunchCancelled(r)
    ELSE /\ withdrawn' = withdrawn \cup {q \in Runs : q = r /\ Armed(q)}
         /\ Unfinalized /\ UNCHANGED <<agent, phase>>

\* finishCycleTurn(cycle, true): the launch is aborted, a pending session cancelled, a live one killed.
CancelTurn(r) ==
    IF \E q \in Runs : q = r /\ Pending(q)
    THEN LaunchCancelled(r) /\ UNCHANGED cancelReq
    ELSE /\ withdrawn' = withdrawn \cup {q \in Runs : q = r /\ Armed(q)}
         /\ cancelReq' = cancelReq \cup ({r} \cap Sessions)
         /\ Kill({r} \cap Sessions)
         /\ Unfinalized /\ UNCHANGED phase

-----------------------------------------------------------------------------
(* Launch: run/launch.ts, to the run's durable record.                     *)

\* A command or a controller pass reaches launch(), which registers the launch and waits for the
\* worktree's cleanup. An investigation's record changes its cycle, so a resume under way conflicts.
Admit(r) ==
    /\ daemon = "up" /\ phase[r] = "idle" /\ status[r] = "none"
    /\ CASE r \in ManualRuns -> ManualControl(tree[r])
         [] r \in CycleRuns -> Authority(r)
         [] OTHER -> /\ cycleStatus[tree[r]] = "paused" /\ ~Investigating(tree[r])
                     /\ Available(tree[r]) /\ LiveIn(tree[r]) = {}
    /\ Go(r, "admitted")
    /\ resuming' = IF r \in ControlledRuns THEN [resuming EXCEPT ![tree[r]] = "none"] ELSE resuming
    /\ UNCHANGED <<durable, cycles, agent, sessions, daemonVars>>

\* Mutant: the worktree is entered whoever holds it.
EnterUnguarded(r) ==
    /\ daemon \in Serving /\ phase[r] = "admitted" /\ r \notin withdrawn
    /\ Go(r, "preflight")
    /\ UNCHANGED <<durable, cycles, agent, sessions, resuming, daemonVars>>

\* The worktree is taken for the launch.
Enter(r) ==
    /\ daemon \in Serving /\ phase[r] = "admitted"
    /\ r \notin withdrawn /\ Available(tree[r])
    /\ Go(r, "preflight")
    /\ UNCHANGED <<durable, cycles, agent, sessions, resuming, daemonVars>>

\* Any refusal before the reservation: a scope, the branch, the space left, a busy worktree...
Refuse(r) ==
    /\ daemon \in Serving /\ phase[r] \in {"admitted", "preflight", "reserving"}
    /\ Refused(r)
    /\ UNCHANGED <<durable, cycles, agent, cancelReq, drainInt, resuming, daemonVars>>

\* The preconditions again, once the Git preflight has read the branch.
PreflightPasses(r) ==
    /\ daemon = "up" /\ phase[r] = "preflight"
    /\ NoTerminatingAgent(tree[r])
    /\ IF r \in CycleRuns THEN Authority(r) /\ r \notin withdrawn
       ELSE ManualControl(tree[r]) /\ LiveIn(tree[r]) = {}
    /\ Go(r, "reserving")
    /\ UNCHANGED <<durable, cycles, agent, sessions, resuming, daemonVars>>

\* The launch's reservation, once what an earlier launch of the run left is gone.
ReserveLaunch(r) ==
    /\ daemon \in Serving /\ phase[r] = "reserving"
    /\ \/ directory' = directory \ {r}
       \/ "removal" \in Faults /\ r \notin reserved /\ UNCHANGED directory
    /\ reserved' = reserved \cup {r}
    /\ Go(r, "reserved")
    /\ UNCHANGED <<status, claims, identity, cycles, agent, sessions, resuming, daemonVars>>

MakeDirectories(r) ==
    /\ daemon \in Serving /\ phase[r] = "reserved" /\ r \notin withdrawn
    /\ directory' = directory \cup {r}
    /\ Go(r, "preparing")
    /\ UNCHANGED <<status, reserved, claims, identity, cycles, agent, sessions, resuming, daemonVars>>

\* A refusal, a withdrawal or an exception between the reservation and the record.
FailReserved(r) ==
    /\ daemon \in Serving /\ phase[r] \in {"reserved", "preparing"}
    /\ Go(r, "cleaning")
    /\ UNCHANGED <<durable, cycles, agent, sessions, resuming, daemonVars>>

\* Mutant: the reservation goes although the directory could not be removed.
CleanLaunchForgetting(r) ==
    /\ daemon \in Serving /\ phase[r] = "cleaning"
    /\ reserved' = reserved \ {r}
    /\ \/ directory' = directory \ {r}
       \/ "removal" \in Faults /\ r \in directory /\ UNCHANGED directory
    /\ Refused(r)
    /\ UNCHANGED <<status, claims, identity, cycles, agent, cancelReq, drainInt, resuming, daemonVars>>

\* It removes what the launch made, then the reservation.
CleanLaunch(r) ==
    /\ daemon \in Serving /\ phase[r] = "cleaning"
    /\ \/ directory' = directory \ {r} /\ reserved' = reserved \ {r}
       \/ "removal" \in Faults /\ r \in directory /\ UNCHANGED <<directory, reserved>>
    /\ Refused(r)
    /\ UNCHANGED <<status, claims, identity, cycles, agent, cancelReq, drainInt, resuming, daemonVars>>

\* Mutant: every run takes a phase claim.
RecordRunClaiming(r) ==
    /\ daemon = "up" /\ phase[r] = "preparing" /\ r \notin withdrawn
    /\ Cardinality(claims) < Capacity
    /\ status' = [status EXCEPT ![r] = "starting"]
    /\ claims' = claims \cup {r}
    /\ Go(r, "registering")
    /\ UNCHANGED <<reserved, directory, identity, cycles, agent, sessions, resuming, daemonVars>>

\* Mutant: the drain is not asked again as the run is recorded.
RecordRunDraining(r) ==
    /\ daemon \in Serving /\ phase[r] = "preparing" /\ r \notin withdrawn
    /\ r \in Scoped => Cardinality(claims) < Capacity
    /\ status' = [status EXCEPT ![r] = "starting"]
    /\ claims' = claims \cup ({r} \cap Scoped)
    /\ Go(r, "registering")
    /\ UNCHANGED <<reserved, directory, identity, cycles, agent, sessions, resuming, daemonVars>>

\* The run's row and its phase claim, in one transaction.
RecordRun(r) ==
    /\ daemon = "up" /\ phase[r] = "preparing" /\ r \notin withdrawn
    /\ r \in Scoped => Cardinality(claims) < Capacity
    /\ status' = [status EXCEPT ![r] = "starting"]
    /\ claims' = claims \cup ({r} \cap Scoped)
    /\ Go(r, "registering")
    /\ UNCHANGED <<reserved, directory, identity, cycles, agent, sessions, resuming, daemonVars>>

-----------------------------------------------------------------------------
(* Launch: run/spawn.ts, from the record to the session.                   *)

\* Storage takes over the run's directory, so the reservation goes; or the run fails with both kept.
Register(r) ==
    /\ daemon \in Serving /\ phase[r] = "registering"
    /\ \/ /\ reserved' = reserved \ {r}
          /\ Go(r, IF r \in Checked THEN "snapshot" ELSE "proceeding")
          /\ Unfinalized /\ UNCHANGED withdrawn
       \/ /\ "register" \in Faults
          /\ Finalize({r}, "failed")
          /\ Refused(r) /\ UNCHANGED reserved
    /\ UNCHANGED <<directory, identity, cycles, agent, cancelReq, drainInt, resuming, daemonVars>>

\* The launch throws after its row was committed, outside what would end the row.
StrandLaunch(r) ==
    /\ "strand" \in Faults /\ daemon \in Serving
    /\ phase[r] \in {"registering", "snapshot", "proceeding"} /\ ~Held(r)
    /\ Refused(r)
    /\ UNCHANGED <<durable, cycles, agent, cancelReq, drainInt, resuming, daemonVars>>

\* A review's adopted checks begin; launch() returns, and the checks hold the worktree.
StartChecks(r) ==
    /\ daemon \in Serving /\ phase[r] = "snapshot"
    /\ Go(r, "checks") /\ withdrawn' = withdrawn \ {r}
    /\ UNCHANGED <<durable, cycles, agent, cancelReq, drainInt, resuming, daemonVars>>

\* Mutant: a run ended during its checks goes on to its agent.
ChecksDoneUnasked(r) ==
    /\ daemon \in Serving /\ phase[r] = "checks"
    /\ \/ Live(r) /\ daemon \in Draining /\ Go(r, "over") /\ Unfinalized
       \/ daemon \notin Draining /\ Go(r, "proceeding") /\ Unfinalized
    /\ UNCHANGED <<reserved, directory, identity, cycles, agent, sessions, resuming, daemonVars>>

\* They ended or were stopped: the agent starts, unless the run was ended, the daemon drains, or the
\* launch lost its authority meanwhile.
ChecksDone(r) ==
    /\ daemon \in Serving /\ phase[r] = "checks"
    /\ \/ ~Live(r) /\ Go(r, "over") /\ Unfinalized
       \/ Live(r) /\ daemon \in Draining /\ Go(r, "over") /\ Finalize({r}, "drained")
       \/ /\ Live(r) /\ daemon \notin Draining /\ Go(r, "over")
          /\ \E s \in {"cancelled", "failed"} : Finalize({r}, s)
       \/ /\ Live(r) /\ daemon \notin Draining /\ (r \in CycleRuns => Authority(r))
          /\ Go(r, "proceeding") /\ Unfinalized
    /\ UNCHANGED <<reserved, directory, identity, cycles, agent, sessions, resuming, daemonVars>>

\* A cycle's or a controlled run's session can be cancelled from here on.
OpenSession(r) ==
    /\ daemon \in Serving /\ phase[r] = "proceeding"
    /\ IF Armed(r) /\ r \in withdrawn THEN LaunchCancelled(r)
       ELSE Go(r, "looking") /\ Unfinalized /\ UNCHANGED <<agent, withdrawn>>
    /\ UNCHANGED <<reserved, directory, identity, cycles, cancelReq, drainInt, resuming, daemonVars>>

\* The model catalog was read: a drain ends the launch, else the backend is asked for a session.
LookDone(r) ==
    /\ daemon \in Serving /\ phase[r] = "looking"
    /\ IF daemon \in Draining THEN LaunchCancelled(r)
       ELSE Go(r, "spawning") /\ Unfinalized /\ UNCHANGED <<agent, withdrawn>>
    /\ UNCHANGED <<reserved, directory, identity, cycles, cancelReq, drainInt, resuming, daemonVars>>

\* The backend spawns the agent, detached, and gives it its prompt. Its session is still on the way to
\* the launch, and nothing on disk names the process.
Spawns(r) ==
    /\ daemon \in Serving /\ Asked(r)
    /\ Become(r, "born")
    /\ UNCHANGED <<durable, cycles, phase, sessions, resuming, daemonVars>>

\* No session: a misnamed model, a missing tool, the backend's refusal.
SpawnFails(r) ==
    /\ daemon \in Serving
    /\ phase[r] = "looking" \/ Asked(r)
    /\ Finalize({r}, "failed") /\ Refused(r)
    /\ UNCHANGED <<reserved, directory, identity, cycles, agent, cancelReq, drainInt, resuming, daemonVars>>

\* A launch cancelled meanwhile: its backend still spawns the agent, or fails; and the session that
\* arrives is killed at once.
LateSession(r) ==
    /\ \/ agent[r] = "late" /\ \E a \in {"born", "exited"} : Become(r, a)
       \/ agent[r] = "born" /\ phase[r] # "spawning" /\ Become(r, "loose")
    /\ UNCHANGED <<durable, cycles, phase, sessions, resuming, daemonVars>>

\* Its process record, written as soon as there is a session, unless the run has ended already.
Identified(r) == \/ Live(r) /\ identity' = identity \cup {r}
                 \/ (~Live(r) \/ "identity" \in Faults) /\ UNCHANGED identity

\* A session no run wants: an investigation whose cycle no longer holds it, a drain that already ends
\* sessions, or a run ended while it launched. It is killed; only the last holds the worktree.
SessionRefused(r) ==
    /\ daemon \in Serving /\ Arriving(r)
    /\ withdrawn' = withdrawn \ {r}
    /\ \/ /\ r \in ControlledRuns
          /\ Finalize({r}, "failed") /\ Go(r, "over") /\ Become(r, "loose") /\ UNCHANGED identity
       \/ /\ daemon \in Interrupting
          /\ Finalize({r}, "drained") /\ Go(r, "over") /\ Become(r, "loose") /\ Identified(r)
       \/ /\ daemon \notin Interrupting /\ ~Live(r)
          /\ Unfinalized /\ Go(r, "outliving") /\ Become(r, "killed") /\ Identified(r)
    /\ UNCHANGED <<reserved, directory, cycles, cancelReq, drainInt, resuming, daemonVars>>

\* Mutant: a run that was ended while it launched gets its session all the same.
SessionStartsEnded(r) ==
    /\ daemon \in Serving \ Interrupting /\ Arriving(r)
    /\ Identified(r) /\ Go(r, "supervised") /\ Become(r, "working")
    /\ status' = IF Live(r) THEN [status EXCEPT ![r] = "running"] ELSE status
    /\ withdrawn' = withdrawn \ {r}
    /\ UNCHANGED <<reserved, directory, claims, cycles, cancelReq, drainInt, resuming, daemonVars>>

\* The session is the run's, and is supervised; a cycle that moved on as it started has it killed.
SessionStarts(r) ==
    /\ daemon \in Serving \ Interrupting /\ Arriving(r) /\ Live(r)
    /\ Identified(r)
    /\ status' = [status EXCEPT ![r] = "running"]
    /\ Go(r, "supervised") /\ withdrawn' = withdrawn \ {r}
    /\ LET unwanted == r \in CycleRuns /\ \/ cycleStatus[tree[r]] = "stopped"
                                          \/ cycleRun[tree[r]] # r
                                          \/ Armed(r) /\ r \in withdrawn
       IN /\ Become(r, IF unwanted THEN "killed" ELSE "working")
          /\ cancelReq' = IF unwanted THEN cancelReq \cup {r} ELSE cancelReq
    /\ UNCHANGED <<reserved, directory, claims, cycles, drainInt, resuming, daemonVars>>

-----------------------------------------------------------------------------
(* The agents, and their supervision: run/supervision.ts.                  *)

\* A turn completes. An investigation has one, so its session is then told to end.
TurnCompleted(r) ==
    /\ daemon \in Serving /\ r \in Sessions /\ Live(r)
    /\ status' = [status EXCEPT ![r] = "waiting"]
    /\ Become(r, IF r \in ControlledRuns /\ agent[r] = "working" THEN "ending" ELSE agent[r])
    /\ UNCHANGED <<reserved, directory, claims, identity, cycles, phase, sessions, resuming, daemonVars>>

\* A message or a tool call of the next turn.
Activity(r) ==
    /\ daemon \in Serving /\ r \in Sessions /\ status[r] = "waiting"
    /\ status' = [status EXCEPT ![r] = "running"]
    /\ UNCHANGED <<reserved, directory, claims, identity, cycles, agent, phase, sessions, resuming, daemonVars>>

\* The process group ends: by itself, told to, or killed. Nothing here depends on the daemon.
AgentExits(r) ==
    /\ agent[r] \in Alive
    /\ Become(r, "exited")
    /\ UNCHANGED <<durable, cycles, phase, sessions, resuming, daemonVars>>

\* The supervisor reads the exit. On a service stop, a signal nobody here sent is the restart's.
ExitConsumed(r) ==
    /\ daemon \in Serving /\ r \in Sessions /\ agent[r] = "exited"
    /\ LET ends == IF r \in drainInt THEN {"drained"}
                   ELSE IF r \in cancelReq THEN {"cancelled"}
                   ELSE {"finished", "failed"} \cup (IF signalled THEN {"drained"} ELSE {})
       IN \E s \in ends : Finalize({r}, s)
    /\ Go(r, "over") /\ identity' = identity \ {r}
    /\ cancelReq' = cancelReq \ {r} /\ drainInt' = drainInt \ {r}
    /\ UNCHANGED <<reserved, directory, cycles, agent, withdrawn, resuming, daemonVars>>

\* Mutant: supervision that throws leaves its agent at work.
SupervisionFailsAway(r) ==
    /\ {"consumer", "finalize"} \cap Faults # {}
    /\ daemon \in Serving /\ r \in Sessions
    /\ Go(r, "over") /\ Finalize({r}, "failed")
    /\ cancelReq' = cancelReq \ {r} /\ drainInt' = drainInt \ {r}
    /\ UNCHANGED <<agent, reserved, directory, identity, cycles, withdrawn, resuming, daemonVars>>

\* Supervision throws: the group is killed and the worktree held until it exits. Ending the record
\* may throw too; then it stays live until the next start.
SupervisionFails(r) ==
    /\ {"consumer", "finalize"} \cap Faults # {}
    /\ daemon \in Serving /\ r \in Sessions
    /\ Kill({r}) /\ Go(r, "orphaned")
    /\ cancelReq' = cancelReq \ {r} /\ drainInt' = drainInt \ {r}
    /\ \/ Finalize({r}, "failed")
       \/ "finalize" \in Faults /\ Unfinalized
    /\ UNCHANGED <<reserved, directory, identity, cycles, withdrawn, resuming, daemonVars>>

\* Mutant: the worktree is free as soon as the limit's kill is sent.
ControlledDeadlineFreeing(r) ==
    /\ daemon \in Serving /\ r \in ControlledRuns \cap Sessions /\ Live(r)
    /\ Kill({r}) /\ Go(r, "over")
    /\ Finalize({r}, "failed")
    /\ cancelReq' = cancelReq \ {r} /\ drainInt' = drainInt \ {r}
    /\ UNCHANGED <<reserved, directory, identity, cycles, withdrawn, resuming, daemonVars>>

\* An investigation's time limit: its record ends now, its worktree is held until its process exits.
ControlledDeadline(r) ==
    /\ daemon \in Serving /\ r \in ControlledRuns \cap Sessions /\ Live(r)
    /\ Kill({r}) /\ Go(r, "overdue")
    /\ Finalize({r}, "failed")
    /\ cancelReq' = cancelReq \ {r} /\ drainInt' = drainInt \ {r}
    /\ UNCHANGED <<reserved, directory, identity, cycles, withdrawn, resuming, daemonVars>>

\* Mutant: a drain stops waiting for the exits that hold worktrees.
ExitAwaitedUndrained(r) ==
    /\ daemon = "up" /\ Terminating(r) /\ agent[r] = "exited"
    /\ Go(r, "over") /\ identity' = identity \ {r}
    /\ UNCHANGED <<status, reserved, directory, claims, cycles, agent, sessions, resuming, daemonVars>>

\* The exit of an agent whose run has ended, awaited by whoever holds its worktree.
ExitAwaited(r) ==
    /\ daemon \in Serving /\ Terminating(r) /\ agent[r] = "exited"
    /\ Go(r, "over") /\ identity' = identity \ {r}
    /\ UNCHANGED <<status, reserved, directory, claims, cycles, agent, sessions, resuming, daemonVars>>

\* A session a drain refused as it arrived: its process record goes once it has exited.
DropRecord(r) ==
    /\ daemon \in Serving /\ phase[r] = "over" /\ agent[r] = "exited" /\ r \in identity
    /\ identity' = identity \ {r}
    /\ UNCHANGED <<status, reserved, directory, claims, cycles, agent, phase, sessions, resuming, daemonVars>>

-----------------------------------------------------------------------------
(* The operator's commands: agent-run-service.ts.                          *)

\* A live session is killed; a run without one only has its record ended.
CancelRun(r) ==
    \/ /\ r \in Sessions
       /\ Kill({r}) /\ cancelReq' = cancelReq \cup {r}
       /\ Unfinalized
    \/ /\ r \notin Sessions
       /\ Finalize({r}, "cancelled")
       /\ UNCHANGED <<agent, cancelReq>>

Cancel(r) ==
    /\ daemon \in Serving /\ Live(r) /\ ManualControl(tree[r])
    /\ CancelRun(r)
    /\ UNCHANGED <<reserved, directory, identity, cycles, phase, withdrawn, drainInt, resuming, daemonVars>>

\* An investigation its cycle no longer holds.
CancelInvestigation(r) ==
    /\ daemon \in Serving /\ r \in ControlledRuns /\ Live(r)
    /\ CancelRun(r)
    /\ UNCHANGED <<reserved, directory, identity, cycles, phase, withdrawn, drainInt, resuming, daemonVars>>

End(r) ==
    /\ daemon \in Serving /\ r \in Sessions /\ agent[r] = "working" /\ ManualControl(tree[r])
    /\ Become(r, "ending")
    /\ UNCHANGED <<durable, cycles, phase, sessions, resuming, daemonVars>>

SendMessage(r) ==
    /\ daemon \in Serving /\ r \in Sessions \ ControlledRuns /\ agent[r] = "working"
    /\ ManualControl(tree[r]) /\ status[r] \in {"running", "waiting"}
    /\ status' = [status EXCEPT ![r] = "running"]
    /\ UNCHANGED <<reserved, directory, claims, identity, cycles, agent, phase, sessions, resuming, daemonVars>>

-----------------------------------------------------------------------------
(* What a work cycle does to its runs: cycle/commands, cycle/writer.ts.    *)

Fresh(q, w) == q \in CycleRuns \cap In(w) /\ status[q] = "none" /\ phase[q] = "idle" /\ cycleRun[w] # q

\* The cycle's record changes, so a command still on its way to its write conflicts.
Write(w, s, q) ==
    /\ cycleStatus' = [cycleStatus EXCEPT ![w] = s]
    /\ cycleRun' = [cycleRun EXCEPT ![w] = q]
    /\ resuming' = [resuming EXCEPT ![w] = "none"]

\* Mutant: a cycle starts beside a live run.
CycleStartBeside(w, q) ==
    /\ daemon \in Serving /\ cycleStatus[w] \in {"none", "stopped"} /\ Fresh(q, w)
    /\ Available(w)
    /\ Write(w, "running", q)
    /\ UNCHANGED <<durable, agent, phase, sessions, daemonVars>>

CycleStart(w, q) ==
    /\ daemon \in Serving /\ cycleStatus[w] \in {"none", "stopped"} /\ Fresh(q, w)
    /\ Available(w) /\ LiveIn(w) = {}
    /\ Write(w, "running", q)
    /\ UNCHANGED <<durable, agent, phase, sessions, daemonVars>>

\* The step's run has ended: the next step's.
CycleNext(w, q) ==
    /\ daemon \in {"up", "draining"} /\ cycleStatus[w] = "running" /\ Fresh(q, w)
    /\ status[cycleRun[w]] \in TerminalStatuses
    /\ Write(w, "running", q)
    /\ UNCHANGED <<durable, agent, phase, sessions, daemonVars>>

\* A step waiting between its turns is done: its session is told to end.
CycleEndTurn(w) ==
    /\ daemon \in {"up", "draining"} /\ cycleStatus[w] = "running"
    /\ \E r \in Sessions : /\ r = cycleRun[w] /\ status[r] = "waiting" /\ agent[r] = "working"
                           /\ Become(r, "ending")
    /\ UNCHANGED <<durable, cycles, phase, sessions, resuming, daemonVars>>

\* A pause leaves a live session to the operator; it withdraws a launch on its way.
CyclePause(w) ==
    /\ daemon \in Serving /\ cycleStatus[w] = "running"
    /\ Write(w, "paused", cycleRun[w])
    /\ Abort(cycleRun[w])
    /\ UNCHANGED <<reserved, directory, identity, cancelReq, drainInt, daemonVars>>

\* A stop of the cycle by the operator or its roadmap, or a stop for attention: with the turn's end
\* the session is killed.
CycleStop(w) ==
    /\ daemon \in Serving /\ cycleStatus[w] \in {"running", "paused"}
    /\ \E s \in {"stopped", "paused"} : Write(w, s, cycleRun[w])
    /\ CancelTurn(cycleRun[w])
    /\ UNCHANGED <<reserved, directory, identity, drainInt, daemonVars>>

\* The controller stops for attention and leaves the step's session alone. Its pass waits for the
\* launches it makes, so none is on its way but a review's that continues after its checks.
CycleAttention(w) ==
    /\ daemon \in {"up", "draining"} /\ cycleStatus[w] = "running"
    /\ \A r \in Runs : Armed(r) => r # cycleRun[w]
    /\ Write(w, "paused", cycleRun[w])
    /\ UNCHANGED <<durable, agent, phase, sessions, daemonVars>>

\* Resume: the worktree is available now, and then the launch gates read the branch.
ResumeBegins(w) ==
    /\ daemon \in Serving /\ cycleStatus[w] = "paused" /\ resuming[w] = "none"
    /\ ~Investigating(w) /\ Available(w)
    /\ resuming' = [resuming EXCEPT ![w] = "gating"]
    /\ UNCHANGED <<durable, cycles, agent, phase, sessions, daemonVars>>

\* Other sessions than the newest run's refuse it. The cycle's run is kept, live or finished, and a
\* manual run adopted; a step to launch goes on, for a review once its branch is read.
ResumeDecides(w) ==
    /\ daemon \in Serving /\ resuming[w] = "gating" /\ cycleStatus[w] = "paused"
    /\ \/ /\ LiveIn(w) = {}
          /\ resuming' = [resuming EXCEPT ![w] = "checked"] /\ UNCHANGED cycles
       \/ \E r \in In(w) : /\ LiveIn(w) \subseteq {r}
                           /\ \/ r = cycleRun[w] /\ (Live(r) \/ status[r] = "finished")
                              \/ r \in ManualRuns /\ status[r] # "none"
                           /\ Write(w, "running", r)
       \/ resuming' = [resuming EXCEPT ![w] = "none"] /\ UNCHANGED cycles
    /\ UNCHANGED <<durable, agent, phase, sessions, daemonVars>>

ResumeLaunches(w, q) ==
    /\ daemon \in Serving /\ resuming[w] = "checked" /\ cycleStatus[w] = "paused" /\ Fresh(q, w)
    /\ Write(w, "running", q)
    /\ UNCHANGED <<durable, agent, phase, sessions, daemonVars>>

\* The step's time limit passes while its run launches.
StepDeadline(r) ==
    /\ daemon \in Serving /\ r \in CycleRuns
    /\ \/ Armed(r) /\ Abort(r)
       \/ ~Armed(r) /\ Pending(r) /\ LaunchCancelled(r)
    /\ UNCHANGED <<reserved, directory, identity, cycles, cancelReq, drainInt, resuming, daemonVars>>

-----------------------------------------------------------------------------
(* Drain: daemon-drain.ts, processes.ts interruptForRestart.               *)

\* A stop signal, during any drain too; a deploy's request only begins one.
ServiceStop ==
    /\ daemon \in Serving /\ ~signalled
    /\ signalled' = TRUE
    /\ daemon' = IF daemon = "up" THEN "draining" ELSE daemon
    /\ UNCHANGED <<durable, cycles, agent, phase, sessions, resuming, crashes>>

DeployDrain ==
    /\ daemon = "up"
    /\ daemon' = "draining"
    /\ UNCHANGED <<durable, cycles, agent, phase, sessions, resuming, signalled, crashes>>

\* A deploy withdraws its request before anything was interrupted.
CancelDrain ==
    /\ daemon = "draining" /\ ~signalled
    /\ daemon' = "up"
    /\ UNCHANGED <<durable, cycles, agent, phase, sessions, resuming, signalled, crashes>>

\* Nothing is busy, or the deadline passed: the roadmaps' and the cycles' loops stop.
StopWaiting ==
    /\ daemon = "draining"
    /\ daemon' = "stopping"
    /\ UNCHANGED <<durable, cycles, agent, phase, sessions, resuming, signalled, crashes>>

\* A cycle's step waiting between turns may end normally; every other session is killed, and every
\* pending launch cancelled.
Interrupt ==
    /\ daemon = "stopping"
    /\ daemon' = "interrupting"
    /\ LET pending == {r \in Runs : Pending(r)}
           done == {r \in Sessions : status[r] = "waiting" /\ cycleRun[tree[r]] = r
                                      /\ cycleStatus[tree[r]] # "stopped"}
       IN \E ended \in SUBSET done :
            LET killed == Sessions \ ended
            IN /\ drainInt' = drainInt \cup killed
               /\ agent' = [r \in Runs |->
                    CASE r \in pending /\ Asked(r) -> "late"
                      [] r \in killed /\ Working(r) -> "killed"
                      [] r \in ended /\ agent[r] = "working" -> "ending"
                      [] OTHER -> agent[r]]
               /\ EndLaunches(pending)
    /\ UNCHANGED <<reserved, directory, identity, cycles, cancelReq, resuming, signalled, crashes>>

\* Everything ended, or the grace passed: launches still on their way are the drain's, and the clean
\* stop is recorded.
RecordCleanStop ==
    /\ daemon = "interrupting"
    /\ daemon' = "stopped"
    /\ Finalize({r \in Runs : Holding(r)}, "drained")
    /\ UNCHANGED <<reserved, directory, identity, cycles, agent, phase, sessions, resuming, signalled, crashes>>

-----------------------------------------------------------------------------
(* A stop, clean or not, and the recovery at the next start:               *)
(* processes.ts recoverInterrupted, reservation.ts.                        *)

\* The daemon's memory is gone; the agents are not, and of those no process record names the next start
\* will not know. A backend that had not spawned its process never does. A launch without a row can
\* begin again.
Restarted ==
    /\ daemon' = "reaping" /\ signalled' = FALSE
    /\ phase' = [r \in Runs |-> IF phase[r] = "idle" \/ (r \in CycleRuns /\ status[r] = "none")
                                THEN "idle" ELSE "over"]
    /\ agent' = [r \in Runs |->
         CASE agent[r] = "late" -> "exited"
           [] agent[r] = "born" \/ (agent[r] \in Alive /\ r \notin identity) -> "stray"
           [] OTHER -> agent[r]]
    /\ withdrawn' = {} /\ cancelReq' = {} /\ drainInt' = {}
    /\ resuming' = [w \in Worktrees |-> "none"]
    /\ UNCHANGED <<durable, cycles>>

Halt == daemon = "stopped" /\ Restarted /\ UNCHANGED crashes

Crash == crashes < MaxCrashes /\ crashes' = crashes + 1 /\ Restarted

\* A recorded process group still running is ended, and waited for, whether its run has ended or not.
Reap(r) ==
    /\ daemon = "reaping" /\ r \in identity /\ agent[r] \in Alive \ {"stray"}
    /\ \/ Become(r, "exited")
       \/ "reap" \in Faults /\ Become(r, "stray")
    /\ UNCHANGED <<durable, cycles, phase, sessions, resuming, daemonVars>>

\* Mutant: only the groups of runs that were live are ended.
EndReapingLive ==
    /\ daemon = "reaping"
    /\ \A r \in identity : Live(r) => agent[r] \notin Alive \ {"stray"}
    /\ daemon' = "clearing"
    /\ UNCHANGED <<durable, cycles, agent, phase, sessions, resuming, signalled, crashes>>

EndReaping ==
    /\ daemon = "reaping"
    /\ \A r \in identity : agent[r] \notin Alive \ {"stray"}
    /\ daemon' = "clearing"
    /\ UNCHANGED <<durable, cycles, agent, phase, sessions, resuming, signalled, crashes>>

\* A reservation whose run has its row is the run's; any other goes with what it made, if it can be.
ClearReservation(r) ==
    /\ daemon = "clearing" /\ r \in reserved
    /\ reserved' = reserved \ {r}
    /\ directory' = IF status[r] = "none" THEN directory \ {r} ELSE directory
    /\ UNCHANGED <<status, claims, identity, cycles, agent, phase, sessions, resuming, daemonVars>>

EndClearing ==
    /\ daemon = "clearing"
    /\ \A r \in reserved : status[r] = "none" /\ "removal" \in Faults
    /\ daemon' = "finishing"
    /\ UNCHANGED <<durable, cycles, agent, phase, sessions, resuming, signalled, crashes>>

\* Mutant: a run that had no session yet is left live.
InterruptedSessions(r) ==
    /\ daemon = "finishing" /\ status[r] \in {"running", "waiting"}
    /\ Finalize({r}, "interrupted")
    /\ UNCHANGED <<reserved, directory, identity, cycles, agent, phase, sessions, resuming, daemonVars>>

\* A run that was live when the daemon stopped.
Interrupted(r) ==
    /\ daemon = "finishing" /\ Live(r)
    /\ Finalize({r}, "interrupted")
    /\ UNCHANGED <<reserved, directory, identity, cycles, agent, phase, sessions, resuming, daemonVars>>

EndRecovery ==
    /\ daemon = "finishing" /\ \A r \in Runs : ~Live(r)
    /\ identity' = {} /\ daemon' = "up"
    /\ UNCHANGED <<status, reserved, directory, claims, cycles, agent, phase, sessions, resuming, signalled, crashes>>

-----------------------------------------------------------------------------
LaunchStep(r) ==
    \/ Enter(r) \/ Refuse(r) \/ PreflightPasses(r) \/ ReserveLaunch(r) \/ MakeDirectories(r)
    \/ FailReserved(r) \/ CleanLaunch(r) \/ RecordRun(r) \/ Register(r) \/ StrandLaunch(r)
    \/ StartChecks(r) \/ ChecksDone(r) \/ OpenSession(r) \/ LookDone(r) \/ Spawns(r)
    \/ SpawnFails(r) \/ SessionRefused(r) \/ SessionStarts(r)

SupervisionStep(r) ==
    \/ TurnCompleted(r) \/ Activity(r) \/ ExitConsumed(r) \/ SupervisionFails(r)
    \/ ControlledDeadline(r) \/ ExitAwaited(r) \/ DropRecord(r)

OperatorStep(r) == Admit(r) \/ Cancel(r) \/ CancelInvestigation(r) \/ End(r) \/ SendMessage(r)

CycleStep(w) ==
    \/ CycleEndTurn(w) \/ CyclePause(w) \/ CycleStop(w) \/ CycleAttention(w)
    \/ ResumeBegins(w) \/ ResumeDecides(w)
    \/ \E q \in Runs : CycleStart(w, q) \/ CycleNext(w, q) \/ ResumeLaunches(w, q)

DrainStep == ServiceStop \/ DeployDrain \/ CancelDrain \/ StopWaiting \/ Interrupt \/ RecordCleanStop

RestartStep ==
    \/ Halt \/ Crash \/ EndReaping \/ EndClearing \/ EndRecovery
    \/ \E r \in Runs : Reap(r) \/ ClearReservation(r) \/ Interrupted(r)

Next ==
    \/ \E r \in Runs : \/ LaunchStep(r) \/ SupervisionStep(r) \/ OperatorStep(r)
                      \/ LateSession(r) \/ AgentExits(r) \/ StepDeadline(r)
    \/ \E w \in Worktrees : CycleStep(w)
    \/ DrainStep \/ RestartStep

Spec == Init /\ [][Next]_vars

\* A launch's awaits settle; a killed group exits (the backends follow SIGTERM with SIGKILL) and its
\* exit is read; a stop under way and a recovery go on. No operator, agent's turn, cycle or crash is fair.
Fairness ==
    /\ \A r \in Runs : /\ WF_vars(LaunchStep(r))
                        /\ WF_vars(LateSession(r))
                        /\ WF_vars(daemon \in Serving /\ agent[r] = "killed" /\ AgentExits(r))
                        /\ WF_vars(ExitConsumed(r))
                        /\ WF_vars(ExitAwaited(r))
                        /\ WF_vars(Reap(r) \/ ClearReservation(r) \/ Interrupted(r))
    /\ WF_vars(Interrupt \/ RecordCleanStop \/ Halt)
    /\ WF_vars(EndReaping \/ EndClearing \/ EndRecovery)

FairSpec == Spec /\ Fairness
-----------------------------------------------------------------------------
(* Properties.                                                             *)

TypeOK ==
    /\ status \in [Runs -> RunStatuses]
    /\ reserved \subseteq Runs /\ directory \subseteq Runs
    /\ claims \subseteq Scoped /\ identity \subseteq Runs
    /\ cycleStatus \in [Worktrees -> CycleStatuses]
    /\ cycleRun \in [Worktrees -> Runs \cup {NoRun}]
    /\ agent \in [Runs -> AgentStates]
    /\ phase \in [Runs -> Phases]
    /\ withdrawn \subseteq CycleRuns /\ cancelReq \subseteq Runs /\ drainInt \subseteq Runs
    /\ resuming \in [Worktrees -> ResumeStages]
    /\ daemon \in DaemonStates /\ signalled \in BOOLEAN /\ crashes \in 0..MaxCrashes

\* AGT-13, "One agent per worktree" (run/preconditions.ts:119): two agents never work in one worktree, each
\* from its session's arrival on (ProcessesApart has the time before it). Strays are the exception: what
\* a stop can leave of them is the subject of ProcessesRecorded.
OneAgentPerWorktree ==
    \A r, q \in Runs : Working(r) /\ Working(q) /\ tree[r] = tree[q] => r = q

\* At most one run of a worktree has a live record: what the cycle and the operator's commands
\* take for the worktree's run is the only one there is.
OneLiveRunPerWorktree ==
    \A r, q \in Runs : Live(r) /\ Live(q) /\ tree[r] = tree[q] => r = q

\* No launch brings an agent, from the moment its process is spawned, beside one that is still ending:
\* killed, but its process not gone. Agents whose launch was cancelled as they came and loose ones are the
\* exception the code makes: they do not hold their worktree.
ProcessesApart ==
    LET present == {r \in Runs : Working(r) \/ agent[r] = "killed" \/ Arriving(r)}
    IN \A r, q \in present : tree[r] = tree[q] => r = q

\* AGT-12: every run directory is named by a reservation or owned by a run's row, whatever was refused,
\* failed or crashed on the way, so that a start can find it.
DirectoriesOwned == directory \subseteq reserved \cup {r \in Runs : status[r] # "none"}

\* Phase claims are held exactly by the scoped runs that are live, and never more than the capacity.
ClaimsMatchLiveRuns ==
    /\ claims = {r \in Scoped : Live(r)}
    /\ Cardinality(claims) <= Capacity

\* While the daemon serves, an agent that works has a live record and a supervisor, so there is always
\* something to cancel it by and something that ends its record.
WorkingIsSupervised ==
    daemon \in Serving => \A r \in Runs : Working(r) => Live(r) /\ r \in Sessions

\* Without failures no live record is left without a launch or a session that will end it. Once a clean
\* stop is recorded no agent works on but a cycle's step that had completed its turn, and every record
\* still live is a session's whose exit the stop did not wait for.
NoAbandonedRun ==
    /\ daemon \in Serving => \A r \in Runs : Live(r) => Holding(r) \/ r \in Sessions
    /\ daemon = "stopped" => \A r \in Runs : /\ agent[r] # "working"
                                            /\ Live(r) => r \in Sessions

\* AGT-02 (run/processes.ts:174, 322): the process of an agent that has come to its run is on record until
\* it has exited, whether its run ended before it or not, so that whenever the daemon stops the next start
\* finds it and ends it. It does not say that no agent is ever lost. A stop loses those it finds between
\* their spawn and their record (born), those killed as they arrived for a launch that did not want
\* them (loose), and those killed on arrival because their run had ended, for which processes.ts:184-186
\* writes no record although the worktree is held until they exit (outliving).
ProcessesRecorded ==
    \A r \in Runs : Working(r) \/ (agent[r] = "killed" /\ phase[r] # "outliving") => r \in identity

\* A drain admits nothing: no run gets a record while the daemon drains, and no agent comes to its run
\* once it ends sessions, though its process may have been spawned for it.
DrainAdmitsNothing ==
    [][/\ daemon \in Draining => \A r \in Runs : status[r] = "none" => status'[r] = "none"
       /\ daemon \in Interrupting => \A r \in Runs : Working(r)' => Working(r)]_vars

\* The run supervisor implements the abstract life of runs.
Lifecycle == INSTANCE RunLifecycle
    WITH status <- [r \in Runs |-> IF status[r] = "drained" THEN "interrupted" ELSE status[r]],
         working <- {r \in Runs : Working(r)}
ImplementsLifecycle == Lifecycle!Spec

\* No await hangs: a launch comes to a supervised run or is over and its worktree free, a cancelled
\* session's record ends, and a worktree held for an exit is released.
NothingHangs == \A r \in Runs :
    /\ (phase[r] = "admitted") ~> (phase[r] \in {"idle", "over", "supervised"})
    /\ (r \in cancelReq) ~> ~Live(r)
    /\ Terminating(r) ~> ~Terminating(r)

\* A stop that no longer waits comes back up, every record of before settled.
StopReturns == (daemon = "stopping") ~> (daemon = "up" /\ \A r \in Runs : ~Live(r))
=============================================================================
