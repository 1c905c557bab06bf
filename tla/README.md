# Formal models of craftingtable

craftingtable is a daemon that runs coding agents in Git worktrees, takes their work through
implementation and review steps (work cycles), merges what was reviewed, and drives whole plans
(roadmaps) that way. This directory holds TLA+ models of the parts of it that are hard to test, the TLC
runs that check them, and machine-checked proofs of what matters most about its core. Every
definition is a translation of the source under `src/`; `PROJECT.json` says which lines each one models.

- [What is here](#what-is-here)
- [The system](#the-system)
- [AgentRuns](#agentruns-one-daemons-agent-runs)
- [MergeOperation](#mergeoperation-merges-across-storage-and-git)
- [CycleController](#cyclecontroller-marks-rounds-and-the-slow-lane)
- [InstanceLock](#instancelock-one-daemon-per-data-directory)
- [RoadmapSettlement](#roadmapsettlement-stopping-a-roadmap-that-is-being-worked-on)
- [WorkCycle](#workcycle-one-cycles-decisions-and-budgets)
- [What is proved](#what-is-proved)
- [Where the code and its documents disagree](#where-the-code-and-its-documents-disagree)
- [What is not modelled](#what-is-not-modelled)
- [The plan](#the-plan)

## What is here

| Module | What it is |
|---|---|
| `RunLifecycle` | Abstract: what the run supervisor promises. A record's life, one agent per worktree. |
| `AgentRuns` | The run supervisor of one daemon: launches, sessions, commands, drains, crashes, recovery. |
| `AgentRunsProofs` | Theorems about `AgentRuns`, and that it implements `RunLifecycle`. |
| `AgentRunsEndsProofs` | More theorems about it: what a launch, a drain, a restart and a stop leave behind. |
| `MCAgentRuns` | The instances of `AgentRuns` that TLC checks. |
| `MergeLife` | Abstract: what the merge executor promises. One merge of a worktree, reserved, made, recorded. |
| `MergeOperation` | Merges of reviewed worktrees, between storage and Git. |
| `MergeOperationProofs` | Theorems about it, and that it implements `MergeLife`. |
| `MCMergeOperation` | Its instance for TLC. |
| `CycleController` | The work cycles' controller: marks, rounds, the slow lane, commands' holds, quiescence. |
| `CycleControllerProofs` | Theorems about it. |
| `MCCycleController` | Its instances for TLC. |
| `InstanceLock` | The lock that lets one daemon at a time use a data directory. |
| `InstanceLockProofs` | Theorems about it. |
| `MCInstanceLock` | Its instance for TLC. |
| `RoadmapSettlement` | Stopping and winding down a roadmap, against its rounds, commands, faults and other roadmaps. |
| `RoadmapSettlementProofs` | Theorems about it. |
| `MCRoadmapSettlement` | Its instance for TLC. |
| `WorkCycle` | One cycle from its implementation to its merge: outcomes, budgets, stops, commands, restarts. |
| `WorkCycleProofs` | Theorems about it. |
| `MCWorkCycle` | Its instance for TLC. |

To repeat a run: `tlc -config AgentRuns_manual.cfg MCAgentRuns.tla`. To repeat the proofs:
`tlapm AgentRunsProofs.tla`, and so for the other six modules of proofs.

Operators whose comment begins with *Mutant* are deliberate bugs. No specification uses one; they are
there so that each property can be seen to fail when the definition after it is replaced by the mutant.
A property no such bug can break would say nothing about the code.

## The system

All paths are under `src/`. The daemon is `apps/server`; its packages are `packages/storage` (SQLite),
`packages/git`, `packages/agents` (backends and processes), `packages/planning`, `packages/domain` and
`packages/contracts`; `apps/web` is the client.

One daemon is one Node.js process with one event loop. Between two awaits its code runs alone, and a
storage transaction is synchronous, so a *step* in these models runs from one await to the next. What
makes the system hard is everything that can happen at an await: another command, an agent's exit, a
person using Git in the same repository, a drain, a crash.

| Component (`apps/server/src/services/`) | State it keeps | Operations | Talks to | Hard about it | Correct when |
|---|---|---|---|---|---|
| Run launch, spawn (`run/launch.ts`, `spawn.ts`, `reservation.ts`, `preconditions.ts`) | run rows, launch reservations, run directories, pending launches | launch for an operator, a cycle, an investigation | guard, storage, Git, backends, phase claims | about fifteen awaits, each of which can fail, be cancelled, or outlive a drain; a session may come late | one agent per worktree; nothing made on the way is lost |
| Supervision, journal (`run/supervision.ts`, `journal.ts`) | live sessions, their cancel and drain flags | turns, exit, failure of the consumer | cycle notifications, storage | supervision itself can fail while the agent works | every agent that works has a record that will end |
| Process records, recovery (`run/processes.ts`) | process identity records | record, interrupt for a restart, recover | operating system | agents outlive the daemon | no agent outlives the next start |
| Worktree guard (`worktree-mutation-guard.ts`) | holds, in memory | take, hold, release after an exit | everyone who changes a worktree | a hold that nobody releases | exclusion; eventual release |
| Run commands (`agent-run-service.ts`) | the drain flags | start, cancel, end, message, finish a cycle's turn | launch, sessions | races with launch and exit | a cancel ends the run |
| Drain (`daemon-drain.ts`) | state of the drain | signal, deploy request, withdrawal, clean stop | cycles, roadmaps, runs | work that begins or ends while it counts | nothing is admitted, nothing is left |
| Restart resume (`restart-resume.ts`) | stop records | resume the sessions of a drain | runs, cycles | crash in the middle of resuming | only the drain's runs resume, once |
| Phase claims (`phase-resources.ts`, storage's `phase-reservations.ts`) | claim rows | claim, release, migrate | launch, merge, finalization | capacity under races and crashes | claims are the live work's, within capacity |
| Work cycles (`cycle/`) | cycle rows, steps, budgets, workflow revisions | start, next, pause, resume, stop, attention | runs, merges, kernel | long sequences, operators' commands against the controller | budgets hold, no step twice, no loop without progress |
| Controller kernel (`kernel/`) | marks, due times | mark, take, wait, sweep | controllers | a change during a round | no change stays unseen |
| Cycle controller (`work-cycle-service.ts`, `cycle/locks.ts`, `cycle/core/lanes.ts`, `next-look.ts`) | the round, the lane's job and its waiters, commands' holds, refreshes | round, look, carry out, wait for the lane, job's end | kernel, runs, merges, notifications | rounds read records that change under them; one lane for all | no change is lost; the lane serves who waits; no push too early |
| Merge (`merge/`) | merge operations, worktree rows | gate, merge, record, clean up, recover | Git, guard, repository lane | no transaction spans Git and storage | what was reviewed is merged once, and recorded |
| Branches and worktrees (`branch-service.ts`, `execution-service.ts`) | worktree rows, branch policies | create, update, remove | Git, guard, lane | the branch moves after it was read | reviews of old content do not count |
| Roadmap scheduler (`roadmap-service.ts`, `roadmap/`) | roadmap rows, holds | admission, selection, retries, drain | cycles, claims, decisions | capacity and holds under retries | nothing admitted against a hold; nothing starves |
| Roadmap settlement, cleanup (`roadmap-settlement.ts`, `retired-versions.ts`, `repository-cleanup.ts`) | the wind-down record, which is the roadmap's hold; retired versions | preview, stop, wind down, resume from a round, clean up | cycles, resolutions, preparations, amendments, Git | a step fails or waits after others were done; rounds and commands that began before the hold go on | resumable, still once settled, nothing revives it |
| Map amendments, decisions (`map-amendment-service.ts`) | amendments | propose, apply, retire work | cycles, merges | applying against running work | retired work neither runs nor merges |
| Finalizations (`finalization-service.ts`) | finalization rows | open, decide | merges, claims | staleness of what was decided | a merge waits for what it needs |
| Check requests, repository checks | requests, adopted definitions | request, run, adopt | runs, Git | a request whose run has ended | each request is answered once |
| Instance lock (`instance-lock.ts`) | socket files, abstract sockets | take, release | operating system, other daemons | two starts that race; locks of daemons that were killed | one holder; a stale lock stops nobody |
| Runtime evidence, storage service, notifications, event streams, imports, authentication | various | various | various | delivery retries | see the plan |

How they interact: a *cycle* (or an operator) asks the *run* services for a run; the launch takes the
*worktree guard*, reserves, records the run with its *phase claim*, and starts a session; *supervision*
consumes the session and notifies the cycle, whose *kernel* schedules another round; at the end of a
work item the *merge* takes the guard and the repository's *merge lane*. The *drain* stops admitting at
all of them and then ends sessions. Everything durable is in SQLite or Git; the guard, the lane, the
sessions and the kernel are memory and vanish in a crash.

`PROJECT.json` lists every component with its status, and under `hazards` what is hard to test in this
code, each at its line and with the properties that cover it.

## AgentRuns: one daemon's agent runs

### State

| Variable | In the code |
|---|---|
| `status` | a run's row. `"drained"` is `interrupted` with reason `daemon-drain` |
| `reserved`, `directory` | launch reservations (rows) and run directories on disk |
| `claims` | phase claims held by runs |
| `identity` | process records on disk |
| `cycleStatus`, `cycleRun` | a worktree's work cycle and its `currentRunId` |
| `agent` | the agent's process: not there, still to be spawned for a caller that has gone (`late`), spawned and prompted but not with its launch yet (`born`), working, told to end, killed, killed with nobody waiting (`loose`), of an earlier daemon and unknown to this one or beyond its reach (`stray`), gone |
| `phase` | where the launch or the supervision of a run stands, between two awaits |
| `withdrawn` | cycle launches whose `AbortController` is aborted |
| `cancelReq`, `drainInt` | a live session's `cancelRequested` and `drainInterrupted` |
| `resuming` | a cycle's resume command between its checks and its write |
| `daemon`, `signalled` | serving, draining, interrupting, stopped, and the three stages of a recovery |

A run is an identifier: its kind (an operator's, a cycle's step, a read-only investigation), its worktree,
whether it is a review with adopted checks, and whether it is in a roadmap's scope are constants. A
refused cycle launch may be tried again under its own identifier; anything else gets a new one.

### Actions

*A launch* (`LaunchStep`): `Admit` (the command's own checks), `Enter` (the worktree is taken),
`PreflightPasses` (the preconditions asked again), `ReserveLaunch`, `MakeDirectories`, `RecordRun` (row
and claim in one transaction), `Register`, `StartChecks`/`ChecksDone` for a review, `OpenSession`,
`LookDone`, `Spawns` (the backend starts the agent, detached, and gives it its prompt), and then
`SessionStarts` or `SessionRefused`, which write the process record; `SpawnFails` is a launch without a
session, `LateSession` the process and the session of a launch whose caller gave up. `Refuse`,
`FailReserved`/`CleanLaunch` and `StrandLaunch` are the ways it fails. *Supervision*: `TurnCompleted`, `Activity`, `ExitConsumed`, `SupervisionFails`,
`ControlledDeadline`, `ExitAwaited`, `DropRecord`. *Commands*: `Cancel`, `CancelInvestigation`, `End`,
`SendMessage`, and a cycle's start, next step, end of turn, pause, stop, attention and resume. A resume is
three actions because it awaits between its checks and its write. *Drain*: `ServiceStop`, `DeployDrain`,
`CancelDrain`, `StopWaiting`, `Interrupt`, `RecordCleanStop`. *Restart*: `Halt` or `Crash`, then `Reap`,
`ClearReservation`, `Interrupted` with the ends of their three stages.

Failures are the constant `Faults`: an instance names which operations may fail, so that a run can say
what holds with none of them and what holds with all of them.

### What it is supposed to do

`RunLifecycle` says it in forty lines: a record is created once, its agent begins only with no rival at
work in its worktree, and a record ends at once with its agent's work. `ImplementsLifecycle` is that
specification under the refinement mapping that forgets why a run was interrupted and takes as working
the agents that are alive and not told to stop at once.

| Property | What it says | Why it could fail |
|---|---|---|
| `OneAgentPerWorktree` | two agents never work in one worktree (AGT-13) | the look for a live run and the record are many awaits apart |
| `OneLiveRunPerWorktree` | nor are there two live records in one | the same, for what the commands rely on |
| `ProcessesApart` | no agent is brought beside one still being killed | records end before processes do |
| `DirectoriesOwned` | every run directory has a reservation or a row (AGT-12) | any failure or crash between making and recording |
| `ClaimsMatchLiveRuns` | phase claims are exactly the live scoped runs', within capacity | each of a dozen ways a run can end must return its claim |
| `WorkingIsSupervised` | an agent at work has a live record and a supervisor | late sessions, failed supervision |
| `NoAbandonedRun` | without failures, a live record has something that will end it, and a recorded clean stop leaves only what it says | reviews continue outside their launch; sessions arrive while the drain counts |
| `DrainAdmitsNothing` | no new record in a drain, no new agent once it ends sessions | launches already past the drain's check |
| `ProcessesRecorded` | the process of an agent that has come to its run is on record until it has exited, so that the next start ends it, whether its run ended before it or not | records of runs end before processes do, and the process record is deleted by others than the run's end: an exit's reader, a recovery that must have ended the group first |
| `NothingHangs` | launches settle, cancels end records, held worktrees are released | something waits for what nobody will report |
| `StopReturns` | a stop comes back up with every record ended | the same, in the drain and in each stage of the recovery |

`ProcessesRecorded` does not say that no agent is lost. The backend spawns the agent and prompts it inside
`launch` (`claude-code/backend.ts:174`, `192`, `codex/session.ts:83`), and `run/spawn.ts:317` writes its record
only when the session has come back. A stop between `Spawns` and `SessionStarts` leaves a working agent that no
later start knows of: `Restarted` makes it a stray. So it does with the agents that were killed as they came
for a launch that was cancelled or refused (`loose`), and with those killed on arrival because their run had
ended, for which the code writes no record (phase `outliving`). What follows the spawn up to the row's
`running` is one step, as nothing awaits in between: a crash within it leaves the process with
its record (the recovery ends it and interrupts the run, as after a crash behind the step) or without (as before it).

### Runs and bounds

| Run | Instance | Distinct states |
|---|---|---|
| `manual` | two operators' launches in one worktree, one a review with checks, both scoped; every fault, that of the process record's write included; one crash | 55 thousand |
| `cycle` | a cycle's two steps, the second a review, and an investigation, in one worktree; no faults, no crash | 1.3 million |
| `liveness` | a cycle's review and an investigation; removals and supervision may fail; one crash; with fairness | 62 thousand |
| `mixed` | the smallest instance that shows the finding below | |

Two runs in a worktree are what the properties relate: exclusion is between two agents, and a third one
there meets the same two checks. The cycle instance has three because a cycle's next step, with an
investigation beside it, is a case of its own. Two worktrees matter only where something is shared between
them, which is the capacity for claims. No run contends for it: the two scoped runs of `manual` have one worktree and
so never hold claims together, and the run shows only that every end of a run returns its claim. That two
launches which race for the last claim cannot exceed the capacity is shown by the theorem `ClaimsMatch` alone,
which has no bounds. One
crash, at any point and also during the recovery from a clean stop, is enough for
each of the recoveries to start from every state; a second crash would find what the first one's recovery
leaves, which has the same form. The proofs below do not have these bounds. The bounds are the constants
`Runs`, `Worktrees`, `Capacity`, `Faults` and `MaxCrashes`.

This system never stops for good, so its runs check for deadlock.

### Fairness

`Fairness` assumes that a launch's awaits settle (each has a time limit, `run/launch.ts`, `spawn.ts`), that
a killed process group exits while the daemon serves (the backends follow SIGTERM with SIGKILL,
`packages/agents/src/process.ts`), that its exit is read, and that a stop and a recovery under way go on.
Nothing is assumed of operators, of agents' turns, of the cycle controller or of crashes: a launch
nobody cancels may have an agent that works forever, and the properties ask nothing else.

### Abstractions

The contents of briefs, evidence, journals, costs and verdicts are left out. A refusal whose reason is
data (a scope, a branch, disk space) may happen at every point where the code can refuse. Whether a
process record still names the same process (boot identifier, start time) is taken as decided rightly.
SQLite transactions are atomic. The wait for clean-ups is part of admission. Merges, updates and
removals, which take the same guard, are in `MergeOperation`.

## MergeOperation: merges across storage and Git

A merge is reserved in storage, made in Git, recorded in storage, and cleaned up in Git; nothing spans the
two. If the daemon dies or an await throws in between, the next attempt must find out from the target's
history whether the merge happened. The model has one repository and its integration target.

| Variable | In the code |
|---|---|
| `commits`, `target`, `head`, `branch`, `checkout` | the repository: each commit with its ancestors, its first-parent history and its merge marker; the branches; the worktree's checkout |
| `row` | a worktree's row: status, version, merge commit |
| `run` | the worktree's latest run, and for a review the commits and the version it recorded |
| `ops` | the merge operations, in order, with their reserved commits |
| `stage`, `local` | where the daemon's operation on a worktree stands, and what it has read |

`BeginMerge` takes the guard and the lane and decides, as `merge/executor.ts` does, whether this is a new
merge (`Gate`, `Reserve`, then `MoveTarget`, `MoveNothing` or `MoveFails`), the recovery of a reserved one
(`InspectFinds` or `InspectMisses`), or another cleanup of a recorded one. `Record` is the merge's
transaction. `CleanupLooks`, `RemoveCheckout`, `DeleteBranch`, `CleanupFails` and `FinishCleanup` are the
cleanup. `BeginUpdate`/`RequestUpdate`/`Update` and `BeginRemoval`/`Discard`/`MarkRemoved` are the other
operations that move a worktree. `Throw` ends any of them at any await, and `Crash` all of them.
Meanwhile `OutsideTarget`, `OutsideEdit` and `OutsideCommit` are people using Git, whom no guard stops,
and `AgentCommits` an agent's work.

Git is modelled by what it reads and moves: the target moves by compare-and-swap from the commit the
operation reserved; a merge commit carries its operation's marker; a failed command may have moved the
target before it failed; a checkout with uncommitted work is not removed without force; a branch is
deleted by compare-and-delete. The target only grows along its first-parent line. Other worktrees'
merges are seen by this one as commits on the target. A Git command ends with its daemon (the service unit
kills the whole control group).

| Property | What it says |
|---|---|
| `MergesAreReviewed` | a merge commit brings in exactly what a mergeable review at the worktree's version saw, on the target it saw |
| `MergedOnce` | a worktree's finished merge is never repeated, whatever crashed or failed |
| `ImplementsMergeLife` | the executor implements `MergeLife`: a reservation whose merge Git has made is never given up, and the record names that merge |
| `RecordedIsMerged` | what storage records as merged is in the target with its reviewed commit, and the row and the operation agree |
| `NoCommitLost` | the cleanup deletes a branch only when the target holds all of it |
| `FinishedMergesRecorded` | a merge that Git has made is recorded in the end |

`MergeLife` is the abstract life of a merge: storage reserves it, Git makes it once, storage records it, or
the reservation is given up as long as Git has made nothing. Its `merges` are the pairs of a worktree and a
commit with its operation's marker, `reserved` the worktrees whose last operation is reserved, and
`recorded` the `mergeSha` of the worktree's row. A given-up operation has then merged nothing
(`FailedMergesAbsent`, a part of the inductive invariant), since a merge is made only while its operation is
reserved, and never given up after.

The run `merge` has one worktree, six commits, two operations, two versions and one crash: enough for a
merge that fails, an update, a second review and a second merge, with somebody's commits in between (448
thousand states). `MaxVersion` bounds the updates, `MaxOperations` the reservations, `MaxCommits` the
history. The merge lane lets one operation move the target at a time, so a second worktree
is to the first one what `OutsideTarget` is.

`Fairness` here assumes that an operation's awaits settle one way or the other, and that a reserved
merge is tried again and not failed by Git or storage every time (strong fairness of the retry, of
finding the merge, and of its record): the scheduler of an automatic roadmap retries, and otherwise an
operator has to. Without a retry, the code does not promise that a merge is recorded.

Left out: what else may refuse a merge (roles, scopes, evidence, finalizations) is `Throw`; the adoption
of check definitions with a merge, the completion of its work item, the version a removed row gets, and
the removal of scratch directories. The look for the marker is bounded in the code to 1000 commits,
which no instance reaches.

## CycleController: marks, rounds and the slow lane

The controller has no loop over its cycles: a cycle is looked at because something marked it. A write, a
released hold, a due time or the 30 s sweep marks; the loop takes the marks and runs a round; each look
decides, and either carries its decision out at once or, if that awaits I/O, gives it to the slow lane,
which has one job at a time. Each of these hands a cycle on to the next, and a hand-over that misses is
not an error anybody sees: the cycle just stands still until the sweep. `CycleController` models the
hand-overs and keeps of a decision only its kind.

| Variable | In the code |
|---|---|
| `need` | what `decide` would say of the cycle's stored state: nothing, a decision of the fast or the slow lane (`lanes.ts`), or the cycle is not active |
| `limited` | cycles with a time ahead at which a look would act: a step deadline, a provider's retry |
| `everything`, `keys`, `due` | the kernel's marks and due times |
| `loop` | the controller's `loop`: waiting in `marked`, about to `take`, in a round |
| `rest`, `stale` | the round: cycles not yet looked at, what the record read of one of them says if it was written since |
| `job`, `meanwhile`, `waiting`, `before` | the lane's job and its `markedMeanwhile`, `laneWaiting` and its order |
| `behind` | history: waiters that a look left to one before them while the lane was free, and that no job's end has marked since |
| `held`, `refreshing` | `commandHolds` and the scheduler's refreshes in flight |
| `push` | an attention item, and how far the passes are that its push waits for (`ControllerPasses`, `uncompleted`) |
| `unseen` | history: cycles that changed, as the kernel can know, since they were last decided |

`Take` and `EndRound` are the ends of a round; `LookBusy`, `LookIdle`, `CarryOut`, `LookFails`, `LookWaits`
and `Dispatch` are what a look may do, in the order of the tests in `reconcile`; `JobWrites` and `JobEnds`
are the lane's job. Around them, `Write` is anybody's committed write, `Start` a new cycle, `Expire` and
`FireDue` the kernel's timer, `Hold`/`Release` a command, `RefreshBegins`/`RefreshEnds` the scheduler,
`OpenItem`/`CloseItem` attention, and `SilentChange` what no event reports. A round reads its cycles'
records as it begins and decides them later, with facts that are fresh: a record written meanwhile decides
as it was read, and its writes give way to the newer version. A mark of one write covers every cycle, as in
the code. Rounds are in any order: the priority of roadmaps is data.

| Property | What it says | Why it could fail |
|---|---|---|
| `NothingUnseen` | without the sweep, the controller comes to a changed cycle, unless that is a waiter left behind another while the lane was free; it comes to a deadline ahead, such waiters' too, unless it passes, with no due time set, during the cycle's own job; and it does not sleep on a mark | marks are taken before cycles are looked at, and dropped for the job's and held cycles; every look resets the due time |
| `PushesWait` | as a push stops waiting, each cycle that had something to decide when its item opened has been decided, is busy elsewhere, or is marked or due again | passes complete out of step with the lane |
| `EveryoneServed` | a cycle that waits for the lane gets it or leaves it, or is held; a decision that awaits nothing, such as a deadline's stop, is carried out however busy the lane is | an endless run of jobs of others; a deadline that only a finished job would look at |

| Run | Instance | Distinct states |
|---|---|---|
| `rounds` | two cycles, one of them with limits and with holds or refreshes, one at a time; an attention item | 3.2 million |
| `served` | two cycles, one with limits, with fairness; no holds, no items | 62 thousand |
| `lane` | the smallest instance that shows the finding below | |

Two cycles are a job and a waiter, or a first waiter and one behind it, which is what every property
relates; the proofs hold for any number. The bounds are `Cycles`, `Limitable`, `Holdable`, `MaxBusy` and
`Items`. Nothing else is bounded: the model has no counters. Limits, holds and refreshes meet in one of the two
cycles of `rounds`, the other has none, and either may come first. Both cycles with limits and with holds
(7.6 million states) were explored once; the inductive invariant, which covers them, is proved for all.

What brings the controller to a cycle is a mark, the rest of a round, a retry's due time, the end of the
lane's job or of a hold. A place in `laneWaiting` is not: waiters are marked as a job ends
(`work-cycle-service.ts:769-770`, `:977`), so it counts only while there is a job. A waiter that a look left to
one before it while the lane was free has nobody to bring it back if that one gives up its place (`:951`, `:990`);
`NothingUnseen` excepts exactly these (`behind`), and the run `lane` shows that the exception is met. Such a
waiter's deadline is not lost: `lookAgain` sets its due time.

`Fairness` assumes that the loop runs, each look and each job ends, timers fire (`Sweep`, `FireDue`), and
a refresh ends. It assumes strong fairness of `CarryOut`: contention does not meet a cycle's write every
time. Nothing is assumed of writes, commands or limits. Liveness is checked without holds and refreshes: a
command that took the first waiter at just each of its looks could keep those behind it waiting,
and the code has no answer to that but the unlikelihood.

Left out: the shutdown and the drain (a round stops between cycles), `tick` (tests and stories only),
exact times, re-arming and stepped clocks, the kernel's followers, how many holds a command has on one
cycle (a set stands for the counts), and the clean-up of runs, which answers as a refresh does. A
deadline that passes during its cycle's own job with no due time set (the first job it gets, or one that moved the
deadline) is found by the job's last write or by the sweep, as `nextLook` sets no time that has passed; the model
allows that, and `NothingUnseen` excepts it.

## InstanceLock: one daemon per data directory

Everything else here takes one daemon for granted; `instance-lock.ts` is why. A lock is taken without
anybody in charge and without a lock to take it under. Within a network namespace an abstract socket
decides. Across namespaces (a container, a sandboxed unit) only the directory is shared, and there a
starter binds a socket file under a *starting* name, listens, renames it to its *published* name, and looks
at the directory again: if another published socket answers, it withdraws. A socket file outlives the
process that bound it, so each look asks every name whether someone answers, and removes what refuses.

Each action is one system call of one process, because the other processes come between any two of them.
`BindAbstract`/`AddressInUse` begin a try; `List`, `AskDead`, `AskStarter`, `AskHolder` and `Remove` are a
look; `Bind`, `Listen` and `Publish` publish, and `NameGone` finds that somebody removed the starting name between the bind and the listen; `Take` ends the second look with the
lock, `Withdraw`, `Retry` and `GiveUp` without it. A daemon takes two locks in order (`needs`), a command
that works on the database only the first. `CallFails` is any other error of a call; `ReleaseFile`
and `ReleaseAbstract` undo what was taken; `Crash` kills a process at any point, which
closes its sockets and leaves its files.

| Property | What it says | Why it could fail |
|---|---|---|
| `OneHolder` | one process at a time has a directory's lock | each may publish before the other's second look, or after it |
| `HolderIsFound` | the holder's name stays in the directory and answers | every start removes names that refuse, and a name may be asked before its socket listens |
| `NothingLeft` | a start that failed or a stopped process leaves no lock, name or socket | a failure after the first of two locks, in the middle of the second |
| `LoneStarterHolds` | a process that starts alone gets its locks, whatever the killed ones left | stale names under both kinds, and the abstract socket |

| Run | Instance | Distinct states |
|---|---|---|
| `lock` | two daemons with data directories of their own and one temporary root, and a command on the first one's database; the command and the first daemon share a namespace and may be killed, the other daemon meets errors; with fairness | 155 thousand |

The command and the first daemon race for one directory, the two daemons for the other, from different
namespaces, beside what a killed one left; three starts that race for one directory are covered by the
proofs, which hold for any number. That not all of several racing starts withdraw is not a property here:
the code only makes it unlikely, by retrying after a random while. Each process starts once, so the bounds are `Procs`, `Dirs` and `Retries` alone. A
process that has stopped does not start again: deadlock is not checked, because all of them may have
stopped. `Fairness` is that a process that is not killed goes on: its calls return, and a connection
that nobody answers is given up after `ANSWER_TIMEOUT_MS`.

Left out: two sockets that draw the same 48 random bits, the checks of a directory's owner and mode, what
the messages say, and a directory that is removed under its holder. A live socket that does not answer
in time counts as a holder in the code; in the model a socket that listens answers.

## RoadmapSettlement: stopping a roadmap that is being worked on

Stop and wind-down end a roadmap whose cycles, preparations and commands all have awaits in flight. The
wind-down *record* is written first and is the hold: a running round's next look, a command and an
amendment refuse a roadmap whose record is settling. Then `settle` takes its steps one at a time: stop each
attempt's cycle (and abandon the resolution the preview named), end the preparations, reject the pending
amendment, and in one last transaction ask everything again, stop the roadmap and retire the versions. A
step that fails or has to wait leaves the record settling, and every later round takes it up
from the beginning, as the user who asked.

| Variable | In the code |
|---|---|
| `status`, `fresh` | the roadmap's row, and who still holds the version of it that it read |
| `record`, `named`, `chosen`, `retired`, `authorised` | the wind-down record; what it abandons and retires; whether whoever asked may still act |
| `cycle`, `session`, `owned`, `investigated`, `merging` | each attempt's cycle row, its agent, its integration resolution, its investigation, its reserved merge |
| `prep` | the decision preparations |
| `round`, `item`, `left` | where the scheduler's round awaits, on what, and what it has not come to yet |
| `todo`, `late`, `aim` | the settlement in memory: attempts to stop, a session it waits for, the resolution it is abandoning |
| `command` | the roadmap command that runs |
| `rival`, `outside` | another roadmap over the same versions, and work in them that belongs to no roadmap |

*The round* (`RoundStep`) prepares decisions (`Prepare`, `Reserve`, `LaunchPreparation`,
`FailPreparation`), starts entries (`BeginEntry`, `StartCycle`, `Superseded`), and may end with a hold, an
error or completion. It resumes a stop whose fact cleared (`AskCleared`, `ResumeCleared`).
*Settling* (`SettleStep`) is `ResumeSettle` from a round, or `WindDown`/`WindDownAgain` from a command, and
then the steps of `SettleOn`. *Others* are pause, resume in its two halves, amendments, an operator's work
on a waiting cycle, a reserved merge, a rival roadmap, the loss of a role, and a crash.

| Property | What it says | Why it could fail |
|---|---|---|
| `SettledIsStill` | a settled roadmap has ended, with no live cycle, no agent nobody asked to end, no amendment, and all it chose retired | a round admitted before the hold starts a cycle after the cycles were stopped |
| `EndedForGood` | nothing revives a roadmap that ended | a resume, a cleared stop or a round read it before it ended, and writes after |
| `RetiringVersionsRest` | no other roadmap runs a version that is retired or about to be | the versions were free at the request, and are retired much later |
| `SettlesInTheEnd` | unless it is hindered again and again, a settlement that began is finished | a session that has to exit first, a crash, a refused step, a pause meanwhile |

| Run | Instance | Distinct states |
|---|---|---|
| `settle` | two entries, one decision, one version that a rival roadmap also names; two interventions and one fault | 260 thousand |
| `held` | the same without faults, three interventions, until the finding below | |

Two entries let a settlement have stopped one while the other is started, waits or fails; one decision is
the one the round is at. `MaxCommands` bounds what operators and others do (wind-downs, pauses,
resumes, amendments, investigations, merges, resolutions, a revocation, outside work) and `MaxFaults` the
crashes and Git's refusals. The theorems below do not have these bounds. When the bounds are spent, a
settled roadmap stops, so deadlock is not checked.

`Fairness` assumes that rounds come (`ResumeSettle`: every sweep runs one), that what a round and a resume
await ends, that a settlement goes from step to step, that the abort of a merge under a worktree's hold
ends, and that an agent that was asked to end exits. `Hindered` names what the code leaves to people: nobody
to act as, a reserved merge, a resolution the preview did not name, or a chosen version that somebody uses.
`SettlesInTheEnd` assumes that this ends at some time, and nothing of how often it comes.

Abstractions. A settlement's last three steps, which await only each other, are one action, and so is
each attempt's step between two awaits. Which entry is eligible is left open, as are capacity and
selection: every entry may be started, held or left. The pauses of a roadmap's cycles are one step. Making a
preparation's worktree and launching its run is one await, since the same facts are asked before and after.
The cycles' worker reads the hold once in a pass and may start an agent for a cycle after the record was
written, which is why `StartSession` does not ask for it. Left out: applying an amendment, an operator's
own stop of a cycle, the loss of the standing grant, the release of the claims of runs
that ended, the refresh of an incomplete step's message, and the clean-up of repositories afterwards.

## WorkCycle: one cycle's decisions and budgets

A cycle implements, reviews, remediates and reviews again until a review has no findings, and then waits for
its merge. What follows from each report is decided by pure functions
(`cycle/core/`), but between a decision and its write stand Git, gates and launches, and meanwhile operators
pause, resume, guide, extend and stop the cycle. Several budgets bound what goes on by itself, each with
its own reset: rounds, repairs of a report's form, retries after an outage, continuations,
refreshes from the integration branch, and the step's time.

| Variable | In the code |
|---|---|
| `cycle` | the row: `status`, `step`, `stop` (with its code), the `attempt` (repairs, retries and whether one is due, continuations, guidance), rounds used and granted, the last findings and how often they stayed, refreshes |
| `run` | the cycle's current run: not launched, live, cancelled, or how it ended, with its findings and role |
| `newest` | the worktree's newest run, as long as the current one is only reserved |
| `overdue` | `runDeadlineAt` has passed |
| `merged` | `worktree.mergedAt` |
| `job`, `command` | the controller's effect and each operator's command under way; `fresh` while the version they read is the cycle's |
| `answered` | history: which findings were last sent to remediation, and how many rounds in a row |

*The controller* (`Controller`): `Decide` begins an effect, by how the run ended (`Decision`); `StopStep`,
`StepTimeLimit`, `ScheduleRetry` and `Complete` write at once; `MergeBoundary` looks again at a cycle that
waits. *Effects* (`FinishEffect`): `Launch`; `RetryProvider`, `ContinueResult`, `ResumeAfterRestart` and
`RepairOutput` run the step again, each with its own budget; `Review`, `Unchanged`, `TidyUp` and
`CommitFails` finish an implementation; `Remediate`, `Approve`; `ReserveRefresh` and then `RefreshReviews`,
`RestoreRefresh` (contention: the reservation is undone) or `RefreshFails`; `RefuseWorktree`, and
`NothingDone` for contention, a drain and a version that is no longer the one read. *Operators*: `Pause` and
`Stop` at any time; the others `Ask`, await, and end in one of `ResumeRetry`, `ReturnToStop`, `Continue`,
`Relaunch`, `ResumeReview`, `Guide` and `Grant`, or in `Refuse`. Around them `RunEnds`, `CancelEnds`,
`Merge`, `Tick` and `Restart`, after a clean stop or a crash. `Merge` awaits an idle controller: the
executor and a refresh both take the worktree's guard.

| Property | What it says | Why it could fail |
|---|---|---|
| `WaitsReviewed` | a cycle that waits for its merge has a current run that is a review without findings | approvals and refreshes await while the cycle is paused, resumed or refreshed under them |
| `OnlyCommandsResume` | a paused, stopped or ended cycle goes on only by a command that read it as it is | an effect that began before the pause writes after it; a refresh restores an old status; a restart |
| `NoSpinning` | rounds stay within the policy's and those granted, and the same findings are sent at most twice in a row by automation | the stall's counter passes through refreshes, resumes, housekeeping and grants |
| `ComesToRest` | a running cycle comes to rest or ends, whatever its agents do | a repair moves the deadline, a retry resets the repairs, a repair the retries |
| `WayOn` | a cycle that rests can be taken on: by a plain resume that goes on and does not only return to its stop, by guidance or by a grant; but behind an unlaunched run whose predecessor left questions | each command refuses towards another one, by conditions in three files; and which of them hold depends on what pauses, late ends of runs and restarts left behind |

The run `budget` has one operator with one command that awaits (and any number of pauses and stops), two
findings, one refresh, one outage, one restart, and one repair, retry and continuation each (1.28 million
states). `MaxRounds` is 3, the least with which a stall comes before the limit. Two findings are the same
and another. One command is what meets an effect; the effect meets the next command as it meets a pause.
The code's limits are larger (`OUTPUT_REPAIR_LIMIT`, three retries, two continuations), but each is only
compared with its counter. `Outages`, `Restarts` and `Commands` are bounds of the model. Outages are
bounded for a reason in the code: a repair begins with no retries used and a retry with no repairs (R-C2), so
that a provider that failed after each malformed report would have the two alternate, each repair
with a new share of time. Only the outages' end ends that. A cycle that was stopped or is complete stays
so: deadlock is not checked.

The fairness is `WF(Controller)` (marks and rounds come: `CycleController`), `WF(FinishEffect)` (awaits
settle) and `WF(Tick)` (time passes). Nothing is assumed of agents, operators or merges: an agent that never
ends is stopped by the step's deadline.

The model is a roadmap's slice. Left out: the design step, specialist reviews and the reassessments and
checkpoints of a workflow, an integration conflict's owned resolution, investigations, staged
finalizations, scope reviews, waits for a phase's capacity and readiness gates (a `Refuse` for commands), the
adoption of manual runs, outages reported with an approval, and an operator's command to retry earlier.
Of a report only its class is kept, and whether a remediation left the commit as it was is open.

## What is proved

`AgentRunsProofs` proves, for every set of runs and worktrees, every capacity, every set of faults and any
number of crashes, from the named assumptions of `AgentRuns` only:

| Theorem | Statement | Assumption |
|---|---|---|
| `TypeCorrect` | `Spec => []TypeOK` | |
| `DirectoriesAreOwned` | `Spec => []DirectoriesOwned` | |
| `AgentsAreSupervised` | `Spec => []WorkingIsSupervised` | |
| `ClaimsMatch` | `Spec => []ClaimsMatchLiveRuns` | |
| `OneAgent` | `Spec => []OneAgentPerWorktree` | `SeparateControl` |
| `OneLiveRun` | `Spec => []OneLiveRunPerWorktree` | `SeparateControl` |
| `Implements` | `Spec => ImplementsLifecycle` | `SeparateControl` |

and `AgentRunsEndsProofs`, under the same conditions:

| Theorem | Statement | Assumption |
|---|---|---|
| `DrainAdmits` | `Spec => DrainAdmitsNothing` | |
| `Apart` | `Spec => []ProcessesApart` | `SeparateControl` |
| `AgentsAreRecorded` | `Spec => []ProcessesRecorded` | `SessionsRecorded` |
| `NoRunAbandoned` | `Spec => []NoAbandonedRun` | `RecordsEnd` |

`SeparateControl` says that no worktree has both an operator's runs and a cycle's. It is a hypothesis of
the theorems and not an assumption of the module, and it is needed: the run `mixed` shows a behaviour
without it in which two agents work in one worktree. `SessionsRecorded` excludes one fault: that the record of
a process group cannot be written, which the code logs and goes on. `RecordsEnd` excludes that a launch which
throws leaves its row, and that storage refuses to end one. All other faults stay, and the runs that check these properties
choose such instances.

The argument, in the order of the file:

1. *Types.* `TypeOK` is inductive as it stands, one step of the proof per action.
2. *Directories.* `DirectoryInv` says that a directory without a row belongs to a launch between its
   reservation and its record, whose reservation exists; then every failure path keeps either.
3. *Supervision.* `SupervisedInv` relates `agent` and `phase`: an agent works only under a supervisor, and
   a supervised run's record is live unless its agent no longer works.
4. *Claims.* `ClaimsAreLive` and `ClaimsTakenAsRecorded`: a claim is taken with the row and with it alone,
   and every action that ends a row is `Finalize`, which returns the claim. The capacity is a cardinality
   argument at the one action that adds a claim.
5. *One agent.* Exclusion is not inductive: an agent starts because a launch got so far, and that launch
   got so far because, long before, it found nothing in its way. `OneAgentInv` carries that forward:
   `OneHolder` (one launch at a time holds a worktree), `RecordsFollowLaunches` (a live record is a
   launch's or a session's), `CyclesHaveRuns` and `CycleHolds` (a cycle's run is the one its row names),
   `ResumeApart` (a resume past its checks meets no launch), and `OneContender` (whatever is live or past
   its preflight in a worktree is one run). Each conjunct was checked by TLC as an invariant before it was
   proved.
6. *Refinement.* Under the mapping each action is a `Create`, a `Begin`, a `Turn`, a `Settle` or a
   stutter. The lemmas `SettlesIsSettle` and `InterruptSettles` do the actions that end many
   runs at once; `SessionStarts` uses `OneAgentInv` to show that there is no rival.

In `AgentRunsEndsProofs`:

7. *Drain.* Every step either settles live records and starts nobody, or is one of five others
   (`SettlesStep`); of those only a launch's record and a session's start could admit anything, and both ask
   the drain in the same step (`StepAdmitsNothing`).
8. *Processes.* `HeldInv` says that a process that has come to its run is supervised, or holds its worktree
   until it exits, that none is left when a start comes to its end of the reaping, and that a process still on
   its way (`born`) belongs to a launch that waits for it or to one that is over; `LaunchApart`, that beside a
   launch past its preflight no run of the worktree is supervised or overdue. With `OneHolder` the session
   that arrives is alone.
9. *Restarts.* `RecordedStep`: a process record is written in the step that brings the agent to its run, and is
   deleted only when the exit has been read (`ExitConsumed`, `ExitAwaited`, `DropRecord`, each of an exited agent)
   or by a recovery past its reaping, when `HeldInv` says that nobody of before is left; a restart makes a stray
   of every agent without a record, so that what stays on record stays known.
10. *Ends.* `Settled`: a live record belongs to a launch past its recording or to a session, from which on
    every way out ends it; nobody works once a drain has interrupted its sessions and a stop leaves only sessions.
    Each of these invariants was checked by TLC on the instances before it was proved.

`MergeOperationProofs` proves, for any worktrees and any number of commits, operations, updates and crashes,
from `BoundsAssumption`:

| Theorem | Statement |
|---|---|
| `TypeCorrect` | `Spec => []TypeOK` |
| `MergedOnlyOnce` | `Spec => []MergedOnce` |
| `FailuresMergeNothing` | `Spec => []FailedMergesAbsent`: an operation given up as failed has merged nothing |
| `Implements` | `Spec => ImplementsMergeLife` |
| `MergesAreAccounted` | `Spec => []MergesAccounted` |
| `RecordsAreTrue` | `Spec => []RecordedIsMerged` |
| `CommitsAreKept` | `Spec => []NoCommitLost` |
| `ReviewedMerges` | `Spec => MergesAreReviewed` |

None of these is inductive, because Git and storage change apart. What joins them: a commit holds what
its ancestors hold (`History`); a merge is on the target's line after the commit its operation reserved
(`MergesLand`), which is where recovery looks for it; and of a worktree's operations all but the last have
failed (`InTurn`). So a second merge of a worktree would be by its last operation, on a target that is
still the reserved one, and the first would have to be on that target already. `StagesAgree` says what is
known at each stage (an operation about to move the target names the commits of a mergeable review, one
about to be recorded has its merge on the target), and `OneInLane` and `LiveApart` say that nobody else
changes it meanwhile. The file first reduces every step to what it does to the history and the operations
(`HistorySteps`, `OpsWritten`, `KeptStep`), then keeps the parts one by one; `UntouchedStays` disposes of
the steps of everybody else. TLC checked `Inductive` before it was proved, with one worktree and with two.

`Implements` needs one fact more: what an operation is about to record is the commit that Git made for it,
if there is one (`NamesMerge`, checked by TLC first). It finds its merge by the marker, of which `MergedOnce`
allows one; or it moved the target itself; or the target held the source already, and then no merge of its
own can be on it. The steps that write an operation or make a merge are each a step of `MergeLife`
(`LifeStep`), and `ReservationsWritten`, `MoveMakes` and `RecordWrites` say that the others leave its state.
`MergesAreAccounted` is then proved of `MergeLife`'s steps alone: at any time a merge that Git has made is
recorded by its own commit or still reserved, so that the next attempt finds it.

`CycleControllerProofs` proves, for any set of cycles and any bounds, from `CyclesAssumption` only:

| Theorem | Statement |
|---|---|
| `TypeCorrect` | `Spec => []TypeOK` |
| `NoChangeIsLost` | `Spec => []NothingUnseen` |
| `PushesDoWait` | `Spec => PushesWait` |

`NothingUnseen` is not inductive. A cycle awaited only because it is the job's must still be awaited when
the job ends: `JobKept` says that a change of it is marked, or that the round that dropped the mark
remembered it. A look at a record that was written since leaves the change unseen: `StaleMarked` says that
the write's mark still stands, since only the next round could take it. `JobApart` says that the job's cycle is in
no round. The parts of `NothingUnseen` need each other: a limit's time may come with no due time set, and
`LimitsKept` says that then something else brings the controller; a limit is dropped by what `ChangesKept` follows.
`Inductive` is their conjunction with the types, one lemma for each part (`UnseenStep` and `LimitsStep` for the
two of `NothingUnseen`), one step for each action; TLC checked it as an invariant before it was proved.

`PushesWait` is about a step, the one in which the controller turns quiet while a push waits. `OwedKept`
follows what the push is still owed: a cycle that had a change as its item opened, and still is active, is
unseen or the job's (TLC checked it first). Only the end of a round lets the push pass
(`OnlyRoundsPass`), so that no job is left and nobody waits, behind another or not, and of what is unseen `NothingUnseen` says that it is
marked or due, held or being refreshed.

`InstanceLockProofs` proves, for any processes, directories, namespaces and order of locks, any number of
retries, failures and kills, from `NeedsAssumption` and `RetriesAssumption`:

| Theorem | Statement |
|---|---|
| `TypeCorrect` | `Spec => []TypeOK` |
| `LocksAreExclusive` | `Spec => []OneHolder` |
| `HoldersAreFound` | `Spec => []HolderIsFound` |
| `NothingIsLeft` | `Spec => []NothingLeft` |

`OneHolder` rests on what each process is still to see. `OneSees` says that of two *claims* on a directory
(a lock that is held, or a published name that may become one), one is of a process whose second look is
still to come to the other. For that, a claim must stay in the directory and answer (`ClaimsAnswer`), though
everybody removes names that refused them: `DoomedDead` says that a published name about to be removed
will never answer again, because its identifier was drawn before (`IdsDrawn`), is bound once, and is
published only after its socket listens (`LastIdUnpublished`). `HeldIsOwn` keeps two locks of one process
apart. The lemma `StepsHaveEffects` says of every action what it can do to files and sockets, so that
the parts are proved from a handful of effects and not from two dozen actions each. `NothingLeft` is
what remains at the end of `Kept`: at each place of its program, a process has no names, locks and sockets but
those that the place says it has yet to remove. Others remove a process's names but add none
(`OthersKept`), so that each action is asked only for its own process.

`RoadmapSettlementProofs` proves, for any entries, decisions, versions, rivals, and any number of
interventions and faults, from `SettlementAssumption`:

| Theorem | Statement |
|---|---|
| `TypeCorrect` | `Spec => []TypeOK` |
| `SettledStays` | `Spec => []SettledIsStill` |
| `RetiredForGood` | `Spec => []RetiringVersionsRest` |
| `EndedStays` | `Spec => EndedForGood` |

What makes `SettledIsStill` inductive: whoever settles has the record (`SettlingHeld`), nothing is chosen
before there is one (`Unchosen`), agents work for live cycles only (`LiveSessions`) and a merge is reserved
on a cycle that stands still (`MergingStill`), so that ending the cycles ends the agents. A round that is
creating a cycle does so for an attempt that has none (`StartsFresh`), and a version of the roadmap row that
a resume still holds means that the roadmap lives (`ResumeLives`), from which `EndedForGood`
follows step by step. `Inductive` is their conjunction with the types; TLC checked it on the instance of
`settle` before it was proved.

`WorkCycleProofs` proves, for any limits, findings and operators, and any number of outages, restarts and
commands, from `LimitsAreNumbers` (a step has at least one continuation; the code gives it two), and
`NoneIsApart` and `NoneIsNoStop` (the absent value is no finding and no stop):

| Theorem | Statement |
|---|---|
| `TypeCorrect` | `Spec => []TypeOK` |
| `ReviewedWaits` | `Spec => []WaitsReviewed` |
| `NoEndlessRounds` | `Spec => []NoSpinning` |
| `RestsUntilCommanded` | `Spec => OnlyCommandsResume` |
| `AlwaysAWayOn` | `Spec => []WayOn` |

What makes them inductive is what is still true of what was read before an await. `JobFits` says that a
*fresh* effect was begun for the status the cycle still has, that an approval's run is still the review
that ended without findings, and that the status a refresh would restore is one the cycle still deserves;
`CommandsFit` says that a fresh command belongs to a cycle that rests. Every write makes all of them stale. So
an effect can write only to a cycle that runs or waits for its merge, from which `RestsUntilCommanded`
follows. `AttemptsLeft` says that an attempt about to use a budget has some of it left, and `AnswersCounted`
that the stall's counter is at most one behind the rounds in a row, whatever resets either. The proof first
reduces each action to one of two kinds of write: one that moves the status and keeps the counters
(`MoveKeeps`), or one that begins a run (`BeginKeeps`). TLC checked `Inductive` on the instance of `budget`
before it was proved.

`WayOn` rests on `EndFits`, how the last run ended: a stop that has a control of its own (and refuses a plain
resume for it) is one of a run that has ended, so that this control is open; and a review is never
reserved behind a review with findings, so that a resume of a review that was not launched does launch it, and
does not run into the limits of another remediation. For that, a fresh effect must be about a run that is
still as it was decided on. It is proved on top of `Inductive`, by the same two kinds of write (`MoveFits`,
`BeginFits`), and TLC checked it before, also with two commands and two refreshes.

Only checked by TLC: the liveness properties, `NothingHangs`, `StopReturns`, `FinishedMergesRecorded`,
`EveryoneServed`, `LoneStarterHolds`, `SettlesInTheEnd` and `ComesToRest` (the prover has no fairness and no
`ENABLED`). Every invariant and every action property of a passing run is a theorem.

## Where the code and its documents disagree

Three runs end in a counterexample to what a comment of the code says. Each is a disagreement met
while translating the code.

- `mixed`: "One agent per worktree" (`run/preconditions.ts:119`). An operator's launch that passed its
  preconditions while the cycle was paused records its run after a resume has decided to launch; the
  cycle's own launch does not look for a live run (`run/launch.ts:590`), and the resume does not look again
  after its awaits (`cycle/commands/control.ts:136-141`). Both agents then work.
- `lane`: `laneWaiting` (`work-cycle-service.ts:769-770`) says its cycles are "decided afresh when it
  frees, and admitted first". When the lane frees, all of them are marked; a round that comes to the second
  one first leaves it behind the first (`:951`), then finds that the first no longer needs the lane and
  takes it out (`:990`), and nobody marks the second again. The lane is free, the controller waits, and
  the cycle, with every push (`:748`), waits for the next write, due time or sweep.
- `held`: "Nothing started while the roadmap settled: the hold kept the scheduler away"
  (`roadmap-settlement.ts:597`). A round that was reading the branch or making the worktree for a decision's
  preparation when the record was written goes on, and asks only its grant, its binding and its deadline
  before the launch (`roadmap/preparations.ts:240`). The settlement ends the preparations that run,
  asks only the cycles again, and settles; then the preparation's run starts.

Smaller things that the models contain and no run is about:

- A plain resume is refused if the worktree's newest run left questions (`cycle/gates.ts:126`), and
  guidance is taken only if that run is the cycle's current one (`cycle-actions.ts:169`, whose comment at
  153-155 says that such a run can go on with its questions answered). If a guided resume or a grant reserves
  the next run and that is never launched (a pause, a refused launch, a crash), the newest run is no longer the
  current one: both are refused, and a stop or a manual run is left. `WorkCycle` has these states;
  `WayOn` leaves them out (`Stranded`), and that it holds says that there are no others.
- A settlement that finds a resolution begun after its preview fails its step with "Review the wind-down
  again", but reviewing it again changes nothing: a request for a record that is still settling does not
  take new resolutions into it (`roadmap-settlement.ts:355-381`). Only abandoning the resolution by hand does.
- A round under way as the record is written may start a cycle after the settlement stopped the others. Here
  the last transaction asks the cycles again, and the next round stops that one too.
- `run/supervision.ts:103-110` asks for the drain's flag before the operator's, so a cancelled session still
  exiting as a drain interrupts sessions is recorded as the drain's, which `restart-resume.ts:15` says it
  is not.
- A pause after a review's checks are done and before its session arrives finds nothing to abort, although
  `run/state.ts:18-22` says that no agent starts for a cycle that no longer wants it.
- A run that ended while it launched has a session that is only being killed; after a crash in that moment
  no later start knows of its process group, although `run/processes.ts:184-186` says that there is nothing
  left to end, and the recovery counts on a record of just such agents (322-324). `AgentRuns` has this state (`outliving`);
  `ProcessesRecorded` leaves it out, with the window between an agent's spawn and its record.
- A round that the job's last write woke leaves the job's cycle out, and its pass may complete although
  nobody has looked at what the job wrote: `work-cycle-service.ts:748` asks as the round ends, and its
  comment says as it begins.

## What is not modelled

- Of the work cycle what its section leaves out; the selection and capacity of roadmaps, applying
  amendments, finalizations, check requests, scope receipts (the hazard at `merge/receipt.ts:230` has no
  property for that reason), delivery of notifications and event streams: see the plan.
- Packages that are pure functions (domain, contracts, most of planning), formatting, HTTP routing and the
  web client: they keep no state of their own.
- Imports and authentication: one transaction each, without concurrency of their own.
- Runtime evidence and the storage service: policy over the contents of repositories and
  directories, which is data these models abstract from.

## The plan

In order of importance; each module is written to be proved about as well as checked.

1. `RunLifecycle`, `AgentRuns`, proofs. Done.
2. `MergeLife`, `MergeOperation`, proofs. Done; scope receipts are left.
3. `CycleController`, proofs. Done, but for the shutdown.
4. `InstanceLock`, proofs. Done.
5. `RoadmapSettlement`, proofs: settlement, and as much of the scheduler's rounds, holds and amendments as
   it meets. Done; the repository clean-up and applying an amendment are left.
6. `WorkCycle`, proofs. Done for a slice's cycle; the workflow's specialist reviews and owned resolutions
   are left.
7. Roadmap scheduler: admission under holds and capacity, retries; no starvation.
8. Drain and resume, composed: stop records, the resume of a drain's sessions after a restart.
9. Phase reservations with all their holders, beyond runs.
10. Check requests, finalizations, notifications and event streams.
