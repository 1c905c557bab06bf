------------------------ MODULE AgentRunsEndsProofs ------------------------
(***************************************************************************)
(* More proofs about AgentRuns: what a drain admits, that no launch comes  *)
(* beside an agent that is still ending, and, where the failures that make *)
(* the exceptions cannot happen, that no record is abandoned and that the  *)
(* agents a start has to end are on record.                                *)
(***************************************************************************)
EXTENDS AgentRunsProofs

-----------------------------------------------------------------------------
(* A drain admits nothing.                                                 *)

\* What the next step is told apart by.
RunsInv == TypeOK /\ SupervisedInv /\ RecordsFollowLaunches

\* It needs no separate control: it holds of every behaviour.
LEMMA RunsInvHolds == Spec => []RunsInv
<1>1. Init => RunsInv
  <2>1. Init => RecordsFollowLaunches
    BY DEF Init, RecordsFollowLaunches, Live, LiveStatuses
  <2> QED
    BY <2>1, TypeOKInit, SupervisedInit DEF RunsInv
<1>2. RunsInv /\ [Next]_vars => RunsInv'
  BY TypeOKStep, SupervisedStep, RecordsStep DEF RunsInv
<1> QED
  BY <1>1, <1>2, PTL DEF Spec

\* One step: a record appears only while the daemon is up, and an agent starts only before the drain
\* ends sessions.
AdmitsNothing ==
    /\ daemon \in Draining => \A r \in Runs : status[r] = "none" => status'[r] = "none"
    /\ daemon \in Interrupting => \A r \in Runs : Working(r)' => Working(r)

\* A settlement changes live records only and starts no agent; of the five other steps only two make a
\* record or an agent, and both ask the drain first.
LEMMA StepAdmitsNothing ==
    ASSUME RunsInv, [Next]_vars
    PROVE  AdmitsNothing
<1> USE DEF AdmitsNothing, Working
<1>1. SettlesOrRuns
  BY SettlesStep DEF RunsInv
<1>2. CASE Settles
  BY <1>2 DEF Settles, Live, LiveStatuses
<1>3. ASSUME NEW r \in Runs, RecordRun(r)
     PROVE  AdmitsNothing
  BY <1>3 DEF RecordRun, Draining, Interrupting
<1>4. ASSUME NEW r \in Runs, SessionStarts(r)
     PROVE  AdmitsNothing
  BY <1>4 DEF SessionStarts, Live, LiveStatuses, RunsInv, TypeOK
<1>5. ASSUME NEW r \in Runs, TurnCompleted(r)
     PROVE  AdmitsNothing
  BY <1>5 DEF TurnCompleted, Become, Live, LiveStatuses, RunsInv, TypeOK
<1>6. ASSUME NEW r \in Runs, Activity(r) \/ SendMessage(r)
     PROVE  AdmitsNothing
  BY <1>6 DEF Activity, SendMessage, RunsInv, TypeOK
<1> QED
  BY <1>1, <1>2, <1>3, <1>4, <1>5, <1>6 DEF SettlesOrRuns

\* For every instance, with every failure: once the daemon drains no run gets a record, and once it ends
\* sessions no agent starts to work.
THEOREM DrainAdmits == Spec => DrainAdmitsNothing
<1>1. RunsInv /\ [Next]_vars =>
        [/\ daemon \in Draining => \A r \in Runs : status[r] = "none" => status'[r] = "none"
         /\ daemon \in Interrupting => \A r \in Runs : Working(r)' => Working(r)]_vars
  BY StepAdmitsNothing DEF AdmitsNothing
<1> QED
  BY <1>1, RunsInvHolds, PTL DEF Spec, DrainAdmitsNothing

-----------------------------------------------------------------------------
(* No launch comes beside an agent that is still ending.                   *)

\* At work, or killed by the daemon that supervises it and not gone yet.
Present(r) == Working(r) \/ agent[r] = "killed"

\* What is supervised has its record, and a process that has not come to its run has a launch that asked
\* for it or gave it up; what is present holds its worktree while the daemon serves, is on record as a
\* recovery begins, and is gone before the recovery looks at what launches left.
HeldInv ==
    /\ \A r \in Runs : phase[r] = "supervised" => Live(r)
    /\ \A r \in Runs : /\ agent[r] = "late" => phase[r] = "over"
                       /\ agent[r] = "born" => phase[r] \in {"spawning", "over"}
    /\ daemon = "reaping" => \A r \in Runs : Present(r) => r \in identity
    /\ daemon \in Serving => \A r \in Runs : Present(r) => r \in Sessions \/ Terminating(r)
    /\ daemon \in {"clearing", "finishing"} => \A r \in Runs : ~Present(r)

\* A worktree is given up only when the process in it has exited.
LEMMA HeldStep ==
    ASSUME TypeOK, DirectoryInv, HeldInv, [Next]_vars
    PROVE  HeldInv'
<1> USE KindsAssumption, TreeAssumption
    DEF TypeOK, HeldInv, Present, Working, Live, Sessions,
        Terminating, Serving, Draining, Interrupting, LiveStatuses, durable, cycles, sessions, daemonVars,
        Go, Become, Asked, Arriving
<1>1. ASSUME NEW r \in Runs, LaunchStep(r)
     PROVE  HeldInv'
  <2>1. CASE \/ Refuse(r) \/ Register(r) \/ StrandLaunch(r) \/ CleanLaunch(r)
    BY <2>1
       DEF Refuse, Refused, Register, Finalize, Unfinalized, StrandLaunch, CleanLaunch
  <2>2. CASE \/ StartChecks(r) \/ ChecksDone(r) \/ Spawns(r) \/ SpawnFails(r)
    BY <2>2
       DEF StartChecks, ChecksDone, Finalize, Unfinalized, Spawns, SpawnFails, Refused
  <2>3. CASE \/ OpenSession(r) \/ LookDone(r)
    BY <2>3
       DEF OpenSession, LaunchCancelled, EndLaunches, Finalize, Unfinalized, Pending, LookDone
  <2>4. CASE SessionRefused(r)
    BY <2>4
       DEF SessionRefused, Identified, Finalize, Unfinalized
  <2>5. CASE SessionStarts(r)
    BY <2>5
       DEF SessionStarts, Identified
  <2>6. CASE \/ Enter(r) \/ PreflightPasses(r) \/ ReserveLaunch(r) \/ MakeDirectories(r) \/ FailReserved(r)
            \/ RecordRun(r)
    BY <2>6
       DEF Enter, PreflightPasses, ReserveLaunch, MakeDirectories, FailReserved, RecordRun
  <2> QED
    BY <1>1, <2>1, <2>2, <2>3, <2>4, <2>5, <2>6 DEF LaunchStep
<1>2. ASSUME NEW r \in Runs, SupervisionStep(r)
     PROVE  HeldInv'
  <2>1. CASE TurnCompleted(r)
    BY <2>1
       DEF TurnCompleted
  <2>2. CASE ExitConsumed(r)
    BY <2>2
       DEF ExitConsumed, Finalize
  <2>3. CASE SupervisionFails(r)
    BY <2>3
       DEF SupervisionFails, Kill, Finalize, Unfinalized
  <2>4. CASE ControlledDeadline(r)
    BY <2>4
       DEF ControlledDeadline, Kill, Finalize
  <2>5. CASE \/ Activity(r) \/ ExitAwaited(r) \/ DropRecord(r)
    BY <2>5
       DEF Activity, ExitAwaited, DropRecord
  <2> QED
    BY <1>2, <2>1, <2>2, <2>3, <2>4, <2>5 DEF SupervisionStep
<1>3. ASSUME NEW r \in Runs, OperatorStep(r)
     PROVE  HeldInv'
  <2>1. CASE Cancel(r)
    BY <2>1
       DEF Cancel, CancelRun, Kill, Finalize, Unfinalized
  <2>2. CASE CancelInvestigation(r)
    BY <2>2
       DEF CancelInvestigation, CancelRun, Kill, Finalize, Unfinalized
  <2>3. CASE End(r)
    BY <2>3
       DEF End
  <2>4. CASE \/ Admit(r) \/ SendMessage(r)
    BY <2>4
       DEF Admit, SendMessage
  <2> QED
    BY <1>3, <2>1, <2>2, <2>3, <2>4 DEF OperatorStep
<1>4. ASSUME NEW r \in Runs, LateSession(r) \/ AgentExits(r) \/ StepDeadline(r)
     PROVE  HeldInv'
  <2>1. CASE AgentExits(r)
    BY <2>1
       DEF AgentExits, Alive
  <2>2. CASE StepDeadline(r)
    BY <2>2
       DEF StepDeadline, Abort, LaunchCancelled, EndLaunches, Finalize, Unfinalized, Armed, Pending
  <2>3. CASE LateSession(r)
    BY <2>3
       DEF LateSession
  <2> QED
    BY <1>4, <2>1, <2>2, <2>3
<1>5. ASSUME NEW w \in Worktrees, CycleStep(w)
     PROVE  HeldInv'
  <2>1. CASE CycleEndTurn(w)
    BY <2>1
       DEF CycleEndTurn
  <2>2. CASE CyclePause(w)
    BY <2>2
       DEF CyclePause, Write, Abort, LaunchCancelled, EndLaunches, Finalize, Unfinalized, Armed, Pending
  <2>3. CASE CycleStop(w)
    BY <2>3
       DEF CycleStop, Write, CancelTurn, Kill, LaunchCancelled, EndLaunches, Finalize, Unfinalized, Armed,
           Pending
  <2>4. CASE \/ CycleAttention(w) \/ ResumeBegins(w) \/ ResumeDecides(w)
            \/ \E q \in Runs : CycleStart(w, q) \/ CycleNext(w, q) \/ ResumeLaunches(w, q)
    BY <2>4
       DEF CycleAttention, Write, ResumeBegins, ResumeDecides, CycleStart, Fresh, CycleNext, ResumeLaunches
  <2> QED
    BY <1>5, <2>1, <2>2, <2>3, <2>4 DEF CycleStep
<1>6. ASSUME DrainStep
     PROVE  HeldInv'
  <2>1. CASE Interrupt
    BY <2>1
       DEF Interrupt, EndLaunches, Finalize, Pending
  <2>2. CASE RecordCleanStop
    BY <2>2
       DEF RecordCleanStop, Finalize, Holding, AfterChecks
  <2>3. CASE \/ ServiceStop \/ DeployDrain \/ CancelDrain \/ StopWaiting
    BY <2>3
       DEF ServiceStop, DeployDrain, CancelDrain, StopWaiting
  <2> QED
    BY <1>6, <2>1, <2>2, <2>3 DEF DrainStep
<1>7. ASSUME RestartStep
     PROVE  HeldInv'
  <2>1. CASE EndReaping
    BY <2>1
       DEF EndReaping, Alive, DirectoryInv
  <2>2. CASE Halt
    BY <2>2
       DEF Halt, Restarted, Alive
  <2>3. CASE Crash
    BY <2>3
       DEF Crash, Restarted, Alive
  <2>4. CASE EndClearing
    BY <2>4
       DEF EndClearing
  <2>5. CASE EndRecovery
    BY <2>5
       DEF EndRecovery
  <2>6. CASE \E r \in Runs : Interrupted(r)
    BY <2>6
       DEF Interrupted, Finalize, DirectoryInv
  <2>7. CASE \E r \in Runs : Reap(r) \/ ClearReservation(r)
    BY <2>7
       DEF Reap, ClearReservation
  <2> QED
    BY <1>7, <2>1, <2>2, <2>3, <2>4, <2>5, <2>6, <2>7 DEF RestartStep
<1>8. CASE UNCHANGED vars
  BY <1>8 DEF vars
<1> QED
  BY <1>1, <1>2, <1>3, <1>4, <1>5, <1>6, <1>7, <1>8 DEF Next

\* There is no process at the first start.
LEMMA HeldInit ==
    ASSUME Init
    PROVE  HeldInv
BY DEF Init, HeldInv, Present, Working

\* The launches that have asked the worktree's live runs and ending agents for the last time.
PastPreflight == {"reserving", "reserved", "preparing", "registering", "snapshot", "checks",
                  "proceeding", "looking", "spawning"}

\* Beside such a launch no run of its worktree is supervised or awaited after its supervision.
LaunchApart ==
    \A r, q \in Runs : r # q /\ tree[r] = tree[q] /\ phase[q] \in PastPreflight =>
        phase[r] \notin {"supervised", "overdue", "orphaned"}

\* The preflight asks for a worktree without live runs and ending agents, and it is held from then on.
LEMMA LaunchApartStep ==
    ASSUME TypeOK, OneHolder, CycleHolds, HeldInv, LaunchApart, [Next]_vars
    PROVE  LaunchApart'
<1> USE KindsAssumption, TreeAssumption
    DEF TypeOK, LaunchApart, PastPreflight, durable, cycles,
        sessions, daemonVars, Go, Become, Asked, Arriving
<1>1. ASSUME NEW r \in Runs, LaunchStep(r)
     PROVE  LaunchApart'
  <2>1. CASE PreflightPasses(r)
    BY <2>1
       DEF PreflightPasses, HeldInv, CycleHolds, Contender, Live, In, LiveIn, Authority, ManualControl,
           NoTerminatingAgent, Terminating
  <2>2. CASE SessionStarts(r)
    BY <2>2
       DEF SessionStarts, Identified, OneHolder, Holding, AfterChecks
  <2>3. CASE \/ OpenSession(r) \/ LookDone(r)
    BY <2>3
       DEF OpenSession, LaunchCancelled, EndLaunches, Finalize, Unfinalized, Pending, LookDone
  <2>4. CASE \/ Register(r) \/ StrandLaunch(r) \/ StartChecks(r) \/ ChecksDone(r) \/ Spawns(r) \/ SpawnFails(r)
            \/ SessionRefused(r)
    BY <2>4
       DEF Register, Refused, Finalize, Unfinalized, StrandLaunch, StartChecks, ChecksDone, Spawns,
           SpawnFails,
           SessionRefused, Identified
  <2>5. CASE \/ Enter(r) \/ Refuse(r) \/ ReserveLaunch(r) \/ MakeDirectories(r) \/ FailReserved(r)
            \/ CleanLaunch(r) \/ RecordRun(r)
    BY <2>5
       DEF Enter, Refuse, Refused, ReserveLaunch, MakeDirectories, FailReserved, CleanLaunch, RecordRun
  <2> QED
    BY <1>1, <2>1, <2>2, <2>3, <2>4, <2>5 DEF LaunchStep
<1>2. ASSUME NEW r \in Runs, SupervisionStep(r)
     PROVE  LaunchApart'
  <2>1. CASE SupervisionFails(r)
    BY <2>1
       DEF SupervisionFails, Kill, Finalize, Unfinalized, Sessions
  <2>2. CASE ControlledDeadline(r)
    BY <2>2
       DEF ControlledDeadline, Kill, Finalize, Sessions
  <2>3. CASE ExitAwaited(r)
    BY <2>3
       DEF ExitAwaited, Terminating
  <2>4. CASE \/ TurnCompleted(r) \/ Activity(r) \/ ExitConsumed(r) \/ DropRecord(r)
    BY <2>4
       DEF TurnCompleted, Activity, ExitConsumed, Finalize, DropRecord
  <2> QED
    BY <1>2, <2>1, <2>2, <2>3, <2>4 DEF SupervisionStep
<1>3. ASSUME NEW r \in Runs, OperatorStep(r)
     PROVE  LaunchApart'
  BY <1>3
     DEF OperatorStep, Admit, Cancel, CancelRun, Kill, Finalize, Unfinalized, CancelInvestigation, End,
         SendMessage
<1>4. ASSUME NEW r \in Runs, LateSession(r) \/ AgentExits(r) \/ StepDeadline(r)
     PROVE  LaunchApart'
  <2>1. CASE StepDeadline(r)
    BY <2>1
       DEF StepDeadline, Abort, LaunchCancelled, EndLaunches, Finalize, Unfinalized, Armed, Pending
  <2>2. CASE \/ LateSession(r) \/ AgentExits(r)
    BY <2>2
       DEF LateSession, AgentExits
  <2> QED
    BY <1>4, <2>1, <2>2
<1>5. ASSUME NEW w \in Worktrees, CycleStep(w)
     PROVE  LaunchApart'
  <2>1. CASE CyclePause(w)
    BY <2>1
       DEF CyclePause, Write, Abort, LaunchCancelled, EndLaunches, Finalize, Unfinalized, Armed, Pending
  <2>2. CASE CycleStop(w)
    BY <2>2
       DEF CycleStop, Write, CancelTurn, Kill, LaunchCancelled, EndLaunches, Finalize, Unfinalized, Armed,
           Pending
  <2>3. CASE \/ CycleEndTurn(w) \/ CycleAttention(w) \/ ResumeBegins(w) \/ ResumeDecides(w)
            \/ \E q \in Runs : CycleStart(w, q) \/ CycleNext(w, q) \/ ResumeLaunches(w, q)
    BY <2>3
       DEF CycleEndTurn, CycleAttention, Write, ResumeBegins, ResumeDecides, CycleStart, Fresh, CycleNext,
           ResumeLaunches
  <2> QED
    BY <1>5, <2>1, <2>2, <2>3 DEF CycleStep
<1>6. ASSUME DrainStep
     PROVE  LaunchApart'
  <2>1. CASE Interrupt
    BY <2>1
       DEF Interrupt, EndLaunches, Finalize
  <2>2. CASE \/ ServiceStop \/ DeployDrain \/ CancelDrain \/ StopWaiting \/ RecordCleanStop
    BY <2>2
       DEF ServiceStop, DeployDrain, CancelDrain, StopWaiting, RecordCleanStop, Finalize
  <2> QED
    BY <1>6, <2>1, <2>2 DEF DrainStep
<1>7. ASSUME RestartStep
     PROVE  LaunchApart'
  <2>1. CASE Halt
    BY <2>1
       DEF Halt, Restarted
  <2>2. CASE Crash
    BY <2>2
       DEF Crash, Restarted
  <2>3. CASE \/ EndReaping \/ EndClearing \/ EndRecovery
            \/ \E r \in Runs : Reap(r) \/ ClearReservation(r) \/ Interrupted(r)
    BY <2>3
       DEF EndReaping, EndClearing, EndRecovery, Reap, ClearReservation, Interrupted, Finalize
  <2> QED
    BY <1>7, <2>1, <2>2, <2>3 DEF RestartStep
<1>8. CASE UNCHANGED vars
  BY <1>8 DEF vars
<1> QED
  BY <1>1, <1>2, <1>3, <1>4, <1>5, <1>6, <1>7, <1>8 DEF Next

\* An agent arrives only through a launch, and no other process is in its worktree then.
LEMMA ApartStep ==
    ASSUME TypeOK, OneHolder, HeldInv, LaunchApart, ProcessesApart, [Next]_vars
    PROVE  ProcessesApart'
<1> USE KindsAssumption, TreeAssumption
    DEF TypeOK, ProcessesApart, Working, durable, cycles, sessions,
        daemonVars, Go, Become, Asked, Arriving
<1>1. ASSUME NEW r \in Runs, LaunchStep(r)
     PROVE  ProcessesApart'
  <2>1. CASE SessionStarts(r)
    BY <2>1
       DEF SessionStarts, Identified, LaunchApart, PastPreflight, OneHolder, Holding, AfterChecks, HeldInv,
           Present, Sessions, Terminating, Serving
  <2>2. CASE SessionRefused(r)
    BY <2>2
       DEF SessionRefused, Identified, Finalize, Unfinalized, LaunchApart, PastPreflight, OneHolder,
           Holding, AfterChecks, HeldInv, Present, Sessions, Terminating, Serving
  <2>3. CASE OpenSession(r)
    BY <2>3
       DEF OpenSession, LaunchCancelled, EndLaunches, Finalize, Unfinalized, Pending
  <2>4. CASE LookDone(r)
    BY <2>4
       DEF HeldInv, LookDone, LaunchCancelled, EndLaunches, Finalize, Unfinalized, Pending
  <2>5. CASE \/ Register(r) \/ StrandLaunch(r) \/ StartChecks(r) \/ ChecksDone(r) \/ SpawnFails(r)
    BY <2>5
       DEF Register, Refused, Finalize, Unfinalized, StrandLaunch, StartChecks, ChecksDone, SpawnFails, HeldInv
  <2>6. CASE \/ Enter(r) \/ Refuse(r) \/ PreflightPasses(r) \/ ReserveLaunch(r) \/ MakeDirectories(r)
            \/ FailReserved(r) \/ CleanLaunch(r) \/ RecordRun(r)
    BY <2>6
       DEF Enter, Refuse, Refused, PreflightPasses, ReserveLaunch, MakeDirectories, FailReserved,
           CleanLaunch, RecordRun
  <2>7. CASE Spawns(r)
    BY <2>7
       DEF Spawns, LaunchApart, PastPreflight, OneHolder, Holding, AfterChecks, HeldInv, Present, Sessions,
           Terminating, Serving
  <2> QED
    BY <1>1, <2>1, <2>2, <2>3, <2>4, <2>5, <2>6, <2>7 DEF LaunchStep
<1>2. ASSUME NEW r \in Runs, SupervisionStep(r)
     PROVE  ProcessesApart'
  <2>1. CASE TurnCompleted(r)
    BY <2>1
       DEF TurnCompleted
  <2>2. CASE SupervisionFails(r)
    BY <2>2
       DEF SupervisionFails, Kill, Finalize, Unfinalized
  <2>3. CASE ControlledDeadline(r)
    BY <2>3
       DEF ControlledDeadline, Kill, Finalize
  <2>4. CASE \/ Activity(r) \/ ExitConsumed(r) \/ ExitAwaited(r) \/ DropRecord(r)
    BY <2>4
       DEF Activity, ExitConsumed, Finalize, ExitAwaited, DropRecord
  <2> QED
    BY <1>2, <2>1, <2>2, <2>3, <2>4 DEF SupervisionStep
<1>3. ASSUME NEW r \in Runs, OperatorStep(r)
     PROVE  ProcessesApart'
  <2>1. CASE End(r)
    BY <2>1
       DEF End
  <2>2. CASE \/ Admit(r) \/ Cancel(r) \/ CancelInvestigation(r) \/ SendMessage(r)
    BY <2>2
       DEF Admit, Cancel, CancelRun, Kill, Finalize, Unfinalized, CancelInvestigation, SendMessage
  <2> QED
    BY <1>3, <2>1, <2>2 DEF OperatorStep
<1>4. ASSUME NEW r \in Runs, LateSession(r) \/ AgentExits(r) \/ StepDeadline(r)
     PROVE  ProcessesApart'
  <2>1. CASE StepDeadline(r)
    BY <2>1
       DEF StepDeadline, Abort, LaunchCancelled, EndLaunches, Finalize, Unfinalized, Armed, Pending
  <2>2. CASE LateSession(r)
    BY <2>2
       DEF LateSession, HeldInv
  <2>3. CASE AgentExits(r)
    BY <2>3
       DEF AgentExits
  <2> QED
    BY <1>4, <2>1, <2>2, <2>3
<1>5. ASSUME NEW w \in Worktrees, CycleStep(w)
     PROVE  ProcessesApart'
  <2>1. CASE CycleEndTurn(w)
    BY <2>1
       DEF CycleEndTurn
  <2>2. CASE CyclePause(w)
    BY <2>2
       DEF CyclePause, Write, Abort, LaunchCancelled, EndLaunches, Finalize, Unfinalized, Armed, Pending
  <2>3. CASE CycleStop(w)
    BY <2>3
       DEF CycleStop, Write, CancelTurn, Kill, LaunchCancelled, EndLaunches, Finalize, Unfinalized, Armed,
           Pending
  <2>4. CASE \/ CycleAttention(w) \/ ResumeBegins(w) \/ ResumeDecides(w)
            \/ \E q \in Runs : CycleStart(w, q) \/ CycleNext(w, q) \/ ResumeLaunches(w, q)
    BY <2>4
       DEF CycleAttention, Write, ResumeBegins, ResumeDecides, CycleStart, Fresh, CycleNext, ResumeLaunches
  <2> QED
    BY <1>5, <2>1, <2>2, <2>3, <2>4 DEF CycleStep
<1>6. ASSUME DrainStep
     PROVE  ProcessesApart'
  <2>1. CASE Interrupt
    BY <2>1
       DEF Interrupt, EndLaunches, Finalize
  <2>2. CASE \/ ServiceStop \/ DeployDrain \/ CancelDrain \/ StopWaiting \/ RecordCleanStop
    BY <2>2
       DEF ServiceStop, DeployDrain, CancelDrain, StopWaiting, RecordCleanStop, Finalize
  <2> QED
    BY <1>6, <2>1, <2>2 DEF DrainStep
<1>7. ASSUME RestartStep
     PROVE  ProcessesApart'
  <2>1. CASE Halt
    BY <2>1
       DEF Halt, Restarted
  <2>2. CASE Crash
    BY <2>2
       DEF Crash, Restarted
  <2>3. CASE EndReaping
    BY <2>3
       DEF EndReaping
  <2>4. CASE \/ EndClearing \/ EndRecovery
            \/ \E r \in Runs : Reap(r) \/ ClearReservation(r) \/ Interrupted(r)
    BY <2>4
       DEF EndClearing, EndRecovery, Reap, ClearReservation, Interrupted, Finalize
  <2> QED
    BY <1>7, <2>1, <2>2, <2>3, <2>4 DEF RestartStep
<1>8. CASE UNCHANGED vars
  BY <1>8 DEF vars
<1> QED
  BY <1>1, <1>2, <1>3, <1>4, <1>5, <1>6, <1>7, <1>8 DEF Next

\* What ProcessesApart rests on.
ApartInv == OneAgentInv /\ DirectoryInv /\ HeldInv /\ LaunchApart /\ ProcessesApart

\* For every instance where operators and cycles do not share worktrees, with every failure: no agent
\* arrives beside one that is still ending.
THEOREM Apart ==
    ASSUME SeparateControl
    PROVE  Spec => []ProcessesApart
<1>1. Init => DirectoryInv /\ HeldInv /\ LaunchApart /\ ProcessesApart
  <2> SUFFICES ASSUME Init PROVE DirectoryInv /\ HeldInv /\ LaunchApart /\ ProcessesApart
    OBVIOUS
  <2>1. DirectoryInv
    BY DirectoryInit
  <2>2. LaunchApart /\ ProcessesApart
    BY DEF Init, LaunchApart, PastPreflight, ProcessesApart, Arriving, Working
  <2> QED
    BY <2>1, <2>2, HeldInit
<1>2. ApartInv /\ [Next]_vars =>
        DirectoryInv' /\ HeldInv' /\ LaunchApart' /\ ProcessesApart'
  BY DirectoryStep, HeldStep, LaunchApartStep, ApartStep DEF ApartInv, OneAgentInv
<1>3. OneAgentInv /\ DirectoryInv /\ HeldInv /\ LaunchApart /\ ProcessesApart => ApartInv
  BY DEF ApartInv
<1> QED
  BY <1>1, <1>2, <1>3, OneAgentInvHolds, PTL DEF Spec

-----------------------------------------------------------------------------
(* Where process records can be written, the processes a start has to end  *)
(* are on record.                                                          *)

\* The process record of an agent that comes to its live run is written.
SessionsRecorded == "identity" \notin Faults

\* A record is written as its agent comes to its run, and is deleted only once the process is gone, by
\* whoever reads its exit or by the end of a recovery that has ended it.
LEMMA RecordedStep ==
    ASSUME SessionsRecorded, TypeOK, SupervisedInv, HeldInv, ProcessesRecorded, [Next]_vars
    PROVE  ProcessesRecorded'
<1> USE KindsAssumption, TreeAssumption
    DEF TypeOK, ProcessesRecorded, Working, durable, cycles, sessions,
        daemonVars, Go, Become, Asked, Arriving
<1>1. ASSUME NEW r \in Runs, LaunchStep(r)
     PROVE  ProcessesRecorded'
  <2>1. CASE SessionStarts(r)
    BY <2>1
       DEF SessionStarts, Identified, SessionsRecorded
  <2>2. CASE SessionRefused(r)
    BY <2>2
       DEF SessionRefused, Identified, Finalize, Unfinalized
  <2>3. CASE OpenSession(r)
    BY <2>3
       DEF OpenSession, LaunchCancelled, EndLaunches, Finalize, Unfinalized, Pending
  <2>4. CASE LookDone(r)
    BY <2>4
       DEF LookDone, LaunchCancelled, EndLaunches, Finalize, Unfinalized, Pending
  <2>5. CASE \/ Enter(r) \/ Refuse(r) \/ PreflightPasses(r) \/ ReserveLaunch(r) \/ MakeDirectories(r)
            \/ FailReserved(r) \/ CleanLaunch(r) \/ RecordRun(r) \/ Register(r) \/ StrandLaunch(r)
            \/ StartChecks(r) \/ ChecksDone(r) \/ Spawns(r) \/ SpawnFails(r)
    BY <2>5
       DEF Enter, Refuse, Refused, PreflightPasses, ReserveLaunch, MakeDirectories, FailReserved,
           CleanLaunch, RecordRun, Register, Finalize, Unfinalized, StrandLaunch, StartChecks, ChecksDone,
           Spawns, SpawnFails
  <2> QED
    BY <1>1, <2>1, <2>2, <2>3, <2>4, <2>5 DEF LaunchStep
<1>2. ASSUME NEW r \in Runs, SupervisionStep(r)
     PROVE  ProcessesRecorded'
  <2>1. CASE TurnCompleted(r)
    BY <2>1
       DEF TurnCompleted
  <2>2. CASE SupervisionFails(r)
    BY <2>2
       DEF SupervisionFails, Sessions, Kill, Finalize, Unfinalized
  <2>3. CASE ControlledDeadline(r)
    BY <2>3
       DEF ControlledDeadline, Sessions, Kill, Finalize
  <2>4. CASE \/ Activity(r) \/ ExitConsumed(r) \/ ExitAwaited(r) \/ DropRecord(r)
    BY <2>4
       DEF Activity, ExitConsumed, Finalize, ExitAwaited, DropRecord
  <2> QED
    BY <1>2, <2>1, <2>2, <2>3, <2>4 DEF SupervisionStep
<1>3. ASSUME NEW r \in Runs, OperatorStep(r)
     PROVE  ProcessesRecorded'
  BY <1>3
     DEF OperatorStep, Admit, Cancel, CancelRun, Kill, Finalize, Unfinalized, CancelInvestigation, End,
         SendMessage
<1>4. ASSUME NEW r \in Runs, LateSession(r) \/ AgentExits(r) \/ StepDeadline(r)
     PROVE  ProcessesRecorded'
  <2>1. CASE StepDeadline(r)
    BY <2>1
       DEF StepDeadline, Abort, LaunchCancelled, EndLaunches, Finalize, Unfinalized, Armed, Pending
  <2>2. CASE LateSession(r)
    BY <2>2
       DEF LateSession
  <2>3. CASE AgentExits(r)
    BY <2>3
       DEF AgentExits
  <2> QED
    BY <1>4, <2>1, <2>2, <2>3
<1>5. ASSUME NEW w \in Worktrees, CycleStep(w)
     PROVE  ProcessesRecorded'
  <2>1. CASE CycleEndTurn(w)
    BY <2>1
       DEF CycleEndTurn, SupervisedInv, WorkingIsSupervised
  <2>2. CASE CyclePause(w)
    BY <2>2
       DEF CyclePause, Write, Abort, LaunchCancelled, EndLaunches, Finalize, Unfinalized, Armed, Pending
  <2>3. CASE CycleStop(w)
    BY <2>3
       DEF CycleStop, Write, CancelTurn, Kill, LaunchCancelled, EndLaunches, Finalize, Unfinalized, Armed,
           Pending
  <2>4. CASE \/ CycleAttention(w) \/ ResumeBegins(w) \/ ResumeDecides(w)
            \/ \E q \in Runs : CycleStart(w, q) \/ CycleNext(w, q) \/ ResumeLaunches(w, q)
    BY <2>4
       DEF CycleAttention, Write, ResumeBegins, ResumeDecides, CycleStart, Fresh, CycleNext, ResumeLaunches
  <2> QED
    BY <1>5, <2>1, <2>2, <2>3, <2>4 DEF CycleStep
<1>6. ASSUME DrainStep
     PROVE  ProcessesRecorded'
  <2>1. CASE Interrupt
    BY <2>1
       DEF Interrupt, EndLaunches, Finalize, Pending
  <2>2. CASE \/ ServiceStop \/ DeployDrain \/ CancelDrain \/ StopWaiting \/ RecordCleanStop
    BY <2>2
       DEF ServiceStop, DeployDrain, CancelDrain, StopWaiting, RecordCleanStop, Finalize
  <2> QED
    BY <1>6, <2>1, <2>2 DEF DrainStep
<1>7. ASSUME RestartStep
     PROVE  ProcessesRecorded'
  <2>1. CASE Halt
    BY <2>1
       DEF Halt, Restarted, Alive
  <2>2. CASE Crash
    BY <2>2
       DEF Crash, Restarted, Alive
  <2>3. CASE EndReaping
    BY <2>3
       DEF EndReaping
  <2>4. CASE EndRecovery
    BY <2>4
       DEF EndRecovery, HeldInv, Present
  <2>5. CASE \E r \in Runs : Reap(r)
    BY <2>5
       DEF Reap
  <2>6. CASE \/ EndClearing
            \/ \E r \in Runs : ClearReservation(r) \/ Interrupted(r)
    BY <2>6
       DEF EndClearing, ClearReservation, Interrupted, Finalize
  <2> QED
    BY <1>7, <2>1, <2>2, <2>3, <2>4, <2>5, <2>6 DEF RestartStep
<1>8. CASE UNCHANGED vars
  BY <1>8 DEF vars
<1> QED
  BY <1>1, <1>2, <1>3, <1>4, <1>5, <1>6, <1>7, <1>8 DEF Next

\* For every instance where process records are written, whatever else fails: the process of an agent
\* that has come to its run is on record until it has exited. What a stop can lose is only what it finds
\* between spawn and record, or what was killed as it arrived.
THEOREM AgentsAreRecorded ==
    ASSUME SessionsRecorded
    PROVE  Spec => []ProcessesRecorded
<1>1. Init => DirectoryInv /\ HeldInv /\ ProcessesRecorded
  BY DirectoryInit, HeldInit DEF Init, ProcessesRecorded, Working
<1>2. RunsInv /\ DirectoryInv /\ HeldInv /\ ProcessesRecorded /\ [Next]_vars =>
        DirectoryInv' /\ HeldInv' /\ ProcessesRecorded'
  BY DirectoryStep, HeldStep, RecordedStep DEF RunsInv
<1> QED
  BY <1>1, <1>2, RunsInvHolds, PTL DEF Spec

-----------------------------------------------------------------------------
(* Without the failures that leave a live record, none is abandoned.       *)

\* A launch that throws ends its row, and a record can be ended.
RecordsEnd == {"strand", "finalize"} \cap Faults = {}

\* A live record has a launch past its row, or a supervised session; once sessions are being ended none
\* waits to be told to, and after the clean stop only sessions are left.
Settled ==
    /\ daemon \in Serving => \A r \in Runs : Live(r) =>
         \/ phase[r] \in {"registering", "snapshot", "checks", "proceeding", "looking", "spawning"}
         \/ r \in Sessions
    /\ daemon \in Interrupting => \A r \in Runs : agent[r] # "working"
    /\ daemon = "stopped" => \A r \in Runs : Live(r) => r \in Sessions

\* Every way out of a launch or of a supervision ends the run's record.
LEMMA SettledStep ==
    ASSUME RecordsEnd, TypeOK, SupervisedInv, RecordsFollowLaunches, Settled, [Next]_vars
    PROVE  Settled'
<1> USE KindsAssumption, TreeAssumption
    DEF TypeOK, Settled, Live, Sessions, LiveStatuses,
        TerminalStatuses, Serving, Draining, Interrupting, durable, cycles, sessions, daemonVars, Go,
        Become, Asked, Arriving
<1>1. ASSUME NEW r \in Runs, LaunchStep(r)
     PROVE  Settled'
  <2>1. CASE \/ Refuse(r) \/ CleanLaunch(r)
    BY <2>1
       DEF Refuse, Refused, CleanLaunch, RecordsFollowLaunches
  <2>2. CASE \/ Enter(r) \/ PreflightPasses(r) \/ ReserveLaunch(r) \/ MakeDirectories(r) \/ FailReserved(r)
    BY <2>2
       DEF Enter, PreflightPasses, ReserveLaunch, MakeDirectories, FailReserved, RecordsFollowLaunches
  <2>3. CASE RecordRun(r)
    BY <2>3
       DEF RecordRun
  <2>4. CASE Register(r)
    BY <2>4
       DEF Register, Refused, Finalize, Unfinalized
  <2>5. CASE StrandLaunch(r)
    BY <2>5
       DEF StrandLaunch, Refused, RecordsEnd
  <2>6. CASE \/ StartChecks(r) \/ ChecksDone(r)
    BY <2>6
       DEF StartChecks, ChecksDone, Finalize, Unfinalized
  <2>7. CASE OpenSession(r)
    BY <2>7
       DEF OpenSession, LaunchCancelled, EndLaunches, Finalize, Unfinalized, Pending
  <2>8. CASE LookDone(r)
    BY <2>8
       DEF LookDone, LaunchCancelled, EndLaunches, Finalize, Unfinalized, Pending
  <2>9. CASE Spawns(r) \/ SpawnFails(r)
    BY <2>9
       DEF Spawns, SpawnFails, Refused, Finalize, Unfinalized
  <2>10. CASE SessionRefused(r)
    BY <2>10
       DEF SessionRefused, Identified, Finalize, Unfinalized
  <2>11. CASE SessionStarts(r)
    BY <2>11
       DEF SessionStarts, Identified
  <2> QED
    BY <1>1, <2>1, <2>2, <2>3, <2>4, <2>5, <2>6, <2>7, <2>8, <2>9, <2>10, <2>11 DEF LaunchStep
<1>2. ASSUME NEW r \in Runs, SupervisionStep(r)
     PROVE  Settled'
  <2>1. CASE TurnCompleted(r)
    BY <2>1
       DEF TurnCompleted
  <2>2. CASE ExitConsumed(r)
    BY <2>2
       DEF ExitConsumed, Finalize
  <2>3. CASE SupervisionFails(r)
    BY <2>3
       DEF SupervisionFails, Kill, Finalize, Unfinalized, RecordsEnd
  <2>4. CASE ControlledDeadline(r)
    BY <2>4
       DEF ControlledDeadline, Kill, Finalize
  <2>5. CASE ExitAwaited(r)
    BY <2>5
       DEF ExitAwaited, Terminating
  <2>6. CASE \/ Activity(r) \/ DropRecord(r)
    BY <2>6
       DEF Activity, DropRecord
  <2> QED
    BY <1>2, <2>1, <2>2, <2>3, <2>4, <2>5, <2>6 DEF SupervisionStep
<1>3. ASSUME NEW r \in Runs, OperatorStep(r)
     PROVE  Settled'
  <2>1. CASE Cancel(r)
    BY <2>1
       DEF Cancel, CancelRun, Kill, Finalize, Unfinalized
  <2>2. CASE CancelInvestigation(r)
    BY <2>2
       DEF CancelInvestigation, CancelRun, Kill, Finalize, Unfinalized
  <2>3. CASE End(r)
    BY <2>3
       DEF End
  <2>4. CASE Admit(r)
    BY <2>4
       DEF Admit, RecordsFollowLaunches
  <2>5. CASE SendMessage(r)
    BY <2>5
       DEF SendMessage
  <2> QED
    BY <1>3, <2>1, <2>2, <2>3, <2>4, <2>5 DEF OperatorStep
<1>4. ASSUME NEW r \in Runs, LateSession(r) \/ AgentExits(r) \/ StepDeadline(r)
     PROVE  Settled'
  <2>1. CASE StepDeadline(r)
    BY <2>1
       DEF StepDeadline, Abort, LaunchCancelled, EndLaunches, Finalize, Unfinalized, Armed, Pending
  <2>2. CASE \/ LateSession(r) \/ AgentExits(r)
    BY <2>2
       DEF LateSession, AgentExits
  <2> QED
    BY <1>4, <2>1, <2>2
<1>5. ASSUME NEW w \in Worktrees, CycleStep(w)
     PROVE  Settled'
  <2>1. CASE CycleEndTurn(w)
    BY <2>1
       DEF CycleEndTurn
  <2>2. CASE CyclePause(w)
    BY <2>2
       DEF CyclePause, Write, Abort, LaunchCancelled, EndLaunches, Finalize, Unfinalized, Armed, Pending
  <2>3. CASE CycleStop(w)
    BY <2>3
       DEF CycleStop, Write, CancelTurn, Kill, LaunchCancelled, EndLaunches, Finalize, Unfinalized, Armed,
           Pending
  <2>4. CASE \/ CycleAttention(w) \/ ResumeBegins(w) \/ ResumeDecides(w)
            \/ \E q \in Runs : CycleStart(w, q) \/ CycleNext(w, q) \/ ResumeLaunches(w, q)
    BY <2>4
       DEF CycleAttention, Write, ResumeBegins, ResumeDecides, CycleStart, Fresh, CycleNext, ResumeLaunches
  <2> QED
    BY <1>5, <2>1, <2>2, <2>3, <2>4 DEF CycleStep
<1>6. ASSUME DrainStep
     PROVE  Settled'
  <2>1. CASE Interrupt
    BY <2>1
       DEF Interrupt, EndLaunches, Finalize, SupervisedInv, WorkingIsSupervised, Working, Pending
  <2>2. CASE RecordCleanStop
    BY <2>2
       DEF RecordCleanStop, Finalize, Holding, AfterChecks
  <2>3. CASE \/ ServiceStop \/ DeployDrain \/ CancelDrain \/ StopWaiting
    BY <2>3
       DEF ServiceStop, DeployDrain, CancelDrain, StopWaiting
  <2> QED
    BY <1>6, <2>1, <2>2, <2>3 DEF DrainStep
<1>7. ASSUME RestartStep
     PROVE  Settled'
  <2>1. CASE Halt
    BY <2>1
       DEF Halt, Restarted
  <2>2. CASE Crash
    BY <2>2
       DEF Crash, Restarted
  <2>3. CASE EndReaping
    BY <2>3
       DEF EndReaping
  <2>4. CASE EndClearing
    BY <2>4
       DEF EndClearing
  <2>5. CASE EndRecovery
    BY <2>5
       DEF EndRecovery
  <2>6. CASE \E r \in Runs : Interrupted(r)
    BY <2>6
       DEF Interrupted, Finalize
  <2>7. CASE \E r \in Runs : Reap(r) \/ ClearReservation(r)
    BY <2>7
       DEF Reap, ClearReservation
  <2> QED
    BY <1>7, <2>1, <2>2, <2>3, <2>4, <2>5, <2>6, <2>7 DEF RestartStep
<1>8. CASE UNCHANGED vars
  BY <1>8 DEF vars
<1> QED
  BY <1>1, <1>2, <1>3, <1>4, <1>5, <1>6, <1>7, <1>8 DEF Next

\* For every instance where a launch that throws ends its row and records can be ended: no live record
\* is left that nothing will end, and a clean stop leaves only sessions it did not wait for.
THEOREM NoRunAbandoned ==
    ASSUME RecordsEnd
    PROVE  Spec => []NoAbandonedRun
<1>1. Init => Settled
  BY DEF Init, Settled, Live, LiveStatuses, Interrupting
<1>2. RunsInv /\ Settled /\ [Next]_vars => Settled'
  BY SettledStep DEF RunsInv
<1>3. Settled => NoAbandonedRun
  BY DEF Settled, NoAbandonedRun, Holding, AfterChecks, Interrupting
<1> QED
  BY <1>1, <1>2, <1>3, RunsInvHolds, PTL DEF Spec


=============================================================================
