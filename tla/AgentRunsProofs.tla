--------------------------- MODULE AgentRunsProofs ---------------------------
(***************************************************************************)
(* Proofs about AgentRuns, for any runs, worktrees, capacity, faults and   *)
(* number of crashes.  Every invariant is proved by a lemma ...Step, which *)
(* takes one step of the specification apart: the actions that disturb the *)
(* invariant one by one, the others together.                              *)
(***************************************************************************)
EXTENDS AgentRuns, FiniteSetTheorems, TLAPS

-----------------------------------------------------------------------------
(* Type correctness.                                                       *)

\* Cancelling a pending launch keeps the kinds of what it changes, and takes no claim.
LEMMA LaunchCancelledTyped ==
    ASSUME TypeOK, NEW r, LaunchCancelled(r)
    PROVE  /\ status' \in [Runs -> RunStatuses] /\ phase' \in [Runs -> Phases]
           /\ agent' \in [Runs -> AgentStates]
           /\ claims' \subseteq claims /\ withdrawn' \subseteq withdrawn
BY DEF TypeOK, LaunchCancelled, EndLaunches, Finalize, Phases, AgentStates, RunStatuses,
       TerminalStatuses

\* So does the end of a cycle's turn.
LEMMA CancelTurnTyped ==
    ASSUME TypeOK, NEW r, CancelTurn(r)
    PROVE  /\ status' \in [Runs -> RunStatuses] /\ phase' \in [Runs -> Phases]
           /\ agent' \in [Runs -> AgentStates]
           /\ claims' \subseteq claims /\ withdrawn' \subseteq CycleRuns /\ cancelReq' \subseteq Runs
BY LaunchCancelledTyped
   DEF TypeOK, CancelTurn, Unfinalized, Kill, Armed, Sessions, AgentStates

\* A stop or a crash keeps every kind.
LEMMA RestartedTyped ==
    ASSUME TypeOK, Restarted, crashes' \in 0..MaxCrashes
    PROVE  TypeOK'
<1>1. phase' \in [Runs -> Phases]
  BY DEF TypeOK, Restarted, Phases
<1>2. agent' \in [Runs -> AgentStates]
  BY DEF TypeOK, Restarted, AgentStates
<1> QED
  BY <1>1, <1>2 DEF TypeOK, Restarted, durable, cycles, DaemonStates, ResumeStages

\* So does the interruption of every session.
LEMMA InterruptTyped ==
    ASSUME TypeOK, Interrupt
    PROVE  TypeOK'
<1>1. agent' \in [Runs -> AgentStates]
  BY DEF TypeOK, Interrupt, AgentStates
<1>2. /\ status' \in [Runs -> RunStatuses] /\ phase' \in [Runs -> Phases]
      /\ claims' \subseteq claims /\ withdrawn' \subseteq withdrawn
  BY DEF TypeOK, Interrupt, EndLaunches, Finalize, Phases, RunStatuses, TerminalStatuses, Draining
<1>3. drainInt' \subseteq Runs
  BY DEF TypeOK, Interrupt, Sessions
<1>4. /\ daemon' = "interrupting"
      /\ UNCHANGED <<reserved, directory, identity, cycles, cancelReq, resuming, signalled, crashes>>
  BY DEF Interrupt
<1> QED
  BY <1>1, <1>2, <1>3, <1>4 DEF TypeOK, cycles, DaemonStates, Serving, Draining

\* The daemon starts with every variable in its kind.
LEMMA TypeOKInit ==
    ASSUME Init
    PROVE  TypeOK
<1>1. /\ status \in [Runs -> RunStatuses] /\ agent \in [Runs -> AgentStates]
      /\ phase \in [Runs -> Phases]
  BY DEF Init, RunStatuses, AgentStates, Phases
<1>2. /\ cycleStatus \in [Worktrees -> CycleStatuses] /\ resuming \in [Worktrees -> ResumeStages]
      /\ cycleRun \in [Worktrees -> Runs \cup {NoRun}]
  BY DEF Init, CycleStatuses, ResumeStages
<1>3. daemon \in DaemonStates /\ crashes \in 0..MaxCrashes
  BY BoundsAssumption DEF Init, DaemonStates, Serving
<1> QED
  BY <1>1, <1>2, <1>3 DEF Init, TypeOK

\* No step leaves the kinds.
LEMMA TypeOKStep ==
    ASSUME TypeOK, [Next]_vars
    PROVE  TypeOK'
<1> USE KindsAssumption, TreeAssumption, BoundsAssumption
    DEF TypeOK, durable, cycles, sessions, daemonVars, Go, Become, Asked, Arriving, DaemonStates, Serving,
        Draining, Interrupting, Phases, AgentStates, RunStatuses, LiveStatuses, TerminalStatuses,
        CycleStatuses, ResumeStages
<1>1. ASSUME NEW r \in Runs, LaunchStep(r)
     PROVE  TypeOK'
  <2>1. CASE \/ Enter(r) \/ Refuse(r) \/ PreflightPasses(r) \/ ReserveLaunch(r) \/ MakeDirectories(r)
            \/ FailReserved(r) \/ CleanLaunch(r) \/ RecordRun(r) \/ Register(r) \/ StrandLaunch(r)
    BY <2>1
       DEF Enter, Refuse, Refused, PreflightPasses, ReserveLaunch, MakeDirectories, FailReserved,
           CleanLaunch, RecordRun, Register, Finalize, Unfinalized, StrandLaunch
  <2>2. CASE StartChecks(r) \/ ChecksDone(r) \/ LookDone(r)
    BY <2>2 DEF StartChecks, ChecksDone, LookDone, LaunchCancelled, EndLaunches, Pending, Finalize,
           Unfinalized
  <2>3. CASE OpenSession(r)
    BY <2>3 DEF OpenSession, Finalize, Unfinalized, LaunchCancelled, EndLaunches
  <2>4. CASE Spawns(r) \/ SpawnFails(r) \/ SessionRefused(r) \/ SessionStarts(r)
    BY <2>4 DEF Spawns, SpawnFails, Refused, SessionRefused, SessionStarts, Identified, Finalize,
           Unfinalized
  <2> QED
    BY <1>1, <2>1, <2>2, <2>3, <2>4 DEF LaunchStep
<1>2. ASSUME NEW r \in Runs, SupervisionStep(r)
     PROVE  TypeOK'
  BY <1>2
     DEF SupervisionStep, TurnCompleted, Activity, ExitConsumed, Finalize, SupervisionFails, Kill,
         Unfinalized, ControlledDeadline, ExitAwaited, DropRecord
<1>3. ASSUME NEW r \in Runs, OperatorStep(r)
     PROVE  TypeOK'
  BY <1>3
     DEF OperatorStep, Admit, Cancel, CancelRun, Kill, Finalize, Unfinalized, CancelInvestigation,
         End, SendMessage
<1>4. ASSUME NEW r \in Runs, LateSession(r) \/ AgentExits(r) \/ StepDeadline(r)
     PROVE  TypeOK'
  BY <1>4
     DEF LateSession, AgentExits, StepDeadline, Abort, LaunchCancelled, EndLaunches, Finalize,
         Unfinalized, Armed
<1>5. ASSUME NEW w \in Worktrees, CycleStep(w)
     PROVE  TypeOK'
  <2>1. CASE CyclePause(w)
    BY <2>1, LaunchCancelledTyped
       DEF CyclePause, Write, Abort, Unfinalized, Armed
  <2>2. CASE CycleStop(w)
    BY <2>2, CancelTurnTyped
       DEF CycleStop, Write
  <2>3. CASE \/ CycleEndTurn(w) \/ CycleAttention(w) \/ ResumeBegins(w) \/ ResumeDecides(w)
            \/ \E q \in Runs : CycleStart(w, q) \/ CycleNext(w, q) \/ ResumeLaunches(w, q)
    BY <2>3
       DEF CycleEndTurn, CycleAttention, Write, ResumeBegins, ResumeDecides, CycleStart, Fresh,
           CycleNext, ResumeLaunches
  <2> QED
    BY <1>5, <2>1, <2>2, <2>3 DEF CycleStep
<1>6. ASSUME DrainStep
     PROVE  TypeOK'
  <2>1. CASE Interrupt
    BY <2>1, InterruptTyped
       DEF Interrupt
  <2>2. CASE ServiceStop \/ DeployDrain
    BY <2>2 DEF ServiceStop, DeployDrain, Finalize
  <2>3. CASE CancelDrain \/ StopWaiting
    BY <2>3 DEF CancelDrain, StopWaiting, Finalize
  <2>4. CASE RecordCleanStop
    BY <2>4 DEF RecordCleanStop, Finalize
  <2> QED
    BY <1>6, <2>1, <2>2, <2>3, <2>4 DEF DrainStep
<1>7. ASSUME RestartStep
     PROVE  TypeOK'
  <2>1. CASE Halt
    BY <2>1, RestartedTyped
       DEF Halt
  <2>2. CASE Crash
    BY <2>2, RestartedTyped
       DEF Crash
  <2>3. CASE \/ EndReaping \/ EndClearing \/ EndRecovery
            \/ \E r \in Runs : Reap(r) \/ ClearReservation(r) \/ Interrupted(r)
    BY <2>3
       DEF EndReaping, EndClearing, EndRecovery, Reap, ClearReservation, Interrupted, Finalize
  <2> QED
    BY <1>7, <2>1, <2>2, <2>3 DEF RestartStep
<1>8. CASE UNCHANGED vars
  BY <1>8 DEF vars
<1> QED
  BY <1>1, <1>2, <1>3, <1>4, <1>5, <1>6, <1>7, <1>8 DEF Next

\* Every record, process, launch, command and drain of the model stays within its kind, and phase claims
\* are only ever held by the runs of a roadmap's scope.
THEOREM TypeCorrect == Spec => []TypeOK
BY TypeOKInit, TypeOKStep, PTL DEF Spec

-----------------------------------------------------------------------------
(* AGT-12: directories are owned.                                          *)

\* What keeps a directory owned: a launch that may make one holds its reservation, one that gives its
\* reservation up has its row, and a recovery has no launches beside it.
DirectoryInv ==
    /\ DirectoriesOwned
    /\ \A r \in Runs : phase[r] \in {"reserved", "preparing"} => r \in reserved
    /\ \A r \in Runs : phase[r] = "registering" => status[r] # "none"
    /\ daemon \notin Serving => \A r \in Runs : phase[r] \in {"idle", "over"}

\* No step leaves a directory that nothing names.
LEMMA DirectoryStep ==
    ASSUME TypeOK, DirectoryInv, [Next]_vars
    PROVE  DirectoryInv'
<1> USE KindsAssumption, TreeAssumption
    DEF TypeOK, DirectoryInv, DirectoriesOwned, Live, durable, cycles, sessions, daemonVars, Go,
        Become, Asked, Arriving, Serving, Draining, Interrupting, LiveStatuses
<1>1. ASSUME NEW r \in Runs, LaunchStep(r)
     PROVE  DirectoryInv'
  <2>1. CASE ReserveLaunch(r)
    BY <2>1
       DEF ReserveLaunch
  <2>2. CASE MakeDirectories(r)
    BY <2>2
       DEF MakeDirectories
  <2>3. CASE CleanLaunch(r)
    BY <2>3
       DEF CleanLaunch, Refused
  <2>4. CASE RecordRun(r)
    BY <2>4
       DEF RecordRun
  <2>5. CASE Register(r)
    BY <2>5
       DEF Register, Refused, Finalize, Unfinalized
  <2>6. CASE \/ Enter(r) \/ Refuse(r) \/ PreflightPasses(r) \/ FailReserved(r)
            \/ StrandLaunch(r) \/ StartChecks(r) \/ ChecksDone(r) \/ OpenSession(r)
            \/ LookDone(r) \/ Spawns(r) \/ SpawnFails(r) \/ SessionRefused(r) \/ SessionStarts(r)
    BY <2>6
       DEF Enter, Refuse, Refused, PreflightPasses, FailReserved, StrandLaunch, StartChecks,
           ChecksDone, Finalize, Unfinalized, OpenSession, LaunchCancelled, EndLaunches, LookDone,
           Spawns, SpawnFails, SessionRefused, Identified, SessionStarts
  <2> QED
    BY <1>1, <2>1, <2>2, <2>3, <2>4, <2>5, <2>6 DEF LaunchStep
<1>2. ASSUME NEW r \in Runs, SupervisionStep(r)
     PROVE  DirectoryInv'
  BY <1>2
     DEF SupervisionStep, TurnCompleted, Activity, ExitConsumed, Finalize, SupervisionFails, Kill,
         Unfinalized, ControlledDeadline, ExitAwaited, DropRecord
<1>3. ASSUME NEW r \in Runs, OperatorStep(r)
     PROVE  DirectoryInv'
  BY <1>3
     DEF OperatorStep, Admit, Cancel, CancelRun, Kill, Finalize, Unfinalized, CancelInvestigation,
         End, SendMessage
<1>4. ASSUME NEW r \in Runs, LateSession(r) \/ AgentExits(r) \/ StepDeadline(r)
     PROVE  DirectoryInv'
  <2>1. CASE LateSession(r)
    BY <2>1
       DEF LateSession
  <2>2. CASE StepDeadline(r)
    BY <2>2
       DEF StepDeadline, Abort, LaunchCancelled, EndLaunches, Finalize, Unfinalized, Armed,
           Pending, Live
  <2>3. CASE AgentExits(r)
    BY <2>3
       DEF AgentExits
  <2> QED
    BY <1>4, <2>1, <2>2, <2>3
<1>5. ASSUME NEW w \in Worktrees, CycleStep(w)
     PROVE  DirectoryInv'
  <2>1. CASE CyclePause(w)
    BY <2>1
       DEF CyclePause, Write, Abort, LaunchCancelled, EndLaunches, Finalize, Unfinalized, Armed,
           Pending, Live
  <2>2. CASE CycleStop(w)
    BY <2>2
       DEF CycleStop, Write, CancelTurn, LaunchCancelled, EndLaunches, Kill, Finalize,
           Unfinalized, Armed, Pending, Live
  <2>3. CASE ResumeDecides(w)
    BY <2>3
       DEF ResumeDecides, Write
  <2>4. CASE \E q \in Runs : CycleStart(w, q)
    BY <2>4
       DEF CycleStart, Write, Fresh
  <2>5. CASE \E q \in Runs : CycleNext(w, q)
    BY <2>5
       DEF CycleNext, Write, Fresh
  <2>6. CASE \/ CycleEndTurn(w) \/ CycleAttention(w) \/ ResumeBegins(w)
            \/ \E q \in Runs : ResumeLaunches(w, q)
    BY <2>6
       DEF CycleEndTurn, CycleAttention, Write, ResumeBegins, ResumeLaunches, Fresh
  <2> QED
    BY <1>5, <2>1, <2>2, <2>3, <2>4, <2>5, <2>6 DEF CycleStep
<1>6. ASSUME DrainStep
     PROVE  DirectoryInv'
  <2>1. CASE Interrupt
    BY <2>1
       DEF Interrupt, EndLaunches, Finalize
  <2>2. CASE \/ ServiceStop \/ DeployDrain \/ CancelDrain \/ StopWaiting \/ RecordCleanStop
    BY <2>2
       DEF ServiceStop, DeployDrain, CancelDrain, StopWaiting, RecordCleanStop, Finalize
  <2> QED
    BY <1>6, <2>1, <2>2 DEF DrainStep
<1>7. ASSUME RestartStep
     PROVE  DirectoryInv'
  <2>1. CASE Halt
    BY <2>1
       DEF Halt, Restarted
  <2>2. CASE Crash
    BY <2>2
       DEF Crash, Restarted
  <2>3. CASE EndReaping
    BY <2>3
       DEF EndReaping
  <2>4. CASE EndClearing
    BY <2>4
       DEF EndClearing
  <2>5. CASE EndRecovery
    BY <2>5
       DEF EndRecovery
  <2>6. CASE \E r \in Runs : ClearReservation(r)
    BY <2>6
       DEF ClearReservation
  <2>7. CASE \E r \in Runs : Reap(r) \/ Interrupted(r)
    BY <2>7
       DEF Reap, Interrupted, Finalize
  <2> QED
    BY <1>7, <2>1, <2>2, <2>3, <2>4, <2>5, <2>6, <2>7 DEF RestartStep
<1>8. CASE UNCHANGED vars
  BY <1>8 DEF vars
<1> QED
  BY <1>1, <1>2, <1>3, <1>4, <1>5, <1>6, <1>7, <1>8 DEF Next

\* Nothing is on disk at the first start.
LEMMA DirectoryInit ==
    ASSUME Init
    PROVE  DirectoryInv
BY DEF Init, DirectoryInv, DirectoriesOwned, Serving

\* AGT-12, for every instance: whatever was refused, failed to be removed or crashed on the way, a run's
\* directory is named by a reservation or owned by a row.
THEOREM DirectoriesAreOwned == Spec => []DirectoriesOwned
<1>1. Init => DirectoryInv
  BY DirectoryInit
<1>2. TypeOK /\ DirectoryInv /\ [Next]_vars => DirectoryInv'
  BY DirectoryStep
<1>3. DirectoryInv => DirectoriesOwned
  BY DEF DirectoryInv
<1> QED
  BY <1>1, <1>2, <1>3, TypeCorrect, PTL DEF Spec

-----------------------------------------------------------------------------
(* AGT-01: an agent that works is supervised.                              *)

\* The recovery first ends what works: a stop leaves only agents on record to it, or strays.
SupervisedInv ==
    /\ WorkingIsSupervised
    /\ daemon = "reaping" => \A r \in Runs : Working(r) => r \in identity
    /\ daemon \in {"clearing", "finishing"} => \A r \in Runs : ~Working(r)

\* No step leaves an agent at work without its record and its supervisor.
LEMMA SupervisedStep ==
    ASSUME TypeOK, SupervisedInv, [Next]_vars
    PROVE  SupervisedInv'
<1> USE KindsAssumption, TreeAssumption
    DEF TypeOK, SupervisedInv, WorkingIsSupervised, Working, Live, Sessions, durable, cycles,
        sessions, daemonVars, Go, Become, Asked, Arriving, Serving, Draining, Interrupting,
        LiveStatuses, Alive
<1>1. ASSUME NEW r \in Runs, LaunchStep(r)
     PROVE  SupervisedInv'
  <2>1. CASE SessionStarts(r)
    BY <2>1
       DEF SessionStarts, Identified
  <2>2. CASE \/ Enter(r) \/ Refuse(r) \/ PreflightPasses(r) \/ ReserveLaunch(r)
            \/ MakeDirectories(r) \/ FailReserved(r) \/ CleanLaunch(r) \/ RecordRun(r)
            \/ Register(r) \/ StrandLaunch(r) \/ StartChecks(r) \/ ChecksDone(r)
            \/ OpenSession(r) \/ LookDone(r) \/ Spawns(r) \/ SpawnFails(r) \/ SessionRefused(r)
    BY <2>2
       DEF Enter, Refuse, Refused, PreflightPasses, ReserveLaunch, MakeDirectories, FailReserved,
           CleanLaunch, RecordRun, Register, Finalize, Unfinalized, StrandLaunch, StartChecks,
           ChecksDone, OpenSession, LaunchCancelled, EndLaunches, Pending, LookDone, Spawns, SpawnFails,
           SessionRefused, Identified
  <2> QED
    BY <1>1, <2>1, <2>2 DEF LaunchStep
<1>2. ASSUME NEW r \in Runs, SupervisionStep(r)
     PROVE  SupervisedInv'
  <2>1. CASE ExitConsumed(r)
    BY <2>1
       DEF ExitConsumed, Finalize
  <2>2. CASE SupervisionFails(r)
    BY <2>2
       DEF SupervisionFails, Kill, Finalize, Unfinalized
  <2>3. CASE ControlledDeadline(r)
    BY <2>3
       DEF ControlledDeadline, Kill, Finalize
  <2>4. CASE \/ TurnCompleted(r) \/ Activity(r) \/ ExitAwaited(r) \/ DropRecord(r)
    BY <2>4
       DEF TurnCompleted, Activity, ExitAwaited, Terminating, DropRecord
  <2> QED
    BY <1>2, <2>1, <2>2, <2>3, <2>4 DEF SupervisionStep
<1>3. ASSUME NEW r \in Runs, OperatorStep(r)
     PROVE  SupervisedInv'
  <2>1. CASE Cancel(r)
    BY <2>1
       DEF Cancel, CancelRun, Kill, Finalize, Unfinalized
  <2>2. CASE CancelInvestigation(r)
    BY <2>2
       DEF CancelInvestigation, CancelRun, Kill, Finalize, Unfinalized
  <2>3. CASE \/ Admit(r) \/ End(r) \/ SendMessage(r)
    BY <2>3
       DEF Admit, End, SendMessage
  <2> QED
    BY <1>3, <2>1, <2>2, <2>3 DEF OperatorStep
<1>4. ASSUME NEW r \in Runs, LateSession(r) \/ AgentExits(r) \/ StepDeadline(r)
     PROVE  SupervisedInv'
  <2>1. CASE LateSession(r)
    BY <2>1
       DEF LateSession
  <2>2. CASE AgentExits(r)
    BY <2>2
       DEF AgentExits
  <2>3. CASE StepDeadline(r)
    BY <2>3
       DEF StepDeadline, Abort, LaunchCancelled, EndLaunches, Finalize, Unfinalized, Armed,
           Pending
  <2> QED
    BY <1>4, <2>1, <2>2, <2>3
<1>5. ASSUME NEW w \in Worktrees, CycleStep(w)
     PROVE  SupervisedInv'
  <2>1. CASE CyclePause(w)
    BY <2>1
       DEF CyclePause, Write, Abort, LaunchCancelled, EndLaunches, Finalize, Unfinalized, Armed,
           Pending
  <2>2. CASE CycleStop(w)
    BY <2>2
       DEF CycleStop, Write, CancelTurn, LaunchCancelled, EndLaunches, Kill, Finalize,
           Unfinalized, Armed, Pending
  <2>3. CASE ResumeDecides(w)
    BY <2>3
       DEF ResumeDecides, Write
  <2>4. CASE \E q \in Runs : CycleStart(w, q)
    BY <2>4
       DEF CycleStart, Write, Fresh
  <2>5. CASE \E q \in Runs : CycleNext(w, q)
    BY <2>5
       DEF CycleNext, Write, Fresh
  <2>6. CASE \/ CycleEndTurn(w) \/ CycleAttention(w) \/ ResumeBegins(w)
            \/ \E q \in Runs : ResumeLaunches(w, q)
    BY <2>6
       DEF CycleEndTurn, CycleAttention, Write, ResumeBegins, ResumeLaunches, Fresh
  <2> QED
    BY <1>5, <2>1, <2>2, <2>3, <2>4, <2>5, <2>6 DEF CycleStep
<1>6. ASSUME DrainStep
     PROVE  SupervisedInv'
  <2>1. CASE Interrupt
    BY <2>1
       DEF Interrupt, EndLaunches, Finalize, Pending
  <2>2. CASE RecordCleanStop
    BY <2>2
       DEF RecordCleanStop, Finalize, Holding, AfterChecks
  <2>3. CASE \/ ServiceStop \/ DeployDrain \/ CancelDrain \/ StopWaiting
    BY <2>3
       DEF ServiceStop, DeployDrain, CancelDrain, StopWaiting
  <2> QED
    BY <1>6, <2>1, <2>2, <2>3 DEF DrainStep
<1>7. ASSUME RestartStep
     PROVE  SupervisedInv'
  <2>1. CASE Halt
    BY <2>1
       DEF Halt, Restarted
  <2>2. CASE Crash
    BY <2>2
       DEF Crash, Restarted
  <2>3. CASE EndReaping
    BY <2>3
       DEF EndReaping
  <2>4. CASE EndClearing
    BY <2>4
       DEF EndClearing
  <2>5. CASE EndRecovery
    BY <2>5
       DEF EndRecovery
  <2>6. CASE \E r \in Runs : Reap(r) \/ ClearReservation(r) \/ Interrupted(r)
    BY <2>6
       DEF Reap, ClearReservation, Interrupted, Finalize
  <2> QED
    BY <1>7, <2>1, <2>2, <2>3, <2>4, <2>5, <2>6 DEF RestartStep
<1>8. CASE UNCHANGED vars
  BY <1>8 DEF vars
<1> QED
  BY <1>1, <1>2, <1>3, <1>4, <1>5, <1>6, <1>7, <1>8 DEF Next

\* Nothing works at the first start.
LEMMA SupervisedInit ==
    ASSUME Init
    PROVE  SupervisedInv
BY DEF Init, SupervisedInv, WorkingIsSupervised, Working

\* AGT-01, for every instance: while the daemon serves, an agent that works has a live record and a
\* supervisor, with every failure the model has.
THEOREM AgentsAreSupervised == Spec => []WorkingIsSupervised
<1>1. Init => SupervisedInv
  BY SupervisedInit
<1>2. TypeOK /\ SupervisedInv /\ [Next]_vars => SupervisedInv'
  BY SupervisedStep
<1>3. SupervisedInv => WorkingIsSupervised
  BY DEF SupervisedInv
<1> QED
  BY <1>1, <1>2, <1>3, TypeCorrect, PTL DEF Spec

-----------------------------------------------------------------------------
(* Phase claims.                                                           *)

ClaimsAreLive == \A r \in Runs : r \in claims <=> r \in Scoped /\ Live(r)

\* A claim is taken with its run's row and returned as the row ends: none outlives its run.
LEMMA ClaimsAreLiveStep ==
    ASSUME TypeOK, ClaimsAreLive, [Next]_vars
    PROVE  ClaimsAreLive'
<1> USE KindsAssumption, TreeAssumption
    DEF TypeOK, ClaimsAreLive, Live, durable, cycles, sessions, daemonVars, Go, Become, Asked, Arriving,
        LiveStatuses, TerminalStatuses, RunStatuses
<1>1. ASSUME NEW r \in Runs, LaunchStep(r)
     PROVE  ClaimsAreLive'
  <2>1. CASE RecordRun(r)
    BY <2>1
       DEF RecordRun
  <2>2. CASE SessionStarts(r)
    BY <2>2
       DEF SessionStarts, Identified
  <2>3. CASE \/ Enter(r) \/ Refuse(r) \/ PreflightPasses(r) \/ ReserveLaunch(r)
            \/ MakeDirectories(r) \/ FailReserved(r) \/ CleanLaunch(r) \/ Register(r)
            \/ StrandLaunch(r) \/ StartChecks(r) \/ ChecksDone(r) \/ OpenSession(r)
            \/ LookDone(r) \/ Spawns(r) \/ SpawnFails(r) \/ SessionRefused(r)
    BY <2>3
       DEF Enter, Refuse, Refused, PreflightPasses, ReserveLaunch, MakeDirectories, FailReserved,
           CleanLaunch, Register, Finalize, Unfinalized, StrandLaunch, StartChecks, ChecksDone,
           OpenSession, LaunchCancelled, EndLaunches, LookDone, Spawns, SpawnFails, SessionRefused,
           Identified
  <2> QED
    BY <1>1, <2>1, <2>2, <2>3 DEF LaunchStep
<1>2. ASSUME NEW r \in Runs, SupervisionStep(r)
     PROVE  ClaimsAreLive'
  <2>1. CASE TurnCompleted(r)
    BY <2>1
       DEF TurnCompleted
  <2>2. CASE \/ Activity(r) \/ ExitConsumed(r) \/ SupervisionFails(r) \/ ControlledDeadline(r)
            \/ ExitAwaited(r) \/ DropRecord(r)
    BY <2>2
       DEF Activity, ExitConsumed, Finalize, SupervisionFails, Kill, Unfinalized,
           ControlledDeadline, ExitAwaited, DropRecord
  <2> QED
    BY <1>2, <2>1, <2>2 DEF SupervisionStep
<1>3. ASSUME NEW r \in Runs, OperatorStep(r)
     PROVE  ClaimsAreLive'
  BY <1>3
     DEF OperatorStep, Admit, Cancel, CancelRun, Kill, Finalize, Unfinalized, CancelInvestigation,
         End, SendMessage
<1>4. ASSUME NEW r \in Runs, LateSession(r) \/ AgentExits(r) \/ StepDeadline(r)
     PROVE  ClaimsAreLive'
  <2>1. CASE StepDeadline(r)
    BY <2>1
       DEF StepDeadline, Abort, LaunchCancelled, EndLaunches, Finalize, Unfinalized, Armed
  <2>2. CASE \/ LateSession(r) \/ AgentExits(r)
    BY <2>2
       DEF LateSession, AgentExits
  <2> QED
    BY <1>4, <2>1, <2>2
<1>5. ASSUME NEW w \in Worktrees, CycleStep(w)
     PROVE  ClaimsAreLive'
  <2>1. CASE CyclePause(w)
    BY <2>1
       DEF CyclePause, Write, Abort, LaunchCancelled, EndLaunches, Finalize, Unfinalized, Armed
  <2>2. CASE CycleStop(w)
    BY <2>2
       DEF CycleStop, Write, CancelTurn, LaunchCancelled, EndLaunches, Kill, Finalize,
           Unfinalized, Armed
  <2>3. CASE \/ CycleEndTurn(w) \/ CycleAttention(w) \/ ResumeBegins(w) \/ ResumeDecides(w)
            \/ \E q \in Runs : CycleStart(w, q) \/ CycleNext(w, q) \/ ResumeLaunches(w, q)
    BY <2>3
       DEF CycleEndTurn, CycleAttention, Write, ResumeBegins, ResumeDecides, CycleStart, Fresh,
           CycleNext, ResumeLaunches
  <2> QED
    BY <1>5, <2>1, <2>2, <2>3 DEF CycleStep
<1>6. ASSUME DrainStep
     PROVE  ClaimsAreLive'
  <2>1. CASE Interrupt
    BY <2>1
       DEF Interrupt, EndLaunches, Finalize
  <2>2. CASE RecordCleanStop
    BY <2>2
       DEF RecordCleanStop, Finalize
  <2>3. CASE \/ ServiceStop \/ DeployDrain \/ CancelDrain \/ StopWaiting
    BY <2>3
       DEF ServiceStop, DeployDrain, CancelDrain, StopWaiting
  <2> QED
    BY <1>6, <2>1, <2>2, <2>3 DEF DrainStep
<1>7. ASSUME RestartStep
     PROVE  ClaimsAreLive'
  <2>1. CASE \E r \in Runs : Interrupted(r)
    BY <2>1
       DEF Interrupted, Finalize
  <2>2. CASE \/ Halt \/ Crash \/ EndReaping \/ EndClearing \/ EndRecovery
            \/ \E r \in Runs : Reap(r) \/ ClearReservation(r)
    BY <2>2
       DEF Halt, Restarted, Crash, EndReaping, EndClearing, EndRecovery, Reap, ClearReservation
  <2> QED
    BY <1>7, <2>1, <2>2 DEF RestartStep
<1>8. CASE UNCHANGED vars
  BY <1>8 DEF vars
<1> QED
  BY <1>1, <1>2, <1>3, <1>4, <1>5, <1>6, <1>7, <1>8 DEF Next

\* Only the transaction that records a run takes a claim, and it asks the capacity.
ClaimsTakenAsRecorded == claims' \subseteq claims \/ \E r \in Runs : RecordRun(r)

\* No other action than RecordRun adds a claim.
LEMMA ClaimsTaken ==
    ASSUME TypeOK, [Next]_vars
    PROVE  ClaimsTakenAsRecorded
<1> USE DEF ClaimsTakenAsRecorded, durable, cycles, sessions, daemonVars, Go, Become, Asked, Arriving
<1>1. ASSUME NEW r \in Runs, LaunchStep(r)
     PROVE  ClaimsTakenAsRecorded
  <2>1. CASE RecordRun(r)
    BY <2>1
       DEF RecordRun
  <2>2. CASE \/ Enter(r) \/ Refuse(r) \/ PreflightPasses(r) \/ ReserveLaunch(r)
            \/ MakeDirectories(r) \/ FailReserved(r) \/ CleanLaunch(r) \/ Register(r)
            \/ StrandLaunch(r) \/ StartChecks(r) \/ ChecksDone(r) \/ OpenSession(r)
            \/ LookDone(r) \/ Spawns(r) \/ SpawnFails(r) \/ SessionRefused(r) \/ SessionStarts(r)
    BY <2>2
       DEF Enter, Refuse, Refused, PreflightPasses, ReserveLaunch, MakeDirectories, FailReserved,
           CleanLaunch, Register, Finalize, Unfinalized, StrandLaunch, StartChecks, ChecksDone,
           OpenSession, LaunchCancelled, EndLaunches, LookDone, Spawns, SpawnFails, SessionRefused,
           Identified, SessionStarts
  <2> QED
    BY <1>1, <2>1, <2>2 DEF LaunchStep
<1>2. ASSUME NEW r \in Runs, SupervisionStep(r)
     PROVE  ClaimsTakenAsRecorded
  BY <1>2
     DEF SupervisionStep, TurnCompleted, Activity, ExitConsumed, Finalize, SupervisionFails, Kill,
         Unfinalized, ControlledDeadline, ExitAwaited, DropRecord
<1>3. ASSUME NEW r \in Runs, OperatorStep(r)
     PROVE  ClaimsTakenAsRecorded
  BY <1>3
     DEF OperatorStep, Admit, Cancel, CancelRun, Kill, Finalize, Unfinalized, CancelInvestigation,
         End, SendMessage
<1>4. ASSUME NEW r \in Runs, LateSession(r) \/ AgentExits(r) \/ StepDeadline(r)
     PROVE  ClaimsTakenAsRecorded
  BY <1>4
     DEF LateSession, AgentExits, StepDeadline, Abort, LaunchCancelled, EndLaunches, Finalize,
         Unfinalized, Armed
<1>5. ASSUME NEW w \in Worktrees, CycleStep(w)
     PROVE  ClaimsTakenAsRecorded
  BY <1>5
     DEF CycleStep, CycleEndTurn, CyclePause, Write, Abort, LaunchCancelled, EndLaunches,
         Finalize, Unfinalized, Armed, CycleStop, CancelTurn, Kill, CycleAttention, ResumeBegins,
         ResumeDecides, CycleStart, Fresh, CycleNext, ResumeLaunches
<1>6. ASSUME DrainStep
     PROVE  ClaimsTakenAsRecorded
  BY <1>6
     DEF DrainStep, ServiceStop, DeployDrain, CancelDrain, StopWaiting, Interrupt, EndLaunches,
         Finalize, RecordCleanStop
<1>7. ASSUME RestartStep
     PROVE  ClaimsTakenAsRecorded
  BY <1>7
     DEF RestartStep, Halt, Restarted, Crash, EndReaping, EndClearing, EndRecovery, Reap,
         ClearReservation, Interrupted, Finalize
<1>8. CASE UNCHANGED vars
  BY <1>8 DEF vars
<1> QED
  BY <1>1, <1>2, <1>3, <1>4, <1>5, <1>6, <1>7, <1>8 DEF Next

\* The claims are the live scoped runs', and the capacity is not exceeded.
LEMMA ClaimsStep ==
    ASSUME TypeOK, ClaimsMatchLiveRuns, [Next]_vars
    PROVE  ClaimsMatchLiveRuns'
<1>1. claims' \subseteq Scoped
  BY TypeOKStep DEF TypeOK
<1>2. claims' = {r \in Scoped : Live(r)'}
  <2>1. ClaimsAreLive
    BY DEF ClaimsAreLive, ClaimsMatchLiveRuns
  <2>2. ClaimsAreLive'
    BY <2>1, ClaimsAreLiveStep
  <2> QED
    BY <1>1, <2>2, KindsAssumption DEF ClaimsAreLive
<1>3. IsFiniteSet(claims) /\ Cardinality(claims) \in Nat
  BY BoundsAssumption, KindsAssumption, FS_Subset, FS_CardinalityType DEF TypeOK
<1>4. CASE claims' \subseteq claims
  <2>1. Cardinality(claims') \in Nat /\ Cardinality(claims') <= Cardinality(claims)
    BY <1>3, <1>4, FS_Subset, FS_CardinalityType
  <2> QED
    BY <1>2, <1>3, <2>1, BoundsAssumption DEF ClaimsMatchLiveRuns
<1>5. CASE \E r \in Runs : RecordRun(r)
  <2>1. PICK r \in Runs : RecordRun(r)
    BY <1>5
  <2>2. CASE r \in Scoped \ claims
    <3>1. claims' = claims \cup {r} /\ Cardinality(claims) < Capacity
      BY <2>1, <2>2 DEF RecordRun
    <3>2. Cardinality(claims') = Cardinality(claims) + 1
      BY <1>3, <2>2, <3>1, FS_AddElement
    <3> QED
      BY <1>2, <1>3, <3>1, <3>2, BoundsAssumption DEF ClaimsMatchLiveRuns
  <2>3. CASE r \notin Scoped \ claims
    <3>1. claims' = claims
      BY <2>1, <2>3 DEF RecordRun
    <3> QED
      BY <1>2, <3>1 DEF ClaimsMatchLiveRuns
  <2> QED
    BY <2>2, <2>3
<1> QED
  BY <1>4, <1>5, ClaimsTaken DEF ClaimsTakenAsRecorded

\* For every instance: phase claims are exactly the live scoped runs', and the capacity bounds them.
THEOREM ClaimsMatch == Spec => []ClaimsMatchLiveRuns
<1>1. Init => ClaimsMatchLiveRuns
  <2> SUFFICES ASSUME Init PROVE ClaimsMatchLiveRuns
    OBVIOUS
  <2>1. claims = {} /\ Cardinality({}) = 0
    BY FS_EmptySet DEF Init
  <2>2. \A r \in Scoped : ~Live(r)
    BY KindsAssumption DEF Init, Live, LiveStatuses
  <2> QED
    BY <2>1, <2>2, BoundsAssumption DEF ClaimsMatchLiveRuns
<1>2. TypeOK /\ ClaimsMatchLiveRuns /\ [Next]_vars => ClaimsMatchLiveRuns'
  BY ClaimsStep
<1> QED
  BY <1>1, <1>2, TypeCorrect, PTL DEF Spec

-----------------------------------------------------------------------------
(* AGT-13: one agent per worktree, where operators and cycles do not share *)
(* worktrees.                                                              *)

\* No worktree has both runs an operator starts and runs a cycle starts.
SeparateControl == \A m \in ManualRuns, c \in CycleRuns : tree[m] # tree[c]

\* The launches between their last look at the worktree's live runs and their record.
Entering(r) == phase[r] \in {"reserving", "reserved", "preparing"}
Contender(r) == Live(r) \/ Entering(r)

\* The worktree guard lets one launch in.
OneHolder == \A r, q \in Runs : Holding(r) /\ Holding(q) /\ tree[r] = tree[q] => r = q

\* A run with a record is past its launch's first half, starting until its session is supervised.
RecordsFollowLaunches ==
    \A r \in Runs :
        /\ status[r] # "none" => phase[r] \notin {"idle", "admitted", "preflight", "reserving",
                                                  "reserved", "preparing", "cleaning"}
        /\ Live(r) /\ phase[r] \in {"registering", "snapshot", "checks", "proceeding", "looking",
                                    "spawning"} => status[r] = "starting"
        /\ phase[r] = "supervised" => status[r] # "starting"

\* A worktree with a cycle has a run a cycle starts.
CyclesHaveRuns == \A w \in Worktrees : cycleStatus[w] # "none" => CycleRuns \cap In(w) # {}

\* While a resume is on its way nothing enters its paused cycle's worktree.
ResumeApart ==
    \A w \in Worktrees : resuming[w] # "none" =>
        /\ cycleStatus[w] = "paused" /\ ~Investigating(w)
        /\ \A q \in In(w) : ~Entering(q)
        /\ resuming[w] = "checked" => LiveIn(w) = {}

\* The live run or the launch a worktree has is the only one, and a running cycle's own.
OneContender == \A r, q \in Runs : Contender(r) /\ Contender(q) /\ tree[r] = tree[q] => r = q
CycleHolds ==
    \A w \in Worktrees : cycleStatus[w] = "running" =>
        \A q \in In(w) : Contender(q) => q = cycleRun[w]

\* Entering a worktree asks for it to be free, so one launch holds it.
LEMMA HolderStep ==
    ASSUME TypeOK, OneHolder, [Next]_vars
    PROVE  OneHolder'
<1> USE KindsAssumption, TreeAssumption
    DEF TypeOK, OneHolder, Holding, AfterChecks, In, durable, cycles, sessions, daemonVars, Go,
        Become, Asked, Arriving
<1>1. ASSUME NEW r \in Runs, LaunchStep(r)
     PROVE  OneHolder'
  <2>1. CASE Enter(r)
    BY <2>1
       DEF Enter, Available
  <2>2. CASE \/ Refuse(r) \/ PreflightPasses(r) \/ ReserveLaunch(r) \/ MakeDirectories(r)
            \/ FailReserved(r) \/ CleanLaunch(r) \/ RecordRun(r) \/ Register(r)
            \/ StrandLaunch(r) \/ StartChecks(r) \/ ChecksDone(r) \/ OpenSession(r)
            \/ LookDone(r) \/ Spawns(r) \/ SpawnFails(r) \/ SessionRefused(r) \/ SessionStarts(r)
    BY <2>2
       DEF Refuse, Refused, PreflightPasses, ReserveLaunch, MakeDirectories, FailReserved,
           CleanLaunch, RecordRun, Register, Finalize, Unfinalized, StrandLaunch, StartChecks,
           ChecksDone, OpenSession, LaunchCancelled, EndLaunches, Pending, LookDone, Spawns, SpawnFails,
           SessionRefused, Identified, SessionStarts
  <2> QED
    BY <1>1, <2>1, <2>2 DEF LaunchStep
<1>2. ASSUME NEW r \in Runs, SupervisionStep(r)
     PROVE  OneHolder'
  BY <1>2
     DEF SupervisionStep, TurnCompleted, Activity, ExitConsumed, Finalize, SupervisionFails, Kill,
         Unfinalized, ControlledDeadline, ExitAwaited, DropRecord
<1>3. ASSUME NEW r \in Runs, OperatorStep(r)
     PROVE  OneHolder'
  BY <1>3
     DEF OperatorStep, Admit, Cancel, CancelRun, Kill, Finalize, Unfinalized, CancelInvestigation,
         End, SendMessage
<1>4. ASSUME NEW r \in Runs, LateSession(r) \/ AgentExits(r) \/ StepDeadline(r)
     PROVE  OneHolder'
  BY <1>4
     DEF LateSession, AgentExits, StepDeadline, Abort, LaunchCancelled, EndLaunches, Finalize,
         Unfinalized, Armed, Pending
<1>5. ASSUME NEW w \in Worktrees, CycleStep(w)
     PROVE  OneHolder'
  <2>1. CASE CyclePause(w)
    BY <2>1
       DEF CyclePause, Write, Abort, LaunchCancelled, EndLaunches, Finalize, Unfinalized, Armed,
           Pending
  <2>2. CASE CycleStop(w)
    BY <2>2
       DEF CycleStop, Write, CancelTurn, LaunchCancelled, EndLaunches, Kill, Finalize,
           Unfinalized, Armed, Pending
  <2>3. CASE \/ CycleEndTurn(w) \/ CycleAttention(w) \/ ResumeBegins(w) \/ ResumeDecides(w)
            \/ \E q \in Runs : CycleStart(w, q) \/ CycleNext(w, q) \/ ResumeLaunches(w, q)
    BY <2>3
       DEF CycleEndTurn, CycleAttention, Write, ResumeBegins, ResumeDecides, CycleStart, Fresh,
           CycleNext, ResumeLaunches
  <2> QED
    BY <1>5, <2>1, <2>2, <2>3 DEF CycleStep
<1>6. ASSUME DrainStep
     PROVE  OneHolder'
  <2>1. CASE Interrupt
    BY <2>1
       DEF Interrupt, EndLaunches, Finalize, Pending
  <2>2. CASE \/ ServiceStop \/ DeployDrain \/ CancelDrain \/ StopWaiting \/ RecordCleanStop
    BY <2>2
       DEF ServiceStop, DeployDrain, CancelDrain, StopWaiting, RecordCleanStop, Finalize
  <2> QED
    BY <1>6, <2>1, <2>2 DEF DrainStep
<1>7. ASSUME RestartStep
     PROVE  OneHolder'
  <2>1. CASE Halt
    BY <2>1
       DEF Halt, Restarted
  <2>2. CASE Crash
    BY <2>2
       DEF Crash, Restarted
  <2>3. CASE \/ EndReaping \/ EndClearing \/ EndRecovery
            \/ \E r \in Runs : Reap(r) \/ ClearReservation(r) \/ Interrupted(r)
    BY <2>3
       DEF EndReaping, EndClearing, EndRecovery, Reap, ClearReservation, Interrupted, Finalize
  <2> QED
    BY <1>7, <2>1, <2>2, <2>3 DEF RestartStep
<1>8. CASE UNCHANGED vars
  BY <1>8 DEF vars
<1> QED
  BY <1>1, <1>2, <1>3, <1>4, <1>5, <1>6, <1>7, <1>8 DEF Next

\* A row says how far its launch has come.
LEMMA RecordsStep ==
    ASSUME TypeOK, RecordsFollowLaunches, [Next]_vars
    PROVE  RecordsFollowLaunches'
<1> USE KindsAssumption, TreeAssumption
    DEF TypeOK, RecordsFollowLaunches, Live, durable, cycles, sessions, daemonVars, Go, Become, Asked,
        Arriving,
        LiveStatuses, TerminalStatuses
<1>1. ASSUME NEW r \in Runs, LaunchStep(r)
     PROVE  RecordsFollowLaunches'
  <2>1. CASE RecordRun(r)
    BY <2>1
       DEF RecordRun
  <2>2. CASE Register(r)
    BY <2>2
       DEF Register, Refused, Finalize, Unfinalized
  <2>3. CASE SessionStarts(r)
    BY <2>3
       DEF SessionStarts, Identified
  <2>4. CASE \/ Enter(r) \/ Refuse(r) \/ PreflightPasses(r) \/ ReserveLaunch(r)
            \/ MakeDirectories(r) \/ FailReserved(r) \/ CleanLaunch(r) \/ StrandLaunch(r)
            \/ StartChecks(r) \/ ChecksDone(r) \/ OpenSession(r) \/ LookDone(r)
            \/ Spawns(r) \/ SpawnFails(r) \/ SessionRefused(r)
    BY <2>4
       DEF Enter, Refuse, Refused, PreflightPasses, ReserveLaunch, MakeDirectories, FailReserved,
           CleanLaunch, StrandLaunch, StartChecks, ChecksDone, Finalize, Unfinalized, OpenSession,
           LaunchCancelled, EndLaunches, Pending, LookDone, Spawns, SpawnFails, SessionRefused, Identified
  <2> QED
    BY <1>1, <2>1, <2>2, <2>3, <2>4 DEF LaunchStep
<1>2. ASSUME NEW r \in Runs, SupervisionStep(r)
     PROVE  RecordsFollowLaunches'
  <2>1. CASE TurnCompleted(r)
    BY <2>1
       DEF TurnCompleted, Sessions
  <2>2. CASE \/ Activity(r) \/ ExitConsumed(r) \/ SupervisionFails(r) \/ ControlledDeadline(r)
            \/ ExitAwaited(r) \/ DropRecord(r)
    BY <2>2
       DEF Activity, Sessions, ExitConsumed, Finalize, SupervisionFails, Kill, Unfinalized,
           ControlledDeadline, ExitAwaited, DropRecord
  <2> QED
    BY <1>2, <2>1, <2>2 DEF SupervisionStep
<1>3. ASSUME NEW r \in Runs, OperatorStep(r)
     PROVE  RecordsFollowLaunches'
  <2>1. CASE Admit(r)
    BY <2>1
       DEF Admit
  <2>2. CASE \/ Cancel(r) \/ CancelInvestigation(r) \/ End(r) \/ SendMessage(r)
    BY <2>2
       DEF Cancel, CancelRun, Kill, Finalize, Unfinalized, Sessions, CancelInvestigation, End,
           SendMessage
  <2> QED
    BY <1>3, <2>1, <2>2 DEF OperatorStep
<1>4. ASSUME NEW r \in Runs, LateSession(r) \/ AgentExits(r) \/ StepDeadline(r)
     PROVE  RecordsFollowLaunches'
  <2>1. CASE StepDeadline(r)
    BY <2>1
       DEF StepDeadline, Abort, LaunchCancelled, EndLaunches, Finalize, Unfinalized, Armed,
           Pending
  <2>2. CASE \/ LateSession(r) \/ AgentExits(r)
    BY <2>2
       DEF LateSession, AgentExits
  <2> QED
    BY <1>4, <2>1, <2>2
<1>5. ASSUME NEW w \in Worktrees, CycleStep(w)
     PROVE  RecordsFollowLaunches'
  <2>1. CASE CyclePause(w)
    BY <2>1
       DEF CyclePause, Write, Abort, LaunchCancelled, EndLaunches, Finalize, Unfinalized, Armed,
           Pending
  <2>2. CASE CycleStop(w)
    BY <2>2
       DEF CycleStop, Write, CancelTurn, LaunchCancelled, EndLaunches, Kill, Finalize,
           Unfinalized, Armed, Pending
  <2>3. CASE \/ CycleEndTurn(w) \/ CycleAttention(w) \/ ResumeBegins(w) \/ ResumeDecides(w)
            \/ \E q \in Runs : CycleStart(w, q) \/ CycleNext(w, q) \/ ResumeLaunches(w, q)
    BY <2>3
       DEF CycleEndTurn, CycleAttention, Write, ResumeBegins, ResumeDecides, CycleStart, Fresh,
           CycleNext, ResumeLaunches
  <2> QED
    BY <1>5, <2>1, <2>2, <2>3 DEF CycleStep
<1>6. ASSUME DrainStep
     PROVE  RecordsFollowLaunches'
  <2>1. CASE Interrupt
    BY <2>1
       DEF Interrupt, EndLaunches, Finalize, Pending
  <2>2. CASE RecordCleanStop
    BY <2>2
       DEF RecordCleanStop, Finalize, Holding
  <2>3. CASE \/ ServiceStop \/ DeployDrain \/ CancelDrain \/ StopWaiting
    BY <2>3
       DEF ServiceStop, DeployDrain, CancelDrain, StopWaiting
  <2> QED
    BY <1>6, <2>1, <2>2, <2>3 DEF DrainStep
<1>7. ASSUME RestartStep
     PROVE  RecordsFollowLaunches'
  <2>1. CASE Halt
    BY <2>1
       DEF Halt, Restarted
  <2>2. CASE Crash
    BY <2>2
       DEF Crash, Restarted
  <2>3. CASE \E r \in Runs : Interrupted(r)
    BY <2>3
       DEF Interrupted, Finalize
  <2>4. CASE \/ EndReaping \/ EndClearing \/ EndRecovery
            \/ \E r \in Runs : Reap(r) \/ ClearReservation(r)
    BY <2>4
       DEF EndReaping, EndClearing, EndRecovery, Reap, ClearReservation
  <2> QED
    BY <1>7, <2>1, <2>2, <2>3, <2>4 DEF RestartStep
<1>8. CASE UNCHANGED vars
  BY <1>8 DEF vars
<1> QED
  BY <1>1, <1>2, <1>3, <1>4, <1>5, <1>6, <1>7, <1>8 DEF Next

\* Only a command that names a run of the cycle gives a worktree a cycle.
LEMMA CyclesHaveRunsStep ==
    ASSUME TypeOK, CyclesHaveRuns, [Next]_vars
    PROVE  CyclesHaveRuns'
<1> USE KindsAssumption, TreeAssumption
    DEF TypeOK, CyclesHaveRuns, In, durable, cycles, sessions, daemonVars, Go, Become, Asked, Arriving
<1>1. ASSUME NEW r \in Runs, LaunchStep(r)
     PROVE  CyclesHaveRuns'
  BY <1>1
     DEF LaunchStep, Enter, Refuse, Refused, PreflightPasses, ReserveLaunch, MakeDirectories,
         FailReserved, CleanLaunch, RecordRun, Register, Finalize, Unfinalized, StrandLaunch,
         StartChecks, ChecksDone, OpenSession, LaunchCancelled, EndLaunches, Pending, LookDone,
         Spawns, SpawnFails, SessionRefused, Identified, SessionStarts
<1>2. ASSUME NEW r \in Runs, SupervisionStep(r)
     PROVE  CyclesHaveRuns'
  BY <1>2
     DEF SupervisionStep, TurnCompleted, Activity, ExitConsumed, Finalize, SupervisionFails, Kill,
         Unfinalized, ControlledDeadline, ExitAwaited, DropRecord
<1>3. ASSUME NEW r \in Runs, OperatorStep(r)
     PROVE  CyclesHaveRuns'
  BY <1>3
     DEF OperatorStep, Admit, Cancel, CancelRun, Kill, Finalize, Unfinalized, CancelInvestigation,
         End, SendMessage
<1>4. ASSUME NEW r \in Runs, LateSession(r) \/ AgentExits(r) \/ StepDeadline(r)
     PROVE  CyclesHaveRuns'
  BY <1>4
     DEF LateSession, AgentExits, StepDeadline, Abort, LaunchCancelled, EndLaunches, Finalize,
         Unfinalized, Armed, Pending
<1>5. ASSUME NEW w \in Worktrees, CycleStep(w)
     PROVE  CyclesHaveRuns'
  <2>1. CASE CyclePause(w)
    BY <2>1
       DEF CyclePause, Write, Abort, LaunchCancelled, EndLaunches, Finalize, Unfinalized, Armed,
           Pending
  <2>2. CASE CycleStop(w)
    BY <2>2
       DEF CycleStop, Write, CancelTurn, LaunchCancelled, EndLaunches, Kill, Finalize,
           Unfinalized, Armed, Pending
  <2>3. CASE \E q \in Runs : CycleStart(w, q)
    BY <2>3
       DEF CycleStart, Write, Fresh
  <2>4. CASE \E q \in Runs : CycleNext(w, q)
    BY <2>4
       DEF CycleNext, Write, Fresh
  <2>5. CASE \E q \in Runs : ResumeLaunches(w, q)
    BY <2>5
       DEF ResumeLaunches, Write, Fresh
  <2>6. CASE \/ CycleEndTurn(w) \/ CycleAttention(w) \/ ResumeBegins(w) \/ ResumeDecides(w)
    BY <2>6
       DEF CycleEndTurn, CycleAttention, Write, ResumeBegins, ResumeDecides
  <2> QED
    BY <1>5, <2>1, <2>2, <2>3, <2>4, <2>5, <2>6 DEF CycleStep
<1>6. ASSUME DrainStep
     PROVE  CyclesHaveRuns'
  BY <1>6
     DEF DrainStep, ServiceStop, DeployDrain, CancelDrain, StopWaiting, Interrupt, EndLaunches,
         Finalize, Pending, RecordCleanStop
<1>7. ASSUME RestartStep
     PROVE  CyclesHaveRuns'
  BY <1>7
     DEF RestartStep, Halt, Restarted, Crash, EndReaping, EndClearing, EndRecovery, Reap,
         ClearReservation, Interrupted, Finalize
<1>8. CASE UNCHANGED vars
  BY <1>8 DEF vars
<1> QED
  BY <1>1, <1>2, <1>3, <1>4, <1>5, <1>6, <1>7, <1>8 DEF Next

\* No launch reaches a worktree while a resume of its cycle is on its way, whichever comes first.
LEMMA ResumeStep ==
    ASSUME SeparateControl, TypeOK, RecordsFollowLaunches, CyclesHaveRuns, ResumeApart, [Next]_vars
    PROVE  ResumeApart'
<1> USE KindsAssumption, TreeAssumption
    DEF TypeOK, ResumeApart, Entering, Investigating, Holding, AfterChecks, In, LiveIn, Live,
        LiveStatuses, durable, cycles, sessions, daemonVars, Go, Become, Asked, Arriving
<1>1. ASSUME NEW r \in Runs, LaunchStep(r)
     PROVE  ResumeApart'
  <2>1. CASE Enter(r)
    BY <2>1
       DEF Enter, Available
  <2>2. CASE PreflightPasses(r)
    BY <2>2
       DEF PreflightPasses, CyclesHaveRuns, SeparateControl, Authority
  <2>3. CASE RecordRun(r)
    BY <2>3
       DEF RecordRun
  <2>4. CASE \/ Refuse(r) \/ ReserveLaunch(r) \/ MakeDirectories(r) \/ FailReserved(r)
            \/ CleanLaunch(r) \/ Register(r) \/ StrandLaunch(r)
    BY <2>4
       DEF Refuse, Refused, ReserveLaunch, MakeDirectories, FailReserved, CleanLaunch, Register,
           Finalize, Unfinalized, StrandLaunch
  <2>5. CASE StartChecks(r) \/ ChecksDone(r) \/ LookDone(r)
    BY <2>5
       DEF StartChecks, ChecksDone, LookDone, LaunchCancelled, EndLaunches, Pending, Finalize, Unfinalized
  <2>6. CASE OpenSession(r)
    BY <2>6 DEF OpenSession, LaunchCancelled, EndLaunches, Pending, Finalize, Unfinalized
  <2>7. CASE Spawns(r) \/ SpawnFails(r) \/ SessionRefused(r) \/ SessionStarts(r)
    BY <2>7 DEF Spawns, SpawnFails, Refused, SessionRefused, SessionStarts, Identified, Finalize,
           Unfinalized
  <2> QED
    BY <1>1, <2>1, <2>2, <2>3, <2>4, <2>5, <2>6, <2>7 DEF LaunchStep
<1>2. ASSUME NEW r \in Runs, SupervisionStep(r)
     PROVE  ResumeApart'
  BY <1>2
     DEF SupervisionStep, TurnCompleted, Sessions, Activity, ExitConsumed, Finalize,
         SupervisionFails, Kill, Unfinalized, ControlledDeadline, ExitAwaited, DropRecord
<1>3. ASSUME NEW r \in Runs, OperatorStep(r)
     PROVE  ResumeApart'
  <2>1. CASE Admit(r)
    BY <2>1
       DEF Admit, CyclesHaveRuns, SeparateControl
  <2>2. CASE \/ Cancel(r) \/ CancelInvestigation(r) \/ End(r) \/ SendMessage(r)
    BY <2>2
       DEF Cancel, CancelRun, Kill, Finalize, Unfinalized, CancelInvestigation, End, SendMessage
  <2> QED
    BY <1>3, <2>1, <2>2 DEF OperatorStep
<1>4. ASSUME NEW r \in Runs, LateSession(r) \/ AgentExits(r) \/ StepDeadline(r)
     PROVE  ResumeApart'
  <2>1. CASE StepDeadline(r)
    BY <2>1
       DEF StepDeadline, Abort, LaunchCancelled, EndLaunches, Finalize, Unfinalized, Armed,
           Pending
  <2>2. CASE \/ LateSession(r) \/ AgentExits(r)
    BY <2>2
       DEF LateSession, AgentExits
  <2> QED
    BY <1>4, <2>1, <2>2
<1>5. ASSUME NEW w \in Worktrees, CycleStep(w)
     PROVE  ResumeApart'
  <2>1. CASE CyclePause(w)
    BY <2>1
       DEF CyclePause, Write, Abort, LaunchCancelled, EndLaunches, Finalize, Unfinalized, Armed,
           Pending
  <2>2. CASE CycleStop(w)
    BY <2>2
       DEF CycleStop, Write, CancelTurn, LaunchCancelled, EndLaunches, Kill, Finalize,
           Unfinalized, Armed, Pending
  <2>3. CASE ResumeBegins(w)
    BY <2>3
       DEF ResumeBegins, Available, RecordsFollowLaunches
  <2>4. CASE ResumeDecides(w)
    BY <2>4
       DEF ResumeDecides, Write
  <2>5. CASE \/ CycleEndTurn(w) \/ CycleAttention(w)
            \/ \E q \in Runs : CycleStart(w, q) \/ CycleNext(w, q) \/ ResumeLaunches(w, q)
    BY <2>5
       DEF CycleEndTurn, CycleAttention, Write, CycleStart, Fresh, CycleNext, ResumeLaunches
  <2> QED
    BY <1>5, <2>1, <2>2, <2>3, <2>4, <2>5 DEF CycleStep
<1>6. ASSUME DrainStep
     PROVE  ResumeApart'
  <2>1. CASE Interrupt
    BY <2>1
       DEF Interrupt, EndLaunches, Finalize, Pending
  <2>2. CASE \/ ServiceStop \/ DeployDrain \/ CancelDrain \/ StopWaiting \/ RecordCleanStop
    BY <2>2
       DEF ServiceStop, DeployDrain, CancelDrain, StopWaiting, RecordCleanStop, Finalize
  <2> QED
    BY <1>6, <2>1, <2>2 DEF DrainStep
<1>7. ASSUME RestartStep
     PROVE  ResumeApart'
  <2>1. CASE Halt
    BY <2>1
       DEF Halt, Restarted
  <2>2. CASE Crash
    BY <2>2
       DEF Crash, Restarted
  <2>3. CASE \/ EndReaping \/ EndClearing \/ EndRecovery
            \/ \E r \in Runs : Reap(r) \/ ClearReservation(r) \/ Interrupted(r)
    BY <2>3
       DEF EndReaping, EndClearing, EndRecovery, Reap, ClearReservation, Interrupted, Finalize
  <2> QED
    BY <1>7, <2>1, <2>2, <2>3 DEF RestartStep
<1>8. CASE UNCHANGED vars
  BY <1>8 DEF vars
<1> QED
  BY <1>1, <1>2, <1>3, <1>4, <1>5, <1>6, <1>7, <1>8 DEF Next

\* No step brings a second live run or launch into a worktree, or one that its running cycle does not
\* name.
LEMMA ContenderStep ==
    ASSUME TypeOK, OneHolder, RecordsFollowLaunches, ResumeApart, OneContender, CycleHolds, [Next]_vars
    PROVE  (OneContender /\ CycleHolds)'
<1> USE KindsAssumption, TreeAssumption
    DEF TypeOK, OneContender, CycleHolds, Contender, Entering, In, LiveIn, Live, LiveStatuses,
        TerminalStatuses, durable, cycles, sessions, daemonVars, Go, Become, Asked, Arriving
<1>1. ASSUME NEW r \in Runs, LaunchStep(r)
     PROVE  (OneContender /\ CycleHolds)'
  <2>1. CASE PreflightPasses(r)
    BY <2>1
       DEF PreflightPasses, OneHolder, Holding, AfterChecks, Authority, ManualControl
  <2>2. CASE RecordRun(r)
    BY <2>2
       DEF RecordRun
  <2>3. CASE \/ Enter(r) \/ Refuse(r) \/ ReserveLaunch(r) \/ MakeDirectories(r)
            \/ FailReserved(r) \/ CleanLaunch(r) \/ Register(r) \/ StrandLaunch(r)
    BY <2>3
       DEF Enter, Refuse, Refused, ReserveLaunch, MakeDirectories, FailReserved, CleanLaunch,
           Register, Finalize, Unfinalized, StrandLaunch
  <2>4. CASE StartChecks(r) \/ ChecksDone(r) \/ LookDone(r)
    BY <2>4 DEF StartChecks, ChecksDone, LookDone, LaunchCancelled, EndLaunches, Pending, Finalize,
           Unfinalized
  <2>5. CASE OpenSession(r)
    BY <2>5 DEF OpenSession, Finalize, Unfinalized, LaunchCancelled, EndLaunches, Pending
  <2>6. CASE Spawns(r) \/ SpawnFails(r) \/ SessionRefused(r) \/ SessionStarts(r)
    BY <2>6 DEF Spawns, SpawnFails, Refused, SessionRefused, SessionStarts, Identified, Finalize,
           Unfinalized
  <2> QED
    BY <1>1, <2>1, <2>2, <2>3, <2>4, <2>5, <2>6 DEF LaunchStep
<1>2. ASSUME NEW r \in Runs, SupervisionStep(r)
     PROVE  (OneContender /\ CycleHolds)'
  BY <1>2
     DEF SupervisionStep, TurnCompleted, Activity, ExitConsumed, Finalize, SupervisionFails, Kill,
         Unfinalized, ControlledDeadline, ExitAwaited, DropRecord
<1>3. ASSUME NEW r \in Runs, OperatorStep(r)
     PROVE  (OneContender /\ CycleHolds)'
  BY <1>3
     DEF OperatorStep, Admit, Cancel, CancelRun, Kill, Finalize, Unfinalized, CancelInvestigation,
         End, SendMessage
<1>4. ASSUME NEW r \in Runs, LateSession(r) \/ AgentExits(r) \/ StepDeadline(r)
     PROVE  (OneContender /\ CycleHolds)'
  <2>1. CASE StepDeadline(r)
    BY <2>1
       DEF StepDeadline, Abort, LaunchCancelled, EndLaunches, Finalize, Unfinalized, Armed,
           Pending
  <2>2. CASE \/ LateSession(r) \/ AgentExits(r)
    BY <2>2
       DEF LateSession, AgentExits
  <2> QED
    BY <1>4, <2>1, <2>2
<1>5. ASSUME NEW w \in Worktrees, CycleStep(w)
     PROVE  (OneContender /\ CycleHolds)'
  <2>1. CASE CyclePause(w)
    BY <2>1
       DEF CyclePause, Write, Abort, LaunchCancelled, EndLaunches, Finalize, Unfinalized, Armed,
           Pending
  <2>2. CASE CycleStop(w)
    BY <2>2
       DEF CycleStop, Write, CancelTurn, LaunchCancelled, EndLaunches, Kill, Finalize,
           Unfinalized, Armed, Pending
  <2>3. CASE ResumeDecides(w)
    BY <2>3
       DEF ResumeDecides, Write, ResumeApart
  <2>4. CASE \E q \in Runs : CycleStart(w, q)
    BY <2>4
       DEF CycleStart, Write, Fresh, Available, Holding, AfterChecks
  <2>5. CASE \E q \in Runs : CycleNext(w, q)
    BY <2>5
       DEF CycleNext, Write, Fresh, RecordsFollowLaunches
  <2>6. CASE \E q \in Runs : ResumeLaunches(w, q)
    BY <2>6
       DEF ResumeLaunches, Write, Fresh, ResumeApart
  <2>7. CASE \/ CycleEndTurn(w) \/ CycleAttention(w) \/ ResumeBegins(w)
    BY <2>7
       DEF CycleEndTurn, CycleAttention, Write, ResumeBegins
  <2> QED
    BY <1>5, <2>1, <2>2, <2>3, <2>4, <2>5, <2>6, <2>7 DEF CycleStep
<1>6. ASSUME DrainStep
     PROVE  (OneContender /\ CycleHolds)'
  <2>1. CASE Interrupt
    BY <2>1
       DEF Interrupt, EndLaunches, Finalize, Pending
  <2>2. CASE \/ ServiceStop \/ DeployDrain \/ CancelDrain \/ StopWaiting \/ RecordCleanStop
    BY <2>2
       DEF ServiceStop, DeployDrain, CancelDrain, StopWaiting, RecordCleanStop, Finalize
  <2> QED
    BY <1>6, <2>1, <2>2 DEF DrainStep
<1>7. ASSUME RestartStep
     PROVE  (OneContender /\ CycleHolds)'
  <2>1. CASE Halt
    BY <2>1
       DEF Halt, Restarted
  <2>2. CASE Crash
    BY <2>2
       DEF Crash, Restarted
  <2>3. CASE \/ EndReaping \/ EndClearing \/ EndRecovery
            \/ \E r \in Runs : Reap(r) \/ ClearReservation(r) \/ Interrupted(r)
    BY <2>3
       DEF EndReaping, EndClearing, EndRecovery, Reap, ClearReservation, Interrupted, Finalize
  <2> QED
    BY <1>7, <2>1, <2>2, <2>3 DEF RestartStep
<1>8. CASE UNCHANGED vars
  BY <1>8 DEF vars
<1> QED
  BY <1>1, <1>2, <1>3, <1>4, <1>5, <1>6, <1>7, <1>8 DEF Next

\* An agent only starts for the worktree's one contender, and a supervised agent has a live run.
LEMMA OneAgentStep ==
    ASSUME TypeOK, SupervisedInv, OneContender, OneAgentPerWorktree, [Next]_vars
    PROVE  OneAgentPerWorktree'
<1> USE KindsAssumption, TreeAssumption
    DEF TypeOK, OneAgentPerWorktree, Working, Live, durable, cycles, sessions, daemonVars, Go,
        Become, Asked, Arriving
<1>1. ASSUME NEW r \in Runs, LaunchStep(r)
     PROVE  OneAgentPerWorktree'
  <2>1. CASE OpenSession(r)
    BY <2>1
       DEF OpenSession, LaunchCancelled, EndLaunches, Finalize, Unfinalized, Pending
  <2>2. CASE LookDone(r)
    BY <2>2
       DEF LookDone, LaunchCancelled, EndLaunches, Finalize, Unfinalized, Pending
  <2>3. CASE SessionStarts(r)
    BY <2>3
       DEF SessionStarts, Identified, SupervisedInv, WorkingIsSupervised, Sessions, OneContender,
           Contender, Serving
  <2>4. CASE \/ Enter(r) \/ Refuse(r) \/ PreflightPasses(r) \/ ReserveLaunch(r)
            \/ MakeDirectories(r) \/ FailReserved(r) \/ CleanLaunch(r) \/ RecordRun(r)
    BY <2>4
       DEF Enter, Refuse, Refused, PreflightPasses, ReserveLaunch, MakeDirectories, FailReserved,
           CleanLaunch, RecordRun, Finalize, Unfinalized
  <2>5. CASE \/ Register(r) \/ StrandLaunch(r) \/ StartChecks(r) \/ ChecksDone(r)
            \/ Spawns(r) \/ SpawnFails(r) \/ SessionRefused(r)
    BY <2>5
       DEF Register, Finalize, Unfinalized, StrandLaunch, StartChecks,
           ChecksDone, Spawns, SpawnFails, SessionRefused, Identified
  <2> QED
    BY <1>1, <2>1, <2>2, <2>3, <2>4, <2>5 DEF LaunchStep
<1>2. ASSUME NEW r \in Runs, SupervisionStep(r)
     PROVE  OneAgentPerWorktree'
  <2>1. CASE TurnCompleted(r)
    BY <2>1
       DEF TurnCompleted
  <2>2. CASE SupervisionFails(r)
    BY <2>2
       DEF SupervisionFails, Kill, Finalize, Unfinalized
  <2>3. CASE ControlledDeadline(r)
    BY <2>3
       DEF ControlledDeadline, Kill, Finalize
  <2>4. CASE \/ Activity(r) \/ ExitConsumed(r) \/ ExitAwaited(r) \/ DropRecord(r)
    BY <2>4
       DEF Activity, ExitConsumed, Finalize, ExitAwaited, DropRecord
  <2> QED
    BY <1>2, <2>1, <2>2, <2>3, <2>4 DEF SupervisionStep
<1>3. ASSUME NEW r \in Runs, OperatorStep(r)
     PROVE  OneAgentPerWorktree'
  <2>1. CASE End(r)
    BY <2>1
       DEF End
  <2>2. CASE \/ Admit(r) \/ Cancel(r) \/ CancelInvestigation(r) \/ SendMessage(r)
    BY <2>2
       DEF Admit, Cancel, CancelRun, Kill, Finalize, Unfinalized, CancelInvestigation, SendMessage
  <2> QED
    BY <1>3, <2>1, <2>2 DEF OperatorStep
<1>4. ASSUME NEW r \in Runs, LateSession(r) \/ AgentExits(r) \/ StepDeadline(r)
     PROVE  OneAgentPerWorktree'
  <2>1. CASE LateSession(r)
    BY <2>1
       DEF LateSession
  <2>2. CASE AgentExits(r)
    BY <2>2
       DEF AgentExits
  <2>3. CASE StepDeadline(r)
    BY <2>3
       DEF StepDeadline, Abort, LaunchCancelled, EndLaunches, Finalize, Unfinalized, Armed,
           Pending
  <2> QED
    BY <1>4, <2>1, <2>2, <2>3
<1>5. ASSUME NEW w \in Worktrees, CycleStep(w)
     PROVE  OneAgentPerWorktree'
  <2>1. CASE CycleEndTurn(w)
    BY <2>1
       DEF CycleEndTurn
  <2>2. CASE CyclePause(w)
    BY <2>2
       DEF CyclePause, Write, Abort, LaunchCancelled, EndLaunches, Finalize, Unfinalized, Armed,
           Pending
  <2>3. CASE CycleStop(w)
    BY <2>3
       DEF CycleStop, Write, CancelTurn, LaunchCancelled, EndLaunches, Kill, Finalize,
           Unfinalized, Armed, Pending
  <2>4. CASE \/ CycleAttention(w) \/ ResumeBegins(w) \/ ResumeDecides(w)
            \/ \E q \in Runs : CycleStart(w, q) \/ CycleNext(w, q) \/ ResumeLaunches(w, q)
    BY <2>4
       DEF CycleAttention, Write, ResumeBegins, ResumeDecides, CycleStart, Fresh, CycleNext,
           ResumeLaunches
  <2> QED
    BY <1>5, <2>1, <2>2, <2>3, <2>4 DEF CycleStep
<1>6. ASSUME DrainStep
     PROVE  OneAgentPerWorktree'
  <2>1. CASE Interrupt
    BY <2>1
       DEF Interrupt, EndLaunches, Finalize, Pending
  <2>2. CASE \/ ServiceStop \/ DeployDrain \/ CancelDrain \/ StopWaiting \/ RecordCleanStop
    BY <2>2
       DEF ServiceStop, DeployDrain, CancelDrain, StopWaiting, RecordCleanStop, Finalize
  <2> QED
    BY <1>6, <2>1, <2>2 DEF DrainStep
<1>7. ASSUME RestartStep
     PROVE  OneAgentPerWorktree'
  <2>1. CASE Halt
    BY <2>1
       DEF Halt, Restarted
  <2>2. CASE Crash
    BY <2>2
       DEF Crash, Restarted
  <2>3. CASE EndReaping
    BY <2>3
       DEF EndReaping
  <2>4. CASE \/ EndClearing \/ EndRecovery
            \/ \E r \in Runs : Reap(r) \/ ClearReservation(r) \/ Interrupted(r)
    BY <2>4
       DEF EndClearing, EndRecovery, Reap, ClearReservation, Interrupted, Finalize
  <2> QED
    BY <1>7, <2>1, <2>2, <2>3, <2>4 DEF RestartStep
<1>8. CASE UNCHANGED vars
  BY <1>8 DEF vars
<1> QED
  BY <1>1, <1>2, <1>3, <1>4, <1>5, <1>6, <1>7, <1>8 DEF Next

\* What OneAgentPerWorktree and OneLiveRunPerWorktree rest on.
OneAgentInv ==
    /\ TypeOK /\ SupervisedInv
    /\ OneHolder /\ RecordsFollowLaunches /\ CyclesHaveRuns /\ ResumeApart
    /\ OneContender /\ CycleHolds
    /\ OneAgentPerWorktree

\* The invariant holds of every behaviour.
LEMMA OneAgentInvHolds ==
    ASSUME SeparateControl
    PROVE  Spec => []OneAgentInv
<1>1. Init => OneAgentInv
  <2> SUFFICES ASSUME Init PROVE OneAgentInv
    OBVIOUS
  <2>1. TypeOK
    BY TypeOKInit
  <2>2. SupervisedInv
    BY SupervisedInit
  <2>3. OneHolder /\ RecordsFollowLaunches
    BY DEF Init, OneHolder, RecordsFollowLaunches, Holding, AfterChecks, Live, LiveStatuses
  <2>4. CyclesHaveRuns /\ ResumeApart
    BY DEF Init, CyclesHaveRuns, ResumeApart
  <2>5. OneContender /\ CycleHolds /\ OneAgentPerWorktree
    BY DEF Init, OneContender, CycleHolds, OneAgentPerWorktree, Contender, Entering, Live, LiveStatuses,
           Working, In
  <2> QED
    BY <2>1, <2>2, <2>3, <2>4, <2>5 DEF OneAgentInv
<1>2. OneAgentInv /\ [Next]_vars => OneAgentInv'
  BY TypeOKStep, SupervisedStep, HolderStep, RecordsStep, CyclesHaveRunsStep, ResumeStep, ContenderStep,
     OneAgentStep
     DEF OneAgentInv
<1> QED
  BY <1>1, <1>2, PTL DEF Spec

\* AGT-13, for every instance: where no worktree is both an operator's and a cycle's, two agents never
\* work in one worktree, however launches, resumes, drains, failures and crashes interleave.
THEOREM OneAgent ==
    ASSUME SeparateControl
    PROVE  Spec => []OneAgentPerWorktree
BY OneAgentInvHolds, PTL DEF OneAgentInv

\* Nor do two of its runs have a live record.
THEOREM OneLiveRun ==
    ASSUME SeparateControl
    PROVE  Spec => []OneLiveRunPerWorktree
<1>1. OneAgentInv => OneLiveRunPerWorktree
  BY DEF OneAgentInv, OneContender, Contender, OneLiveRunPerWorktree
<1> QED
  BY <1>1, OneAgentInvHolds, PTL

-----------------------------------------------------------------------------
(* The run supervisor implements the abstract life of runs.                *)

\* A step that is at most a settlement: records end alike, their agents do not work on, and no agent
\* starts to.
Settles ==
    /\ status' \in [Runs -> RunStatuses]
    /\ \A r \in Runs : status'[r] # status[r] =>
         Live(r) /\ status'[r] \in TerminalStatuses /\ ~Working(r)'
    /\ \A r, q \in Runs : status'[r] # status[r] /\ status'[q] # status[q] => status'[r] = status'[q]
    /\ \A r \in Runs : Working(r)' => Working(r)

\* What other steps there are.
SettlesOrRuns ==
    \/ Settles
    \/ \E r \in Runs : \/ RecordRun(r) \/ SessionStarts(r)
                       \/ TurnCompleted(r) \/ Activity(r) \/ SendMessage(r)

\* The interruption of every session cancels launches that have none and kills sessions.
LEMMA InterruptSettles ==
    ASSUME TypeOK, SupervisedInv, Interrupt
    PROVE  Settles
<1> DEFINE pending == {r \in Runs : Pending(r)}
<1>1. status' = [r \in Runs |-> IF r \in pending /\ Live(r) THEN "drained" ELSE status[r]]
  BY DEF Interrupt, EndLaunches, Finalize, Draining
<1>2. \A r \in Runs : Working(r)' => Working(r)
  BY DEF TypeOK, Interrupt, Working
<1>3. \A r \in pending : ~Working(r)
  BY DEF Interrupt, SupervisedInv, WorkingIsSupervised, Serving, Draining, Sessions, Pending
<1> QED
  BY <1>1, <1>2, <1>3 DEF TypeOK, Settles, RunStatuses, TerminalStatuses

\* Every step settles, or is one of the five that take a run on.
LEMMA SettlesStep ==
    ASSUME TypeOK, SupervisedInv, RecordsFollowLaunches, [Next]_vars
    PROVE  SettlesOrRuns
<1> USE KindsAssumption, TreeAssumption
    DEF TypeOK, SettlesOrRuns, Settles, SupervisedInv, WorkingIsSupervised, Sessions, Working,
        Live, LiveStatuses, TerminalStatuses, RunStatuses, Serving, durable, cycles, sessions,
        daemonVars, Go, Become, Asked, Arriving
<1>1. ASSUME NEW r \in Runs, LaunchStep(r)
     PROVE  SettlesOrRuns
  <2>1. CASE RecordRun(r)
    BY <2>1
       DEF RecordRun
  <2>2. CASE Register(r)
    BY <2>2
       DEF Register, Refused, Finalize, Unfinalized
  <2>3. CASE ChecksDone(r)
    BY <2>3
       DEF ChecksDone, Finalize, Unfinalized
  <2>4. CASE OpenSession(r)
    BY <2>4
       DEF OpenSession, LaunchCancelled, EndLaunches, Finalize, Unfinalized, Pending
  <2>5. CASE LookDone(r)
    BY <2>5
       DEF LookDone, LaunchCancelled, EndLaunches, Finalize, Unfinalized, Pending
  <2>6. CASE Spawns(r) \/ SpawnFails(r)
    BY <2>6
       DEF Spawns, SpawnFails, Refused, Finalize
  <2>7. CASE SessionRefused(r)
    BY <2>7
       DEF SessionRefused, Identified, Finalize, Unfinalized
  <2>8. CASE SessionStarts(r)
    BY <2>8
       DEF SessionStarts, Identified
  <2>9. CASE \/ Enter(r) \/ Refuse(r) \/ PreflightPasses(r) \/ ReserveLaunch(r)
            \/ MakeDirectories(r) \/ FailReserved(r) \/ CleanLaunch(r) \/ StrandLaunch(r)
            \/ StartChecks(r)
    BY <2>9
       DEF Enter, Refuse, Refused, PreflightPasses, ReserveLaunch, MakeDirectories, FailReserved,
           CleanLaunch, StrandLaunch, StartChecks
  <2> QED
    BY <1>1, <2>1, <2>2, <2>3, <2>4, <2>5, <2>6, <2>7, <2>8, <2>9 DEF LaunchStep
<1>2. ASSUME NEW r \in Runs, SupervisionStep(r)
     PROVE  SettlesOrRuns
  <2>1. CASE TurnCompleted(r)
    BY <2>1
       DEF TurnCompleted
  <2>2. CASE Activity(r)
    BY <2>2
       DEF Activity
  <2>3. CASE ExitConsumed(r)
    BY <2>3
       DEF ExitConsumed, Finalize
  <2>4. CASE SupervisionFails(r)
    BY <2>4
       DEF SupervisionFails, Kill, Finalize, Unfinalized
  <2>5. CASE ControlledDeadline(r)
    BY <2>5
       DEF ControlledDeadline, Kill, Finalize
  <2>6. CASE \/ ExitAwaited(r) \/ DropRecord(r)
    BY <2>6
       DEF ExitAwaited, DropRecord
  <2> QED
    BY <1>2, <2>1, <2>2, <2>3, <2>4, <2>5, <2>6 DEF SupervisionStep
<1>3. ASSUME NEW r \in Runs, OperatorStep(r)
     PROVE  SettlesOrRuns
  <2>1. CASE Cancel(r)
    BY <2>1
       DEF Cancel, CancelRun, Kill, Finalize, Unfinalized
  <2>2. CASE CancelInvestigation(r)
    BY <2>2
       DEF CancelInvestigation, CancelRun, Kill, Finalize, Unfinalized
  <2>3. CASE SendMessage(r)
    BY <2>3
       DEF SendMessage
  <2>4. CASE \/ Admit(r) \/ End(r)
    BY <2>4
       DEF Admit, End
  <2> QED
    BY <1>3, <2>1, <2>2, <2>3, <2>4 DEF OperatorStep
<1>4. ASSUME NEW r \in Runs, LateSession(r) \/ AgentExits(r) \/ StepDeadline(r)
     PROVE  SettlesOrRuns
  <2>1. CASE StepDeadline(r)
    BY <2>1
       DEF StepDeadline, Abort, LaunchCancelled, EndLaunches, Finalize, Unfinalized, Armed,
           Pending
  <2>2. CASE \/ LateSession(r) \/ AgentExits(r)
    BY <2>2
       DEF LateSession, AgentExits
  <2> QED
    BY <1>4, <2>1, <2>2
<1>5. ASSUME NEW w \in Worktrees, CycleStep(w)
     PROVE  SettlesOrRuns
  <2>1. CASE CyclePause(w)
    BY <2>1
       DEF CyclePause, Write, Abort, LaunchCancelled, EndLaunches, Finalize, Unfinalized, Armed,
           Pending
  <2>2. CASE CycleStop(w)
    BY <2>2
       DEF CycleStop, Write, CancelTurn, LaunchCancelled, EndLaunches, Kill, Finalize,
           Unfinalized, Armed, Pending
  <2>3. CASE \/ CycleEndTurn(w) \/ CycleAttention(w) \/ ResumeBegins(w) \/ ResumeDecides(w)
            \/ \E q \in Runs : CycleStart(w, q) \/ CycleNext(w, q) \/ ResumeLaunches(w, q)
    BY <2>3
       DEF CycleEndTurn, CycleAttention, Write, ResumeBegins, ResumeDecides, CycleStart, Fresh,
           CycleNext, ResumeLaunches
  <2> QED
    BY <1>5, <2>1, <2>2, <2>3 DEF CycleStep
<1>6. ASSUME DrainStep
     PROVE  SettlesOrRuns
  <2>1. CASE Interrupt
    BY <2>1, InterruptSettles
       DEF Interrupt
  <2>2. CASE RecordCleanStop
    BY <2>2
       DEF RecordCleanStop, Finalize, Holding, AfterChecks, Draining
  <2>3. CASE \/ ServiceStop \/ DeployDrain \/ CancelDrain \/ StopWaiting
    BY <2>3
       DEF ServiceStop, DeployDrain, CancelDrain, StopWaiting
  <2> QED
    BY <1>6, <2>1, <2>2, <2>3 DEF DrainStep
<1>7. ASSUME RestartStep
     PROVE  SettlesOrRuns
  <2>1. CASE Halt
    BY <2>1
       DEF Halt, Restarted
  <2>2. CASE Crash
    BY <2>2
       DEF Crash, Restarted
  <2>3. CASE EndReaping
    BY <2>3
       DEF EndReaping
  <2>4. CASE \E r \in Runs : Interrupted(r)
    BY <2>4
       DEF Interrupted, Finalize
  <2>5. CASE \/ EndClearing \/ EndRecovery
            \/ \E r \in Runs : Reap(r) \/ ClearReservation(r)
    BY <2>5
       DEF EndClearing, EndRecovery, Reap, ClearReservation
  <2> QED
    BY <1>7, <2>1, <2>2, <2>3, <2>4, <2>5 DEF RestartStep
<1>8. CASE UNCHANGED vars
  BY <1>8 DEF vars
<1> QED
  BY <1>1, <1>2, <1>3, <1>4, <1>5, <1>6, <1>7, <1>8 DEF Next

\* A step that settles is one of the abstract life.
LEMMA SettlesIsSettle ==
    ASSUME TypeOK, Settles
    PROVE  Lifecycle!Next
<1> USE DEF Working
<1> DEFINE ended == {r \in Runs : status'[r] # status[r]}
           stopped == {r \in Runs : agent'[r] \notin {"working", "ending"}}
           bar == [r \in Runs |-> IF status[r] = "drained" THEN "interrupted" ELSE status[r]]
           working == {r \in Runs : Working(r)}
<1>1. \E s \in Lifecycle!TerminalStatuses :
         bar' = [r \in Runs |-> IF r \in ended THEN s ELSE bar[r]]
  <2>1. CASE ended = {}
    BY <2>1 DEF Settles, TypeOK, Lifecycle!TerminalStatuses
  <2>2. CASE ended # {}
    <3>1. PICK q \in Runs : status'[q] # status[q]
      BY <2>2
    <3> DEFINE s == IF status'[q] = "drained" THEN "interrupted" ELSE status'[q]
    <3>2. s \in Lifecycle!TerminalStatuses
      BY <3>1 DEF Settles, TerminalStatuses, Lifecycle!TerminalStatuses
    <3>3. \A r \in Runs : bar'[r] = IF r \in ended THEN s ELSE bar[r]
      BY <3>1 DEF Settles, TypeOK
    <3> QED
      BY <3>2, <3>3
  <2> QED
    BY <2>1, <2>2
<1>2. \A r \in ended : bar[r] \in Lifecycle!LiveStatuses
  BY DEF Settles, Live, LiveStatuses, Lifecycle!LiveStatuses
<1>3. working' = working \ (ended \cup stopped)
  BY DEF Settles
<1>4. ended \in SUBSET Runs /\ stopped \in SUBSET Runs
  OBVIOUS
<1> HIDE DEF ended, stopped
<1> QED
  BY <1>1, <1>2, <1>3, <1>4 DEF Lifecycle!Next, Lifecycle!Settle

\* The other steps are the abstract life's own.
LEMMA RunsStepIsNext ==
    ASSUME TypeOK, SupervisedInv, RecordsFollowLaunches, OneAgentPerWorktree', NEW r \in Runs,
           RecordRun(r) \/ SessionStarts(r) \/ TurnCompleted(r) \/ Activity(r) \/ SendMessage(r)
    PROVE  Lifecycle!Next
<1> USE TreeAssumption DEF TypeOK, RecordsFollowLaunches, Working, Live, LiveStatuses, Sessions
<1>1. CASE RecordRun(r)
  <2>1. Lifecycle!Create(r)
    BY <1>1 DEF RecordRun, Lifecycle!Create
  <2> QED
    BY <2>1 DEF Lifecycle!Next
<1>2. CASE SessionStarts(r)
  <2>1. /\ status[r] = "starting" /\ status' = [status EXCEPT ![r] = "running"]
        /\ \E a \in {"killed", "working"} : agent' = [agent EXCEPT ![r] = a]
    BY <1>2 DEF SessionStarts, Arriving, Become
  <2>2. ~Working(r)
    BY <1>2 DEF SessionStarts, Arriving, SupervisedInv, WorkingIsSupervised
  <2>3. CASE agent' = [agent EXCEPT ![r] = "working"]
    <3>1. Lifecycle!Rivals(r) = {}
      BY <2>3 DEF OneAgentPerWorktree, Lifecycle!Rivals
    <3>2. {q \in Runs : Working(q)}' = {q \in Runs : Working(q)} \cup {r}
      BY <2>3
    <3>3. Lifecycle!Begin(r)
      BY <2>1, <3>1, <3>2 DEF Lifecycle!Begin
    <3> QED
      BY <3>3 DEF Lifecycle!Next
  <2>4. CASE agent' = [agent EXCEPT ![r] = "killed"]
    BY <2>1, <2>2, <2>4 DEF Lifecycle!Next, Lifecycle!Begin
  <2> QED
    BY <2>1, <2>3, <2>4
<1>3. CASE TurnCompleted(r) \/ Activity(r) \/ SendMessage(r)
  <2>1. /\ status[r] \in {"running", "waiting"}
        /\ \E s \in {"running", "waiting"} : status' = [status EXCEPT ![r] = s]
    BY <1>3 DEF TurnCompleted, Activity, SendMessage
  <2>2. \A q \in Runs : Working(q)' <=> Working(q)
    BY <1>3 DEF TurnCompleted, Activity, SendMessage, Become
  <2>3. {q \in Runs : Working(q)}' = {q \in Runs : Working(q)}
    BY <2>2
  <2> DEFINE bar == [q \in Runs |-> IF status[q] = "drained" THEN "interrupted" ELSE status[q]]
  <2>4. bar[r] \in {"running", "waiting"} /\ bar' \in {[bar EXCEPT ![r] = "running"], [bar EXCEPT ![r] = "waiting"]}
    <3>1. bar[r] = status[r]
      BY <2>1
    <3>2. PICK s \in {"running", "waiting"} : status' = [status EXCEPT ![r] = s]
      BY <2>1
    <3>3. bar' = [bar EXCEPT ![r] = s]
      BY <3>2 DEF TypeOK
    <3> QED
      BY <2>1, <3>1, <3>2, <3>3
  <2>5. Lifecycle!Turn(r)
    BY <2>3, <2>4, Zenon DEF Lifecycle!Turn
  <2> QED
    BY <2>5 DEF Lifecycle!Next
<1> QED
  BY <1>1, <1>2, <1>3

\* The run supervisor implements RunLifecycle, for every instance where operators and cycles do not
\* share worktrees: each step of a launch, a session, a drain or a recovery is one of a run's life.
THEOREM Implements ==
    ASSUME SeparateControl
    PROVE  Spec => ImplementsLifecycle
<1>1. Init => Lifecycle!Init
  BY DEF Init, Lifecycle!Init, Working
<1>2. OneAgentInv /\ OneAgentInv' /\ [Next]_vars => [Lifecycle!Next]_(Lifecycle!lifecycleVars)
  <2> SUFFICES ASSUME OneAgentInv, OneAgentInv', [Next]_vars
               PROVE  Lifecycle!Next
    OBVIOUS
  <2>1. CASE Settles
    BY <2>1, SettlesIsSettle DEF OneAgentInv
  <2>2. CASE \E r \in Runs : \/ RecordRun(r) \/ SessionStarts(r)
                             \/ TurnCompleted(r) \/ Activity(r) \/ SendMessage(r)
    BY <2>2, RunsStepIsNext DEF OneAgentInv
  <2> QED
    BY <2>1, <2>2, SettlesStep DEF OneAgentInv, SettlesOrRuns
<1> QED
  BY <1>1, <1>2, OneAgentInvHolds, PTL DEF Spec, ImplementsLifecycle, Lifecycle!Spec

=============================================================================
