--------------------------- MODULE WorkCycleProofs ---------------------------
(***************************************************************************)
(* TLAPS proofs about WorkCycle, for any limits, findings and operators.   *)
(* Every write of the cycle either moves its status or begins a run: the   *)
(* lemmas below say which action does which, and then that both keep the   *)
(* invariant.                                                              *)
(***************************************************************************)
EXTENDS WorkCycle, TLAPS

LEMMA Limits ==
    /\ MaxRounds \in Nat /\ MaxRefreshes \in Nat /\ RepairLimit \in Nat /\ RetryLimit \in Nat
    /\ ContinuationLimit \in Nat /\ ContinuationLimit # 0
    /\ Outages \in Nat /\ Restarts \in Nat /\ Commands \in Nat
  BY LimitsAreNumbers DEF LimitsAreNumbers

LEMMA FreshAttempts == \A guided \in BOOLEAN :
    LET a == [FreshAttempt EXCEPT !.guided = guided] IN a \in Attempts /\ ~a.due
<1>1. FreshAttempt \in Attempts /\ ~FreshAttempt.due
  BY Limits DEF FreshAttempt, Attempts
<1> HIDE DEF FreshAttempt
<1> QED
  BY <1>1 DEF Attempts

-----------------------------------------------------------------------------
(* The fields of what is written.                                          *)

SameCounts(c) ==
    /\ c.rounds = cycle.rounds /\ c.granted = cycle.granted
    /\ c.finding = cycle.finding /\ c.stalled = cycle.stalled

\* A move changes the status and the stop, and ends the repairs.
LEMMA MovedFields ==
    ASSUME cycle \in Cycles, NEW status \in Statuses, NEW stop \in Stops \cup {None, Gate}
    PROVE  /\ Moved(status, stop) \in Cycles
           /\ Moved(status, stop).status = status /\ Moved(status, stop).stop = stop
           /\ Moved(status, stop).step = cycle.step
           /\ Moved(status, stop).attempt = [cycle.attempt EXCEPT !.repairs = 0]
           /\ SameCounts(Moved(status, stop))
<1>1. cycle.attempt \in Attempts
  BY DEF Cycles
<1>2. [cycle.attempt EXCEPT !.repairs = 0] \in Attempts
  BY <1>1, Limits DEF Attempts
<1>3. Moved(status, stop) = [cycle EXCEPT !.status = status, !.stop = stop,
                                          !.attempt = [cycle.attempt EXCEPT !.repairs = 0]]
  BY DEF Moved, Cycles
<1> QED
  BY <1>2, <1>3 DEF Cycles, SameCounts

\* A reservation sets the step and its attempt, and lets the cycle run.
LEMMA ReservedFields ==
    ASSUME cycle \in Cycles, NEW s \in Steps, NEW a \in Attempts
    PROVE  /\ Reserved(s, a) \in Cycles
           /\ Reserved(s, a).status = "running" /\ Reserved(s, a).stop = None
           /\ Reserved(s, a).step = s /\ Reserved(s, a).attempt = a
           /\ SameCounts(Reserved(s, a))
  BY DEF Cycles, Reserved, Statuses, SameCounts

\* So does a round of remediation, which is counted, with its findings.
LEMMA RemediatedFields ==
    ASSUME cycle \in Cycles, NEW f \in Findings \cup {None}, NEW stalled \in Nat, NEW extra \in Nat,
           NEW guided \in BOOLEAN, NEW r, r = Remediated(f, stalled, extra, guided)
    PROVE  /\ r \in Cycles
           /\ r.status = "running" /\ r.stop = None /\ r.step = "remediate" /\ ~r.attempt.due
           /\ r.rounds = cycle.rounds + 1 /\ r.granted = cycle.granted + extra
           /\ r.finding = f /\ r.stalled = stalled
<1> DEFINE a == [FreshAttempt EXCEPT !.guided = guided]
<1>1. a \in Attempts /\ ~a.due
  BY FreshAttempts
<1>2. "remediate" \in Steps
  BY DEF Steps
<1> DEFINE c == Reserved("remediate", a)
<1>3. r = [c EXCEPT !.rounds = cycle.rounds + 1, !.granted = cycle.granted + extra,
                    !.finding = f, !.stalled = stalled]
  BY DEF Remediated
<1> HIDE DEF a
<1>4. /\ c \in Cycles /\ c.status = "running" /\ c.stop = None /\ c.step = "remediate"
      /\ c.attempt = a
  BY <1>1, <1>2, ReservedFields
<1>5. cycle.rounds + 1 \in Nat /\ cycle.granted + extra \in Nat
  BY DEF Cycles
<1> HIDE DEF c
<1>6. r \in Cycles
  BY <1>3, <1>4, <1>5 DEF Cycles
<1>7. /\ r.status = c.status /\ r.stop = c.stop /\ r.step = c.step /\ r.attempt = c.attempt
      /\ r.rounds = cycle.rounds + 1 /\ r.granted = cycle.granted + extra
      /\ r.finding = f /\ r.stalled = stalled
  BY <1>3, <1>4 DEF Cycles
<1> QED
  BY <1>1, <1>4, <1>6, <1>7

\* A fresh attempt has the type of an attempt, and no retry is due.
LEMMA NewAttempts ==
    ASSUME cycle \in Cycles, NEW s \in Steps
    PROVE  NewAttempt(s) \in Attempts /\ ~NewAttempt(s).due
<1>1. Kept(s) \in BOOLEAN
  BY DEF Kept, Cycles, Attempts
<1> HIDE DEF Kept, FreshAttempt
<1> QED
  BY <1>1, FreshAttempts DEF NewAttempt

-----------------------------------------------------------------------------
(* What a write does to what is under way.                                 *)

Typed == /\ job \in [effect: Effects, fresh: BOOLEAN, before: {"running", "awaiting-merge"}]
         /\ command \in [Operators -> [asks: Commanded, fresh: BOOLEAN]]
NothingFresh ==
    /\ job.effect # "none" => ~job.fresh
    /\ \A o \in Operators : command[o].asks # "none" => ~command[o].fresh

LEMMA StaleAfterWrite ==
    ASSUME Typed, job' \in {NoJob, StaleJob}, command' = StaleCommands
    PROVE  Typed' /\ NothingFresh'
<1>1. /\ StaleCommands \in [Operators -> [asks: Commanded, fresh: BOOLEAN]]
      /\ \A q \in Operators : StaleCommands[q].asks # "none" => ~StaleCommands[q].fresh
  BY DEF Typed, StaleCommands, Commanded
<1>2. /\ StaleJob \in [effect: Effects, fresh: BOOLEAN, before: {"running", "awaiting-merge"}]
      /\ StaleJob.effect # "none" => ~StaleJob.fresh
  BY DEF Typed, StaleJob, Effects
<1>3. /\ NoJob \in [effect: Effects, fresh: BOOLEAN, before: {"running", "awaiting-merge"}]
      /\ NoJob.effect = "none"
  BY DEF NoJob, Effects
<1> HIDE DEF StaleCommands, StaleJob, NoJob
<1> QED
  BY <1>1, <1>2, <1>3 DEF Typed, NothingFresh

\* After the controller's write nothing that was read before it is fresh,
LEMMA AfterControllerWrites ==
    ASSUME Typed, NEW c, ControllerWrites(c, NoJob)
    PROVE  cycle' = c /\ Typed' /\ NothingFresh'
  BY StaleAfterWrite DEF ControllerWrites

\* nor after a command's, which ends.
LEMMA AfterCommandWrites ==
    ASSUME Typed, NEW o \in Operators, NEW c, CommandWrites(o, c)
    PROVE  cycle' = c /\ Typed' /\ NothingFresh' /\ command'[o] = NoCommand
<1>1. /\ StaleCommands \in [Operators -> [asks: Commanded, fresh: BOOLEAN]]
      /\ \A q \in Operators : StaleCommands[q].asks # "none" => ~StaleCommands[q].fresh
  BY DEF Typed, StaleCommands, Commanded
<1>2. /\ StaleJob \in [effect: Effects, fresh: BOOLEAN, before: {"running", "awaiting-merge"}]
      /\ StaleJob.effect # "none" => ~StaleJob.fresh
  BY DEF Typed, StaleJob, Effects
<1>3. NoCommand \in [asks: Commanded, fresh: BOOLEAN] /\ NoCommand.asks = "none"
  BY DEF NoCommand, Commanded
<1>4. cycle' = c /\ job' = StaleJob /\ command' = [StaleCommands EXCEPT ![o] = NoCommand]
  BY DEF CommandWrites
<1> HIDE DEF StaleCommands, StaleJob, NoCommand
<1> QED
  BY <1>1, <1>2, <1>3, <1>4 DEF Typed, NothingFresh

-----------------------------------------------------------------------------
(* The two kinds of write keep the invariant.                              *)

Fits(status, stop) ==
    /\ status \in Ended \cup {"running"} => stop = None
    /\ status = "needs-attention" => stop \in Stops
    /\ status = "paused" => stop \in Stops \cup {None}
    /\ status = "awaiting-merge" => stop = Gate
RestTyped ==
    /\ newest \in Runs /\ overdue \in BOOLEAN /\ merged \in BOOLEAN
    /\ spent \in [outages: 0 .. Outages, restarts: 0 .. Restarts, commands: 0 .. Commands]
RetriesLeft(attempt) == attempt.due => attempt.retries < RetryLimit

LEMMA RunTypes ==
    ASSUME run \in Runs, newest \in Runs
    PROVE  Unlaunched \in Runs /\ Newest \in Runs /\ Cancelled \in Runs
<1>1. Unlaunched \in Runs
  BY DEF Unlaunched, Run, Runs
<1>2. Newest \in Runs
  BY DEF Newest
<1>3. Cancelled \in Runs
  BY DEF Cancelled, Runs
<1> QED
  BY <1>1, <1>2, <1>3

\* What was read is fresh no longer, so that only the stored cycle and its run must fit.
LEMMA WriteKeeps ==
    ASSUME cycle' \in Cycles, Fits(cycle'.status, cycle'.stop), RetriesLeft(cycle'.attempt),
           cycle'.rounds <= MaxRounds + cycle'.granted, run' \in Runs, RestTyped', Typed',
           NothingFresh', RunFits', WaitsReviewed', AnswersCounted',
           answered' \in [finding: Findings \cup {None}, rounds: Nat]
    PROVE  Inductive'
<1>1. TypeOK'
  BY DEF TypeOK, Fits, RestTyped, Typed
<1>2. JobFits' /\ CommandsFit'
  BY DEF JobFits, CommandsFit, NothingFresh
<1>3. AttemptsLeft'
  BY DEF AttemptsLeft, RetriesLeft, NothingFresh
<1>4. cycle'.stalled \in Nat /\ answered'.rounds \in Nat
  BY DEF Cycles
<1>5. NoSpinning'
  BY <1>4 DEF NoSpinning, Allowance, AnswersCounted
<1> QED
  BY <1>1, <1>2, <1>3, <1>5 DEF Inductive

\* A move: the step, its run and the counters stay, but a live run may be cancelled.
LEMMA MoveKeeps ==
    ASSUME Inductive, cycle' \in Cycles, Fits(cycle'.status, cycle'.stop),
           RetriesLeft(cycle'.attempt), cycle'.step = cycle.step, SameCounts(cycle'),
           cycle'.status = "awaiting-merge" => Reviewed /\ run' = run,
           run' \in {run, Cancelled}, answered' = answered, RestTyped', Typed', NothingFresh'
    PROVE  Inductive'
<1>1. run \in Runs /\ newest \in Runs /\ RunFits /\ NoSpinning /\ AnswersCounted
      /\ answered \in [finding: Findings \cup {None}, rounds: Nat]
  BY DEF Inductive, TypeOK
<1>2. run' \in Runs
  BY <1>1, RunTypes
<1>3. RunFits'
  BY <1>1 DEF RunFits, Cancelled, Runs
<1>4. WaitsReviewed'
  BY DEF WaitsReviewed, Reviewed
<1>5. AnswersCounted'
  BY <1>1 DEF AnswersCounted, SameCounts
<1>6. cycle'.rounds <= MaxRounds + cycle'.granted
  BY <1>1 DEF NoSpinning, Allowance, SameCounts
<1> QED
  BY <1>1, <1>2, <1>3, <1>4, <1>5, <1>6, WriteKeeps

\* Most moves are the ones of Moved.
LEMMA MovedKeeps ==
    ASSUME Inductive, NEW status \in Statuses, NEW stop \in Stops \cup {None, Gate},
           cycle' = Moved(status, stop), Fits(status, stop),
           status = "awaiting-merge" => Reviewed /\ run' = run,
           run' \in {run, Cancelled}, answered' = answered, RestTyped', Typed', NothingFresh'
    PROVE  Inductive'
<1>1. cycle \in Cycles /\ RetriesLeft(cycle.attempt) /\ cycle.attempt \in Attempts
  BY DEF Inductive, TypeOK, AttemptsLeft, RetriesLeft, Cycles
<1>2. RetriesLeft([cycle.attempt EXCEPT !.repairs = 0])
  BY <1>1 DEF RetriesLeft, Attempts
<1> QED
  BY <1>1, <1>2, MovedFields, MoveKeeps

\* A run begins: nothing is waited for.
LEMMA BeginKeeps ==
    ASSUME Inductive, cycle' \in Cycles, cycle'.status = "running", cycle'.stop = None,
           RetriesLeft(cycle'.attempt), cycle'.rounds <= MaxRounds + cycle'.granted, Reserves,
           overdue' \in BOOLEAN, merged' = merged, spent' = spent, Typed', NothingFresh',
           AnswersCounted', answered' \in [finding: Findings \cup {None}, rounds: Nat]
    PROVE  Inductive'
<1>1. run \in Runs /\ newest \in Runs /\ RestTyped
  BY DEF Inductive, TypeOK, RestTyped
<1>2. run' = Unlaunched /\ run' \in Runs /\ newest' \in Runs
  BY <1>1, RunTypes DEF Reserves
<1>3. RunFits'
  BY <1>2 DEF RunFits, Unlaunched, Run
<1>4. WaitsReviewed'
  BY DEF WaitsReviewed
<1>5. Fits(cycle'.status, cycle'.stop)
  BY DEF Fits, Ended
<1>6. RestTyped'
  BY <1>1, <1>2 DEF RestTyped
<1> QED
  BY <1>2, <1>3, <1>4, <1>5, <1>6, WriteKeeps

\* The same attempts at the same or the next step: what was answered stays.
LEMMA ReservedKeeps ==
    ASSUME Inductive, NEW s \in Steps, NEW a \in Attempts, cycle' = Reserved(s, a),
           RetriesLeft(a), Reserves, overdue' \in BOOLEAN, UNCHANGED <<merged, answered, spent>>,
           Typed', NothingFresh'
    PROVE  Inductive'
<1>1. cycle \in Cycles /\ NoSpinning /\ AnswersCounted
      /\ answered \in [finding: Findings \cup {None}, rounds: Nat]
  BY DEF Inductive, TypeOK
<1>2. /\ cycle' \in Cycles /\ cycle'.status = "running" /\ cycle'.stop = None
      /\ cycle'.attempt = a /\ SameCounts(cycle')
  BY <1>1, ReservedFields
<1>3. AnswersCounted'
  BY <1>1, <1>2 DEF AnswersCounted, SameCounts
<1>4. cycle'.rounds <= MaxRounds + cycle'.granted
  BY <1>1, <1>2 DEF NoSpinning, Allowance, SameCounts
<1> QED
  BY <1>1, <1>2, <1>3, <1>4, BeginKeeps

-----------------------------------------------------------------------------
(* The controller's moves.                                                 *)

LEMMA Types ==
    ASSUME Inductive
    PROVE  /\ cycle \in Cycles /\ cycle.attempt \in Attempts /\ run \in Runs /\ Newest \in Runs
           /\ RestTyped /\ Typed
           /\ answered \in [finding: Findings \cup {None}, rounds: Nat]
  BY RunTypes DEF Inductive, TypeOK, Cycles, RestTyped, Typed

\* A stop by the controller, whatever it names and whether or not its run is cancelled.
LEMMA StopKeeps ==
    ASSUME Inductive, NEW code \in Stops, ControllerWrites(Stopped(code), NoJob),
           run' \in {run, Cancelled}, UNCHANGED <<newest, overdue, merged, answered, spent>>
    PROVE  Inductive'
<1>1. Typed /\ RestTyped
  BY Types
<1>2. cycle' = Moved("needs-attention", code) /\ Typed' /\ NothingFresh'
  BY <1>1, AfterControllerWrites DEF Stopped
<1>3. "needs-attention" \in Statuses /\ Fits("needs-attention", code)
  BY DEF Statuses, Fits, Ended
<1>4. RestTyped'
  BY <1>1 DEF RestTyped
<1> QED
  BY <1>2, <1>3, <1>4, MovedKeeps

LEMMA ControllersStop ==
    ASSUME Inductive,
           StepTimeLimit \/ StopStep \/ RefuseWorktree \/ CommitFails \/ Unchanged \/ RefreshFails
    PROVE  Inductive'
<1>1. \E code \in Stops : ControllerWrites(Stopped(code), NoJob)
  BY DEF StepTimeLimit, StopStep, StopCode, RefuseWorktree, CommitFails, Unchanged, RefreshFails,
         Stops, Questions, Redirected
<1>2. run' \in {run, Cancelled} /\ UNCHANGED <<newest, overdue, merged, answered, spent>>
  BY DEF StepTimeLimit, StopStep, RefuseWorktree, CommitFails, Unchanged, RefreshFails
<1> QED
  BY <1>1, <1>2, StopKeeps

LEMMA CompleteKeeps ==
    ASSUME Inductive, Complete
    PROVE  Inductive'
<1>1. Typed /\ RestTyped
  BY Types
<1>2. cycle' = Moved("completed", None) /\ Typed' /\ NothingFresh'
  BY <1>1, AfterControllerWrites DEF Complete
<1>3. "completed" \in Statuses /\ Fits("completed", None)
  BY DEF Statuses, Fits, Ended
<1>4. RestTyped' /\ run' = run /\ answered' = answered
  BY <1>1 DEF RestTyped, Complete
<1> QED
  BY <1>2, <1>3, <1>4, MovedKeeps

\* What is approved is what was read: the review whose run the cycle still has.
LEMMA ApproveKeeps ==
    ASSUME Inductive, Approve
    PROVE  Inductive'
<1>1. Typed /\ RestTyped /\ Reviewed
  BY Types DEF Approve, Effect, Inductive, JobFits
<1>2. cycle' = Moved("awaiting-merge", Gate) /\ Typed' /\ NothingFresh'
  BY <1>1, AfterControllerWrites DEF Approve
<1>3. "awaiting-merge" \in Statuses /\ Fits("awaiting-merge", Gate)
  BY DEF Statuses, Fits, Ended
<1>4. RestTyped' /\ run' = run /\ answered' = answered
  BY <1>1 DEF RestTyped, Approve
<1> QED
  BY <1>1, <1>2, <1>3, <1>4, MovedKeeps

\* A retry is scheduled only while there is one left.
LEMMA ScheduleKeeps ==
    ASSUME Inductive, ScheduleRetry
    PROVE  Inductive'
<1>1. cycle \in Cycles /\ cycle.attempt \in Attempts /\ Typed /\ RestTyped
      /\ cycle.status = "running" /\ cycle.stop = None
  BY Types DEF ScheduleRetry, Driven, Inductive, TypeOK
<1> DEFINE a == [cycle.attempt EXCEPT !.due = TRUE]
<1>2. a \in Attempts /\ RetriesLeft(a)
  BY <1>1 DEF Attempts, RetriesLeft, ScheduleRetry
<1>3. cycle' = [cycle EXCEPT !.attempt = a] /\ Typed' /\ NothingFresh'
  BY <1>1, AfterControllerWrites DEF ScheduleRetry
<1>4. RestTyped' /\ run' = run /\ answered' = answered
  BY <1>1 DEF RestTyped, ScheduleRetry
<1> HIDE DEF a
<1>5. /\ cycle' \in Cycles /\ cycle'.attempt = a /\ cycle'.step = cycle.step
      /\ cycle'.status = "running" /\ cycle'.stop = None /\ SameCounts(cycle')
  BY <1>1, <1>2, <1>3 DEF Cycles, SameCounts
<1>6. Fits(cycle'.status, cycle'.stop)
  BY <1>5 DEF Fits, Ended
<1> QED
  BY <1>2, <1>3, <1>4, <1>5, <1>6, MoveKeeps

\* What an update that failed restores was reviewed when its refresh was reserved, and still is.
LEMMA RestoreKeeps ==
    ASSUME Inductive, RestoreRefresh
    PROVE  Inductive'
<1> DEFINE stop == IF job.before = "awaiting-merge" THEN Gate ELSE None
<1>1. /\ cycle \in Cycles /\ cycle.refreshes # 0 /\ Typed /\ RestTyped
      /\ RetriesLeft(cycle.attempt) /\ (job.before = "awaiting-merge" => Reviewed)
  BY Types DEF RestoreRefresh, Effect, Inductive, JobFits, AttemptsLeft, RetriesLeft
<1>2. job.before \in {"running", "awaiting-merge"}
  BY <1>1 DEF Typed
<1>3. cycle.refreshes - 1 \in 0 .. MaxRefreshes
  BY <1>1, Limits DEF Cycles
<1>4. cycle' = [cycle EXCEPT !.status = job.before, !.refreshes = @ - 1, !.stop = stop]
      /\ Typed' /\ NothingFresh'
  BY <1>1, AfterControllerWrites DEF RestoreRefresh
<1>5. RestTyped' /\ run' = run /\ answered' = answered
  BY <1>1 DEF RestTyped, RestoreRefresh
<1>6. stop \in {Gate, None} /\ Fits(job.before, stop) /\ job.before \in Statuses
  BY <1>2 DEF Fits, Ended, Statuses
<1> HIDE DEF stop
<1>7. cycle' \in Cycles
  BY <1>1, <1>3, <1>4, <1>6 DEF Cycles
<1>8. /\ cycle'.attempt = cycle.attempt /\ cycle'.step = cycle.step
      /\ cycle'.status = job.before /\ cycle'.stop = stop /\ SameCounts(cycle')
  BY <1>1, <1>4 DEF Cycles, SameCounts
<1> QED
  BY <1>1, <1>4, <1>5, <1>6, <1>7, <1>8, MoveKeeps

-----------------------------------------------------------------------------
(* The runs the controller begins.                                         *)

\* An attempt that goes on: each budget had room when the effect was decided, and the attempt
\* is still the one that was read.
LEMMA AgainKeeps ==
    ASSUME Inductive, RetryProvider \/ ContinueResult \/ ResumeAfterRestart \/ RepairOutput
    PROVE  Inductive'
<1>1. /\ cycle \in Cycles /\ cycle.step \in Steps /\ cycle.attempt \in Attempts
      /\ Typed /\ RestTyped /\ AttemptsLeft
  BY Types DEF Inductive, Cycles
<1> SUFFICES ASSUME NEW a \in Attempts, Again(a), RetriesLeft(a), overdue' \in BOOLEAN
             PROVE  Inductive'
  <2>1. CASE RetryProvider
    <3>. cycle.attempt.retries + 1 \in 0 .. RetryLimit /\ 0 \in 0 .. RepairLimit
      BY <1>1, <2>1, Limits DEF Attempts, AttemptsLeft, RetryProvider, Effect
    <3>1. [cycle.attempt EXCEPT !.due = FALSE, !.retries = @ + 1, !.repairs = 0] \in Attempts
      BY <1>1 DEF Attempts
    <3>2. RetriesLeft([cycle.attempt EXCEPT !.due = FALSE, !.retries = @ + 1, !.repairs = 0])
      BY <1>1 DEF Attempts, RetriesLeft
    <3> QED
      BY <1>1, <2>1, <3>1, <3>2 DEF RetryProvider, RestTyped
  <2>2. CASE ContinueResult
    <3>. cycle.attempt.conts + 1 \in 0 .. ContinuationLimit /\ 0 \in 0 .. RepairLimit
      BY <1>1, <2>2, Limits DEF Attempts, AttemptsLeft, ContinueResult, Effect
    <3>1. [cycle.attempt EXCEPT !.conts = @ + 1, !.repairs = 0] \in Attempts
      BY <1>1 DEF Attempts
    <3>2. RetriesLeft([cycle.attempt EXCEPT !.conts = @ + 1, !.repairs = 0])
      BY <1>1 DEF Attempts, RetriesLeft, AttemptsLeft
    <3> QED
      BY <1>1, <2>2, <3>1, <3>2 DEF ContinueResult, RestTyped
  <2>3. CASE ResumeAfterRestart
    BY <1>1, <2>3 DEF ResumeAfterRestart, RestTyped, AttemptsLeft, RetriesLeft
  <2>4. CASE RepairOutput
    <3>. /\ cycle.attempt.repairs + 1 \in 0 .. RepairLimit /\ 0 \in 0 .. RetryLimit
         /\ (cycle.attempt.due => 0 < RetryLimit)
      BY <1>1, <2>4, Limits DEF Attempts, AttemptsLeft, RepairOutput, Effect
    <3>1. [cycle.attempt EXCEPT !.repairs = @ + 1, !.retries = 0] \in Attempts
      BY <1>1 DEF Attempts
    <3>2. RetriesLeft([cycle.attempt EXCEPT !.repairs = @ + 1, !.retries = 0])
      BY <1>1 DEF Attempts, RetriesLeft
    <3> QED
      BY <2>4, <3>1, <3>2 DEF RepairOutput
  <2> QED
    BY <2>1, <2>2, <2>3, <2>4
<1>2. cycle' = Reserved(cycle.step, a) /\ Typed' /\ NothingFresh'
  BY <1>1, AfterControllerWrites DEF Again
<1>3. Reserves /\ UNCHANGED <<merged, answered, spent>>
  BY DEF Again
<1> QED
  BY <1>1, <1>2, <1>3, ReservedKeeps

LEMMA ReviewKeeps ==
    ASSUME Inductive, Review \/ RefreshReviews
    PROVE  Inductive'
<1>1. cycle \in Cycles /\ Typed
  BY Types
<1>2. NewAttempt("review") \in Attempts /\ RetriesLeft(NewAttempt("review")) /\ "review" \in Steps
  BY <1>1, NewAttempts DEF Steps, RetriesLeft
<1>3. cycle' = Reserved("review", NewAttempt("review")) /\ Typed' /\ NothingFresh'
  BY <1>1, AfterControllerWrites DEF Review, RefreshReviews
<1>4. Reserves /\ overdue' \in BOOLEAN /\ UNCHANGED <<merged, answered, spent>>
  BY DEF Review, RefreshReviews
<1> QED
  BY <1>2, <1>3, <1>4, ReservedKeeps

\* Housekeeping is a round of remediation too, within the allowance.
LEMMA TidyUpKeeps ==
    ASSUME Inductive, TidyUp
    PROVE  Inductive'
<1>1. cycle \in Cycles /\ Typed /\ NoSpinning /\ AnswersCounted
      /\ answered \in [finding: Findings \cup {None}, rounds: Nat]
  BY Types DEF Inductive
<1> DEFINE c == Reserved("remediate", NewAttempt("remediate"))
<1>2. NewAttempt("remediate") \in Attempts /\ ~NewAttempt("remediate").due /\ "remediate" \in Steps
  BY <1>1, NewAttempts DEF Steps
<1>3. /\ c \in Cycles /\ c.status = "running" /\ c.stop = None
      /\ c.attempt = NewAttempt("remediate") /\ SameCounts(c)
  BY <1>1, <1>2, ReservedFields
<1>4. ControllerWrites(Housekeeping, NoJob) /\ Follows(Housekeeping)
      /\ UNCHANGED <<merged, answered, spent>>
  BY DEF TidyUp
<1>5. CASE cycle.rounds >= Allowance
  <2>1. Housekeeping = Stopped("remediation-exhausted") /\ "remediation-exhausted" \in Stops
    BY <1>5 DEF Housekeeping, Stops, Redirected
  <2>2. Housekeeping.status = "needs-attention"
    BY <1>1, <2>1, MovedFields DEF Stopped, Statuses
  <2>3. UNCHANGED <<run, newest, overdue>>
    BY <1>4, <2>2 DEF Follows
  <2> QED
    BY <1>4, <2>1, <2>3, StopKeeps
<1>6. CASE ~(cycle.rounds >= Allowance)
  <2>1. Housekeeping = [c EXCEPT !.rounds = cycle.rounds + 1]
    BY <1>6 DEF Housekeeping
  <2>2. cycle' = Housekeeping /\ Typed' /\ NothingFresh'
    BY <1>1, <1>4, AfterControllerWrites
  <2>3. cycle.rounds \in Nat /\ cycle.granted \in Nat /\ cycle.rounds + 1 <= MaxRounds + cycle.granted
    BY <1>1, <1>6, Limits DEF Cycles, Allowance
  <2> HIDE DEF c
  <2>4. /\ cycle' \in Cycles /\ cycle'.status = "running" /\ cycle'.stop = None
        /\ cycle'.attempt = NewAttempt("remediate") /\ cycle'.rounds = cycle.rounds + 1
        /\ cycle'.granted = cycle.granted /\ cycle'.finding = cycle.finding
        /\ cycle'.stalled = cycle.stalled
    BY <1>3, <2>1, <2>2, <2>3 DEF Cycles, SameCounts
  <2>5. Reserves /\ overdue' \in BOOLEAN
    BY <1>4, <2>2, <2>4 DEF Follows
  <2>6. AnswersCounted'
    BY <1>1, <1>4, <2>4 DEF AnswersCounted
  <2> QED
    BY <1>1, <1>2, <1>4, <2>2, <2>3, <2>4, <2>5, <2>6, BeginKeeps DEF RetriesLeft
<1> QED
  BY <1>5, <1>6

\* An automatic remediation, whoever decides it: its round is within the allowance, and the third in
\* a row for the same findings is the stall's stop.
LEMMA RemediationKeeps ==
    ASSUME Inductive, NEW f \in Findings, cycle' = Remediation(f), RemediationFollows(f),
           UNCHANGED <<merged, spent>>, Typed', NothingFresh'
    PROVE  Inductive'
<1>1. cycle \in Cycles /\ NoSpinning /\ AnswersCounted /\ RestTyped
      /\ answered \in [finding: Findings \cup {None}, rounds: Nat]
  BY Types DEF Inductive
<1>2. Stalled(f) \in Nat /\ Kept("remediate") \in BOOLEAN /\ cycle.rounds \in Nat /\ cycle.granted \in Nat
  BY <1>1 DEF Cycles, Stalled, Kept, Attempts
<1>3. CASE cycle.rounds >= Allowance \/ Stalled(f) >= 2
  <2>1. PICK code \in Stops : Remediation(f) = Moved("needs-attention", code)
    BY <1>3 DEF Remediation, Stopped, Stops, Redirected
  <2>2. "needs-attention" \in Statuses /\ Fits("needs-attention", code)
    BY DEF Statuses, Fits, Ended
  <2>3. Remediation(f).status = "needs-attention"
    BY <1>1, <2>1, <2>2, MovedFields
  <2>4. UNCHANGED <<run, newest, overdue, answered>>
    BY <2>3 DEF RemediationFollows, Follows
  <2>5. RestTyped'
    BY <1>1, <2>4 DEF RestTyped
  <2> QED
    BY <2>1, <2>2, <2>4, <2>5, MovedKeeps
<1>4. CASE ~(cycle.rounds >= Allowance \/ Stalled(f) >= 2)
  <2>1. Remediation(f) = Remediated(f, Stalled(f), 0, Kept("remediate"))
    BY <1>4 DEF Remediation
  <2>2. /\ cycle' \in Cycles /\ cycle'.status = "running" /\ cycle'.stop = None
        /\ ~cycle'.attempt.due /\ cycle'.rounds = cycle.rounds + 1
        /\ cycle'.granted = cycle.granted + 0 /\ cycle'.finding = f /\ cycle'.stalled = Stalled(f)
    <3>1. cycle \in Cycles /\ f \in Findings \cup {None} /\ Stalled(f) \in Nat /\ Kept("remediate") \in BOOLEAN
      BY <1>1, <1>2
    <3>2. cycle' = Remediated(f, Stalled(f), 0, Kept("remediate"))
      BY <2>1
    <3> QED
      BY <3>1, <3>2, RemediatedFields
  <2>3. Reserves /\ overdue' \in BOOLEAN /\ Answers(f, TRUE)
    BY <2>2 DEF RemediationFollows, Follows
  <2>4. cycle'.rounds <= MaxRounds + cycle'.granted
    BY <1>2, <1>4, <2>2, Limits DEF Allowance
  <2>5. answered' \in [finding: Findings \cup {None}, rounds: Nat]
    BY <1>1, <2>3 DEF Answers
  <2>6. AnswersCounted'
    BY <1>1, <1>2, <1>4, <2>2, <2>3, NoneIsApart DEF AnswersCounted, Answers, Stalled, Cycles
  <2> QED
    BY <2>2, <2>3, <2>4, <2>5, <2>6, BeginKeeps DEF RetriesLeft
<1> QED
  BY <1>3, <1>4

LEMMA RemediateKeeps ==
    ASSUME Inductive, Remediate
    PROVE  Inductive'
<1>1. Typed /\ run.finding \in Findings
  BY Types DEF Remediate, Effect, Inductive, JobFits, RunFits
<1>2. cycle' = Remediation(run.finding) /\ Typed' /\ NothingFresh'
  BY <1>1, AfterControllerWrites DEF Remediate
<1> QED
  BY <1>1, <1>2, RemediationKeeps DEF Remediate

-----------------------------------------------------------------------------
(* The steps that leave the cycle as it is.                                *)

LEMMA QuietKeeps ==
    ASSUME Inductive, UNCHANGED <<cycle, answered>>, run' \in Runs, RestTyped', Typed',
           RunFits', JobFits', CommandsFit', AttemptsLeft', WaitsReviewed'
    PROVE  Inductive'
<1>1. TypeOK'
  BY DEF Inductive, TypeOK, RestTyped, Typed
<1>2. AnswersCounted' /\ NoSpinning'
  BY DEF Inductive, AnswersCounted, NoSpinning, Allowance
<1> QED
  BY <1>1, <1>2 DEF Inductive

\* What the controller decides on fits what it reads.
LEMMA DecideKeeps ==
    ASSUME Inductive, Decide
    PROVE  Inductive'
<1>1. /\ run \in Runs /\ RestTyped /\ Typed /\ RunFits /\ CommandsFit /\ AttemptsLeft
      /\ cycle.status = "running"
  BY Types DEF Inductive, Decide, Driven
<1>2. /\ UNCHANGED <<cycle, run, newest, overdue, merged, command, answered, spent>>
      /\ job' = [effect |-> Decision, fresh |-> TRUE, before |-> "running"]
  BY <1>1 DEF Decide
<1>3. Decision \in Effects /\ Decision \notin {"merge-boundary", "refresh"}
  BY DEF Decision, Effects
<1>4. Typed' /\ RestTyped'
  BY <1>1, <1>2, <1>3 DEF Typed, RestTyped
<1>5. ASSUME Decision = "approve" PROVE Reviewed
  <2>1. run.state = "done" /\ run.role = "review"
    BY <1>5 DEF Decision
  <2>2. run = Run("done", None, "review")
    BY <1>1, <2>1 DEF RunFits, Runs, Run
  <2>3. cycle \in Cycles
    BY Types
  <2> QED
    BY <1>1, <2>1, <2>2, <2>3 DEF Reviewed, RunFits, Role, Cycles, Steps
<1>6. /\ (Decision = "remediate" => run.state = "findings")
      /\ (Decision = "retry" => cycle.attempt.due)
      /\ (Decision = "continue" => cycle.attempt.conts < ContinuationLimit)
      /\ (Decision = "repair-output" => cycle.attempt.repairs < RepairLimit)
  BY DEF Decision
<1>7. JobFits'
  BY <1>1, <1>2, <1>3, <1>5, <1>6 DEF JobFits, Reviewed
<1>8. AttemptsLeft'
  BY <1>1, <1>2, <1>6 DEF AttemptsLeft
<1>9. RunFits' /\ CommandsFit' /\ WaitsReviewed'
  BY <1>1, <1>2 DEF RunFits, CommandsFit, WaitsReviewed, Inductive
<1> QED
  BY <1>1, <1>2, <1>4, <1>7, <1>8, <1>9, QuietKeeps

LEMMA MergeBoundaryKeeps ==
    ASSUME Inductive, MergeBoundary
    PROVE  Inductive'
<1>1. /\ run \in Runs /\ RestTyped /\ Typed /\ RunFits /\ CommandsFit /\ AttemptsLeft /\ Reviewed
      /\ cycle.status = "awaiting-merge"
  BY Types DEF Inductive, MergeBoundary, WaitsReviewed
<1>2. /\ UNCHANGED <<cycle, run, newest, overdue, merged, command, answered, spent>>
      /\ job' = [effect |-> "merge-boundary", fresh |-> TRUE, before |-> "awaiting-merge"]
  BY <1>1 DEF MergeBoundary
<1>3. Typed' /\ RestTyped'
  BY <1>1, <1>2 DEF Typed, RestTyped, Effects
<1>4. JobFits' /\ AttemptsLeft'
  BY <1>1, <1>2 DEF JobFits, AttemptsLeft, Reviewed
<1>5. RunFits' /\ CommandsFit' /\ WaitsReviewed'
  BY <1>1, <1>2 DEF RunFits, CommandsFit, WaitsReviewed, Reviewed
<1> QED
  BY <1>1, <1>2, <1>3, <1>4, <1>5, QuietKeeps

LEMMA NothingDoneKeeps ==
    ASSUME Inductive, NothingDone
    PROVE  Inductive'
<1>1. /\ run \in Runs /\ RestTyped /\ Typed /\ RunFits /\ CommandsFit /\ AttemptsLeft /\ WaitsReviewed
  BY Types DEF Inductive
<1>2. /\ UNCHANGED <<cycle, run, newest, overdue, merged, command, answered, spent>>
      /\ job' = NoJob
  BY DEF NothingDone
<1>3. Typed' /\ RestTyped'
  BY <1>1, <1>2 DEF Typed, RestTyped, Effects, NoJob
<1>4. JobFits' /\ AttemptsLeft'
  BY <1>1, <1>2 DEF JobFits, AttemptsLeft, NoJob
<1>5. RunFits' /\ CommandsFit' /\ WaitsReviewed'
  BY <1>1, <1>2 DEF RunFits, CommandsFit, WaitsReviewed, Reviewed
<1> QED
  BY <1>1, <1>2, <1>3, <1>4, <1>5, QuietKeeps

\* A launch is of the step's own run; or it is refused.
LEMMA LaunchKeeps ==
    ASSUME Inductive, Launch
    PROVE  Inductive'
<1>1. /\ run \in Runs /\ RestTyped /\ Typed /\ RunFits /\ CommandsFit /\ AttemptsLeft
      /\ cycle.status = "running" /\ cycle \in Cycles
      /\ UNCHANGED <<overdue, merged, answered, spent>>
  BY Types DEF Inductive, JobFits, Launch, Effect
<1>2. CASE ControllerWrites(Stopped("launch-refused"), NoJob) /\ UNCHANGED <<run, newest>>
  BY <1>1, <1>2, StopKeeps DEF Stops
<1>3. CASE /\ run' = Run("live", None, Role(cycle.step)) /\ newest' = Unlaunched
           /\ job' = NoJob /\ UNCHANGED <<cycle, command>>
  <2>1. run' \in Runs
    BY <1>3 DEF Run, Runs, Role
  <2>2. RestTyped'
    BY <1>1, <1>3, RunTypes DEF RestTyped
  <2>3. Typed'
    BY <1>1, <1>3 DEF Typed, NoJob, Effects
  <2>4. JobFits' /\ AttemptsLeft'
    BY <1>1, <1>3 DEF JobFits, AttemptsLeft, NoJob
  <2>5. RunFits'
    BY <1>3 DEF RunFits, Run, Role
  <2>6. CommandsFit' /\ WaitsReviewed'
    BY <1>1, <1>3 DEF CommandsFit, WaitsReviewed
  <2> QED
    BY <1>1, <1>3, <2>1, <2>2, <2>3, <2>4, <2>5, <2>6, QuietKeeps
<1> QED
  BY <1>2, <1>3 DEF Launch

LEMMA MergeKeeps ==
    ASSUME Inductive, Merge
    PROVE  Inductive'
<1>1. /\ run \in Runs /\ RestTyped /\ Typed /\ RunFits /\ CommandsFit /\ AttemptsLeft /\ WaitsReviewed
      /\ JobFits
  BY Types DEF Inductive
<1>2. UNCHANGED <<cycle, run, newest, overdue, job, command, answered, spent>> /\ merged' = TRUE
  BY DEF Merge
<1>3. Typed' /\ RestTyped'
  BY <1>1, <1>2 DEF Typed, RestTyped
<1>4. JobFits' /\ AttemptsLeft' /\ RunFits' /\ CommandsFit' /\ WaitsReviewed'
  BY <1>1, <1>2 DEF JobFits, AttemptsLeft, RunFits, CommandsFit, WaitsReviewed, Reviewed
<1> QED
  BY <1>1, <1>2, <1>3, <1>4, QuietKeeps

LEMMA TickKeeps ==
    ASSUME Inductive, Tick
    PROVE  Inductive'
<1>1. /\ run \in Runs /\ RestTyped /\ Typed /\ RunFits /\ CommandsFit /\ AttemptsLeft /\ WaitsReviewed
      /\ JobFits
  BY Types DEF Inductive
<1>2. UNCHANGED <<cycle, run, newest, merged, job, command, answered, spent>> /\ overdue' = TRUE
  BY DEF Tick
<1>3. Typed' /\ RestTyped'
  BY <1>1, <1>2 DEF Typed, RestTyped
<1>4. JobFits' /\ AttemptsLeft' /\ RunFits' /\ CommandsFit' /\ WaitsReviewed'
  BY <1>1, <1>2 DEF JobFits, AttemptsLeft, RunFits, CommandsFit, WaitsReviewed, Reviewed
<1> QED
  BY <1>1, <1>2, <1>3, <1>4, QuietKeeps

\* While a run is live or ending nothing waits for its merge.
LEMMA RunGoesOn ==
    ASSUME Inductive, run.state \in {"live", "ending"}, run' \in Runs, run'.role = run.role,
           run'.state # "unlaunched",
           run'.state = "findings" => run'.finding \in Findings,
           run'.state = "done" => run'.finding = None, RestTyped',
           UNCHANGED <<cycle, job, command, answered>>
    PROVE  Inductive'
<1>1. /\ Typed /\ RunFits /\ CommandsFit /\ AttemptsLeft /\ WaitsReviewed /\ JobFits
  BY Types DEF Inductive
<1>2. ~Reviewed
  BY DEF Reviewed, Run
<1>3. Typed' /\ CommandsFit' /\ AttemptsLeft'
  BY <1>1 DEF Typed, CommandsFit, AttemptsLeft
<1>4. RunFits'
  BY <1>1 DEF RunFits
<1>5. JobFits' /\ WaitsReviewed'
  BY <1>1, <1>2 DEF JobFits, WaitsReviewed
<1> QED
  BY <1>3, <1>4, <1>5, QuietKeeps

LEMMA RunEndsKeeps ==
    ASSUME Inductive, RunEnds
    PROVE  Inductive'
<1>1. PICK state \in Reports \cup {"outage", "background", "failed"} :
        /\ state = "outage" => spent.outages < Outages
        /\ \E f \in Outcome(state) : run' = Run(state, f, run.role)
        /\ spent' = [spent EXCEPT !.outages = IF state = "outage" THEN @ + 1 ELSE @]
  BY DEF RunEnds
<1>2. PICK f \in Outcome(state) : run' = Run(state, f, run.role)
  BY <1>1
<1>3. /\ run \in Runs /\ RestTyped /\ run.state = "live"
      /\ UNCHANGED <<cycle, newest, overdue, merged, job, command, answered>>
  BY Types DEF RunEnds
<1>4. /\ f \in Findings \cup {None}
      /\ (state = "findings" => f \in Findings) /\ (state = "done" => f = None)
  BY DEF Outcome
<1>5. run' \in Runs /\ run'.role = run.role /\ run'.state = state /\ run'.finding = f
  BY <1>2, <1>3, <1>4 DEF Run, Runs, Reports, Failures
<1>6. state # "unlaunched"
  BY DEF Reports
<1>7. spent' \in [outages: 0 .. Outages, restarts: 0 .. Restarts, commands: 0 .. Commands]
  BY <1>1, <1>3, Limits DEF RestTyped
<1>8. RestTyped'
  BY <1>3, <1>7 DEF RestTyped
<1> QED
  BY <1>3, <1>4, <1>5, <1>6, <1>8, RunGoesOn

LEMMA CancelEndsKeeps ==
    ASSUME Inductive, CancelEnds
    PROVE  Inductive'
<1>1. /\ run \in Runs /\ RestTyped /\ run.state = "ending" /\ run' = Run("failed", None, run.role)
      /\ UNCHANGED <<cycle, newest, overdue, merged, job, command, answered, spent>>
  BY Types DEF CancelEnds
<1>2. run' \in Runs /\ run'.role = run.role /\ run'.state = "failed"
  BY <1>1 DEF Run, Runs, Failures
<1>3. RestTyped'
  BY <1>1 DEF RestTyped
<1> QED
  BY <1>1, <1>2, <1>3, RunGoesOn

\* A refresh is the one effect that goes on after a write: it keeps what it began from.
LEMMA ReserveRefreshKeeps ==
    ASSUME Inductive, ReserveRefresh
    PROVE  Inductive'
<1>1. /\ run \in Runs /\ RestTyped /\ Typed /\ RunFits /\ AttemptsLeft /\ AnswersCounted /\ NoSpinning
      /\ cycle \in Cycles /\ JobFits /\ job.fresh /\ job.effect # "none"
      /\ UNCHANGED <<run, newest, overdue, merged, answered, spent>>
  BY Types DEF Inductive, ReserveRefresh, Refreshable
<1>2. CASE ControllerWrites(Stopped("integration-refresh-limit"), NoJob)
  BY <1>1, <1>2, StopKeeps DEF Stops
<1>3. CASE /\ cycle.refreshes < MaxRefreshes
           /\ ControllerWrites([cycle EXCEPT !.status = "running", !.stop = None, !.refreshes = @ + 1],
                               [job EXCEPT !.effect = "refresh"])
  <2>1. cycle.refreshes + 1 \in 0 .. MaxRefreshes /\ cycle.refreshes + 1 # 0
    BY <1>1, <1>3, Limits DEF Cycles
  <2>2. /\ cycle' = [cycle EXCEPT !.status = "running", !.stop = None, !.refreshes = @ + 1]
        /\ job' = [job EXCEPT !.effect = "refresh"] /\ command' = StaleCommands
    BY <1>3 DEF ControllerWrites
  <2>3. cycle' \in Cycles
    BY <1>1, <2>1, <2>2 DEF Cycles, Statuses
  <2>4. /\ cycle'.status = "running" /\ cycle'.stop = None /\ cycle'.refreshes # 0
        /\ cycle'.step = cycle.step /\ cycle'.attempt = cycle.attempt /\ SameCounts(cycle')
    BY <1>1, <2>1, <2>2 DEF Cycles, SameCounts
  <2>5. /\ job' \in [effect: Effects, fresh: BOOLEAN, before: {"running", "awaiting-merge"}]
        /\ job'.effect = "refresh" /\ job'.before = job.before
    BY <1>1, <2>2 DEF Typed, Effects
  <2>6. /\ command' \in [Operators -> [asks: Commanded, fresh: BOOLEAN]]
        /\ \A q \in Operators : command'[q].asks # "none" => ~command'[q].fresh
    BY <1>1, <2>2 DEF Typed, StaleCommands, Commanded
  <2>7. TypeOK'
    BY <1>1, <2>3, <2>4, <2>5, <2>6, Types DEF TypeOK, RestTyped, Ended
  <2>8. JobFits'
    BY <1>1, <2>4, <2>5 DEF JobFits, Reviewed
  <2>9. AttemptsLeft' /\ CommandsFit' /\ RunFits' /\ WaitsReviewed'
    BY <1>1, <2>4, <2>5, <2>6 DEF AttemptsLeft, CommandsFit, RunFits, WaitsReviewed
  <2>10. AnswersCounted' /\ NoSpinning'
    BY <1>1, <2>4 DEF AnswersCounted, NoSpinning, Allowance, SameCounts
  <2> QED
    BY <2>7, <2>8, <2>9, <2>10 DEF Inductive
<1> QED
  BY <1>1, <1>2, <1>3, Limits DEF ReserveRefresh, Cycles

-----------------------------------------------------------------------------
(* The operators.                                                          *)

LEMMA PauseKeeps ==
    ASSUME Inductive, Pause
    PROVE  Inductive'
<1> DEFINE stop == IF cycle.status \in Resting THEN cycle.stop ELSE None
<1>1. Typed /\ RestTyped /\ UNCHANGED <<run, newest, overdue, merged, answered, spent>>
  BY Types DEF Pause
<1>2. cycle' = Moved("paused", stop) /\ Typed' /\ NothingFresh'
  BY <1>1, StaleAfterWrite DEF Pause
<1>3. stop \in Stops \cup {None} /\ Fits("paused", stop) /\ "paused" \in Statuses
  BY DEF Inductive, TypeOK, Resting, Fits, Statuses, Ended
<1>4. RestTyped' /\ run' = run /\ answered' = answered
  BY <1>1 DEF RestTyped
<1> HIDE DEF stop
<1> QED
  BY <1>2, <1>3, <1>4, MovedKeeps

LEMMA StopEnds ==
    ASSUME Inductive, Stop
    PROVE  Inductive'
<1>1. /\ Typed /\ RestTyped /\ UNCHANGED <<newest, overdue, merged, answered, spent>>
      /\ run' = Cancelled
  BY Types DEF Stop
<1>2. cycle' = Moved("stopped", None) /\ Typed' /\ NothingFresh'
  BY <1>1, StaleAfterWrite DEF Stop
<1>3. Fits("stopped", None) /\ "stopped" \in Statuses
  BY DEF Fits, Statuses, Ended
<1>4. RestTyped'
  BY <1>1 DEF RestTyped
<1> QED
  BY <1>1, <1>2, <1>3, <1>4, MovedKeeps

\* A command is taken while the cycle rests.
LEMMA AskKeeps ==
    ASSUME Inductive, NEW o \in Operators,
           NEW asks \in {"resume", "guide", "grant", "grant-with-guidance"}, Ask(o, asks)
    PROVE  Inductive'
<1>1. /\ run \in Runs /\ RestTyped /\ Typed /\ RunFits /\ CommandsFit /\ AttemptsLeft /\ WaitsReviewed
      /\ JobFits /\ cycle.status \in Resting
      /\ UNCHANGED <<cycle, run, newest, overdue, merged, job, answered>>
  BY Types DEF Inductive, Ask
<1>2. spent' \in [outages: 0 .. Outages, restarts: 0 .. Restarts, commands: 0 .. Commands]
  BY <1>1, Limits DEF Ask, RestTyped
<1>3. [asks |-> asks, fresh |-> TRUE] \in [asks: Commanded, fresh: BOOLEAN]
  BY DEF Commanded
<1>4. Typed' /\ RestTyped'
  BY <1>1, <1>2, <1>3 DEF Typed, RestTyped, Ask
<1>5. JobFits' /\ AttemptsLeft' /\ RunFits' /\ WaitsReviewed'
  BY <1>1 DEF JobFits, AttemptsLeft, RunFits, WaitsReviewed, Reviewed
<1>6. CommandsFit'
  BY <1>1 DEF CommandsFit
<1> QED
  BY <1>1, <1>4, <1>5, <1>6, QuietKeeps

LEMMA RefuseKeeps ==
    ASSUME Inductive, NEW o \in Operators, Refuse(o)
    PROVE  Inductive'
<1>1. /\ run \in Runs /\ RestTyped /\ Typed /\ RunFits /\ CommandsFit /\ AttemptsLeft /\ WaitsReviewed
      /\ JobFits /\ UNCHANGED <<cycle, run, newest, overdue, merged, job, answered, spent>>
  BY Types DEF Inductive, Refuse
<1>2. NoCommand \in [asks: Commanded, fresh: BOOLEAN] /\ NoCommand.asks = "none"
  BY DEF NoCommand, Commanded
<1>3. Typed' /\ RestTyped'
  BY <1>1, <1>2 DEF Typed, RestTyped, Refuse
<1>4. JobFits' /\ AttemptsLeft' /\ RunFits' /\ WaitsReviewed'
  BY <1>1 DEF JobFits, AttemptsLeft, RunFits, WaitsReviewed, Reviewed
<1>5. CommandsFit'
  BY <1>1, <1>2 DEF CommandsFit, Typed, Refuse
<1> QED
  BY <1>1, <1>3, <1>4, <1>5, QuietKeeps

\* A command that ends by letting the cycle run, or go back to its stop.
LEMMA CommandMoveKeeps ==
    ASSUME Inductive, NEW o \in Operators, ResumeRetry(o) \/ ReturnToStop(o) \/ Continue(o)
    PROVE  Inductive'
<1>1. /\ Typed /\ RestTyped /\ cycle \in Cycles /\ cycle.attempt \in Attempts
      /\ RetriesLeft(cycle.attempt)
  BY Types DEF Inductive, AttemptsLeft, RetriesLeft
<1>2. UNCHANGED <<run, newest, merged, answered, spent>> /\ overdue' \in {overdue, FALSE}
  BY DEF ResumeRetry, ReturnToStop, Continue
<1>3. RestTyped'
  BY <1>1, <1>2 DEF RestTyped
<1>4. Fits("running", None) /\ "running" \in Statuses
  BY DEF Fits, Statuses, Ended
<1>5. CASE ReturnToStop(o)
  <2>1. cycle.stop \in Stops /\ "needs-attention" \in Statuses /\ Fits("needs-attention", cycle.stop)
    BY <1>5 DEF ReturnToStop, Redirects, Stops, Statuses, Fits, Ended
  <2>2. cycle' = Moved("needs-attention", cycle.stop) /\ Typed' /\ NothingFresh'
    BY <1>1, <1>5, AfterCommandWrites DEF ReturnToStop
  <2> QED
    BY <1>2, <1>3, <2>1, <2>2, MovedKeeps
<1>6. CASE Continue(o)
  <2>1. cycle' = Moved("running", None) /\ Typed' /\ NothingFresh'
    BY <1>1, <1>6, AfterCommandWrites DEF Continue
  <2> QED
    BY <1>2, <1>3, <1>4, <2>1, MovedKeeps
<1>7. CASE ResumeRetry(o)
  <2> DEFINE c == Moved("running", None)
             guided == c.attempt.guided \/ Guides(o)
             a == [c.attempt EXCEPT !.guided = guided]
  <2>1. /\ c \in Cycles /\ c.status = "running" /\ c.stop = None /\ c.step = cycle.step
        /\ c.attempt = [cycle.attempt EXCEPT !.repairs = 0] /\ SameCounts(c)
    BY <1>1, <1>4, MovedFields
  <2>2. c.attempt \in Attempts /\ RetriesLeft(c.attempt)
    BY <1>1, <2>1 DEF Cycles, RetriesLeft, Attempts
  <2>3. cycle' = [c EXCEPT !.attempt.guided = @ \/ Guides(o)] /\ Typed' /\ NothingFresh'
    BY <1>1, <1>7, AfterCommandWrites DEF ResumeRetry
  <2>4. guided \in BOOLEAN
    BY <2>2 DEF Attempts, Guides, Asked
  <2> HIDE DEF c
  <2>5. cycle' = [c EXCEPT !.attempt = a]
    BY <2>1, <2>3 DEF Cycles
  <2> HIDE DEF guided
  <2>6. a \in Attempts /\ RetriesLeft(a)
    BY <2>2, <2>4 DEF Attempts, RetriesLeft
  <2> HIDE DEF a
  <2>7. /\ cycle' \in Cycles /\ cycle'.attempt = a /\ cycle'.status = "running"
        /\ cycle'.stop = None /\ cycle'.step = cycle.step /\ SameCounts(cycle')
    BY <2>1, <2>5, <2>6 DEF Cycles, SameCounts
  <2> QED
    BY <1>2, <1>3, <1>4, <2>3, <2>6, <2>7, MoveKeeps
<1> QED
  BY <1>5, <1>6, <1>7

\* A relaunch begins a fresh attempt.
LEMMA RelaunchKeeps ==
    ASSUME Inductive, NEW o \in Operators, Relaunch(o)
    PROVE  Inductive'
<1>1. cycle \in Cycles /\ cycle.step \in Steps /\ Typed
  BY Types DEF Cycles
<1> DEFINE n == NewAttempt(cycle.step)
<1>2. n \in Attempts /\ ~n.due
  BY <1>1, NewAttempts
<1> HIDE DEF n
<1>3. PICK conts \in {0, 1} : CommandWrites(o, Reserved(cycle.step, [n EXCEPT !.conts = conts]))
  BY DEF Relaunch, n
<1>4. conts \in 0 .. ContinuationLimit
  BY Limits
<1> DEFINE a == [n EXCEPT !.conts = conts]
<1>5. a \in Attempts /\ RetriesLeft(a)
  BY <1>2, <1>4 DEF Attempts, RetriesLeft
<1> HIDE DEF a
<1>6. cycle' = Reserved(cycle.step, a) /\ Typed' /\ NothingFresh'
  BY <1>1, <1>3, AfterCommandWrites DEF a
<1>7. Reserves /\ overdue' \in BOOLEAN /\ UNCHANGED <<merged, answered, spent>>
  BY DEF Relaunch
<1> QED
  BY <1>1, <1>5, <1>6, <1>7, ReservedKeeps

\* A finished review is read again: its remediation is as automatic as the controller's.
LEMMA ResumeReviewKeeps ==
    ASSUME Inductive, NEW o \in Operators, ResumeReview(o)
    PROVE  Inductive'
<1>1. cycle \in Cycles /\ Typed /\ Newest \in Runs
  BY Types
<1>2. CASE Asks(Newest)
  <2>1. Newest.finding \in Findings
    BY <1>1, <1>2 DEF Asks, Runs
  <2>2. cycle' = Remediation(Newest.finding) /\ Typed' /\ NothingFresh'
    BY <1>1, <1>2, AfterCommandWrites DEF ResumeReview
  <2>3. RemediationFollows(Newest.finding) /\ UNCHANGED <<merged, spent>>
    BY <1>2 DEF ResumeReview
  <2> QED
    BY <2>1, <2>2, <2>3, RemediationKeeps
<1>3. CASE ~Asks(Newest)
  <2>1. NewAttempt("review") \in Attempts /\ RetriesLeft(NewAttempt("review")) /\ "review" \in Steps
    BY <1>1, NewAttempts DEF Steps, RetriesLeft
  <2>2. cycle' = Reserved("review", NewAttempt("review")) /\ Typed' /\ NothingFresh'
    BY <1>1, <1>3, AfterCommandWrites DEF ResumeReview
  <2>3. Reserves /\ overdue' \in BOOLEAN /\ UNCHANGED <<merged, answered, spent>>
    BY <1>3 DEF ResumeReview
  <2> QED
    BY <2>1, <2>2, <2>3, ReservedKeeps
<1> QED
  BY <1>2, <1>3

\* A round that an operator asks for: in the allowance, which a grant widens, and the stall begins anew.
LEMMA AskedRoundKeeps ==
    ASSUME Inductive, NEW o \in Operators, NEW f \in Findings \cup {None}, NEW extra \in {0, 1},
           NEW guided \in BOOLEAN, CommandWrites(o, Remediated(f, 0, extra, guided)),
           extra = 0 => cycle.rounds < Allowance,
           \/ f # None /\ answered' = [finding |-> f, rounds |-> 1]
           \/ answered' = [finding |-> None, rounds |-> 0],
           Reserves, overdue' = FALSE, UNCHANGED <<merged, spent>>
    PROVE  Inductive'
<1>1. cycle \in Cycles /\ Typed /\ NoSpinning /\ cycle.rounds \in Nat /\ cycle.granted \in Nat
  BY Types DEF Inductive, Cycles
<1>2. cycle' = Remediated(f, 0, extra, guided) /\ Typed' /\ NothingFresh'
  BY <1>1, AfterCommandWrites
<1>. extra \in Nat /\ 0 \in Nat
  OBVIOUS
<1>3. /\ cycle' \in Cycles /\ cycle'.status = "running" /\ cycle'.stop = None
      /\ ~cycle'.attempt.due /\ cycle'.rounds = cycle.rounds + 1
      /\ cycle'.granted = cycle.granted + extra /\ cycle'.finding = f /\ cycle'.stalled = 0
  <2>1. ASSUME NEW r, r = Remediated(f, 0, extra, guided)
        PROVE  /\ r \in Cycles /\ r.status = "running" /\ r.stop = None
               /\ ~r.attempt.due /\ r.rounds = cycle.rounds + 1
               /\ r.granted = cycle.granted + extra /\ r.finding = f /\ r.stalled = 0
    <3>1. cycle \in Cycles
      BY <1>1
    <3> QED
      BY <2>1, <3>1, RemediatedFields
  <2> QED
    BY <1>2, <2>1
<1>4. cycle'.rounds <= MaxRounds + cycle'.granted
  BY <1>1, <1>3, Limits DEF NoSpinning, Allowance
<1>5. AnswersCounted' /\ answered' \in [finding: Findings \cup {None}, rounds: Nat]
  BY <1>3 DEF AnswersCounted
<1> QED
  BY <1>2, <1>3, <1>4, <1>5, BeginKeeps DEF RetriesLeft

LEMMA GrantKeeps ==
    ASSUME Inductive, NEW o \in Operators, NEW guided \in BOOLEAN, Grant(o, guided)
    PROVE  Inductive'
<1>1. run.finding \in Findings \cup {None} /\ cycle.finding \in Findings \cup {None}
  BY Types DEF Runs, Cycles
<1>2. Reserves /\ overdue' = FALSE /\ UNCHANGED <<merged, spent>>
  BY DEF Grant
<1>. 1 \in {0, 1} /\ 1 # 0
  OBVIOUS
<1>3. CASE cycle.step = "review" /\ Asks(run)
  <2>1. /\ CommandWrites(o, Remediated(run.finding, 0, 1, guided))
        /\ run.finding # None /\ answered' = [finding |-> run.finding, rounds |-> 1]
    BY <1>3 DEF Grant, Asks, Answers
  <2> QED
    BY <1>1, <1>2, <2>1, AskedRoundKeeps, Zenon
<1>4. CASE ~(cycle.step = "review" /\ Asks(run))
  <2>1. /\ CommandWrites(o, Remediated(cycle.finding, 0, 1, guided))
        /\ answered' = [finding |-> None, rounds |-> 0]
    BY <1>4 DEF Grant
  <2> QED
    BY <1>1, <1>2, <2>1, AskedRoundKeeps, Zenon
<1> QED
  BY <1>3, <1>4

LEMMA GuideKeeps ==
    ASSUME Inductive, NEW o \in Operators, Guide(o)
    PROVE  Inductive'
<1>1. /\ cycle \in Cycles /\ cycle.step \in Steps /\ Typed /\ NoSpinning
      /\ run.finding \in Findings \cup {None} /\ cycle.rounds \in Nat /\ cycle.granted \in Nat
  BY Types DEF Runs, Cycles, Inductive
<1>2. Reserves /\ overdue' = FALSE /\ UNCHANGED <<merged, spent>>
  BY DEF Guide
<1>3. CASE cycle.step = "review" /\ Asks(run)
  <2>1. /\ CommandWrites(o, Remediated(run.finding, 0, 0, TRUE))
        /\ run.finding # None /\ answered' = [finding |-> run.finding, rounds |-> 1]
    BY <1>3 DEF Guide, Asks, Answers
  <2>2. cycle.rounds < Allowance
    BY <1>1, <1>3, Limits DEF Guide, GuideTaken, RoundLimit, Allowance
  <2> QED
    BY <1>1, <1>2, <2>1, <2>2, AskedRoundKeeps
<1>4. CASE ~(cycle.step = "review" /\ Asks(run))
  <2> DEFINE s == IF cycle.stop = "remediation-no-change" THEN "review" ELSE cycle.step
             a == [FreshAttempt EXCEPT !.guided = TRUE]
             c == Reserved(s, a)
  <2>1. s \in Steps /\ a \in Attempts /\ ~a.due
    BY <1>1, FreshAttempts DEF Steps
  <2>2. CommandWrites(o, [c EXCEPT !.stalled = 0]) /\ answered' = [finding |-> None, rounds |-> 0]
    BY <1>4 DEF Guide
  <2> HIDE DEF s, a
  <2>3. /\ c \in Cycles /\ c.status = "running" /\ c.stop = None /\ c.attempt = a
        /\ SameCounts(c)
    BY <1>1, <2>1, ReservedFields
  <2> HIDE DEF c
  <2>4. cycle' = [c EXCEPT !.stalled = 0] /\ Typed' /\ NothingFresh'
    BY <1>1, <2>2, AfterCommandWrites
  <2>5. /\ cycle' \in Cycles /\ cycle'.status = "running" /\ cycle'.stop = None
        /\ cycle'.attempt = a /\ cycle'.rounds = cycle.rounds
        /\ cycle'.granted = cycle.granted /\ cycle'.stalled = 0
    BY <2>3, <2>4 DEF Cycles, SameCounts
  <2>6. AnswersCounted' /\ answered' \in [finding: Findings \cup {None}, rounds: Nat]
    BY <2>2, <2>5 DEF AnswersCounted
  <2> QED
    BY <1>1, <1>2, <2>1, <2>4, <2>5, <2>6, BeginKeeps DEF RetriesLeft, NoSpinning, Allowance
<1> QED
  BY <1>3, <1>4

-----------------------------------------------------------------------------
(* A restart forgets what was under way.                                   *)

LEMMA RestartKeeps ==
    ASSUME Inductive, NEW clean \in BOOLEAN, Restart(clean)
    PROVE  Inductive'
<1>1. /\ run \in Runs /\ RestTyped /\ RunFits /\ cycle \in Cycles
      /\ UNCHANGED <<newest, overdue, merged, answered>>
  BY Types DEF Inductive, Restart
<1>2. Typed' /\ NothingFresh'
  BY DEF Restart, Typed, NothingFresh, NoJob, NoCommand, Effects, Commanded
<1>3. RestTyped'
  BY <1>1, Limits DEF Restart, RestTyped
<1>4. /\ run' \in Runs
      /\ run.state \in {"live", "ending"} =>
            run'.state \in {"interrupted", "lost", "failed"} /\ run'.role = run.role
      /\ run.state \notin {"live", "ending"} => run' = run
  BY <1>1 DEF Restart, Run, Runs, Failures
<1>5. \/ cycle' = cycle
      \/ cycle' = Moved("needs-attention", "restart-resume")
  BY DEF Restart, Stopped
<1>6. /\ cycle' \in Cycles /\ Fits(cycle'.status, cycle'.stop) /\ RetriesLeft(cycle'.attempt)
      /\ cycle'.step = cycle.step /\ SameCounts(cycle')
      /\ cycle'.status # "needs-attention" => cycle' = cycle
  <2>1. CASE cycle' = cycle
    BY <1>1, <2>1 DEF Inductive, TypeOK, Fits, AttemptsLeft, RetriesLeft, SameCounts
  <2>2. CASE cycle' = Moved("needs-attention", "restart-resume")
    <3>1. cycle.attempt \in Attempts /\ RetriesLeft(cycle.attempt)
      BY <1>1 DEF Cycles, Inductive, AttemptsLeft, RetriesLeft
    <3>2. RetriesLeft([cycle.attempt EXCEPT !.repairs = 0])
      BY <3>1 DEF Attempts, RetriesLeft
    <3>3. "needs-attention" \in Statuses /\ "restart-resume" \in Stops
      BY DEF Statuses, Stops
    <3> QED
      BY <1>1, <2>2, <3>2, <3>3, MovedFields DEF Fits, Ended
  <2> QED
    BY <1>5, <2>1, <2>2
<1>7. RunFits'
  BY <1>1, <1>4, <1>6 DEF RunFits
<1>8. WaitsReviewed'
  BY <1>4, <1>6 DEF Inductive, WaitsReviewed, Reviewed, Run
<1>9. AnswersCounted' /\ cycle'.rounds <= MaxRounds + cycle'.granted
      /\ answered' \in [finding: Findings \cup {None}, rounds: Nat]
  BY <1>1, <1>6, Types DEF Inductive, AnswersCounted, NoSpinning, Allowance, SameCounts
<1> QED
  BY <1>2, <1>3, <1>4, <1>6, <1>7, <1>8, <1>9, WriteKeeps

-----------------------------------------------------------------------------
(* The invariant.                                                          *)

LEMMA InductiveInit == Init => Inductive
<1> SUFFICES ASSUME Init PROVE Inductive
  OBVIOUS
<1>1. FreshAttempt \in Attempts
  BY Limits DEF FreshAttempt, Attempts
<1>2. cycle \in Cycles /\ cycle.status = "running" /\ cycle.stop = None
      /\ cycle.attempt = FreshAttempt /\ cycle.rounds = 0 /\ cycle.granted = 0 /\ cycle.stalled = 0
  BY <1>1, Limits DEF Init, Cycles, Statuses, Steps
<1>3. run \in Runs /\ newest \in Runs /\ run.state = "unlaunched"
  BY DEF Init, Unlaunched, Run, Runs, Reports
<1>4. /\ job \in [effect: Effects, fresh: BOOLEAN, before: {"running", "awaiting-merge"}]
      /\ command \in [Operators -> [asks: Commanded, fresh: BOOLEAN]]
      /\ job.effect = "none" /\ \A o \in Operators : command[o].asks = "none"
  BY DEF Init, Effects, Commanded
<1>5. /\ answered \in [finding: Findings \cup {None}, rounds: Nat]
      /\ answered.finding = None /\ answered.rounds = 0
      /\ overdue \in BOOLEAN /\ merged \in BOOLEAN
  BY DEF Init
<1>10. spent \in [outages: 0 .. Outages, restarts: 0 .. Restarts, commands: 0 .. Commands]
  BY Limits DEF Init
<1>6. TypeOK
  BY <1>2, <1>3, <1>4, <1>5, <1>10 DEF TypeOK, Ended
<1>7. RunFits /\ JobFits /\ CommandsFit /\ WaitsReviewed
  BY <1>2, <1>3, <1>4 DEF RunFits, JobFits, CommandsFit, WaitsReviewed
<1>8. AttemptsLeft
  BY <1>2, <1>4 DEF AttemptsLeft, FreshAttempt
<1>9. AnswersCounted /\ NoSpinning
  BY <1>2, <1>5, Limits DEF AnswersCounted, NoSpinning, Allowance
<1> QED
  BY <1>6, <1>7, <1>8, <1>9 DEF Inductive

LEMMA InductiveStep == Inductive /\ [Next]_vars => Inductive'
<1> SUFFICES ASSUME Inductive, [Next]_vars PROVE Inductive'
  OBVIOUS
<1>1. CASE Controller
  BY <1>1, ControllersStop, DecideKeeps, ScheduleKeeps, CompleteKeeps, MergeBoundaryKeeps
     DEF Controller
<1>2. CASE FinishEffect
  BY <1>2, ControllersStop, AgainKeeps, LaunchKeeps, TidyUpKeeps, ReviewKeeps, RemediateKeeps,
     ApproveKeeps, ReserveRefreshKeeps, RestoreKeeps, NothingDoneKeeps DEF FinishEffect
<1>3. CASE Operator
  <2>1. ASSUME NEW o \in Operators, FinishCommand(o) PROVE Inductive'
    BY <2>1, CommandMoveKeeps, RelaunchKeeps, ResumeReviewKeeps, GuideKeeps, GrantKeeps
       DEF FinishCommand
  <2> QED
    BY <1>3, <2>1, PauseKeeps, StopEnds, AskKeeps, RefuseKeeps DEF Operator
<1>4. CASE Merge \/ RunEnds \/ CancelEnds \/ Tick
  BY <1>4, MergeKeeps, RunEndsKeeps, CancelEndsKeeps, TickKeeps
<1>5. CASE \E clean \in BOOLEAN : Restart(clean)
  BY <1>5, RestartKeeps
<1>6. CASE UNCHANGED vars
  BY <1>6 DEF vars, Inductive, TypeOK, RunFits, JobFits, CommandsFit, AttemptsLeft, AnswersCounted,
              WaitsReviewed, NoSpinning, Reviewed, Allowance
<1> QED
  BY <1>1, <1>2, <1>3, <1>4, <1>5, <1>6 DEF Next

LEMMA InductiveHolds == Spec => []Inductive
  BY InductiveInit, InductiveStep, PTL DEF Spec

\* Every variable keeps its type, and a stop fits its status, for any limits and any operators.
THEOREM TypeCorrect == Spec => []TypeOK
<1>1. Inductive => TypeOK
  BY DEF Inductive
<1> QED
  BY <1>1, InductiveHolds, PTL

\* A cycle waits for its merge only with the review that approved it as its current run: what the
\* controller read before it awaited Git is what it still has when it writes.
THEOREM ReviewedWaits == Spec => []WaitsReviewed
<1>1. Inductive => WaitsReviewed
  BY DEF Inductive
<1> QED
  BY <1>1, InductiveHolds, PTL

\* No sequence of outcomes, commands and restarts takes remediation past its rounds and grants, nor
\* sends the same findings round a third time in a row unasked.
THEOREM NoEndlessRounds == Spec => []NoSpinning
<1>1. Inductive => NoSpinning
  BY DEF Inductive
<1> QED
  BY <1>1, InductiveHolds, PTL

-----------------------------------------------------------------------------
(* What moves a cycle on that rests.                                       *)

\* The effects that write are fresh, and so belong to a cycle that does not rest.
LEMMA EffectsAreOfRunning ==
    ASSUME Inductive, FinishEffect, ~NothingDone
    PROVE  cycle.status \in {"running", "awaiting-merge"}
<1>1. job.fresh /\ job.effect # "none"
  BY DEF FinishEffect, RefuseWorktree, RetryProvider, ContinueResult, ResumeAfterRestart,
         RepairOutput, Launch, CommitFails, TidyUp, Unchanged, Review, Remediate, Approve,
         ReserveRefresh, Refreshable, RefreshReviews, RestoreRefresh, RefreshFails, Effect
<1> QED
  BY <1>1 DEF Inductive, JobFits

\* A command that writes is fresh, belongs to a cycle that rests, and ends.
LEMMA CommandsAreOfResting ==
    ASSUME Inductive, NEW o \in Operators, FinishCommand(o)
    PROVE  /\ cycle.status \in Resting /\ command[o].asks # "none" /\ command[o].fresh
           /\ command'[o] = NoCommand
<1>1. Typed
  BY Types
<1>2. \E c : CommandWrites(o, c)
  <2>1. CASE ResumeReview(o)
    BY <2>1 DEF ResumeReview
  <2>2. CASE Relaunch(o)
    BY <2>2 DEF Relaunch
  <2>3. CASE ~ResumeReview(o) /\ ~Relaunch(o)
    BY <2>3 DEF FinishCommand, ResumeRetry, ReturnToStop, Continue, Guide, Grant
  <2> QED
    BY <2>1, <2>2, <2>3
<1>3. command[o].asks # "none" /\ command[o].fresh
  <2>1. \/ Asked(o, "resume") \/ Asked(o, "guide") \/ Asked(o, "grant")
        \/ Asked(o, "grant-with-guidance")
    <3>1. CASE \E guided \in BOOLEAN : Grant(o, guided)
      BY <3>1 DEF Grant
    <3>2. CASE ~\E guided \in BOOLEAN : Grant(o, guided)
      BY <3>2 DEF FinishCommand, ResumeRetry, ReturnToStop, Continue, Relaunch, ResumeReview,
                  ResumesStep, Guide, Guides, Resumes
    <3> QED
      BY <3>1, <3>2
  <2> QED
    BY <2>1 DEF Asked
<1>4. command'[o] = NoCommand
  BY <1>1, <1>2, AfterCommandWrites
<1> QED
  BY <1>3, <1>4 DEF Inductive, CommandsFit

\* A paused or stopped cycle goes on only by a command that read it as it is: an effect that was
\* under way when an operator paused or stopped it finds another version than its own.
THEOREM RestsUntilCommanded == Spec => OnlyCommandsResume
<1> DEFINE Asleep == cycle.status \in Resting \cup Ended
           Awake == cycle'.status \in {"running", "awaiting-merge"}
           ByCommand == /\ cycle.status \notin Ended
                        /\ \E o \in Operators : command[o].asks # "none" /\ command[o].fresh
                                                /\ command'[o] = NoCommand
<1>1. ASSUME Inductive, Next, Asleep, Awake PROVE ByCommand
  <2>1. cycle' # cycle /\ cycle.status \notin {"running", "awaiting-merge"}
    BY <1>1 DEF Resting, Ended
  <2>2. cycle \in Cycles
    BY <1>1, Types
  <2>3. ASSUME NEW o \in Operators, FinishCommand(o) PROVE ByCommand
    BY <1>1, <2>3, CommandsAreOfResting DEF Resting, Ended
  <2>4. ASSUME NEW status \in {"needs-attention", "paused", "stopped", "completed"},
               NEW stop \in Stops \cup {None, Gate}, cycle' = Moved(status, stop)
        PROVE  FALSE
    BY <1>1, <2>2, <2>4, MovedFields DEF Statuses
  <2>5. ~Controller
    <3>1. ~Complete
      BY <2>4 DEF Complete, ControllerWrites
    <3> QED
      BY <2>1, <3>1 DEF Controller, StepTimeLimit, Decide, ScheduleRetry, StopStep, MergeBoundary,
                       Driven
  <2>6. ~FinishEffect
    BY <1>1, <2>1, EffectsAreOfRunning DEF NothingDone
  <2>7. ~Pause
    <3>1. cycle.status \in Resting => cycle.stop \in Stops \cup {None, Gate}
      BY <2>2 DEF Cycles
    <3> QED
      BY <2>4, <3>1 DEF Pause
  <2>8. ~Stop
    BY <2>4 DEF Stop
  <2>9. ~\E clean \in BOOLEAN : Restart(clean)
    BY <2>1, <2>4 DEF Restart, Stopped, Stops
  <2>10. ~Merge /\ ~RunEnds /\ ~CancelEnds /\ ~Tick /\ \A o \in Operators : ~Refuse(o)
    BY <2>1 DEF Merge, RunEnds, CancelEnds, Tick, Refuse
  <2>11. \A o \in Operators, asks \in {"resume", "guide", "grant", "grant-with-guidance"} : ~Ask(o, asks)
    BY <2>1 DEF Ask
  <2> QED
    BY <1>1, <2>3, <2>5, <2>6, <2>7, <2>8, <2>9, <2>10, <2>11 DEF Next, Operator
<1>2. Inductive /\ [Next]_vars => [Asleep /\ Awake => ByCommand]_vars
  BY <1>1
<1>3. Spec => [][Asleep /\ Awake => ByCommand]_vars
  BY <1>2, InductiveHolds, PTL DEF Spec
<1> QED
  BY <1>3 DEF OnlyCommandsResume
-----------------------------------------------------------------------------
(* Why there is a way on: how the last run ended fits what was decided.    *)

\* A move that names a control of its own is made after its run has ended.
LEMMA MoveFits ==
    ASSUME Inductive, EndFits, cycle'.step = cycle.step,
           cycle'.attempt.due => run.state = "outage",
           cycle'.stop \in Redirected => HasEnded(run),
           run' \in {run, Cancelled}, newest' = newest, NothingFresh'
    PROVE  EndFits'
<1>1. run \in Runs
  BY Types
<1>2. \/ run' = run
      \/ /\ run.state = "live" /\ run'.state = "ending" /\ run'.finding = run.finding
         /\ ~HasEnded(run)
  BY <1>1 DEF Cancelled, Runs, HasEnded, Reports, Failures
<1>3. (\A r \in {run, newest} : r.finding # None => r.state \in {"findings", "questions"})'
  BY <1>2 DEF EndFits
<1>4. (cycle.step = "review" /\ run.state = "unlaunched" => ~Asks(newest))'
  BY <1>2 DEF EndFits, Asks
<1>5. (cycle.stop \in Redirected => HasEnded(run))' /\ (cycle.attempt.due => run.state = "outage")'
  BY <1>2 DEF HasEnded
<1> QED
  BY <1>3, <1>4, <1>5 DEF EndFits, NothingFresh

\* A run that begins is a review's only behind a run without findings.
LEMMA BeginFits ==
    ASSUME Inductive, EndFits, Reserves, cycle'.stop = None, ~cycle'.attempt.due,
           cycle'.step = "review" => ~Asks(Newest), NothingFresh'
    PROVE  EndFits'
<1>1. run' = Unlaunched /\ newest' \in {run, newest} /\ newest' = Newest
  BY DEF Reserves, Newest
<1>2. run'.finding = None /\ run'.state = "unlaunched"
  BY <1>1 DEF Unlaunched, Run
<1>3. (\A r \in {run, newest} : r.finding # None => r.state \in {"findings", "questions"})'
  BY <1>1, <1>2 DEF EndFits
<1>4. ~(cycle'.stop \in Redirected)
  BY NoneIsNoStop DEF Stops
<1>5. cycle'.step = "review" => ~Asks(newest)'
  BY <1>1 DEF Asks
<1> QED
  BY <1>2, <1>3, <1>4, <1>5 DEF EndFits, NothingFresh

\* The cycle's record as it was, or its run: nothing is decided.
LEMMA QuietFits ==
    ASSUME EndFits, UNCHANGED <<cycle, run, newest>>, job' \in {job, NoJob}
    PROVE  EndFits'
  BY DEF EndFits, NoJob, HasEnded, Asks

LEMMA SameDue ==
    ASSUME Inductive, EndFits, NEW status \in Statuses, NEW stop \in Stops \cup {None, Gate}
    PROVE  /\ Moved(status, stop).step = cycle.step /\ Moved(status, stop).stop = stop
           /\ Moved(status, stop).attempt.due => run.state = "outage"
<1>1. cycle \in Cycles /\ cycle.attempt \in Attempts
  BY Types
<1>2. [cycle.attempt EXCEPT !.repairs = 0].due = cycle.attempt.due
  BY <1>1 DEF Attempts
<1> QED
  BY <1>1, <1>2, MovedFields DEF EndFits

\* The controller's stops.
LEMMA StopFits ==
    ASSUME Inductive, EndFits, NEW code \in Stops, ControllerWrites(Stopped(code), NoJob),
           code \in Redirected => HasEnded(run), run' \in {run, Cancelled}, newest' = newest
    PROVE  EndFits'
<1>1. Typed
  BY Types
<1>2. cycle' = Moved("needs-attention", code) /\ NothingFresh'
  BY <1>1, AfterControllerWrites DEF Stopped
<1>3. "needs-attention" \in Statuses
  BY DEF Statuses
<1> QED
  BY <1>2, <1>3, SameDue, MoveFits

LEMMA ControllerStopsFit ==
    ASSUME Inductive, EndFits,
           StepTimeLimit \/ StopStep \/ RefuseWorktree \/ CommitFails \/ Unchanged \/ RefreshFails
    PROVE  EndFits'
<1>1. \/ HasEnded(run) /\ \E code \in Stops : ControllerWrites(Stopped(code), NoJob)
      \/ \E code \in Stops \ Redirected : ControllerWrites(Stopped(code), NoJob)
  <2>1. CASE StopStep
    BY <2>1 DEF StopStep, StopCode, Stops, Questions, Redirected
  <2>2. CASE Unchanged
    <3>1. HasEnded(run)
      BY <2>2 DEF Unchanged, Effect, EndFits, HasEnded, Reports
    <3> QED
      BY <2>2, <3>1 DEF Unchanged, Stops, Redirected
  <2>3. CASE StepTimeLimit \/ RefuseWorktree \/ CommitFails \/ RefreshFails
    BY <2>3 DEF StepTimeLimit, RefuseWorktree, CommitFails, RefreshFails, Stops, Questions, Redirected
  <2> QED
    BY <2>1, <2>2, <2>3
<1>2. run' \in {run, Cancelled} /\ newest' = newest
  BY DEF StepTimeLimit, StopStep, RefuseWorktree, CommitFails, Unchanged, RefreshFails
<1> QED
  BY <1>1, <1>2, StopFits

LEMMA ControllerMovesFit ==
    ASSUME Inductive, EndFits, Complete \/ Approve \/ ScheduleRetry \/ RestoreRefresh
    PROVE  EndFits'
<1>1. Typed /\ cycle \in Cycles
  BY Types
<1>2. None \notin Redirected /\ Gate \notin Redirected
  BY NoneIsNoStop DEF Stops, Redirected, Gate
<1>3. run' \in {run, Cancelled} /\ newest' = newest
  BY DEF Complete, Approve, ScheduleRetry, RestoreRefresh
<1>4. CASE Complete
  <2>1. cycle' = Moved("completed", None) /\ NothingFresh'
    BY <1>1, <1>4, AfterControllerWrites DEF Complete
  <2>2. "completed" \in Statuses
    BY DEF Statuses
  <2> QED
    BY <1>2, <1>3, <2>1, <2>2, SameDue, MoveFits
<1>5. CASE Approve
  <2>1. cycle' = Moved("awaiting-merge", Gate) /\ NothingFresh'
    BY <1>1, <1>5, AfterControllerWrites DEF Approve
  <2>2. "awaiting-merge" \in Statuses
    BY DEF Statuses
  <2> QED
    BY <1>2, <1>3, <2>1, <2>2, SameDue, MoveFits
<1>6. CASE ScheduleRetry
  <2>1. cycle' = [cycle EXCEPT !.attempt.due = TRUE] /\ NothingFresh'
    BY <1>1, <1>6, AfterControllerWrites DEF ScheduleRetry
  <2>2. cycle.stop = None /\ run.state = "outage"
    BY <1>6 DEF ScheduleRetry, Driven, Inductive, TypeOK, Ended
  <2>3. cycle'.step = cycle.step /\ cycle'.stop = cycle.stop
    BY <1>1, <2>1 DEF Cycles
  <2> QED
    BY <1>2, <1>3, <2>1, <2>2, <2>3, MoveFits
<1>7. CASE RestoreRefresh
  <2> DEFINE stop == IF job.before = "awaiting-merge" THEN Gate ELSE None
  <2>1. cycle' = [cycle EXCEPT !.status = job.before, !.refreshes = @ - 1, !.stop = stop] /\ NothingFresh'
    BY <1>1, <1>7, AfterControllerWrites DEF RestoreRefresh
  <2>2. stop \notin Redirected
    BY <1>2
  <2> HIDE DEF stop
  <2>3. cycle'.step = cycle.step /\ cycle'.stop = stop /\ cycle'.attempt = cycle.attempt
    BY <1>1, <2>1 DEF Cycles
  <2> QED
    BY <1>3, <2>1, <2>2, <2>3, MoveFits DEF EndFits
<1> QED
  BY <1>4, <1>5, <1>6, <1>7

\* An attempt goes on after a run that left no findings, and no other retry is due.
LEMMA AgainFits ==
    ASSUME Inductive, EndFits, RetryProvider \/ ContinueResult \/ ResumeAfterRestart \/ RepairOutput
    PROVE  EndFits'
<1>1. Typed /\ cycle \in Cycles /\ cycle.attempt \in Attempts /\ cycle.step \in Steps
  BY Types DEF Cycles
<1>2. run.state \in {"outage", "background", "interrupted", "malformed"}
  BY DEF RetryProvider, ContinueResult, ResumeAfterRestart, RepairOutput, Effect, EndFits,
         Inductive, AttemptsLeft
<1>3. ~Asks(Newest)
  BY <1>2 DEF Asks, Newest, EndFits
<1> SUFFICES ASSUME NEW a, Again(a), ~a.due PROVE EndFits'
  <2>1. CASE RetryProvider
    <3>1. ~[cycle.attempt EXCEPT !.due = FALSE, !.retries = @ + 1, !.repairs = 0].due
      BY <1>1 DEF Attempts
    <3> QED
      BY <2>1, <3>1 DEF RetryProvider
  <2>2. CASE ContinueResult
    <3>1. ~cycle.attempt.due
      BY <2>2 DEF ContinueResult, Effect, EndFits
    <3>2. ~[cycle.attempt EXCEPT !.conts = @ + 1, !.repairs = 0].due
      BY <1>1, <3>1 DEF Attempts
    <3> QED
      BY <2>2, <3>2 DEF ContinueResult
  <2>3. CASE ResumeAfterRestart
    BY <2>3 DEF ResumeAfterRestart, Effect, EndFits
  <2>4. CASE RepairOutput
    <3>1. ~cycle.attempt.due
      BY <2>4 DEF RepairOutput, Effect, EndFits
    <3>2. ~[cycle.attempt EXCEPT !.repairs = @ + 1, !.retries = 0].due
      BY <1>1, <3>1 DEF Attempts
    <3> QED
      BY <2>4, <3>2 DEF RepairOutput
  <2> QED
    BY <2>1, <2>2, <2>3, <2>4
<1>5. cycle' = Reserved(cycle.step, a) /\ NothingFresh' /\ Reserves
  BY <1>1, AfterControllerWrites DEF Again
<1>6. cycle'.stop = None /\ cycle'.attempt = a
  BY <1>1, <1>5 DEF Reserved, Cycles
<1> QED
  BY <1>3, <1>5, <1>6, BeginFits

\* A review follows a run that is done, or one that was reserved for a review and not launched.
LEMMA ReviewFits ==
    ASSUME Inductive, EndFits, Review \/ RefreshReviews
    PROVE  EndFits'
<1>1. Typed /\ cycle \in Cycles
  BY Types
<1>2. NewAttempt("review") \in Attempts /\ ~NewAttempt("review").due /\ "review" \in Steps
  BY <1>1, NewAttempts DEF Steps
<1>3. cycle' = Reserved("review", NewAttempt("review")) /\ NothingFresh' /\ Reserves
  BY <1>1, AfterControllerWrites DEF Review, RefreshReviews
<1>4. \/ run.state = "done"
      \/ run.state = "unlaunched" /\ cycle.step = "review"
  <2>1. CASE Review
    BY <2>1 DEF Review, Effect, EndFits
  <2>2. CASE RefreshReviews
    BY <2>2 DEF RefreshReviews, Effect, EndFits
  <2> QED
    BY <2>1, <2>2
<1>5. ~Asks(Newest)
  BY <1>4 DEF Asks, Newest, EndFits, Inductive, RunFits
<1>6. cycle'.stop = None /\ ~cycle'.attempt.due
  BY <1>1, <1>2, <1>3, ReservedFields
<1> QED
  BY <1>3, <1>5, <1>6, BeginFits

\* Housekeeping, or its limit's stop, comes after a run that is done.
LEMMA TidyUpFits ==
    ASSUME Inductive, EndFits, TidyUp
    PROVE  EndFits'
<1>1. Typed /\ cycle \in Cycles
  BY Types
<1>2. NewAttempt("remediate") \in Attempts /\ ~NewAttempt("remediate").due /\ "remediate" \in Steps
  BY <1>1, NewAttempts DEF Steps
<1>3. ControllerWrites(Housekeeping, NoJob) /\ Follows(Housekeeping)
  BY DEF TidyUp
<1>4. HasEnded(run)
  BY DEF TidyUp, Effect, EndFits, HasEnded, Reports, Inductive, JobFits, Reviewed, Run
<1>5. CASE cycle.rounds >= Allowance
  <2>1. Housekeeping = Stopped("remediation-exhausted") /\ "remediation-exhausted" \in Stops
    BY <1>5 DEF Housekeeping, Stops, Redirected
  <2>2. Housekeeping.status = "needs-attention"
    BY <1>1, <2>1, MovedFields DEF Stopped, Statuses
  <2>3. UNCHANGED <<run, newest>>
    BY <1>3, <2>2 DEF Follows
  <2> QED
    BY <1>3, <1>4, <2>1, <2>3, StopFits
<1>6. CASE ~(cycle.rounds >= Allowance)
  <2> DEFINE c == Reserved("remediate", NewAttempt("remediate"))
  <2>1. Housekeeping = [c EXCEPT !.rounds = cycle.rounds + 1]
    BY <1>6 DEF Housekeeping
  <2>2. cycle' = Housekeeping /\ NothingFresh'
    BY <1>1, <1>3, AfterControllerWrites
  <2>3. /\ c \in Cycles /\ c.status = "running" /\ c.stop = None /\ c.step = "remediate"
        /\ c.attempt = NewAttempt("remediate")
    BY <1>1, <1>2, ReservedFields
  <2> HIDE DEF c
  <2>4. /\ cycle'.status = "running" /\ cycle'.stop = None /\ cycle'.step = "remediate"
        /\ cycle'.attempt = NewAttempt("remediate")
    BY <2>1, <2>2, <2>3 DEF Cycles
  <2>5. Reserves
    BY <1>3, <2>2, <2>4 DEF Follows
  <2> QED
    BY <1>2, <2>2, <2>4, <2>5, BeginFits
<1> QED
  BY <1>5, <1>6

\* So does a remediation, whoever reads the findings.
LEMMA RemediationFits ==
    ASSUME Inductive, EndFits, HasEnded(run), NEW f \in Findings, cycle' = Remediation(f),
           RemediationFollows(f), NothingFresh'
    PROVE  EndFits'
<1>1. cycle \in Cycles
  BY Types
<1>2. Stalled(f) \in Nat /\ Kept("remediate") \in BOOLEAN
  BY <1>1 DEF Cycles, Stalled, Kept, Attempts
<1>3. CASE cycle.rounds >= Allowance \/ Stalled(f) >= 2
  <2>1. PICK code \in Stops : Remediation(f) = Moved("needs-attention", code)
    BY <1>3 DEF Remediation, Stopped, Stops, Redirected
  <2>2. "needs-attention" \in Statuses
    BY DEF Statuses
  <2>3. Remediation(f).status = "needs-attention"
    BY <1>1, <2>1, <2>2, MovedFields
  <2>4. UNCHANGED <<run, newest>>
    BY <2>3 DEF RemediationFollows, Follows
  <2> QED
    BY <2>1, <2>2, <2>4, SameDue, MoveFits
<1>4. CASE ~(cycle.rounds >= Allowance \/ Stalled(f) >= 2)
  <2>1. cycle' = Remediated(f, Stalled(f), 0, Kept("remediate"))
    BY <1>4 DEF Remediation
  <2>2. /\ cycle'.status = "running" /\ cycle'.stop = None /\ cycle'.step = "remediate"
        /\ ~cycle'.attempt.due
    <3>1. cycle \in Cycles /\ f \in Findings \cup {None} /\ Stalled(f) \in Nat
          /\ Kept("remediate") \in BOOLEAN
      BY <1>1, <1>2
    <3> QED
      BY <2>1, <3>1, RemediatedFields
  <2>3. Reserves
    BY <2>2 DEF RemediationFollows, Follows
  <2> QED
    BY <2>2, <2>3, BeginFits
<1> QED
  BY <1>3, <1>4

LEMMA RemediateFits ==
    ASSUME Inductive, EndFits, Remediate
    PROVE  EndFits'
<1>1. Typed /\ run.state = "findings" /\ run.finding \in Findings
  BY Types DEF Remediate, Effect, Inductive, JobFits, RunFits
<1>2. cycle' = Remediation(run.finding) /\ NothingFresh' /\ HasEnded(run)
  BY <1>1, AfterControllerWrites DEF Remediate, HasEnded, Reports
<1> QED
  BY <1>1, <1>2, RemediationFits DEF Remediate

\* A launch is of the run that was reserved, and a retry is not due.
LEMMA LaunchFits ==
    ASSUME Inductive, EndFits, Launch
    PROVE  EndFits'
<1>1. run.state = "unlaunched" /\ cycle.status = "running" /\ cycle.stop = None
  BY DEF Launch, Effect, EndFits, Inductive, JobFits, TypeOK, Ended
<1>2. CASE ControllerWrites(Stopped("launch-refused"), NoJob) /\ UNCHANGED <<run, newest>>
  BY <1>2, StopFits DEF Stops, Redirected
<1>3. CASE /\ run' = Run("live", None, Role(cycle.step)) /\ newest' = Unlaunched
           /\ job' = NoJob /\ UNCHANGED <<cycle, command>>
  <2>1. run'.state = "live" /\ run'.finding = None /\ newest'.finding = None
    BY <1>3 DEF Run, Unlaunched
  <2>2. ~cycle.attempt.due /\ cycle.stop \notin Redirected
    BY <1>1, NoneIsNoStop DEF EndFits, Stops
  <2> QED
    BY <1>3, <2>1, <2>2 DEF EndFits, NoJob
<1> QED
  BY <1>2, <1>3 DEF Launch

\* A refresh is reserved behind a run that is done, or a review's before its launch.
LEMMA ReserveRefreshFits ==
    ASSUME Inductive, EndFits, ReserveRefresh
    PROVE  EndFits'
<1>1. cycle \in Cycles /\ Typed /\ UNCHANGED <<run, newest>>
  BY Types DEF ReserveRefresh
<1>2. \/ run.state = "done"
      \/ run.state = "unlaunched" /\ cycle.step = "review"
  <2>1. job.fresh /\ Refreshable
    BY DEF ReserveRefresh
  <2>2. CASE job.effect = "finalize"
    BY <2>1, <2>2 DEF EndFits
  <2>3. CASE job.effect \in {"approve", "merge-boundary"}
    <3>1. Reviewed
      BY <2>1, <2>3 DEF Inductive, JobFits, WaitsReviewed
    <3> QED
      BY <3>1 DEF Reviewed, Run
  <2>4. CASE job.effect = "launch" /\ cycle.step = "review"
    BY <2>1, <2>4 DEF EndFits
  <2> QED
    BY <2>1, <2>2, <2>3, <2>4 DEF Refreshable
<1>3. CASE ControllerWrites(Stopped("integration-refresh-limit"), NoJob)
  BY <1>1, <1>3, StopFits DEF Stops, Redirected
<1>4. CASE ControllerWrites([cycle EXCEPT !.status = "running", !.stop = None, !.refreshes = @ + 1],
                            [job EXCEPT !.effect = "refresh"])
  <2>1. /\ cycle' = [cycle EXCEPT !.status = "running", !.stop = None, !.refreshes = @ + 1]
        /\ job' = [job EXCEPT !.effect = "refresh"]
    BY <1>4 DEF ControllerWrites
  <2>2. cycle'.stop = None /\ cycle'.step = cycle.step /\ cycle'.attempt = cycle.attempt
    BY <1>1, <2>1 DEF Cycles
  <2>3. job'.effect = "refresh"
    BY <1>1, <2>1 DEF Typed
  <2>4. cycle'.stop \notin Redirected
    BY <2>2, NoneIsNoStop DEF Stops
  <2> QED
    BY <1>1, <1>2, <2>2, <2>3, <2>4 DEF EndFits, Asks
<1> QED
  BY <1>3, <1>4 DEF ReserveRefresh

\* What the controller decides on is about the run that it reads.
LEMMA DecideFits ==
    ASSUME Inductive, EndFits, Decide \/ MergeBoundary
    PROVE  EndFits'
<1>1. UNCHANGED <<cycle, run, newest>>
  BY DEF Decide, MergeBoundary
<1>2. CASE Decide
  <2>1. job'.effect = Decision
    BY <1>2 DEF Decide
  <2>2. /\ Decision = "launch" => run.state = "unlaunched"
        /\ Decision = "finalize" => run.state = "done"
        /\ Decision = "continue" => run.state = "background"
        /\ Decision = "repair-output" => run.state = "malformed"
        /\ Decision = "resume-after-restart" => run.state = "interrupted"
        /\ Decision # "refresh"
    BY DEF Decision
  <2> QED
    BY <1>1, <2>1, <2>2 DEF EndFits, Asks, HasEnded
<1>3. CASE MergeBoundary
  <2>1. job'.effect = "merge-boundary"
    BY <1>3 DEF MergeBoundary
  <2> QED
    BY <1>1, <2>1 DEF EndFits, Asks, HasEnded
<1> QED
  BY <1>2, <1>3

\* A pause keeps the stop it finds, if any.
LEMMA PauseFits ==
    ASSUME Inductive, EndFits, Pause \/ Stop
    PROVE  EndFits'
<1>1. Typed /\ cycle \in Cycles
  BY Types
<1>2. None \notin Redirected /\ "paused" \in Statuses /\ "stopped" \in Statuses
  BY NoneIsNoStop DEF Stops, Statuses
<1>3. CASE Pause
  <2> DEFINE stop == IF cycle.status \in Resting THEN cycle.stop ELSE None
  <2>1. cycle' = Moved("paused", stop) /\ NothingFresh' /\ UNCHANGED <<run, newest>>
    BY <1>1, <1>3, StaleAfterWrite DEF Pause
  <2>2. stop \in Stops \cup {None, Gate} /\ (stop \in Redirected => HasEnded(run))
    BY <1>1, <1>2 DEF EndFits, Cycles
  <2> HIDE DEF stop
  <2> QED
    BY <1>2, <2>1, <2>2, SameDue, MoveFits
<1>4. CASE Stop
  <2>1. /\ cycle' = Moved("stopped", None) /\ NothingFresh' /\ newest' = newest
        /\ run' = Cancelled
    BY <1>1, <1>4, StaleAfterWrite DEF Stop
  <2> QED
    BY <1>2, <2>1, SameDue, MoveFits
<1> QED
  BY <1>3, <1>4

\* A command that moves the cycle leaves its run, and names no stop that it did not find.
LEMMA CommandMoveFits ==
    ASSUME Inductive, EndFits, NEW o \in Operators, ResumeRetry(o) \/ ReturnToStop(o) \/ Continue(o)
    PROVE  EndFits'
<1>1. Typed /\ cycle \in Cycles /\ cycle.attempt \in Attempts
  BY Types
<1>2. UNCHANGED <<run, newest>>
  BY DEF ResumeRetry, ReturnToStop, Continue
<1>3. None \notin Redirected /\ "running" \in Statuses /\ "needs-attention" \in Statuses
  BY NoneIsNoStop DEF Stops, Statuses
<1>4. CASE ReturnToStop(o)
  <2>1. cycle' = Moved("needs-attention", cycle.stop) /\ NothingFresh'
    BY <1>1, <1>4, AfterCommandWrites DEF ReturnToStop
  <2>2. cycle.stop \in Stops \cup {None, Gate} /\ (cycle.stop \in Redirected => HasEnded(run))
    BY <1>1 DEF Cycles, EndFits
  <2> QED
    BY <1>2, <1>3, <2>1, <2>2, SameDue, MoveFits
<1>5. CASE Continue(o)
  <2>1. cycle' = Moved("running", None) /\ NothingFresh'
    BY <1>1, <1>5, AfterCommandWrites DEF Continue
  <2> QED
    BY <1>2, <1>3, <2>1, SameDue, MoveFits
<1>6. CASE ResumeRetry(o)
  <2> DEFINE c == Moved("running", None)
  <2>1. c \in Cycles /\ c.step = cycle.step /\ c.stop = None /\ (c.attempt.due => run.state = "outage")
    BY <1>1, <1>3, MovedFields, SameDue
  <2>2. cycle' = [c EXCEPT !.attempt.guided = @ \/ Guides(o)] /\ NothingFresh'
    BY <1>1, <1>6, AfterCommandWrites DEF ResumeRetry
  <2> HIDE DEF c
  <2>3. c.attempt \in Attempts
    BY <2>1 DEF Cycles
  <2>4. /\ cycle'.step = c.step /\ cycle'.stop = c.stop
        /\ cycle'.attempt = [c.attempt EXCEPT !.guided = @ \/ Guides(o)]
    BY <2>1, <2>2 DEF Cycles
  <2>5. cycle'.attempt.due = c.attempt.due
    BY <2>3, <2>4 DEF Attempts
  <2> QED
    BY <1>2, <1>3, <2>1, <2>2, <2>4, <2>5, MoveFits
<1> QED
  BY <1>4, <1>5, <1>6

\* A failed run has no findings that its next one could leave out.
LEMMA RelaunchFits ==
    ASSUME Inductive, EndFits, NEW o \in Operators, Relaunch(o)
    PROVE  EndFits'
<1>1. cycle \in Cycles /\ cycle.step \in Steps /\ Typed
  BY Types DEF Cycles
<1> DEFINE n == NewAttempt(cycle.step)
<1>2. n \in Attempts /\ ~n.due
  BY <1>1, NewAttempts
<1> HIDE DEF n
<1>3. PICK conts \in {0, 1} : CommandWrites(o, Reserved(cycle.step, [n EXCEPT !.conts = conts]))
  BY DEF Relaunch, n
<1> DEFINE a == [n EXCEPT !.conts = conts]
<1>4. ~a.due
  BY <1>2 DEF Attempts
<1> HIDE DEF a
<1>5. cycle' = Reserved(cycle.step, a) /\ NothingFresh' /\ Reserves
  BY <1>1, <1>3, AfterCommandWrites DEF Relaunch, a
<1>6. cycle'.stop = None /\ cycle'.attempt = a
  BY <1>1, <1>5 DEF Reserved, Cycles
<1>7. ~Asks(Newest)
  BY DEF Relaunch, Failures, EndFits, Asks, Newest
<1> QED
  BY <1>4, <1>5, <1>6, <1>7, BeginFits

\* A finished review that is read again is the cycle's own: none waits unlaunched behind findings.
LEMMA ResumeReviewFits ==
    ASSUME Inductive, EndFits, NEW o \in Operators, ResumeReview(o)
    PROVE  EndFits'
<1>1. cycle \in Cycles /\ Typed /\ Newest \in Runs
  BY Types
<1>2. CASE Asks(Newest)
  <2>1. HasEnded(run) /\ Newest.finding \in Findings
    BY <1>1, <1>2 DEF ResumeReview, EndFits, Newest, HasEnded, Asks, Runs
  <2>2. cycle' = Remediation(Newest.finding) /\ NothingFresh'
    BY <1>1, <1>2, AfterCommandWrites DEF ResumeReview
  <2>3. RemediationFollows(Newest.finding)
    BY <1>2 DEF ResumeReview
  <2> QED
    BY <2>1, <2>2, <2>3, RemediationFits
<1>3. CASE ~Asks(Newest)
  <2>1. NewAttempt("review") \in Attempts /\ ~NewAttempt("review").due /\ "review" \in Steps
    BY <1>1, NewAttempts DEF Steps
  <2>2. cycle' = Reserved("review", NewAttempt("review")) /\ NothingFresh' /\ Reserves
    BY <1>1, <1>3, AfterCommandWrites DEF ResumeReview
  <2>3. cycle'.stop = None /\ ~cycle'.attempt.due
    BY <1>1, <2>1, <2>2, ReservedFields
  <2> QED
    BY <1>3, <2>2, <2>3, BeginFits
<1> QED
  BY <1>2, <1>3

\* A round that an operator asks for is a remediation.
LEMMA AskedRoundFits ==
    ASSUME Inductive, EndFits, NEW o \in Operators, NEW f \in Findings \cup {None},
           NEW extra \in {0, 1}, NEW guided \in BOOLEAN,
           CommandWrites(o, Remediated(f, 0, extra, guided)), Reserves
    PROVE  EndFits'
<1>1. cycle \in Cycles /\ Typed /\ 0 \in Nat /\ extra \in Nat
  BY Types
<1>2. cycle' = Remediated(f, 0, extra, guided) /\ NothingFresh'
  BY <1>1, AfterCommandWrites
<1>3. cycle'.stop = None /\ cycle'.step = "remediate" /\ ~cycle'.attempt.due
  BY <1>1, <1>2, RemediatedFields
<1> QED
  BY <1>2, <1>3, BeginFits

LEMMA GrantFits ==
    ASSUME Inductive, EndFits, NEW o \in Operators, NEW guided \in BOOLEAN, Grant(o, guided)
    PROVE  EndFits'
<1>1. run.finding \in Findings \cup {None} /\ cycle.finding \in Findings \cup {None}
  BY Types DEF Runs, Cycles
<1>2. Reserves /\ \E f \in {run.finding, cycle.finding} : CommandWrites(o, Remediated(f, 0, 1, guided))
  BY DEF Grant
<1>3. 1 \in {0, 1}
  OBVIOUS
<1> QED
  BY <1>1, <1>2, <1>3, AskedRoundFits

\* Guidance for the step itself is taken when its run has ended without a review's findings; what a
\* remediation without changes goes back to review of has none either.
LEMMA GuideFits ==
    ASSUME Inductive, EndFits, NEW o \in Operators, Guide(o)
    PROVE  EndFits'
<1>1. /\ cycle \in Cycles /\ cycle.step \in Steps /\ Typed
      /\ run.finding \in Findings \cup {None} /\ Reserves
  BY Types DEF Runs, Cycles, Guide
<1>2. CASE cycle.step = "review" /\ Asks(run)
  <2>1. CommandWrites(o, Remediated(run.finding, 0, 0, TRUE))
    BY <1>2 DEF Guide
  <2>2. 0 \in {0, 1} /\ TRUE \in BOOLEAN
    OBVIOUS
  <2> QED
    BY <1>1, <2>1, <2>2, AskedRoundFits
<1>3. CASE ~(cycle.step = "review" /\ Asks(run))
  <2> DEFINE s == IF cycle.stop = "remediation-no-change" THEN "review" ELSE cycle.step
             a == [FreshAttempt EXCEPT !.guided = TRUE]
             c == Reserved(s, a)
  <2>1. s \in Steps /\ a \in Attempts /\ ~a.due
    BY <1>1, FreshAttempts DEF Steps
  <2>2. CommandWrites(o, [c EXCEPT !.stalled = 0])
    BY <1>3 DEF Guide
  <2> HIDE DEF s, a
  <2>3. c \in Cycles /\ c.stop = None /\ c.attempt = a
    BY <1>1, <2>1, ReservedFields
  <2> HIDE DEF c
  <2>4. cycle' = [c EXCEPT !.stalled = 0] /\ NothingFresh'
    BY <1>1, <2>2, AfterCommandWrites
  <2>5. cycle'.stop = None /\ cycle'.attempt = a
    BY <2>3, <2>4 DEF Cycles
  <2>6. HasEnded(run) /\ run.state # "unlaunched"
    BY DEF Guide, GuideTaken, GuidanceAccepted, HasEnded, Reports, Failures
  <2>7. ~Asks(Newest)
    BY <1>1, <1>3, <2>6 DEF Newest, Asks, Inductive, RunFits, Role, Steps
  <2> QED
    BY <1>1, <2>1, <2>4, <2>5, <2>7, BeginFits
<1> QED
  BY <1>2, <1>3

\* A run that goes on or ends has nothing decided on it yet.
LEMMA RunEndsFits ==
    ASSUME Inductive, EndFits, RunEnds \/ CancelEnds
    PROVE  EndFits'
<1>1. run \in Runs /\ run.state \in {"live", "ending"} /\ UNCHANGED <<cycle, newest, job>>
  BY Types DEF RunEnds, CancelEnds
<1>2. run'.state # "unlaunched" /\ (run'.finding # None => run'.state \in {"findings", "questions"})
  <2>1. CASE RunEnds
    <3>1. PICK state \in Reports \cup {"outage", "background", "failed"} :
            \E f \in Outcome(state) : run' = Run(state, f, run.role)
      BY <2>1 DEF RunEnds
    <3>2. PICK f \in Outcome(state) : run' = Run(state, f, run.role)
      BY <3>1
    <3>3. run'.state = state /\ run'.finding = f /\ state # "unlaunched"
      BY <3>2 DEF Run, Reports
    <3> QED
      BY <3>2, <3>3 DEF Outcome
  <2>2. CASE CancelEnds
    BY <2>2 DEF CancelEnds, Run
  <2> QED
    BY <2>1, <2>2
<1>3. ~HasEnded(run)
  BY <1>1 DEF HasEnded, Reports, Failures
<1> QED
  BY <1>1, <1>2, <1>3 DEF EndFits, Asks

\* A restart ends live runs only, and its stop has no control of its own.
LEMMA RestartFits ==
    ASSUME Inductive, EndFits, NEW clean \in BOOLEAN, Restart(clean)
    PROVE  EndFits'
<1>1. cycle \in Cycles /\ job' = NoJob /\ newest' = newest
  BY Types DEF Restart
<1>2. \/ run' = run
      \/ /\ run.state \in {"live", "ending"} /\ run'.finding = None
         /\ run'.state \in {"interrupted", "lost", "failed"}
  BY DEF Restart, Run
<1>3. /\ cycle'.step = cycle.step
      /\ cycle'.attempt.due => run.state = "outage"
      /\ cycle'.stop \in Redirected => HasEnded(run)
  <2>1. CASE cycle' = cycle
    BY <2>1 DEF EndFits
  <2>2. CASE cycle' = Moved("needs-attention", "restart-resume")
    <3>1. /\ "needs-attention" \in Statuses /\ "restart-resume" \in Stops
          /\ "restart-resume" \notin Redirected
      BY DEF Statuses, Stops, Redirected
    <3> QED
      BY <2>2, <3>1, SameDue
  <2> QED
    BY <2>1, <2>2 DEF Restart, Stopped
<1>4. (\A r \in {run, newest} : r.finding # None => r.state \in {"findings", "questions"})'
  BY <1>1, <1>2 DEF EndFits
<1>5. (cycle.step = "review" /\ run.state = "unlaunched" => ~Asks(newest))'
  BY <1>1, <1>2, <1>3 DEF EndFits, Asks
<1>6. (cycle.stop \in Redirected => HasEnded(run))' /\ (cycle.attempt.due => run.state = "outage")'
  BY <1>2, <1>3 DEF HasEnded, Failures
<1> QED
  BY <1>1, <1>4, <1>5, <1>6 DEF EndFits, NoJob

LEMMA EndFitsHolds == Spec => []EndFits
<1>1. Init => EndFits
  BY NoneIsNoStop DEF Init, EndFits, Unlaunched, Run, FreshAttempt, Stops
<1>2. ASSUME Inductive, EndFits, [Next]_vars PROVE EndFits'
  <2>1. CASE Controller
    BY <1>2, <2>1, ControllerStopsFit, ControllerMovesFit, DecideFits DEF Controller
  <2>2. CASE FinishEffect
    <3>1. CASE NothingDone
      BY <1>2, <3>1, QuietFits DEF NothingDone
    <3> QED
      BY <1>2, <2>2, <3>1, ControllerStopsFit, ControllerMovesFit, AgainFits, LaunchFits, TidyUpFits,
         ReviewFits, RemediateFits, ReserveRefreshFits DEF FinishEffect
  <2>3. CASE Operator
    <3>1. ASSUME NEW o \in Operators, FinishCommand(o) PROVE EndFits'
      BY <1>2, <3>1, CommandMoveFits, RelaunchFits, ResumeReviewFits, GuideFits, GrantFits
         DEF FinishCommand
    <3>2. ASSUME NEW o \in Operators, Refuse(o) PROVE EndFits'
      BY <1>2, <3>2, QuietFits DEF Refuse
    <3>3. ASSUME NEW o \in Operators, NEW asks, Ask(o, asks) PROVE EndFits'
      BY <1>2, <3>3, QuietFits DEF Ask
    <3> QED
      BY <1>2, <2>3, <3>1, <3>2, <3>3, PauseFits DEF Operator
  <2>4. CASE Merge \/ Tick \/ UNCHANGED vars
    BY <1>2, <2>4, QuietFits DEF Merge, Tick, vars
  <2>5. CASE RunEnds \/ CancelEnds \/ \E clean \in BOOLEAN : Restart(clean)
    BY <1>2, <2>5, RunEndsFits, RestartFits
  <2> QED
    BY <1>2, <2>1, <2>2, <2>3, <2>4, <2>5 DEF Next
<1> QED
  BY <1>1, <1>2, InductiveHolds, PTL DEF Spec

\* Whatever stopped a cycle, an operator can go on with it: only a run that was reserved behind one with
\* questions, and not launched, leaves no way but to stop it.
THEOREM AlwaysAWayOn == Spec => []WayOn
<1>1. ASSUME Inductive, EndFits PROVE WayOn
  <2> SUFFICES ASSUME cycle.status \in Resting, ~Stranded
               PROVE  ResumeGoesOn \/ GuideTaken \/ \E guided \in BOOLEAN : GrantTaken(guided)
    BY DEF WayOn
  <2>1. CASE HasEnded(run) /\ RoundLimit
    BY <2>1 DEF RoundLimit, GrantTaken
  <2>2. CASE HasEnded(run) /\ ~RoundLimit
    BY <2>2 DEF GuideTaken, GuidanceAccepted
  <2>3. CASE ~HasEnded(run)
    <3>1. run \in Runs
      BY <1>1, Types
    <3>2. run.state \in {"unlaunched", "live", "ending"} /\ run.finding = None
      BY <1>1, <2>3, <3>1 DEF Runs, HasEnded, EndFits, Reports, Failures
    <3>3. ~Redirects
      BY <1>1, <2>3 DEF Redirects, EndFits
    <3>4. ~NeedsGuidance
      BY <3>2 DEF NeedsGuidance, Newest, Stranded
    <3>5. ~RoundLimit
      BY <3>2 DEF RoundLimit, Asks
    <3>6. ~(cycle.step = "review" /\ Asks(Newest))
      BY <1>1, <3>2 DEF Asks, Newest, EndFits
    <3> QED
      BY <3>3, <3>4, <3>5, <3>6 DEF ResumeGoesOn, ResumeTaken
  <2> QED
    BY <2>1, <2>2, <2>3
<1> QED
  BY <1>1, InductiveHolds, EndFitsHolds, PTL
=============================================================================
