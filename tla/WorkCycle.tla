------------------------------ MODULE WorkCycle ------------------------------
(***************************************************************************)
(* One work cycle after its design: the controller reads what became of    *)
(* the step's run and decides what follows; the automatic budgets bound    *)
(* it; operators pause, resume, guide, extend and stop it meanwhile.       *)
(*                                                                         *)
(* The cycle is a roadmap's slice without specialist reviews and without a *)
(* delegated reviewer that reassesses its stops.  A run is                 *)
(* what its step's controller can tell of it (AgentRuns has its life), a   *)
(* report is its class, and of the time it matters if the deadline passed. *)
(* A controller's effect and an operator's command await Git or a gate     *)
(* between what they read and what they write: `job' and `command' hold    *)
(* them meanwhile, `fresh' as long as the cycle's version is the one read. *)
(***************************************************************************)
EXTENDS Naturals

CONSTANTS
    Operators,          \* whoever sends commands
    Findings,           \* fingerprints of a review's open findings
    None,               \* no finding, and no stop
    MaxRounds,          \* policy.maxRemediationRounds
    MaxRefreshes,       \* settings.maxIntegrationRefreshes
    RepairLimit,        \* OUTPUT_REPAIR_LIMIT
    RetryLimit,         \* service retries of a step
    ContinuationLimit,  \* completion continuations of a step
    Outages,            \* bound: turns that a provider's outage ends
    Restarts,           \* bound: restarts of the daemon, clean or not
    Commands            \* bound: commands that await

ASSUME LimitsAreNumbers ==
    /\ {MaxRounds, MaxRefreshes, RepairLimit, RetryLimit, ContinuationLimit} \subseteq Nat
    /\ {Outages, Restarts, Commands} \subseteq Nat
    /\ ContinuationLimit # 0
ASSUME NoneIsApart == None \notin Findings

VARIABLES
    cycle,      \* the stored cycle
    run,        \* what the cycle's current run is or ended as
    newest,     \* the worktree's newest run while the current one has not launched
    overdue,    \* the step's deadline has passed
    merged,     \* worktree.mergedAt is set
    job,        \* the controller's effect under way
    command,    \* each operator's command under way
    answered,   \* history: the findings last sent to remediation, and how many rounds in a row
    spent       \* how much of each bound is used

vars == <<cycle, run, newest, overdue, merged, job, command, answered, spent>>

-----------------------------------------------------------------------------
(* What is stored.                                                         *)

Steps == {"implement", "review", "remediate"}
Statuses == {"running", "awaiting-merge", "needs-attention", "paused", "stopped", "completed"}
Resting == {"needs-attention", "paused"}
Ended == {"stopped", "completed"}
Questions == {"work-item-questions", "review-open-questions-at-limit"}
\* Stops that a plain resume would only reproduce, with a control of their own.
Redirected == {"review-open-questions-at-limit", "workflow-report-invalid",
               "remediation-exhausted", "remediation-no-change"}
Stops == Questions \cup Redirected \cup
         {"review-needs-attention", "remediation-stalled", "service-retries-exhausted",
          "completion-continuations-exhausted", "step-incomplete", "step-time-limit",
          "restart-resume", "restart-session-lost", "launch-refused", "worktree-state",
          "implementation-commit-failed", "integration-refresh-limit",
          "integration-update-failed"}
Gate == "merge-approval"
ASSUME NoneIsNoStop == None \notin Stops

\* How a run ended: a whole report, one to repair or to redo, questions; or without one.
Reports == {"done", "findings", "questions", "malformed", "incomplete-report"}
Failures == {"outage", "background", "failed", "interrupted", "lost"}
Run(state, finding, role) == [state |-> state, finding |-> finding, role |-> role]
Unlaunched == Run("unlaunched", None, "implement")
Role(s) == IF s = "review" THEN "review" ELSE "implement"
Runs == [state: {"unlaunched", "live", "ending"} \cup Reports \cup Failures,
         finding: Findings \cup {None}, role: {"implement", "review"}]

Attempts == [repairs: 0 .. RepairLimit, retries: 0 .. RetryLimit, due: BOOLEAN,
             conts: 0 .. ContinuationLimit, guided: BOOLEAN]
FreshAttempt == [repairs |-> 0, retries |-> 0, due |-> FALSE, conts |-> 0, guided |-> FALSE]
Cycles == [status: Statuses, step: Steps, stop: Stops \cup {None, Gate}, attempt: Attempts,
           rounds: Nat, granted: Nat, finding: Findings \cup {None}, stalled: Nat,
           refreshes: 0 .. MaxRefreshes]

\* What a controller's effect or a command is about, while it awaits.
Effects == {"none", "launch", "finalize", "approve", "remediate", "merge-boundary", "refresh",
            "retry", "continue", "repair-output", "resume-after-restart"}
Commanded == {"none", "resume", "guide", "grant", "grant-with-guidance"}

Init ==
    /\ cycle = [status |-> "running", step |-> "implement", stop |-> None,
                attempt |-> FreshAttempt, rounds |-> 0, granted |-> 0,
                finding |-> None, stalled |-> 0, refreshes |-> 0]
    /\ run = Unlaunched
    /\ newest = Run("done", None, "implement")
    /\ overdue = FALSE
    /\ merged = FALSE
    /\ job = [effect |-> "none", fresh |-> TRUE, before |-> "running"]
    /\ command = [o \in Operators |-> [asks |-> "none", fresh |-> TRUE]]
    /\ answered = [finding |-> None, rounds |-> 0]
    /\ spent = [outages |-> 0, restarts |-> 0, commands |-> 0]

-----------------------------------------------------------------------------
(* Writes.  Each moves the cycle's version on, so that what was read before *)
(* it is fresh no longer.                                                  *)

NoJob == [effect |-> "none", fresh |-> TRUE, before |-> "running"]
NoCommand == [asks |-> "none", fresh |-> TRUE]
StaleJob == [job EXCEPT !.fresh = job.effect = "none"]
StaleCommands == [o \in Operators |->
    [command[o] EXCEPT !.fresh = command[o].asks = "none"]]

\* CycleWriter.change by the controller, whose job goes on as `next', or by a command.
ControllerWrites(c, next) == cycle' = c /\ job' = next /\ command' = StaleCommands
CommandWrites(o, c) ==
    /\ cycle' = c
    /\ job' = StaleJob
    /\ command' = [StaleCommands EXCEPT ![o] = NoCommand]

\* A write that stops, pauses or ends the cycle ends its repairs.
Moved(status, stop) ==
    [cycle EXCEPT !.status = status, !.stop = stop, !.attempt.repairs = 0]
Stopped(code) == Moved("needs-attention", code)

\* CycleWriter.next: a run of step s is reserved with this attempt.
Newest == IF run.state = "unlaunched" THEN newest ELSE run
Reserved(s, attempt) ==
    [cycle EXCEPT !.status = "running", !.step = s, !.stop = None, !.attempt = attempt]
\* What a reservation keeps of the guidance: all while its step has not launched.
Kept(s) == cycle.attempt.guided /\ s = cycle.step /\ run.state = "unlaunched"
NewAttempt(s) == [FreshAttempt EXCEPT !.guided = Kept(s)]
Reserves == run' = Unlaunched /\ newest' = Newest

-----------------------------------------------------------------------------
(* Remediation, automatic or granted.                                      *)

Allowance == MaxRounds + cycle.granted
Asks(r) == r.role = "review" /\ r.finding # None
AtLimit == cycle.step = "review" /\ Asks(run) /\ cycle.rounds >= Allowance

\* decideRemediation: how often in a row a round left these findings.
Stalled(f) == IF f = cycle.finding THEN cycle.stalled + 1 ELSE 0
Remediated(f, stalled, extra, guided) ==
    [Reserved("remediate", [FreshAttempt EXCEPT !.guided = guided]) EXCEPT
        !.rounds = cycle.rounds + 1, !.granted = cycle.granted + extra,
        !.finding = f, !.stalled = stalled]
\* Mutant: one more round is tried before a stall is called one.
RemediationPatient(f) ==
    IF cycle.rounds >= Allowance THEN Stopped("remediation-exhausted")
    ELSE IF Stalled(f) >= 3 THEN Stopped("remediation-stalled")
    ELSE Remediated(f, Stalled(f), 0, Kept("remediate"))
\* Without a grant: the round, the limit's stop, or the stall's.
Remediation(f) ==
    IF cycle.rounds >= Allowance THEN Stopped("remediation-exhausted")
    ELSE IF Stalled(f) >= 2 THEN Stopped("remediation-stalled")
    ELSE Remediated(f, Stalled(f), 0, Kept("remediate"))
Housekeeping ==
    IF cycle.rounds >= Allowance THEN Stopped("remediation-exhausted")
    ELSE [Reserved("remediate", NewAttempt("remediate")) EXCEPT !.rounds = cycle.rounds + 1]

Answers(f, again) ==
    answered' = [finding |-> f,
                 rounds |-> IF again /\ f = answered.finding THEN answered.rounds + 1 ELSE 1]

\* A round reserves a run; a stop leaves the run as it is.
Follows(c) == IF c.status = "running" THEN Reserves /\ overdue' = FALSE
                                      ELSE UNCHANGED <<run, newest, overdue>>
RemediationFollows(f) ==
    /\ Follows(Remediation(f))
    /\ IF Remediation(f).status = "running" THEN Answers(f, TRUE) ELSE UNCHANGED answered

-----------------------------------------------------------------------------
(* The controller's rounds: what decide comes to for a running cycle.       *)

HasEnded(r) == r.state \in Reports \cup Failures
Driven == job.effect = "none" /\ ~merged /\ cycle.status = "running"

\* finishCycleTurn: a live run is cancelled.
Cancelled == IF run.state = "live" THEN [run EXCEPT !.state = "ending"] ELSE run

StepTimeLimit ==
    /\ Driven /\ overdue
    /\ ControllerWrites(Stopped("step-time-limit"), NoJob)
    /\ run' = Cancelled
    /\ UNCHANGED <<newest, overdue, merged, answered, spent>>

\* decideStepOutcome: an effect that awaits, for each way the run can have ended.
Decision ==
    CASE cycle.attempt.due -> "retry"
      [] run.state = "unlaunched" -> "launch"
      [] run.state = "interrupted" -> "resume-after-restart"
      [] run.state = "background" /\ cycle.attempt.conts < ContinuationLimit -> "continue"
      [] run.state = "malformed" /\ cycle.attempt.repairs < RepairLimit -> "repair-output"
      [] run.state = "done" /\ run.role = "implement" -> "finalize"
      [] run.state = "done" /\ run.role = "review" -> "approve"
      [] run.state = "findings" -> "remediate"
      [] OTHER -> "none"

\* The stop it is otherwise.
StopCode ==
    CASE run.state = "outage" -> "service-retries-exhausted"
      [] run.state = "background" -> "completion-continuations-exhausted"
      [] run.state = "malformed" -> "workflow-report-invalid"
      [] run.state = "incomplete-report" -> "review-needs-attention"
      [] run.state = "lost" -> "restart-session-lost"
      [] run.state = "questions" ->
            IF AtLimit THEN "review-open-questions-at-limit" ELSE "work-item-questions"
      [] OTHER -> "step-incomplete"

Decide ==
    /\ Driven /\ ~overdue /\ Decision # "none"
    /\ job' = [effect |-> Decision, fresh |-> TRUE, before |-> cycle.status]
    /\ UNCHANGED <<cycle, run, newest, overdue, merged, command, answered, spent>>

\* An outage is retried after a while, which the step waits for without a run.
ScheduleRetry ==
    /\ Driven /\ ~overdue /\ run.state = "outage"
    /\ ~cycle.attempt.due /\ cycle.attempt.retries < RetryLimit
    /\ ControllerWrites([cycle EXCEPT !.attempt.due = TRUE], NoJob)
    /\ UNCHANGED <<run, newest, overdue, merged, answered, spent>>

StopStep ==
    /\ Driven /\ ~overdue /\ HasEnded(run) /\ Decision = "none"
    /\ run.state = "outage" => cycle.attempt.retries >= RetryLimit
    /\ ControllerWrites(Stopped(StopCode), NoJob)
    /\ UNCHANGED <<run, newest, overdue, merged, answered, spent>>

\* At the merge boundary integration may have moved on.
MergeBoundary ==
    /\ job.effect = "none" /\ ~merged /\ cycle.status = "awaiting-merge"
    /\ job' = [effect |-> "merge-boundary", fresh |-> TRUE, before |-> cycle.status]
    /\ UNCHANGED <<cycle, run, newest, overdue, merged, command, answered, spent>>

Complete ==
    /\ job.effect = "none" /\ merged /\ cycle.status \notin Ended
    /\ ControllerWrites(Moved("completed", None), NoJob)
    /\ UNCHANGED <<run, newest, overdue, merged, answered, spent>>

-----------------------------------------------------------------------------
(* The effects, after what they awaited.                                   *)

Effect(e) == job.effect = e /\ job.fresh

\* Contention, a drain, or a version that is no longer the one read: a later round decides again.
NothingDone ==
    /\ job.effect # "none"
    /\ job' = NoJob
    /\ UNCHANGED <<cycle, run, newest, overdue, merged, command, answered, spent>>

\* Git's view of the worktree refuses a reservation of a review, a remediation or an approval.
RefuseWorktree ==
    /\ job.fresh
    /\ \/ job.effect \in {"finalize", "approve", "remediate"}
       \/ /\ job.effect \in {"retry", "continue", "repair-output", "resume-after-restart"}
          /\ cycle.step = "review"
    /\ ControllerWrites(Stopped("worktree-state"), NoJob)
    /\ UNCHANGED <<run, newest, overdue, merged, answered, spent>>

\* The same step again: an attempt that goes on, in the window it has.
Again(attempt) ==
    /\ ControllerWrites(Reserved(cycle.step, attempt), NoJob)
    /\ Reserves
    /\ UNCHANGED <<merged, answered, spent>>

RetryProvider ==
    /\ Effect("retry")
    /\ Again([cycle.attempt EXCEPT !.due = FALSE, !.retries = @ + 1, !.repairs = 0])
    /\ UNCHANGED overdue

ContinueResult ==
    /\ Effect("continue")
    /\ Again([cycle.attempt EXCEPT !.conts = @ + 1, !.repairs = 0])
    /\ UNCHANGED overdue

ResumeAfterRestart ==
    /\ Effect("resume-after-restart")
    /\ Again(cycle.attempt)
    /\ UNCHANGED overdue

\* Mutant: a repair is not counted.
RepairOutputUncounted ==
    /\ Effect("repair-output")
    /\ Again([cycle.attempt EXCEPT !.retries = 0])
    /\ overdue' = FALSE

\* A repair's turn has at least its share of the window, and no service retries yet.
RepairOutput ==
    /\ Effect("repair-output")
    /\ Again([cycle.attempt EXCEPT !.repairs = @ + 1, !.retries = 0])
    /\ overdue' = FALSE

Launch ==
    /\ Effect("launch")
    /\ \/ /\ run' = Run("live", None, Role(cycle.step)) /\ newest' = Unlaunched
          /\ job' = NoJob
          /\ UNCHANGED <<cycle, command>>
       \/ /\ ControllerWrites(Stopped("launch-refused"), NoJob)
          /\ UNCHANGED <<run, newest>>
    /\ UNCHANGED <<overdue, merged, answered, spent>>

\* finalizeImplementation: a checkpoint, then a review; or what is left over is tidied up.
CommitFails ==
    /\ Effect("finalize")
    /\ ControllerWrites(Stopped("implementation-commit-failed"), NoJob)
    /\ UNCHANGED <<run, newest, overdue, merged, answered, spent>>

TidyUp ==
    /\ Effect("finalize") \/ Effect("approve")
    /\ ControllerWrites(Housekeeping, NoJob)
    /\ Follows(Housekeeping)
    /\ UNCHANGED <<merged, answered, spent>>

Unchanged ==
    /\ Effect("finalize") /\ cycle.step = "remediate"
    /\ ControllerWrites(Stopped("remediation-no-change"), NoJob)
    /\ UNCHANGED <<run, newest, overdue, merged, answered, spent>>

Review ==
    /\ Effect("finalize")
    /\ ControllerWrites(Reserved("review", NewAttempt("review")), NoJob)
    /\ Reserves /\ overdue' = FALSE
    /\ UNCHANGED <<merged, answered, spent>>

\* reviewRemediation, for a review's findings.
Remediate ==
    /\ Effect("remediate")
    /\ ControllerWrites(Remediation(run.finding), NoJob)
    /\ RemediationFollows(run.finding)
    /\ UNCHANGED <<merged, spent>>

\* Mutant: the approval is written whatever became of the cycle meanwhile.
ApproveAnyway ==
    /\ job.effect = "approve"
    /\ ControllerWrites(Moved("awaiting-merge", Gate), NoJob)
    /\ UNCHANGED <<run, newest, overdue, merged, answered, spent>>

Approve ==
    /\ Effect("approve")
    /\ ControllerWrites(Moved("awaiting-merge", Gate), NoJob)
    /\ UNCHANGED <<run, newest, overdue, merged, answered, spent>>

\* performIntegrationRefresh: a bounded attempt is reserved before Git updates the worktree.
Refreshable ==
    \/ job.effect \in {"finalize", "approve", "merge-boundary"}
    \/ job.effect = "launch" /\ cycle.step = "review"
ReserveRefresh ==
    /\ Refreshable /\ job.fresh
    /\ IF cycle.refreshes >= MaxRefreshes
       THEN ControllerWrites(Stopped("integration-refresh-limit"), NoJob)
       ELSE ControllerWrites([cycle EXCEPT !.status = "running", !.stop = None,
                                           !.refreshes = @ + 1],
                             [job EXCEPT !.effect = "refresh"])
    /\ UNCHANGED <<run, newest, overdue, merged, answered, spent>>

RefreshReviews ==
    /\ Effect("refresh")
    /\ ControllerWrites(Reserved("review", NewAttempt("review")), NoJob)
    /\ Reserves /\ overdue' = FALSE
    /\ UNCHANGED <<merged, answered, spent>>

\* Mutant: what is restored is the status alone.
RestoreRefreshBare ==
    /\ Effect("refresh")
    /\ ControllerWrites([cycle EXCEPT !.status = job.before, !.refreshes = @ - 1], NoJob)
    /\ UNCHANGED <<run, newest, overdue, merged, answered, spent>>

\* Mutant: it is restored in a cycle that has been paused or stopped since.
RestoreRefreshLate ==
    /\ job.effect = "refresh"
    /\ ControllerWrites([cycle EXCEPT !.status = job.before, !.refreshes = @ - 1,
                                      !.stop = IF job.before = "awaiting-merge" THEN Gate
                                                                                ELSE None],
                        NoJob)
    /\ UNCHANGED <<run, newest, overdue, merged, answered, spent>>

\* Contention undoes the reservation: status and stop are the ones it replaced.
RestoreRefresh ==
    /\ Effect("refresh")
    /\ ControllerWrites([cycle EXCEPT !.status = job.before, !.refreshes = @ - 1,
                                      !.stop = IF job.before = "awaiting-merge" THEN Gate
                                                                                ELSE None],
                        NoJob)
    /\ UNCHANGED <<run, newest, overdue, merged, answered, spent>>

RefreshFails ==
    /\ Effect("refresh")
    /\ ControllerWrites(Stopped("integration-update-failed"), NoJob)
    /\ UNCHANGED <<run, newest, overdue, merged, answered, spent>>

-----------------------------------------------------------------------------
(* Operators.  A pause and a stop await nothing; other commands read the    *)
(* stopped cycle, await Git and gates, and write if it is still the same.   *)

Pause ==
    /\ cycle.status \notin Ended
    /\ cycle' = Moved("paused", IF cycle.status \in Resting THEN cycle.stop ELSE None)
    /\ job' = StaleJob /\ command' = StaleCommands
    /\ UNCHANGED <<run, newest, overdue, merged, answered, spent>>

Stop ==
    /\ cycle.status \notin Ended
    /\ cycle' = Moved("stopped", None)
    /\ job' = StaleJob /\ command' = StaleCommands
    /\ run' = Cancelled
    /\ UNCHANGED <<newest, overdue, merged, answered, spent>>

\* decideCommand's and decideResume's redirects.
RetryPending == cycle.attempt.due /\ ~overdue
Redirects == cycle.stop \in Redirected /\ run.state # "unlaunched"
NeedsGuidance == Newest.state = "questions"
RoundLimit == cycle.step = "review" /\ Asks(run) /\ cycle.rounds >= Allowance
\* Mutant: guidance is for stops, not for a plain pause.
GuidanceAcceptedAtStops == cycle.status = "needs-attention" /\ HasEnded(run)
GuidanceAccepted == cycle.status \in Resting /\ HasEnded(run)

ResumeTaken ==
    \/ RetryPending
    \/ Redirects /\ cycle.status = "paused"
    \/ ~Redirects /\ ~NeedsGuidance /\ ~RoundLimit
GuideTaken ==
    \/ RetryPending
    \/ GuidanceAccepted /\ ~RoundLimit
\* remediationBlocker, of a grant with or without instructions.
GrantTaken(guided) ==
    /\ \/ cycle.step = "review" /\ Asks(run)
       \/ run.state = "done" /\ cycle.stop = "remediation-exhausted"
    /\ ~guided => cycle.rounds >= Allowance /\ run.state # "questions"
Taken(asks) ==
    CASE asks = "resume" -> ResumeTaken
      [] asks = "guide" -> GuideTaken
      [] asks = "grant" -> GrantTaken(FALSE)
      [] asks = "grant-with-guidance" -> GrantTaken(TRUE)

Ask(o, asks) ==
    /\ command[o] = NoCommand /\ spent.commands < Commands
    /\ cycle.status \in Resting /\ ~merged /\ Taken(asks)
    /\ command' = [command EXCEPT ![o] = [asks |-> asks, fresh |-> TRUE]]
    /\ spent' = [spent EXCEPT !.commands = @ + 1]
    /\ UNCHANGED <<cycle, run, newest, overdue, merged, job, answered>>

Asked(o, asks) == command[o] = [asks |-> asks, fresh |-> TRUE]
Guides(o) == Asked(o, "guide")
Resumes(o) == Asked(o, "resume")

\* The cycle changed, or a gate refuses.
Refuse(o) ==
    /\ command[o] # NoCommand
    /\ command' = [command EXCEPT ![o] = NoCommand]
    /\ UNCHANGED <<cycle, run, newest, overdue, merged, job, answered, spent>>

\* A resume with a service retry pending is the retry, its deadline kept.
ResumeRetry(o) ==
    /\ Resumes(o) \/ Guides(o)
    /\ RetryPending
    /\ CommandWrites(o, [Moved("running", None) EXCEPT !.attempt.guided = @ \/ Guides(o)])
    /\ UNCHANGED <<run, newest, overdue, merged, answered, spent>>

ReturnToStop(o) ==
    /\ Resumes(o) /\ ~RetryPending /\ Redirects
    /\ CommandWrites(o, Moved("needs-attention", cycle.stop))
    /\ UNCHANGED <<run, newest, overdue, merged, answered, spent>>

ResumesStep(o) == Resumes(o) /\ ~RetryPending /\ ~Redirects /\ ~NeedsGuidance /\ ~RoundLimit

\* decideRelaunch: a run that can go on, or that is read again.
Continue(o) ==
    /\ ResumesStep(o)
    /\ Newest.state \notin Failures
    /\ cycle.step = "review" => Newest.state \in {"live", "ending"}
    /\ CommandWrites(o, Moved("running", None))
    /\ overdue' = FALSE
    /\ UNCHANGED <<run, newest, merged, answered, spent>>

\* ... a run that failed: the step again.  A review whose results are still to be collected, or
\* whose session a restart ended, is continued.
Relaunch(o) ==
    /\ ResumesStep(o)
    /\ Newest.state \in Failures
    /\ LET collecting == /\ cycle.step = "review" /\ Newest.role = "review"
                          /\ \/ run.state \in {"background", "interrupted", "lost"}
                             \/ /\ run.state = "unlaunched" /\ newest.state = "background"
                                /\ cycle.attempt.conts > 0
       IN CommandWrites(o, Reserved(cycle.step,
              [NewAttempt(cycle.step) EXCEPT !.conts = IF collecting THEN 1 ELSE 0]))
    /\ Reserves /\ overdue' = FALSE
    /\ UNCHANGED <<merged, answered, spent>>

\* ... a finished review: its remediation, or another review.
ResumeReview(o) ==
    /\ ResumesStep(o)
    /\ cycle.step = "review" /\ Newest.state \in Reports
    /\ IF Asks(Newest)
       THEN /\ CommandWrites(o, Remediation(Newest.finding))
            /\ RemediationFollows(Newest.finding)
       ELSE /\ CommandWrites(o, Reserved("review", NewAttempt("review")))
            /\ Reserves /\ overdue' = FALSE
            /\ UNCHANGED answered
    /\ UNCHANGED <<merged, spent>>

\* Guidance for the step, or for the remediation its review asks for.
Guide(o) ==
    /\ Guides(o) /\ ~RetryPending /\ GuideTaken
    /\ IF cycle.step = "review" /\ Asks(run)
       THEN /\ CommandWrites(o, Remediated(run.finding, 0, 0, TRUE))
            /\ Answers(run.finding, FALSE)
       ELSE /\ CommandWrites(o,
                 [Reserved(IF cycle.stop = "remediation-no-change" THEN "review"
                                                                   ELSE cycle.step,
                           [FreshAttempt EXCEPT !.guided = TRUE]) EXCEPT !.stalled = 0])
            /\ answered' = [finding |-> None, rounds |-> 0]
    /\ Reserves /\ overdue' = FALSE
    /\ UNCHANGED <<merged, spent>>

\* More rounds: a review's remediation, or the housekeeping its limit held back.
Grant(o, guided) ==
    /\ Asked(o, IF guided THEN "grant-with-guidance" ELSE "grant")
    /\ IF cycle.step = "review" /\ Asks(run)
       THEN /\ CommandWrites(o, Remediated(run.finding, 0, 1, guided))
            /\ Answers(run.finding, FALSE)
       ELSE /\ CommandWrites(o, Remediated(cycle.finding, 0, 1, guided))
            /\ answered' = [finding |-> None, rounds |-> 0]
    /\ Reserves /\ overdue' = FALSE
    /\ UNCHANGED <<merged, spent>>

\* The executor merges what waits for its merge (MergeOperation).
Merge ==
    /\ cycle.status = "awaiting-merge" /\ job.effect = "none" /\ ~merged
    /\ merged' = TRUE
    /\ UNCHANGED <<cycle, run, newest, overdue, job, command, answered, spent>>

-----------------------------------------------------------------------------
(* Runs, time, and restarts.                                               *)

Outcome(state) ==
    CASE state = "findings" -> Findings
      [] state = "questions" /\ run.role = "review" -> Findings \cup {None}
      [] OTHER -> {None}

RunEnds ==
    /\ run.state = "live"
    /\ \E state \in Reports \cup {"outage", "background", "failed"} :
         /\ state \in {"findings", "incomplete-report"} => run.role = "review"
         /\ state = "outage" => spent.outages < Outages
         /\ \E f \in Outcome(state) : run' = Run(state, f, run.role)
         /\ spent' = [spent EXCEPT !.outages = IF state = "outage" THEN @ + 1 ELSE @]
    /\ UNCHANGED <<cycle, newest, overdue, merged, job, command, answered>>

CancelEnds ==
    /\ run.state = "ending"
    /\ run' = Run("failed", None, run.role)
    /\ UNCHANGED <<cycle, newest, overdue, merged, job, command, answered, spent>>

\* Time counts while the step runs, or waits to retry.
Tick ==
    /\ cycle.status = "running" \/ cycle.attempt.due
    /\ cycle.status \notin Ended /\ ~overdue
    /\ overdue' = TRUE
    /\ UNCHANGED <<cycle, run, newest, merged, job, command, answered, spent>>

\* decideRestart: after a crash a running cycle waits for its operator.
Restart(clean) ==
    /\ spent.restarts < Restarts /\ cycle.status \notin Ended
    /\ spent' = [spent EXCEPT !.restarts = @ + 1]
    /\ IF run.state \in {"live", "ending"}
       THEN \E state \in IF clean THEN {"interrupted", "lost"} ELSE {"failed"} :
              run' = Run(state, None, run.role)
       ELSE UNCHANGED run
    /\ cycle' = IF ~clean /\ cycle.status = "running" THEN Stopped("restart-resume") ELSE cycle
    /\ job' = NoJob
    /\ command' = [o \in Operators |-> NoCommand]
    /\ UNCHANGED <<newest, overdue, merged, answered>>

-----------------------------------------------------------------------------
Controller ==
    \/ StepTimeLimit \/ Decide \/ ScheduleRetry \/ StopStep \/ Complete \/ MergeBoundary
FinishEffect ==
    \/ RefuseWorktree \/ RetryProvider \/ ContinueResult \/ ResumeAfterRestart
    \/ RepairOutput \/ Launch \/ CommitFails \/ TidyUp \/ Unchanged \/ Review \/ Remediate
    \/ Approve \/ ReserveRefresh \/ RefreshReviews \/ RestoreRefresh \/ RefreshFails
    \/ NothingDone
FinishCommand(o) ==
    \/ ResumeRetry(o) \/ ReturnToStop(o) \/ Continue(o) \/ Relaunch(o) \/ ResumeReview(o)
    \/ Guide(o) \/ \E guided \in BOOLEAN : Grant(o, guided)
Operator ==
    \/ Pause \/ Stop
    \/ \E o \in Operators :
         \/ \E asks \in {"resume", "guide", "grant", "grant-with-guidance"} : Ask(o, asks)
         \/ FinishCommand(o) \/ Refuse(o)
Next ==
    \/ Controller \/ FinishEffect \/ Operator \/ Merge
    \/ RunEnds \/ CancelEnds \/ Tick \/ \E clean \in BOOLEAN : Restart(clean)

Spec == Init /\ [][Next]_vars

\* The controller goes round, its effects end, and time passes.
FairSpec == Spec /\ WF_vars(Controller) /\ WF_vars(FinishEffect) /\ WF_vars(Tick)

-----------------------------------------------------------------------------
(* Properties.                                                             *)

\* Every variable keeps its type, and a stop fits its status: a running, stopped or completed
\* cycle names none, one that needs attention names its reason, one that waits for its merge
\* names the gate (CYCLE_TRANSITIONS).
TypeOK ==
    /\ cycle \in Cycles
    /\ cycle.status \in Ended \cup {"running"} => cycle.stop = None
    /\ cycle.status = "needs-attention" => cycle.stop \in Stops
    /\ cycle.status = "paused" => cycle.stop \in Stops \cup {None}
    /\ cycle.status = "awaiting-merge" => cycle.stop = Gate
    /\ run \in Runs /\ newest \in Runs
    /\ overdue \in BOOLEAN /\ merged \in BOOLEAN
    /\ job \in [effect: Effects, fresh: BOOLEAN, before: {"running", "awaiting-merge"}]
    /\ command \in [Operators -> [asks: Commanded, fresh: BOOLEAN]]
    /\ answered \in [finding: Findings \cup {None}, rounds: Nat]
    /\ spent \in [outages: 0 .. Outages, restarts: 0 .. Restarts, commands: 0 .. Commands]

\* What waits for its merge was reviewed: its review ended without findings and is the current
\* run, whatever was refreshed, paused or resumed meanwhile.
Reviewed == cycle.step = "review" /\ run = Run("done", None, "review")
WaitsReviewed == cycle.status = "awaiting-merge" => Reviewed

\* Remediation is bounded, whoever starts its rounds: they stay within the policy's and those granted,
\* and the same findings are not sent round after round, but an operator is asked after the second
\* automatic round that left them as they were.
NoSpinning == cycle.rounds <= Allowance /\ answered.rounds <= 2

\* A paused or stopped cycle goes on only by a command that read it as it is (CycleWriter's version
\* check): no effect or command that was under way meanwhile moves it on, nor does a restart.
OnlyCommandsResume ==
    [][cycle.status \in Resting \cup Ended /\ cycle'.status \in {"running", "awaiting-merge"} =>
        /\ cycle.status \notin Ended
        /\ \E o \in Operators : command[o].asks # "none" /\ command[o].fresh
                                /\ command'[o] = NoCommand]_vars

\* However its runs end, a running cycle comes to rest, or is done.
ComesToRest == cycle.status = "running" ~> cycle.status # "running"

\* The gap that is known: the next run was reserved behind one that left questions, and never launched.
Stranded == run.state = "unlaunched" /\ newest.state = "questions"
\* A plain resume that goes on: it does not only return to its stop, nor to a review's findings, whose
\* limits may stop it as before.
ResumeGoesOn == ResumeTaken /\ ~Redirects /\ ~(cycle.step = "review" /\ Asks(Newest))

\* Whatever stopped a cycle, and however pauses, restarts and late ends of runs mixed with it, there is a
\* way on other than to stop it: where a plain resume is refused, or would only stop again, guidance
\* or a grant is taken.
WayOn ==
    cycle.status \in Resting /\ ~Stranded =>
        ResumeGoesOn \/ GuideTaken \/ \E guided \in BOOLEAN : GrantTaken(guided)
-----------------------------------------------------------------------------
(* Why the invariants hold: what is still true of what was read before an await. *)

\* A run's report fits its class, and its role the step it was reserved for.
RunFits ==
    /\ run.state = "findings" => run.finding \in Findings
    /\ run.state = "done" => run.finding = None
    /\ run.state # "unlaunched" => run.role = Role(cycle.step)

\* An effect that is fresh was begun for the run and the status that the cycle still has.
JobFits == job.effect # "none" /\ job.fresh =>
    /\ cycle.status = IF job.effect = "merge-boundary" THEN "awaiting-merge" ELSE "running"
    /\ job.before = "awaiting-merge" => Reviewed
    /\ job.effect = "approve" => Reviewed
    /\ job.effect = "remediate" => run.state = "findings"
    /\ job.effect = "refresh" => cycle.refreshes # 0

\* So was a command: for a cycle that rests.
CommandsFit == \A o \in Operators :
    command[o].asks # "none" /\ command[o].fresh => cycle.status \in Resting

\* Each budget has room for the attempt that is about to use it.
AttemptsLeft ==
    /\ cycle.attempt.due => cycle.attempt.retries < RetryLimit
    /\ job.fresh =>
         /\ job.effect = "retry" => cycle.attempt.due
         /\ job.effect = "continue" => cycle.attempt.conts < ContinuationLimit
         /\ job.effect = "repair-output" => cycle.attempt.repairs < RepairLimit

\* The stall's counter is behind the rounds in a row by one at most.
AnswersCounted ==
    /\ cycle.stalled <= 1
    /\ IF answered.finding = None THEN answered.rounds = 0
       ELSE answered.finding = cycle.finding /\ answered.rounds <= cycle.stalled + 1

\* How the last run ended fits what was decided on it: findings come with a review's report or its
\* questions, a review is reserved behind none, a stop with a control of its own is one of an ended run,
\* a retry is an outage's, and a fresh effect is about the run as it still is.
EndFits ==
    /\ \A r \in {run, newest} : r.finding # None => r.state \in {"findings", "questions"}
    /\ cycle.step = "review" /\ run.state = "unlaunched" => ~Asks(newest)
    /\ cycle.stop \in Redirected => HasEnded(run)
    /\ cycle.attempt.due => run.state = "outage"
    /\ job.fresh =>
         /\ job.effect = "launch" => run.state = "unlaunched"
         /\ job.effect = "finalize" => run.state = "done"
         /\ job.effect = "continue" => run.state = "background"
         /\ job.effect = "repair-output" => run.state = "malformed"
         /\ job.effect = "resume-after-restart" => run.state = "interrupted"
         /\ job.effect = "refresh" =>
              \/ run.state = "done"
              \/ run.state = "unlaunched" /\ cycle.step = "review"

Inductive ==
    /\ TypeOK /\ RunFits /\ JobFits /\ CommandsFit /\ AttemptsLeft
    /\ AnswersCounted /\ WaitsReviewed /\ NoSpinning
=============================================================================
