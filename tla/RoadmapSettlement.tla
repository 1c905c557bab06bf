------------------------- MODULE RoadmapSettlement -------------------------
(***************************************************************************)
(* Stopping and winding down a roadmap (roadmap-settlement.ts), against    *)
(* the scheduler's rounds (roadmap/drain.ts, admission.ts, preparations.ts *)
(* and holds.ts) and the operator's commands, which all await between      *)
(* their checks and their writes.                                          *)
(*                                                                         *)
(* The roadmap, its record and the cycles are rows; where the round, the   *)
(* settlement and a command are is the daemon's memory: a crash loses it.  *)
(***************************************************************************)
EXTENDS Naturals, FiniteSets

CONSTANTS
    Entries,         \* the roadmap's items, each with one attempt: a worktree and its cycle
    Decisions,       \* the shared decisions its standing grant prepares
    Versions,        \* the plan versions it may retire
    plan,            \* the version each entry belongs to
    RivalVersions,   \* the versions a draft of another roadmap names
    None,            \* no entry and no decision
    MaxCommands,     \* bound on what operators and others do meanwhile
    MaxFaults        \* bound on crashes and on Git's refusals

ASSUME SettlementAssumption ==
    /\ plan \in [Entries -> Versions]
    /\ RivalVersions \subseteq Versions
    /\ None \notin Entries \cup Decisions
    /\ MaxCommands \in Nat /\ MaxFaults \in Nat

VARIABLES
    status,          \* the roadmap's
    record,          \* its wind-down record's
    named,           \* the resolutions the record abandons
    chosen, retired, \* the versions the record retires; those retired
    authorised,      \* whoever asked for the wind-down may still act
    amendment,       \* an amendment is pending
    cycle, session,  \* each attempt's cycle, and the agent in its worktree
    owned,           \* the cycles with an integration resolution of their own
    investigated,    \* those with a live investigation of their stop
    merging,         \* those with a reserved merge
    prep,            \* each decision's preparation
    round, item,     \* where the scheduler's round awaits, and on what
    left,            \* what it has not looked at yet
    todo, late,      \* the attempts the settlement has still to stop; it waits for a session
    aim,             \* the one whose resolution it is abandoning
    command,         \* the roadmap command under way (controlling)
    fresh,           \* who still holds the roadmap's version
    rival, outside,  \* the other roadmap; the versions with live work of nobody's roadmap
    acts, faults    \* counters of the bounds

rows == <<cycle, session, owned, investigated, merging, prep>>
request == <<record, named, chosen, retired, authorised>>
pass == <<round, item, left>>
settler == <<todo, late, aim>>
others == <<rival, outside>>
vars == <<status, request, amendment, rows, pass, settler, command, fresh, others,
          acts, faults>>

Ended == {"stopped", "completed"}
Cycles == {"none", "running", "waiting"} \cup Ended
Awaiting == {"reading", "making", "creating"}
Rounds == {"idle", "preparing", "entries", "clearing", "settling"} \cup Awaiting

TypeOK ==
    /\ status \in {"running", "paused", "needs-attention"} \cup Ended
    /\ record \in {"none", "settling", "settled"}
    /\ named \subseteq Entries /\ chosen \subseteq Versions /\ retired \subseteq chosen
    /\ authorised \in BOOLEAN /\ amendment \in BOOLEAN /\ late \in BOOLEAN
    /\ cycle \in [Entries -> Cycles]
    /\ session \in [Entries -> {"none", "live", "asked"}]
    /\ owned \subseteq Entries /\ investigated \subseteq Entries /\ merging \subseteq Entries
    /\ prep \in [Decisions -> {"none", "reserved", "running", "asked", "over"}]
    /\ round \in Rounds /\ item \in Entries \cup Decisions \cup {None}
    /\ left \subseteq Entries \cup Decisions
    /\ todo \subseteq Entries /\ aim \in Entries \cup {None}
    /\ command \in {"none", "resuming", "stopping"}
    /\ fresh \subseteq {"round", "resume"}
    /\ rival \in {"draft", "running"} /\ outside \subseteq Versions
    /\ acts \in 0..MaxCommands /\ faults \in 0..MaxFaults
    \* One settlement at a time: a command's, or the round's (busy).
    /\ ~(command = "stopping" /\ round = "settling")

Init ==
    /\ status = "running" /\ record = "none"
    /\ named = {} /\ chosen = {} /\ retired = {} /\ authorised = TRUE /\ amendment = FALSE
    /\ cycle = [e \in Entries |-> "none"] /\ session = [e \in Entries |-> "none"]
    /\ owned = {} /\ investigated = {} /\ merging = {}
    /\ prep = [d \in Decisions |-> "none"]
    /\ round = "idle" /\ item = None /\ left = {}
    /\ todo = {} /\ late = FALSE /\ aim = None
    /\ command = "none" /\ fresh = {}
    /\ rival = "draft" /\ outside = {} /\ acts = 0 /\ faults = 0

-----------------------------------------------------------------------------
(* What several actions share.                                             *)

\* Every write of the roadmap raises its version; the writer goes on with what it wrote.
Writes(s, who) == status' = s /\ fresh' = who
Unwritten == UNCHANGED <<status, fresh>>
GivesUp(who) == fresh' = fresh \ {who} /\ UNCHANGED status
Round(at, on) ==
    /\ round' = at /\ item' = on
    /\ left' = IF at \in {"idle", "clearing", "settling"} THEN {} ELSE left \ {on}
Acts == acts < MaxCommands /\ acts' = acts + 1
Faults == faults < MaxFaults /\ faults' = faults + 1

LiveCycle(e) == cycle[e] \in {"running", "waiting"}
Still(e) == cycle[e] = "waiting" /\ session[e] = "none" /\ e \notin merging
\* A worktree the settlement holds while it abandons a resolution.
Free(e) == aim # e

\* A kill only asks: the session is gone once its exit is read.
Ask(S) == session' = [e \in Entries |-> IF e \in S /\ session[e] = "live" THEN "asked" ELSE session[e]]
Become(S, c) == cycle' = [e \in Entries |-> IF e \in S THEN c ELSE cycle[e]]

\* Why a version cannot be retired: another roadmap runs it, work outside is live, a merge is reserved.
InUse(v) == \/ rival = "running" /\ v \in RivalVersions
            \/ v \in outside
            \/ \E e \in merging : plan[e] = v

-----------------------------------------------------------------------------
(* The scheduler's round: roadmap/drain.ts, roadmap/admission.ts.          *)

\* A running roadmap is advanced; its decisions come first.
Advance ==
    /\ round = "idle" /\ status = "running" /\ record # "settling" /\ command = "none"
    /\ ~amendment
    /\ round' = "preparing" /\ left' = Entries \cup Decisions /\ UNCHANGED item
    /\ UNCHANGED <<status, request, amendment, rows, settler, command, fresh, others, acts, faults>>

\* The branch a decision is prepared on is read.
Prepare(d) ==
    /\ round = "preparing" /\ status = "running" /\ d \in left /\ prep[d] = "none"
    /\ Round("reading", d)
    /\ UNCHANGED <<status, request, amendment, rows, settler, command, fresh, others, acts, faults>>

\* It is reserved on the roadmap as it now is, whatever has become of it; or the branch is gone.
Reserve(d) ==
    /\ round = "reading" /\ item = d
    /\ \/ /\ prep' = [prep EXCEPT ![d] = "reserved"]
          /\ Writes(status, {}) /\ Round("making", d)
       \/ /\ Unwritten /\ UNCHANGED prep /\ Round("preparing", None)
    /\ UNCHANGED <<request, amendment, cycle, session, owned, investigated, merging, settler,
                   command, others, acts, faults>>

\* Its worktree is made and its run recorded, each of which asks only the grant, the binding and
\* the deadline.
LaunchPreparation(d) ==
    /\ round = "making" /\ item = d
    /\ prep' = [prep EXCEPT ![d] = "running"]
    /\ Round("preparing", None)
    /\ UNCHANGED <<status, request, amendment, cycle, session, owned, investigated, merging, settler,
                   command, fresh, others, acts, faults>>

\* It failed, which its record keeps; or nothing was made yet and the reservation goes.
FailPreparation(d) ==
    /\ round = "making" /\ item = d
    /\ prep' \in {[prep EXCEPT ![d] = p] : p \in {"over", "none"}}
    /\ Writes(status, {}) /\ Round("preparing", None)
    /\ UNCHANGED <<request, amendment, cycle, session, owned, investigated, merging, settler,
                   command, others, acts, faults>>

\* The launches awaited: a pause, a command, an amendment or a wind-down may have come meanwhile.
EnterEntries ==
    /\ round = "preparing"
    /\ IF status = "running" /\ command = "none" /\ ~amendment /\ record # "settling"
       THEN Round("entries", None) ELSE Round("idle", None)
    /\ UNCHANGED <<status, request, amendment, rows, settler, command, fresh, others, acts, faults>>

\* An entry without a cycle: its attempt is reserved, and its worktree made.
BeginEntry(e) ==
    /\ round = "entries" /\ status = "running" /\ command = "none"
    /\ e \in left /\ cycle[e] = "none"
    /\ Round("creating", e) /\ Writes(status, {"round"})
    /\ UNCHANGED <<request, amendment, rows, settler, command, others, acts, faults>>

\* Mutant: the roadmap is not asked again once the worktree is there.
StartCycleUnasked(e) ==
    /\ round = "creating" /\ item = e
    /\ Become({e}, "running") /\ Writes(status, {}) /\ Round("entries", None)
    /\ UNCHANGED <<request, amendment, session, owned, investigated, merging, prep, settler,
                   command, others, acts, faults>>

\* The cycle starts and the attempt is attached, if nobody wrote the roadmap meanwhile.
StartCycle(e) ==
    /\ round = "creating" /\ item = e
    /\ "round" \in fresh /\ status = "running"
    /\ Become({e}, "running") /\ Writes(status, {}) /\ Round("entries", None)
    /\ UNCHANGED <<request, amendment, session, owned, investigated, merging, prep, settler,
                   command, others, acts, faults>>

\* Somebody did: the whole pass gives way.
Superseded ==
    /\ round = "creating" /\ ("round" \notin fresh \/ status # "running")
    /\ Round("idle", None)
    /\ UNCHANGED <<status, request, amendment, rows, settler, command, fresh, others, acts, faults>>

\* The entry could not be prepared: a hold is recorded on the roadmap as it now is.
HoldEntry ==
    /\ round = "creating"
    /\ IF status = "running" /\ command = "none"
       THEN Writes(status, {}) /\ Round("entries", None)
       ELSE GivesUp("round") /\ Round("idle", None)
    /\ UNCHANGED <<request, amendment, rows, settler, command, others, acts, faults>>

\* The pass threw: the roadmap asks for attention, if it still runs.
FailRound ==
    /\ round \in {"preparing", "entries", "creating"}
    /\ IF status = "running" THEN Writes("needs-attention", {}) ELSE Unwritten
    /\ Round("idle", None)
    /\ UNCHANGED <<request, amendment, rows, settler, command, others, acts, faults>>

\* The pass ends, with the roadmap completed if all its entries are.
EndRound ==
    /\ round = "entries"
    /\ IF status = "running" /\ \A e \in Entries : cycle[e] = "completed"
       THEN Writes("completed", {}) ELSE Unwritten
    /\ Round("idle", None)
    /\ UNCHANGED <<request, amendment, rows, settler, command, others, acts, faults>>

\* What holds a whole roadmap.
Held == status \in Ended \/ record = "settling" \/ amendment

\* A stop for attention whose fact may have cleared: reading the fact awaits.
AskCleared ==
    /\ round = "idle" /\ status = "needs-attention" /\ ~Held /\ command = "none"
    /\ Round("clearing", None) /\ fresh' = fresh \cup {"round"}
    /\ UNCHANGED <<status, request, amendment, rows, settler, command, others, acts, faults>>

\* Mutant: the roadmap is resumed on what was asked before the fact was read.
ResumeClearedUnasked ==
    /\ round = "clearing"
    /\ \/ Writes("running", {}) \/ GivesUp("round")
    /\ Round("idle", None)
    /\ UNCHANGED <<request, amendment, rows, settler, command, others, acts, faults>>

\* The roadmap resumes, if nothing holds it now either.
ResumeCleared ==
    /\ round = "clearing"
    /\ \/ /\ ~Held /\ command = "none" /\ "round" \in fresh
          /\ Writes("running", {})
       \/ GivesUp("round")
    /\ Round("idle", None)
    /\ UNCHANGED <<request, amendment, rows, settler, command, others, acts, faults>>

-----------------------------------------------------------------------------
(* Cycles and preparations, while the roadmap runs and while it settles.   *)

\* A session starts: a pass that read the hold before the roadmap settled may still start one.
StartSession(e) ==
    /\ cycle[e] = "running" /\ session[e] = "none"
    /\ session' = [session EXCEPT ![e] = "live"]
    /\ UNCHANGED <<status, request, amendment, cycle, owned, investigated, merging, prep, pass
                   , settler, command, fresh, others, acts, faults>>

\* A turn ends, and the cycle goes on, stops for the operator or a merge, or is done.
EndTurn(e) ==
    /\ cycle[e] = "running" /\ session[e] = "live"
    /\ session' = [session EXCEPT ![e] = "none"]
    /\ \/ UNCHANGED <<cycle, owned>>
       \/ Become({e}, "waiting") /\ owned' \in {owned, owned \ {e}}
       \/ e \notin owned /\ Become({e}, "completed") /\ UNCHANGED owned
    /\ UNCHANGED <<status, request, amendment, investigated, merging, prep, pass, settler,
                   command, fresh, others, acts, faults>>

\* A killed session exits; an investigation's ends it.
SessionExits(e) ==
    /\ session[e] = "asked" \/ (session[e] = "live" /\ e \in investigated)
    /\ session' = [session EXCEPT ![e] = "none"]
    /\ investigated' = investigated \ {e}
    /\ UNCHANGED <<status, request, amendment, cycle, owned, merging, prep, pass, settler,
                   command, fresh, others, acts, faults>>

PreparationEnds(d) ==
    /\ prep[d] \in {"running", "asked"}
    /\ prep' = [prep EXCEPT ![d] = "over"]
    /\ UNCHANGED <<status, request, amendment, cycle, session, owned, investigated, merging, pass
                   , settler, command, fresh, others, acts, faults>>

\* A conflict's resolution begins or goes on, or a stopped cycle is resumed.
ResumeCycle(e) ==
    /\ Still(e) /\ e \notin investigated /\ Free(e) /\ Acts
    /\ Become({e}, "running") /\ owned' \in {owned, owned \cup {e}}
    /\ UNCHANGED <<status, request, amendment, session, investigated, merging, prep, pass,
                   settler, command, fresh, others, faults>>

\* The operator abandons a resolution.
AbandonResolution(e) ==
    /\ Still(e) /\ e \in owned /\ Free(e)
    /\ owned' = owned \ {e}
    /\ UNCHANGED <<status, request, amendment, cycle, session, investigated, merging, prep, pass
                   , settler, command, fresh, others, acts, faults>>

Investigate(e) ==
    /\ Still(e) /\ e \notin owned \cup investigated /\ Free(e) /\ Acts
    /\ investigated' = investigated \cup {e}
    /\ session' = [session EXCEPT ![e] = "live"]
    /\ UNCHANGED <<status, request, amendment, cycle, owned, merging, prep, pass, settler,
                   command, fresh, others, faults>>

\* A merge is reserved, by the operator or the scheduler, and ends in a receipt or a failure.
ReserveMerge(e) ==
    /\ Still(e) /\ e \notin owned \cup investigated /\ Free(e) /\ Acts
    /\ merging' = merging \cup {e}
    /\ UNCHANGED <<status, request, amendment, cycle, session, owned, investigated, prep, pass
                   , settler, command, fresh, others, faults>>

EndMerge(e) ==
    /\ e \in merging
    /\ merging' = merging \ {e}
    /\ Become({e}, "completed") \/ UNCHANGED cycle
    /\ UNCHANGED <<status, request, amendment, session, owned, investigated, prep, pass,
                   settler, command, fresh, others, acts, faults>>

-----------------------------------------------------------------------------
(* The operator's commands on the roadmap: roadmap/commands/control.ts.    *)

\* Pause writes the roadmap, then pauses its running cycles, and awaits nothing.
Pause ==
    /\ command = "none" /\ status \notin Ended /\ record # "settling" /\ Acts
    /\ Writes("paused", {})
    /\ LET running == {e \in Entries : cycle[e] = "running"}
       IN Become(running, "waiting") /\ Ask(running)
    /\ UNCHANGED <<request, amendment, owned, investigated, merging, prep, pass, settler,
                   command, others, faults>>

\* Resume asks, then resumes the cycles one by one, each awaiting its gates...
Resume ==
    /\ command = "none" /\ status \in {"paused", "needs-attention"} /\ ~Held /\ Acts
    /\ command' = "resuming" /\ fresh' = fresh \cup {"resume"}
    /\ UNCHANGED <<status, request, amendment, rows, pass, settler, others, faults>>

ResumeOwned(e) ==
    /\ command = "resuming" /\ Still(e) /\ e \notin investigated \cup owned /\ Free(e)
    /\ Become({e}, "running")
    /\ UNCHANGED <<status, request, amendment, session, owned, investigated, merging, prep, pass
                   , settler, command, fresh, others, acts, faults>>

\* ... and writes the roadmap running, if its version is still the one it read.
EndResume ==
    /\ command = "resuming"
    /\ IF "resume" \in fresh THEN Writes("running", {}) ELSE Unwritten
    /\ command' = "none"
    /\ UNCHANGED <<request, amendment, rows, pass, settler, others, acts, faults>>

\* A proposed amendment pauses the roadmap and its cycles: map-amendment-service.ts.
ProposeAmendment ==
    /\ ~Held /\ Acts
    /\ amendment' = TRUE /\ Writes("paused", {})
    /\ LET running == {e \in Entries : cycle[e] = "running"}
       IN Become(running, "waiting") /\ Ask(running)
    /\ UNCHANGED <<request, owned, investigated, merging, prep, pass, settler, command,
                   others, faults>>

RejectAmendment ==
    /\ amendment /\ amendment' = FALSE
    /\ UNCHANGED <<status, request, rows, pass, settler, command, fresh, others, acts, faults>>

-----------------------------------------------------------------------------
(* Settling: roadmap-settlement.ts.                                        *)

\* The preview refuses nothing: no reserved merge, and no version of R in use.
Accepts(R) ==
    /\ command = "none" /\ merging = {}
    /\ \A v \in R \ retired : ~InUse(v)

\* The attempts it stops are those started when it begins.
BeginSettle ==
    todo' = {e \in Entries : cycle[e] # "none"} /\ late' = FALSE /\ aim' = None

\* Stop or a wind-down writes the record, which is the hold, and settles at once.
WindDown(R) ==
    /\ Accepts(R) /\ Acts
    /\ record = "none" \/ (record = "settled" /\ ~(R \subseteq chosen))
    /\ record' = "settling"
    /\ chosen' = chosen \cup R
    /\ named' = {e \in owned : LiveCycle(e)}
    /\ authorised' = TRUE
    /\ command' = "stopping" /\ BeginSettle
    /\ UNCHANGED <<status, retired, amendment, rows, pass, fresh, others, faults>>

\* The command repeated while it settles: by whoever asked, or by one who chooses the same again.
WindDownAgain(R) ==
    /\ Accepts(R) /\ Acts
    /\ record = "settling" /\ round # "settling" /\ R \subseteq chosen
    /\ authorised \/ chosen \ retired \subseteq R
    /\ command' = "stopping" /\ BeginSettle
    /\ UNCHANGED <<status, request, amendment, rows, pass, fresh, others, faults>>

\* Mutant: only a running roadmap's settlement is resumed.
ResumeSettleRunning ==
    /\ round = "idle" /\ record = "settling" /\ command = "none" /\ status = "running"
    /\ Round("settling", None) /\ BeginSettle
    /\ UNCHANGED <<status, request, amendment, rows, command, fresh, others, acts, faults>>

\* Mutant: the round settles a roadmap beside a command on it.
ResumeSettleBeside ==
    /\ round = "idle" /\ record = "settling"
    /\ Round("settling", None) /\ BeginSettle
    /\ UNCHANGED <<status, request, amendment, rows, command, fresh, others, acts, faults>>

\* Every round resumes a record still settling.
ResumeSettle ==
    /\ round = "idle" /\ record = "settling" /\ command = "none"
    /\ Round("settling", None) /\ BeginSettle
    /\ UNCHANGED <<status, request, amendment, rows, command, fresh, others, acts, faults>>

\* The settlement ends, whichever way: done, waiting, or with its step recorded as incomplete.
EndSettle ==
    /\ todo' = {} /\ late' = FALSE /\ aim' = None
    /\ IF command = "stopping"
       THEN command' = "none" /\ UNCHANGED pass
       ELSE Round("idle", None) /\ UNCHANGED command

\* Between two awaits. A step acts as the user of this command, or as the one who asked for it.
Stepping == aim = None /\ (command = "stopping" \/ (round = "settling" /\ authorised))

\* The next attempt to stop, with a live cycle.
Stoppable(e) == Stepping /\ e \in todo /\ LiveCycle(e)

\* Nobody to act as.
NoActor ==
    /\ round = "settling" /\ aim = None /\ ~authorised /\ EndSettle
    /\ UNCHANGED <<status, request, amendment, rows, fresh, others, acts, faults>>

\* Its cycle has ended.
Skip(e) ==
    /\ Stepping /\ e \in todo /\ ~LiveCycle(e)
    /\ todo' = todo \ {e}
    /\ UNCHANGED <<status, request, amendment, rows, pass, late, aim, command, fresh,
                   others, acts, faults>>

\* A live investigation ends and the cycle stops, with its session.
StopCycle(e) ==
    /\ Stoppable(e) /\ e \notin owned \cup merging
    /\ Become({e}, "stopped") /\ Ask({e})
    /\ investigated' = investigated \ {e}
    /\ todo' = todo \ {e}
    /\ UNCHANGED <<status, request, amendment, owned, merging, prep, pass, late, aim,
                   command, fresh, others, acts, faults>>

\* A merge is reserved, or a resolution began after the preview.
CannotStop(e) ==
    /\ Stoppable(e) /\ e \in merging \cup (owned \ named)
    /\ EndSettle
    /\ UNCHANGED <<status, request, amendment, rows, fresh, others, acts, faults>>

\* A named resolution is paused with its edits, and its session asked to end.
PauseResolution(e) ==
    /\ Stoppable(e) /\ e \in (owned \cap named) \ merging /\ session[e] # "none"
    /\ Become({e}, "waiting") /\ Ask({e})
    /\ todo' = todo \ {e} /\ late' = TRUE
    /\ UNCHANGED <<status, request, amendment, owned, investigated, merging, prep, pass,
                   aim, command, fresh, others, acts, faults>>

\* Its session is gone: aborting the merge it owns awaits Git, under the worktree's hold.
Abandon(e) ==
    /\ Stoppable(e) /\ e \in (owned \cap named) \ merging /\ session[e] = "none"
    /\ Become({e}, "waiting") /\ aim' = e
    /\ UNCHANGED <<status, request, amendment, session, owned, investigated, merging, prep, pass
                   , todo, late, command, fresh, others, acts, faults>>

\* It is abandoned and the cycle stopped, if the cycle is still as it was.
Abandoned(e) ==
    /\ aim = e /\ e \in owned /\ Still(e)
    /\ owned' = owned \ {e} /\ Become({e}, "stopped")
    /\ todo' = todo \ {e} /\ aim' = None
    /\ UNCHANGED <<status, request, amendment, session, investigated, merging, prep, pass,
                   late, command, fresh, others, acts, faults>>

\* Git refuses.
AbandonFails ==
    /\ aim # None /\ Faults /\ EndSettle
    /\ UNCHANGED <<status, request, amendment, rows, fresh, others, acts>>

\* A cancelled session has still to end: the next round looks again.
WaitForSession ==
    /\ Stepping /\ todo = {} /\ late /\ EndSettle
    /\ UNCHANGED <<status, request, amendment, rows, fresh, others, acts, faults>>

\* The last three steps: the live preparations' runs are ended, a pending amendment is moot, and
\* one transaction asks the cycles and versions again, stops the roadmap and retires the versions.
Finish ==
    /\ Stepping /\ todo = {} /\ ~late
    /\ prep' = [d \in Decisions |-> IF prep[d] = "running" THEN "asked" ELSE prep[d]]
    /\ amendment' = FALSE
    /\ IF (\E e \in Entries : LiveCycle(e)) \/ (\E v \in chosen \ retired : InUse(v))
       THEN Unwritten /\ UNCHANGED <<record, retired>>
       ELSE /\ IF status \in Ended THEN Unwritten ELSE Writes("stopped", {})
            /\ record' = "settled" /\ retired' = chosen
    /\ EndSettle
    /\ UNCHANGED <<named, chosen, authorised, cycle, session, owned, investigated, merging,
                   others, acts, faults>>

-----------------------------------------------------------------------------
(* Others, and the daemon.                                                 *)

\* Whoever asked loses the right to act on the roadmap.
Revoke ==
    /\ record = "settling" /\ authorised /\ Acts
    /\ authorised' = FALSE
    /\ UNCHANGED <<status, record, named, chosen, retired, amendment, rows, pass, settler,
                   command, fresh, others, faults>>

\* Mutant: only a version already retired is refused.
StartRivalRetiring ==
    /\ rival = "draft" /\ status \in Ended
    /\ RivalVersions \cap retired = {}
    /\ rival' = "running"
    /\ UNCHANGED <<status, request, amendment, rows, pass, settler, command, fresh, outside,
                   acts, faults>>

\* The other roadmap starts once this one has ended, with no version retired or being retired.
StartRival ==
    /\ rival = "draft" /\ status \in Ended
    /\ RivalVersions \cap (retired \cup IF record = "settling" THEN chosen ELSE {}) = {}
    /\ rival' = "running"
    /\ UNCHANGED <<status, request, amendment, rows, pass, settler, command, fresh, outside,
                   acts, faults>>

\* It ends, and another may be drafted.
EndRival ==
    /\ rival = "running" /\ rival' = "draft"
    /\ UNCHANGED <<status, request, amendment, rows, pass, settler, command, fresh, outside,
                   acts, faults>>

\* Work by hand in a version's worktrees comes and goes.
WorkOutside(v) ==
    /\ outside' \in {outside \cup {v}, outside \ {v}} /\ outside' # outside /\ Acts
    /\ UNCHANGED <<status, request, amendment, rows, pass, settler, command, fresh, rival,
                   faults>>

\* The daemon crashes and starts again: its runs are ended, its cycles wait, a preparation without
\* a run has failed, and a running roadmap asks for attention unless it is being settled.
Crash ==
    /\ Faults
    /\ cycle' = [e \in Entries |-> IF cycle[e] = "running" THEN "waiting" ELSE cycle[e]]
    /\ session' = [e \in Entries |-> "none"]
    /\ investigated' = {}
    /\ prep' = [d \in Decisions |-> IF prep[d] = "none" THEN "none" ELSE "over"]
    /\ status' = IF status = "running" /\ record # "settling" THEN "needs-attention" ELSE status
    /\ Round("idle", None)
    /\ todo' = {} /\ late' = FALSE /\ aim' = None
    /\ command' = "none" /\ fresh' = {}
    /\ UNCHANGED <<request, amendment, owned, merging, others, acts>>

-----------------------------------------------------------------------------
RoundStep ==
    \/ Advance \/ EnterEntries \/ Superseded \/ HoldEntry \/ FailRound \/ EndRound
    \/ AskCleared \/ ResumeCleared
    \/ \E d \in Decisions : \/ Prepare(d) \/ Reserve(d)
                            \/ LaunchPreparation(d) \/ FailPreparation(d)
    \/ \E e \in Entries : BeginEntry(e) \/ StartCycle(e)

\* A settlement between two awaits: one of these is always possible.
SettleOn ==
    \/ NoActor \/ WaitForSession \/ Finish
    \/ \E e \in Entries : \/ Skip(e) \/ StopCycle(e) \/ CannotStop(e)
                          \/ PauseResolution(e) \/ Abandon(e)

SettleStep ==
    \/ ResumeSettle \/ SettleOn \/ AbandonFails
    \/ \E e \in Entries : Abandoned(e)

WorkStep ==
    \/ \E e \in Entries : \/ StartSession(e) \/ EndTurn(e) \/ SessionExits(e) \/ EndMerge(e)
    \/ \E d \in Decisions : PreparationEnds(d)

OperatorStep ==
    \/ Pause \/ Resume \/ EndResume \/ ProposeAmendment \/ RejectAmendment
    \/ \E R \in SUBSET Versions : WindDown(R) \/ WindDownAgain(R)
    \/ \E e \in Entries : \/ ResumeOwned(e) \/ ResumeCycle(e) \/ AbandonResolution(e)
                          \/ Investigate(e) \/ ReserveMerge(e)

OtherStep == Revoke \/ StartRival \/ EndRival \/ Crash \/ \E v \in Versions : WorkOutside(v)

Next == RoundStep \/ SettleStep \/ WorkStep \/ OperatorStep \/ OtherStep

Spec == Init /\ [][Next]_vars

\* What a round awaits ends.
RoundOn ==
    \/ EnterEntries \/ EndRound \/ Superseded \/ ResumeCleared
    \/ \E d \in Decisions : Reserve(d) \/ LaunchPreparation(d)
    \/ \E e \in Entries : StartCycle(e)

\* Rounds come (the sweep), what they and a command await ends, a settlement's steps are taken,
\* and killed sessions exit.
Fairness ==
    /\ WF_vars(ResumeSettle) /\ WF_vars(RoundOn) /\ WF_vars(EndResume)
    /\ WF_vars(SettleOn) /\ WF_vars(\E e \in Entries : Abandoned(e))
    /\ WF_vars(\E e \in Entries : SessionExits(e))

FairSpec == Spec /\ Fairness

-----------------------------------------------------------------------------
(* Properties.                                                             *)

\* A settled roadmap is still: it has ended, no attempt's cycle is live or has an agent nobody
\* asked to end, no amendment can start it again, and every version chosen is retired.
SettledIsStill ==
    record = "settled" =>
        /\ status \in Ended /\ ~amendment /\ retired = chosen
        /\ \A e \in Entries : ~LiveCycle(e) /\ session[e] # "live"

\* Nothing revives a roadmap that ended: no pass, command, amendment or restart that read it
\* before it did.
EndedForGood == [][(status \in Ended) => (status' = status)]_vars

\* No other roadmap runs a version that is retired or about to be.
RetiringVersionsRest ==
    rival = "running" =>
        RivalVersions \cap (retired \cup IF record = "settling" THEN chosen ELSE {}) = {}

\* What these rest on: who settles has the record; a resume keeps the version it read only while
\* the roadmap lives; agents work for live cycles, a merge is reserved on a still one, and an entry starts one cycle.
SettlingHeld == round = "settling" \/ command = "stopping" => record = "settling"
Unchosen == record = "none" => chosen = {}
ResumeLives == "resume" \in fresh => status \notin Ended
MergingStill == \A e \in merging : cycle[e] = "waiting" /\ session[e] = "none"
LiveSessions == \A e \in Entries : session[e] = "live" => LiveCycle(e)
StartsFresh == round = "creating" => item \in Entries /\ cycle[item] = "none"

Inductive ==
    /\ TypeOK /\ SettlingHeld /\ Unchosen /\ ResumeLives /\ MergingStill /\ LiveSessions
    /\ StartsFresh
    /\ SettledIsStill /\ RetiringVersionsRest

\* What keeps a settlement from finishing: nobody to act as, a reserved merge, a resolution the
\* preview did not name, or a chosen version in use.
Hindered ==
    \/ ~authorised \/ merging # {} \/ ~(owned \subseteq named)
    \/ \E v \in chosen \ retired : InUse(v)

\* Unless it is hindered again and again, a settlement that began is finished, through rounds,
\* commands and a crash.
SettlesInTheEnd == <>[]~Hindered => (record = "settling" ~> record = "settled")

\* "Nothing started while the roadmap settled: the hold kept the scheduler away."
SettledRunsNothing == record = "settled" => \A d \in Decisions : prep[d] # "running"
=============================================================================
