--------------------------- MODULE CycleController ---------------------------
(***************************************************************************)
(* The work cycles' controller (apps/server/src/services/                  *)
(* work-cycle-service.ts, kernel/, cycle/locks.ts, attention-gates.ts):    *)
(* what marks a cycle for a look, the rounds that look at the marked       *)
(* cycles, the slow lane's one job, the commands that hold cycles, and     *)
(* when a push to the operator may stop waiting for all of that.           *)
(*                                                                         *)
(* What a look decides is data here: `need` is the kind of decision a      *)
(* cycle's stored state calls for.  An operator called a mutant is a bug   *)
(* the runs must find in the one that follows it.                          *)
(***************************************************************************)
EXTENDS Naturals, FiniteSets

CONSTANTS
    Cycles, NoCycle,
    Limitable,   \* bound: cycles that may have a deadline
    Holdable,    \* bound: cycles a command or the scheduler may take
    MaxBusy,     \* bound: how many at a time
    Items        \* bound: whether attention items open

ASSUME CyclesAssumption ==
    /\ IsFiniteSet(Cycles) /\ NoCycle \notin Cycles
    /\ Limitable \subseteq Cycles /\ Holdable \subseteq Cycles /\ MaxBusy \in Nat /\ Items \in BOOLEAN

VARIABLES
    need,        \* [Cycles -> Needs]: what a look at the cycle would decide
    limited,     \* cycles with a time ahead at which a look would act: a deadline, a retry
    everything,  \* the kernel's marks: every cycle,
    keys,        \*   or these
    due,         \* [Cycles -> DueTimes]: when the kernel marks the cycle by itself
    loop,        \* the controller: parked until a mark, ready to take marks, or in a round
    rest,        \* cycles the round has still to look at,
    stale,       \*   what the record it read of one of them, written since, decides, or "no",
    job,         \* the cycle whose decision the slow lane carries out, or NoCycle
    meanwhile,   \* markedMeanwhile: a round met the job's cycle
    waiting,     \* laneWaiting, and which of them came before which
    before,
    behind,      \* history: those a look left to one before them, as the lane was free
    held,        \* cycles a command holds
    refreshing,  \* cycles the roadmap scheduler is refreshing
    push,        \* an attention item and the passes that gate its push, see NoPush
    unseen       \* history: cycles changed, as the kernel can know, since they were last decided

marks == <<everything, keys>>
lane == <<job, meanwhile, waiting, before, behind>>
round == <<rest, stale>>
vars == <<need, limited, marks, due, loop, round, lane, held, refreshing, push, unseen>>

\* slow: a decision whose application awaits; ended: the cycle is no longer active.
Needs == {"idle", "fast", "slow", "ended"}
\* ahead: the limit's time; retry: a second on.
DueTimes == {"none", "ahead", "retry"}

Active(c) == need[c] # "ended"
Marked(c) == everything \/ c \in keys
Pending == everything \/ keys # {}
First == {c \in waiting \ held : \A d \in waiting \ held : <<d, c>> \notin before}

\* A push waits for passes that began after its item opened. owed: cycles whose changes no look
\* had decided as it opened; began: the round in flight began later; kept: so did one that is
\* not complete yet, because the lane is busy (uncompleted); passed: one that is.
NoPush == [open |-> FALSE, owed |-> {}, began |-> FALSE, kept |-> FALSE, passed |-> FALSE]

Init ==
    /\ need \in [Cycles -> {"idle", "fast", "slow"}]
    /\ limited \in SUBSET Limitable
    /\ everything = TRUE /\ keys = {}   \* the loop's first mark
    /\ due = [c \in Cycles |-> "none"]
    /\ loop = "ready" /\ rest = {} /\ stale = [c \in Cycles |-> "no"]
    /\ job = NoCycle /\ meanwhile = FALSE /\ waiting = {} /\ before = {} /\ behind = {}
    /\ held = {} /\ refreshing = {}
    /\ push = NoPush
    /\ unseen = Cycles

-----------------------------------------------------------------------------
(* Marks and writes: kernel/controller-kernel.ts.                          *)

\* A mark wakes the controller if it waits for one.
Wake == loop' = IF loop = "parked" THEN "ready" ELSE loop

MarkAll == everything' = TRUE /\ keys' = {} /\ Wake
Mark(S) ==
    /\ keys' = IF everything THEN {} ELSE keys \cup S
    /\ Wake /\ UNCHANGED everything
NoMark == UNCHANGED <<marks, loop>>

\* A committed write of c: it may change what c needs and its limit. Marks are coarse: every cycle.
Becomes(c) ==
    /\ \E n \in Needs : need' = [need EXCEPT ![c] = n]
    /\ \/ limited' = limited \ {c}
       \/ c \in Limitable /\ need'[c] # "ended" /\ limited' = limited \cup {c}
    /\ unseen' = unseen \cup {c}
    /\ MarkAll

-----------------------------------------------------------------------------
(* What happens around the controller.                                     *)

\* Anyone's write: an operator, an agent's run, a merge.
Write(c) ==
    /\ Active(c) /\ Becomes(c)
    /\ stale' = IF c \in rest /\ stale[c] = "no" THEN [stale EXCEPT ![c] = need[c]] ELSE stale
    /\ UNCHANGED <<due, rest, lane, held, refreshing, push>>

\* A cycle starts: one that ended, and that nothing remembers, stands for the new one.
Start(c) ==
    /\ ~Active(c) /\ due[c] = "none"
    /\ c \notin rest \cup waiting \cup held \cup refreshing \cup {job}
    /\ Becomes(c) /\ need'[c] # "ended"
    /\ UNCHANGED <<due, round, lane, held, refreshing, push>>

\* A change no event reports (a user's role): it stops the cycle at its next look.
SilentChange(c) ==
    /\ need[c] \in {"idle", "slow"}
    /\ need' = [need EXCEPT ![c] = "fast"]
    /\ UNCHANGED <<limited, marks, due, loop, round, lane, held, refreshing, push, unseen>>

\* A limit's time comes: a look would act. The due timer marks the cycle if it is its due time; one
\* that passes during the cycle's first job has no due time yet, and is left to the sweep.
Expire(c) ==
    /\ c \in limited
    /\ limited' = limited \ {c}
    /\ \E n \in {"fast", "slow"} : need' = [need EXCEPT ![c] = n]
    /\ unseen' = IF c = job THEN unseen ELSE unseen \cup {c}
    /\ IF due[c] = "ahead"
       THEN due' = [due EXCEPT ![c] = "none"] /\ Mark({c})
       ELSE UNCHANGED due /\ NoMark
    /\ UNCHANGED <<round, lane, held, refreshing, push>>

\* A retry's second is over.
FireDue(c) ==
    /\ due[c] = "retry"
    /\ due' = [due EXCEPT ![c] = "none"]
    /\ Mark({c})
    /\ UNCHANGED <<need, limited, round, lane, held, refreshing, push, unseen>>

Sweep ==
    /\ MarkAll
    /\ UNCHANGED <<need, limited, due, round, lane, held, refreshing, push, unseen>>

MayBeTaken(c) == c \in Holdable /\ Cardinality(held) + Cardinality(refreshing) < MaxBusy

\* A recovery's preparation or an investigation's launch takes the cycle.
Hold(c) ==
    /\ Active(c) /\ MayBeTaken(c)
    /\ held' = held \cup {c}
    /\ UNCHANGED <<need, limited, marks, due, loop, round, lane, refreshing, push, unseen>>

Release(c) ==
    /\ c \in held /\ held' = held \ {c}
    /\ Mark({c})
    /\ UNCHANGED <<need, limited, due, round, lane, refreshing, push, unseen>>

\* The scheduler's integration refresh; what it writes is a Write.
RefreshBegins(c) ==
    /\ Active(c) /\ MayBeTaken(c)
    /\ refreshing' = refreshing \cup {c}
    /\ UNCHANGED <<need, limited, marks, due, loop, round, lane, held, push, unseen>>

RefreshEnds(c) ==
    /\ c \in refreshing /\ refreshing' = refreshing \ {c}
    /\ Mark({c})
    /\ UNCHANGED <<need, limited, due, round, lane, held, push, unseen>>

\* An attention item opens: its push waits for what the controller owes by now.
OpenItem ==
    /\ Items /\ ~push.open
    /\ push' = [NoPush EXCEPT !.open = TRUE,
                              !.owed = {c \in Cycles : Active(c) /\ (c \in unseen \/ c = job)}]
    /\ UNCHANGED <<need, limited, marks, due, loop, round, lane, held, refreshing, unseen>>

CloseItem ==
    /\ push.open /\ push' = NoPush
    /\ UNCHANGED <<need, limited, marks, due, loop, round, lane, held, refreshing, unseen>>

-----------------------------------------------------------------------------
(* The controller's round.                                                 *)

Keeping(S) == before' = {p \in before : p[1] \in S /\ p[2] \in S}
GivesUp(c) == waiting' = waiting \ {c} /\ Keeping(waiting') /\ behind' = behind \ {c}

\* The loop takes the marks and begins a round, or waits for one. The round leaves out what a
\* command holds, and the job's cycle, whose mark it keeps for the job's end.
Take ==
    /\ loop = "ready"
    /\ IF ~Pending
       THEN loop' = "parked" /\ UNCHANGED <<marks, due, round, lane, push>>
       ELSE LET taken == {c \in Cycles : Active(c) /\ Marked(c)}
                kept == IF everything THEN {c \in Cycles : Active(c)} ELSE Cycles IN
            /\ loop' = "round" /\ everything' = FALSE /\ keys' = {}
            /\ rest' = taken \ (held \cup {job}) /\ UNCHANGED stale
            /\ meanwhile' = (meanwhile \/ job \in taken)
            /\ waiting' = waiting \cap kept /\ Keeping(waiting') /\ behind' = behind \cap kept
            /\ due' = [c \in Cycles |-> IF c \in kept THEN due[c] ELSE "none"]
            /\ push' = [push EXCEPT !.began = push.open]
            /\ UNCHANGED job
    /\ UNCHANGED <<need, limited, held, refreshing, unseen>>

\* The round looks at c, and decides from the record it read as it began.
Looks(c) ==
    /\ loop = "round" /\ c \in rest
    /\ rest' = rest \ {c} /\ stale' = [stale EXCEPT ![c] = "no"]
Decides(c, n) == IF stale[c] = "no" THEN need[c] = n ELSE stale[c] = n
\* Its changes are seen, unless one came since its record was read.
Seen(c) == unseen' = IF stale[c] = "no" THEN unseen \ {c} ELSE unseen
\* Automation has had its chance at it, with what was written before the item opened.
Settled(c) == push' = IF stale[c] = "no" \/ push.began THEN [push EXCEPT !.owed = @ \ {c}] ELSE push
LookAgain(c) == due' = [due EXCEPT ![c] = IF c \in limited THEN "ahead" ELSE "none"]

\* The process itself is busy with the cycle (kernel-busy).
LookBusy(c) ==
    /\ Looks(c) /\ c \in refreshing
    /\ due' = [due EXCEPT ![c] = "none"]
    /\ GivesUp(c)
    /\ UNCHANGED <<need, limited, marks, loop, job, meanwhile, held, refreshing, push, unseen>>

LookIdle(c) ==
    /\ Looks(c) /\ c \notin refreshing /\ Decides(c, "idle")
    /\ LookAgain(c) /\ Seen(c) /\ Settled(c) /\ GivesUp(c)
    /\ UNCHANGED <<need, limited, marks, loop, job, meanwhile, held, refreshing>>

\* A decision that writes, and awaits nothing. What it writes does not call for another at once.
CarryOut(c) ==
    /\ Looks(c) /\ c \notin refreshing /\ stale[c] = "no" /\ need[c] = "fast"
    /\ Becomes(c) /\ need'[c] # "fast"
    /\ \E t \in {"none", "ahead"} : due' = [due EXCEPT ![c] = t]
    /\ Settled(c) /\ GivesUp(c)
    /\ UNCHANGED <<job, meanwhile, held, refreshing>>

\* Contention, with a newer write or another's lock: tried again a second later. Or a refusal,
\* whose stop gives way to the newer write.
LookFails(c) ==
    /\ Looks(c) /\ c \notin refreshing /\ Decides(c, "fast")
    /\ \/ due' = [due EXCEPT ![c] = "retry"]
       \/ stale[c] # "no" /\ UNCHANGED due
    /\ Settled(c) /\ GivesUp(c)
    /\ UNCHANGED <<need, limited, marks, loop, job, meanwhile, held, refreshing, unseen>>

\* A slow decision finds the lane taken, or another waiting first: it keeps its place or takes one.
LookWaits(c) ==
    /\ Looks(c) /\ c \notin refreshing /\ Decides(c, "slow")
    /\ job # NoCycle \/ First \ {c} # {}
    /\ waiting' = waiting \cup {c}
    /\ before' = IF c \in waiting THEN before ELSE before \cup {<<d, c>> : d \in waiting}
    /\ behind' = IF job = NoCycle THEN behind \cup {c} ELSE behind
    /\ LookAgain(c)
    /\ UNCHANGED <<need, limited, marks, loop, job, meanwhile, held, refreshing, push, unseen>>

\* Mutant: the lane is given to whoever comes as it is free.
DispatchAny(c) ==
    /\ Looks(c) /\ c \notin refreshing /\ Decides(c, "slow")
    /\ job = NoCycle
    /\ job' = c /\ meanwhile' = FALSE
    /\ GivesUp(c) /\ Seen(c)
    /\ UNCHANGED <<need, limited, marks, due, loop, held, refreshing, push>>

\* The slow lane is free, and c's turn.
Dispatch(c) ==
    /\ Looks(c) /\ c \notin refreshing /\ Decides(c, "slow")
    /\ job = NoCycle /\ First \subseteq {c}
    /\ job' = c /\ meanwhile' = FALSE
    /\ GivesUp(c) /\ Seen(c)
    /\ UNCHANGED <<need, limited, marks, due, loop, held, refreshing, push>>

\* Mutant: the round ends at the first failure, with cycles left.
EndRoundAnyway ==
    /\ loop = "round"
    /\ loop' = "ready"
    /\ push' = IF job # NoCycle \/ waiting # {}
               THEN [push EXCEPT !.began = FALSE, !.kept = push.kept \/ push.began]
               ELSE [push EXCEPT !.began = FALSE, !.kept = FALSE,
                                 !.passed = push.passed \/ push.kept \/ push.began]
    /\ UNCHANGED <<need, limited, marks, due, rest, stale, lane, held, refreshing, unseen>>

\* Mutant: the round's pass completes though cycles wait for the lane.
EndRoundEarly ==
    /\ loop = "round" /\ rest = {}
    /\ loop' = "ready"
    /\ push' = IF job # NoCycle
               THEN [push EXCEPT !.began = FALSE, !.kept = push.kept \/ push.began]
               ELSE [push EXCEPT !.began = FALSE, !.kept = FALSE,
                                 !.passed = push.passed \/ push.kept \/ push.began]
    /\ UNCHANGED <<need, limited, marks, due, rest, stale, lane, held, refreshing, unseen>>

\* The round ends; its pass completes, with those kept before it, unless the lane is busy.
EndRound ==
    /\ loop = "round" /\ rest = {}
    /\ loop' = "ready"
    /\ push' = IF job # NoCycle \/ waiting # {}
               THEN [push EXCEPT !.began = FALSE, !.kept = push.kept \/ push.began]
               ELSE [push EXCEPT !.began = FALSE, !.kept = FALSE,
                                 !.passed = push.passed \/ push.kept \/ push.began]
    /\ UNCHANGED <<need, limited, marks, due, rest, stale, lane, held, refreshing, unseen>>

-----------------------------------------------------------------------------
(* The slow lane's job.                                                    *)

JobWrites ==
    /\ job # NoCycle /\ Active(job) /\ Becomes(job)
    /\ UNCHANGED <<due, round, lane, held, refreshing, push>>

\* Mutant: only the lane's waiters are marked.
JobEndsAlone ==
    /\ job # NoCycle
    /\ Mark(waiting)
    /\ \/ LookAgain(job)
       \/ due' = [due EXCEPT ![job] = "retry"]
       \/ job \in unseen /\ UNCHANGED due
    /\ job' = NoCycle /\ meanwhile' = FALSE /\ behind' = {}
    /\ IF job \in unseen THEN UNCHANGED push ELSE Settled(job)
    /\ UNCHANGED <<need, limited, round, waiting, before, held, refreshing, unseen>>

\* It ends: done, for a retry, or refused, as somebody wrote, itself or another. Whoever waits is
\* marked, and its own cycle if a round met it meanwhile.
JobEnds ==
    /\ job # NoCycle
    /\ Mark(waiting \cup (IF meanwhile THEN {job} ELSE {}))
    /\ \/ LookAgain(job)
       \/ due' = [due EXCEPT ![job] = "retry"]
       \/ job \in unseen /\ UNCHANGED due
    /\ job' = NoCycle /\ meanwhile' = FALSE /\ behind' = {}
    /\ IF job \in unseen THEN UNCHANGED push ELSE Settled(job)
    /\ UNCHANGED <<need, limited, round, waiting, before, held, refreshing, unseen>>

-----------------------------------------------------------------------------
Look(c) ==
    LookBusy(c) \/ LookIdle(c) \/ CarryOut(c) \/ LookFails(c) \/ LookWaits(c) \/ Dispatch(c)

Around(c) ==
    \/ Write(c) \/ Start(c) \/ SilentChange(c) \/ Expire(c) \/ FireDue(c)
    \/ Hold(c) \/ Release(c) \/ RefreshBegins(c) \/ RefreshEnds(c)

Next ==
    \/ Take \/ EndRound \/ JobWrites \/ JobEnds \/ Sweep \/ OpenItem \/ CloseItem
    \/ \E c \in Cycles : Look(c) \/ Around(c)

Spec == Init /\ [][Next]_vars

\* The loop and its timers run, and what awaits settles; a write of the controller's own is not
\* always met by another's.
Fairness ==
    /\ WF_vars(Take) /\ WF_vars(EndRound) /\ WF_vars(JobEnds) /\ WF_vars(Sweep)
    /\ \A c \in Cycles :
        /\ WF_vars(Look(c)) /\ SF_vars(CarryOut(c))
        /\ WF_vars(FireDue(c)) /\ WF_vars(RefreshEnds(c))

FairSpec == Spec /\ Fairness

-----------------------------------------------------------------------------
(* Properties.                                                             *)

TypeOK ==
    /\ need \in [Cycles -> Needs] /\ limited \subseteq Cycles
    /\ everything \in BOOLEAN /\ keys \subseteq Cycles /\ (everything => keys = {})
    /\ due \in [Cycles -> DueTimes]
    /\ loop \in {"parked", "ready", "round"}
    /\ rest \subseteq Cycles
    /\ stale \in [Cycles -> Needs \cup {"no"}] /\ \A c \in Cycles : stale[c] # "no" => c \in rest
    /\ (loop # "round" => rest = {})
    /\ job \in Cycles \cup {NoCycle} /\ meanwhile \in BOOLEAN
    /\ waiting \subseteq Cycles /\ before \subseteq waiting \X waiting /\ behind \subseteq waiting
    /\ held \subseteq Cycles /\ refreshing \subseteq Cycles /\ unseen \subseteq Cycles
    /\ push \in [open : BOOLEAN, owed : SUBSET Cycles, began : BOOLEAN,
                 kept : BOOLEAN, passed : BOOLEAN]

\* What will bring the controller to c without the sweep. The end of the lane's job marks whoever
\* waits for it; a place in the line alone brings nothing.
Awaited(c) ==
    \/ Marked(c) \/ c \in rest
    \/ c \in held \cup refreshing
    \/ c \in waiting /\ job # NoCycle
    \/ c = job /\ meanwhile
    \/ due[c] = "retry"

\* The controller comes to a cycle that changed. One exception: a waiter that a look left to one before
\* it while the lane was free. If that one gives up its place, only the sweep comes (see LaneServed).
ChangesKept == \A c \in unseen : Active(c) => Awaited(c) \/ c \in behind

\* A limit ahead has its due time, or something else brings the controller to the cycle; or the lane
\* carries out the cycle's own decision, and the job's end is to set the due time. One that comes before
\* that end is left to the sweep (Expire): a look sets no due time that has passed (next-look.ts:30).
LimitsKept == \A c \in limited : Active(c) /\ (due[c] = "ahead" \/ c = job \/ Awaited(c))

\* No change and no deadline is lost between the marks, the rounds, the lane's job and the commands'
\* holds: without the sweep the controller comes to a cycle that changed, but for the waiters named at
\* ChangesKept, and to a deadline, such waiters' too, but for those named at LimitsKept; and it does
\* not sleep on a mark.
NothingUnseen ==
    /\ ChangesKept /\ LimitsKept
    /\ loop = "parked" => ~Pending

\* A cycle whose decision the slow lane carries out is in no round: nothing else acts on it.
JobApart == job \notin rest

\* What makes NothingUnseen inductive: a record that changed under a round is marked again, and the
\* job's cycle is looked at after the job if it changed.
StaleMarked == \A c \in Cycles : stale[c] # "no" => everything
JobKept == job \in unseen /\ Active(job) => Marked(job) \/ meanwhile

Inductive == TypeOK /\ NothingUnseen /\ JobApart /\ StaleMarked /\ JobKept

\* quietSince: a pass that began after the item opened is complete, or the controller is idle.
Quiet ==
    \/ push.passed
    \/ ~Pending /\ loop # "round" /\ job = NoCycle /\ waiting = {} /\ \A c \in Cycles : due[c] # "retry"

\* When a push stops waiting for the controller, each cycle that had a change to decide as its item
\* opened has been decided, is busy elsewhere, or is marked or due again. None waits for the lane.
PushesWait ==
    [][push.open /\ push'.open /\ ~Quiet /\ Quiet' =>
        \A c \in push'.owed :
            Active(c)' => c \in held' \cup refreshing' \/ Marked(c)' \/ due'[c] = "retry"]_vars

\* A cycle that needs the lane is admitted when it frees: the controller does not sleep on it.
LaneServed == loop = "parked" /\ job = NoCycle => waiting \subseteq held

\* Every cycle that waits for the lane gets it, gives it up, or is held; and a decision that awaits
\* nothing, such as a deadline's stop, is carried out however busy the lane is with others.
EveryoneServed == \A c \in Cycles :
    /\ c \in waiting ~> c \notin waiting \/ c \in held
    /\ need[c] = "fast" ~> need[c] # "fast" \/ c \in held \cup refreshing \cup {job}
=============================================================================
