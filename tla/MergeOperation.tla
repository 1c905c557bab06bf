--------------------------- MODULE MergeOperation ---------------------------
(***************************************************************************)
(* Merges of reviewed worktrees into one repository's integration target   *)
(* (apps/server/src/services/merge/, packages/git/src/merge.ts), beside    *)
(* what else moves a worktree or the target: agents, updates, removals,    *)
(* people using Git, and a daemon that crashes between any two awaits.     *)
(*                                                                         *)
(* A merge is reserved in storage, made in Git, recorded, and cleaned up.  *)
(* No transaction spans the two, so recovery reads the target's history.   *)
(* An operator called a mutant is a bug the run must find in the one that  *)
(* follows it.                                                             *)
(***************************************************************************)
EXTENDS Naturals, FiniteSets, Sequences

CONSTANTS
    Worktrees,
    MaxCommits,    \* bounds: commits in the repository, with the base commit,
    MaxOperations, \*   merge operations,
    MaxVersion,    \*   a worktree's version, which each update bumps,
    MaxCrashes     \*   and crashes of the daemon

ASSUME BoundsAssumption ==
    /\ IsFiniteSet(Worktrees)
    /\ MaxCommits \in Nat \ {0} /\ MaxOperations \in Nat
    /\ MaxVersion \in Nat \ {0} /\ MaxCrashes \in Nat

VARIABLES
    commits,   \* a sequence of [anc, line, op]: ancestors, first-parent history, merge marker
    target,    \* the integration branch's commit
    head,      \* [Worktrees -> commit]: the worktree branch's last commit
    branch,    \* worktrees whose branch still exists
    checkout,  \* [Worktrees -> {"clean", "dirty", "gone"}]
    row,       \* [Worktrees -> [status, version, mergeSha]]: the worktree's row
    run,       \* [Worktrees -> [kind, state, head, target, version]]: its latest run
    ops,       \* a sequence of [tree, status, source, target, mergeSha]: merge operations
    stage,     \* [Worktrees -> Stages]: what the daemon does there, holding guard and lane
    local,     \* [Worktrees -> [head, target, merge]]: what that operation has read
    crashes

git == <<commits, target, head, branch, checkout>>
records == <<row, run, ops>>
vars == <<git, records, stage, local, crashes>>

Commits == 1..MaxCommits
None == 0

Stages == {"idle",
           "gating", "gated", "inspecting", "moving", "failing", "recording",  \* a merge
           "cleaning", "removing", "deleting", "cleaned", "unclean",           \* its cleanup
           "reading", "updating",                                              \* an update
           "discarding", "marking"}                                            \* a removal

Statuses == {"reserved", "failed", "merged", "cleaned"}
NoRead == [head |-> None, target |-> None, merge |-> None]

Anc(c) == commits[c].anc
Line(c) == commits[c].line

\* A new commit c over parents p (first) and ps (all), with a merge's marker or none.
Commit(p, ps, mark) ==
    LET c == Len(commits) + 1
    IN Append(commits, [anc  |-> {c} \cup UNION {Anc(q) : q \in ps},
                        line |-> Line(p) \cup {c},
                        op   |-> mark])
New == Len(commits) + 1
Room == Len(commits) < MaxCommits

OpsOf(w) == {o \in 1..Len(ops) : ops[o].tree = w}
Latest(w) == CHOOSE o \in OpsOf(w) : \A p \in OpsOf(w) : p <= o
LatestStatus(w) == IF OpsOf(w) = {} THEN "none" ELSE ops[Latest(w)].status
Reserved(w) == LatestStatus(w) = "reserved"

Live(w) == run[w].state = "live"

Init ==
    /\ commits = <<[anc |-> {1}, line |-> {1}, op |-> None]>>
    /\ target = 1 /\ head = [w \in Worktrees |-> 1]
    /\ branch = Worktrees /\ checkout = [w \in Worktrees |-> "clean"]
    /\ row = [w \in Worktrees |-> [status |-> "active", version |-> 1, mergeSha |-> None]]
    /\ run = [w \in Worktrees |-> [kind |-> "none", state |-> "ended",
                                   head |-> None, target |-> None, version |-> None]]
    /\ ops = <<>>
    /\ stage = [w \in Worktrees |-> "idle"]
    /\ local = [w \in Worktrees |-> NoRead]
    /\ crashes = 0

-----------------------------------------------------------------------------
(* People and agents.                                                      *)

\* Someone commits to the target: no guard of the daemon's is in the way.
OutsideTarget ==
    /\ Room
    /\ commits' = Commit(target, {target}, None) /\ target' = New
    /\ UNCHANGED <<head, branch, checkout, records, stage, local, crashes>>

\* Someone edits the worktree, or commits to its branch.
OutsideEdit(w) ==
    /\ checkout[w] = "clean"
    /\ checkout' = [checkout EXCEPT ![w] = "dirty"]
    /\ UNCHANGED <<commits, target, head, branch, records, stage, local, crashes>>

OutsideCommit(w) ==
    /\ w \in branch /\ Room
    /\ commits' = Commit(head[w], {head[w]}, None) /\ head' = [head EXCEPT ![w] = New]
    /\ checkout' = [checkout EXCEPT ![w] = IF @ = "gone" THEN @ ELSE "clean"]
    /\ UNCHANGED <<target, branch, records, stage, local, crashes>>

Launchable(w) ==
    /\ stage[w] = "idle" /\ row[w].status = "active" /\ checkout[w] # "gone"
    /\ ~Live(w) /\ ~Reserved(w)

LaunchWork(w) ==
    /\ Launchable(w)
    /\ run' = [run EXCEPT ![w] = [kind |-> "work", state |-> "live",
                                  head |-> None, target |-> None, version |-> None]]
    /\ UNCHANGED <<git, row, ops, stage, local, crashes>>

\* A review records the branches it inspects.
LaunchReview(w) ==
    /\ Launchable(w) /\ checkout[w] = "clean"
    /\ target \in Anc(head[w])
    /\ run' = [run EXCEPT ![w] = [kind |-> "review", state |-> "live", head |-> head[w],
                                  target |-> target, version |-> row[w].version]]
    /\ UNCHANGED <<git, row, ops, stage, local, crashes>>

AgentCommits(w) ==
    /\ Live(w) /\ run[w].kind = "work" /\ Room
    /\ commits' = Commit(head[w], {head[w]}, None) /\ head' = [head EXCEPT ![w] = New]
    /\ UNCHANGED <<target, branch, checkout, records, stage, local, crashes>>

EndRun(w) ==
    /\ Live(w)
    /\ \E s \in {"ended"} \cup IF run[w].kind = "review" THEN {"mergeable"} ELSE {} :
         run' = [run EXCEPT ![w].state = s]
    /\ UNCHANGED <<git, row, ops, stage, local, crashes>>
-----------------------------------------------------------------------------
(* Every operation below holds the worktree's guard and the repository's   *)
(* merge lane, and gives both up when it ends or throws.                   *)

LaneFree == \A v \in Worktrees : stage[v] = "idle"
To(w, s) == stage' = [stage EXCEPT ![w] = s]
Done(w) == To(w, "idle") /\ local' = [local EXCEPT ![w] = NoRead]
Saved(o, s) == ops' = [ops EXCEPT ![o].status = s]

\* An await fails or an exception is thrown: only what is in storage and in Git stays.
Throw(w) ==
    /\ stage[w] # "idle" /\ Done(w)
    /\ UNCHANGED <<git, records, crashes>>

\* changeWorktree: an update takes in the target, and bumps the version first, so that reviews made
\* before it no longer count.
BeginUpdate(w) ==
    /\ LaneFree /\ row[w].status = "active" /\ ~Live(w) /\ ~Reserved(w)
    /\ checkout[w] = "clean"
    /\ To(w, "reading")
    /\ local' = [local EXCEPT ![w] = [head |-> head[w], target |-> target, merge |-> None]]
    /\ UNCHANGED <<git, records, crashes>>

RequestUpdate(w) ==
    /\ stage[w] = "reading" /\ row[w].status = "active" /\ row[w].version < MaxVersion
    /\ row' = [row EXCEPT ![w].version = @ + 1]
    /\ To(w, "updating")
    /\ UNCHANGED <<git, run, ops, local, crashes>>

Update(w) ==
    /\ stage[w] = "updating" /\ checkout[w] = "clean" /\ head[w] = local[w].head
    /\ IF local[w].target \in Anc(head[w])
       THEN UNCHANGED <<commits, head>>
       ELSE /\ Room
            /\ commits' = Commit(head[w], {head[w], local[w].target}, None)
            /\ head' = [head EXCEPT ![w] = New]
    /\ Done(w)
    /\ UNCHANGED <<target, branch, checkout, records, crashes>>

\* removeWorktree: the operator may choose to discard what is uncommitted; the branch stays.
BeginRemoval(w) ==
    /\ LaneFree /\ row[w].status = "active" /\ ~Live(w) /\ ~Reserved(w)
    /\ To(w, "discarding")
    /\ UNCHANGED <<git, records, local, crashes>>

Discard(w) ==
    /\ stage[w] = "discarding"
    /\ checkout' = [checkout EXCEPT ![w] = "gone"]
    /\ To(w, "marking")
    /\ UNCHANGED <<commits, target, head, branch, records, local, crashes>>

MarkRemoved(w) ==
    /\ stage[w] = "marking"
    /\ row' = [row EXCEPT ![w].status = "removed"]
    /\ Done(w)
    /\ UNCHANGED <<git, run, ops, crashes>>

-----------------------------------------------------------------------------
(* A merge: merge/executor.ts.                                             *)

\* A new merge, the recovery of a reserved one, or another cleanup of a recorded one.
BeginMerge(w) ==
    /\ LaneFree
    /\ To(w, CASE Reserved(w) -> "inspecting"
               [] LatestStatus(w) \in {"merged", "cleaned"} -> "recording"
               [] OTHER -> "gating")
    /\ local' = [local EXCEPT ![w].merge =
                    IF OpsOf(w) = {} THEN None ELSE ops[Latest(w)].mergeSha]
    /\ UNCHANGED <<git, records, crashes>>

\* Mutant: only the target's last commit is looked at.
LandedLast(o) == {c \in {target} : commits[c].op = o}

\* inspectMergeOperation: the merge's marker in the target's history since the reserved target.
Landed(o) == {c \in Line(target) \ Line(ops[o].target) : commits[c].op = o}

\* Mutant: only the merge under way looks for its marker.
InspectFindsNow(w) ==
    /\ stage[w] = "failing"
    /\ \E c \in Landed(Latest(w)) :
         /\ local' = [local EXCEPT ![w].merge = c]
         /\ To(w, "recording")
    /\ UNCHANGED <<git, records, crashes>>

InspectFinds(w) ==
    /\ stage[w] \in {"inspecting", "failing"}
    /\ \E c \in Landed(Latest(w)) :
         /\ local' = [local EXCEPT ![w].merge = c]
         /\ To(w, "recording")
    /\ UNCHANGED <<git, records, crashes>>

\* Mutant: a merge that Git reports as failed is not looked for.
InspectMissesUnasked(w) ==
    /\ stage[w] \in {"inspecting", "failing"}
    /\ stage[w] = "inspecting" => Landed(Latest(w)) = {}
    /\ Saved(Latest(w), "failed")
    /\ To(w, IF stage[w] = "inspecting" THEN "gating" ELSE "idle")
    /\ UNCHANGED <<git, row, run, local, crashes>>

\* Nothing was merged: the reservation has failed. Recovering, the merge starts afresh.
InspectMisses(w) ==
    /\ stage[w] \in {"inspecting", "failing"}
    /\ Landed(Latest(w)) = {}
    /\ Saved(Latest(w), "failed")
    /\ To(w, IF stage[w] = "inspecting" THEN "gating" ELSE "idle")
    /\ UNCHANGED <<git, row, run, local, crashes>>

\* mergeGateFor, the look at the checkout, and assertReview.
Gate(w) ==
    /\ stage[w] = "gating"
    /\ row[w].status = "active" /\ ~Live(w)
    /\ run[w].kind = "review" /\ run[w].state = "mergeable"
    /\ run[w].version = row[w].version
    /\ checkout[w] = "clean"
    /\ run[w].head = head[w] /\ run[w].target = target
    /\ To(w, "gated")
    /\ UNCHANGED <<git, records, local, crashes>>

\* Mutant: the reservation names the commits this operation has read, and it has read none.
ReserveRead(w) ==
    /\ stage[w] = "gated" /\ Len(ops) < MaxOperations
    /\ ops' = Append(ops, [tree |-> w, status |-> "reserved", source |-> local[w].head,
                           target |-> local[w].target, mergeSha |-> None])
    /\ To(w, "moving")
    /\ UNCHANGED <<git, row, run, local, crashes>>

\* Mutant: the reservation names the branches as they are.
ReserveHead(w) ==
    /\ stage[w] = "gated" /\ Len(ops) < MaxOperations
    /\ ops' = Append(ops, [tree |-> w, status |-> "reserved", source |-> head[w],
                           target |-> target, mergeSha |-> None])
    /\ To(w, "moving")
    /\ UNCHANGED <<git, row, run, local, crashes>>

\* The reservation names the commits that were reviewed, whatever the branches hold by now.
Reserve(w) ==
    /\ stage[w] = "gated" /\ Len(ops) < MaxOperations
    /\ ops' = Append(ops, [tree |-> w, status |-> "reserved", source |-> run[w].head,
                           target |-> run[w].target, mergeSha |-> None])
    /\ To(w, "moving")
    /\ UNCHANGED <<git, row, run, local, crashes>>

\* mergeBranch: the target moves from the reserved commit only. Its caller may not learn of it: the
\* command is killed after the move, or a later one fails.
MoveTarget(w) ==
    LET o == Latest(w) IN
    /\ stage[w] = "moving" /\ target = ops[o].target
    /\ ops[o].source \notin Anc(target) /\ Room
    /\ commits' = Commit(target, {target, ops[o].source}, o) /\ target' = New
    /\ \/ To(w, "recording") /\ local' = [local EXCEPT ![w].merge = New]
       \/ To(w, "failing") /\ UNCHANGED local
    /\ UNCHANGED <<head, branch, checkout, records, crashes>>

\* A source the target already contains gives the target itself.
MoveNothing(w) ==
    LET o == Latest(w) IN
    /\ stage[w] = "moving" /\ target = ops[o].target
    /\ ops[o].source \in Anc(target)
    /\ local' = [local EXCEPT ![w].merge = target]
    /\ To(w, "recording")
    /\ UNCHANGED <<git, records, crashes>>

\* A conflict, a target that moved, a checkout in the way, a failed command.
MoveFails(w) ==
    /\ stage[w] = "moving" /\ To(w, "failing")
    /\ UNCHANGED <<git, records, local, crashes>>

\* Mutant: the operation and the worktree's row are not saved in one transaction.
RecordApart(w) ==
    /\ stage[w] = "recording"
    /\ IF row[w].mergeSha # None
       THEN UNCHANGED <<row, ops>>
       ELSE /\ row[w].status = "active"
            /\ row' = [row EXCEPT ![w].status = "removed", ![w].mergeSha = local[w].merge]
            /\ UNCHANGED ops
    /\ To(w, "cleaning")
    /\ UNCHANGED <<git, run, local, crashes>>

\* The merge's transaction; one already recorded is only cleaned up again.
Record(w) ==
    /\ stage[w] = "recording"
    /\ IF row[w].mergeSha # None
       THEN UNCHANGED <<row, ops>>
       ELSE /\ row[w].status = "active"
            /\ ops' = [ops EXCEPT ![Latest(w)].status = "merged",
                                  ![Latest(w)].mergeSha = local[w].merge]
            /\ row' = [row EXCEPT ![w].status = "removed", ![w].mergeSha = local[w].merge]
    /\ To(w, "cleaning")
    /\ UNCHANGED <<git, run, local, crashes>>

-----------------------------------------------------------------------------
(* cleanupMerge: removing what the merge no longer needs.                  *)

Source(w) == ops[Latest(w)].source

CleanupLooks(w) ==
    /\ stage[w] = "cleaning"
    /\ To(w, IF checkout[w] # "gone" /\ head[w] # Source(w) THEN "unclean" ELSE "removing")
    /\ UNCHANGED <<git, records, local, crashes>>

\* Without force: a checkout with uncommitted work stays.
RemoveCheckout(w) ==
    /\ stage[w] = "removing"
    /\ IF checkout[w] = "dirty" THEN To(w, "unclean") /\ UNCHANGED checkout
       ELSE To(w, "deleting") /\ checkout' = [checkout EXCEPT ![w] = "gone"]
    /\ UNCHANGED <<commits, target, head, branch, records, local, crashes>>

\* Mutant: the branch is deleted as it is.
DeleteBranchForced(w) ==
    /\ stage[w] = "deleting"
    /\ To(w, "cleaned") /\ branch' = branch \ {w}
    /\ UNCHANGED <<commits, target, head, checkout, records, local, crashes>>

\* Compare-and-delete: a commit added after the merge keeps the branch.
DeleteBranch(w) ==
    /\ stage[w] = "deleting"
    /\ IF w \in branch /\ (head[w] # Source(w) \/ head[w] \notin Anc(target))
       THEN To(w, "unclean") /\ UNCHANGED branch
       ELSE To(w, "cleaned") /\ branch' = branch \ {w}
    /\ UNCHANGED <<commits, target, head, checkout, records, local, crashes>>

CleanupFails(w) ==
    /\ stage[w] \in {"removing", "deleting"} /\ To(w, "unclean")
    /\ UNCHANGED <<git, records, local, crashes>>

FinishCleanup(w) ==
    /\ stage[w] \in {"cleaned", "unclean"}
    /\ Saved(Latest(w), IF stage[w] = "cleaned" THEN "cleaned" ELSE "merged")
    /\ Done(w)
    /\ UNCHANGED <<git, row, run, crashes>>

-----------------------------------------------------------------------------
\* The daemon stops anywhere and starts again; its Git commands end with it, and live runs are ended.
Crash ==
    /\ crashes < MaxCrashes /\ crashes' = crashes + 1
    /\ stage' = [w \in Worktrees |-> "idle"] /\ local' = [w \in Worktrees |-> NoRead]
    /\ run' = [w \in Worktrees |-> IF Live(w) THEN [run[w] EXCEPT !.state = "ended"] ELSE run[w]]
    /\ UNCHANGED <<git, row, ops>>

MergeStep(w) ==
    \/ InspectFinds(w) \/ InspectMisses(w) \/ Gate(w) \/ Reserve(w)
    \/ MoveTarget(w) \/ MoveNothing(w) \/ MoveFails(w) \/ Record(w)
    \/ CleanupLooks(w) \/ RemoveCheckout(w) \/ DeleteBranch(w) \/ CleanupFails(w) \/ FinishCleanup(w)

TreeStep(w) == RequestUpdate(w) \/ Update(w) \/ Discard(w) \/ MarkRemoved(w)

OtherStep(w) ==
    \/ BeginMerge(w) \/ BeginUpdate(w) \/ BeginRemoval(w)
    \/ OutsideEdit(w) \/ OutsideCommit(w)
    \/ LaunchWork(w) \/ LaunchReview(w) \/ AgentCommits(w) \/ EndRun(w)

Next ==
    \/ \E w \in Worktrees : MergeStep(w) \/ TreeStep(w) \/ OtherStep(w) \/ Throw(w)
    \/ OutsideTarget \/ Crash

Spec == Init /\ [][Next]_vars

\* An operation's awaits settle, whichever way.  A reserved merge is tried again, by the scheduler of an
\* automatic roadmap or by an operator, and Git and storage do not fail it every time.
Fairness ==
    \A w \in Worktrees :
        /\ WF_vars(MergeStep(w) \/ TreeStep(w) \/ Throw(w))
        /\ SF_vars(Reserved(w) /\ BeginMerge(w))
        /\ SF_vars(InspectFinds(w))
        /\ SF_vars(Record(w))

FairSpec == Spec /\ Fairness
-----------------------------------------------------------------------------
(* Properties.                                                             *)

TypeOK ==
    /\ commits \in Seq([anc : SUBSET Nat, line : SUBSET Nat, op : Nat])
    /\ ops \in Seq([tree : Worktrees, status : Statuses, source : Nat, target : Nat, mergeSha : Nat])
    /\ target \in 1..Len(commits) /\ Len(commits) \in Commits
    /\ \A c \in 1..Len(commits) : /\ commits[c].anc \subseteq 1..c /\ commits[c].line \subseteq 1..c
                                  /\ commits[c].op \in 0..Len(ops)
    /\ head \in [Worktrees -> 1..Len(commits)]
    /\ branch \subseteq Worktrees
    /\ checkout \in [Worktrees -> {"clean", "dirty", "gone"}]
    /\ row \in [Worktrees -> [status : {"active", "removed"}, version : 1..MaxVersion,
                              mergeSha : 0..Len(commits)]]
    /\ run \in [Worktrees -> [kind : {"none", "work", "review"},
                              state : {"live", "mergeable", "ended"},
                              head : 0..Len(commits), target : 0..Len(commits),
                              version : 0..MaxVersion]]
    /\ \A o \in 1..Len(ops) : /\ ops[o].source \in 1..Len(commits) /\ ops[o].target \in 1..Len(commits)
                              /\ ops[o].mergeSha \in 0..Len(commits)
    /\ stage \in [Worktrees -> Stages]
    /\ local \in [Worktrees -> [head : 0..Len(commits), target : 0..Len(commits),
                                merge : 0..Len(commits)]]
    /\ crashes \in 0..MaxCrashes

Merges == {c \in 1..Len(commits) : commits[c].op # None}

\* A merge brings into the target what its review saw, and nothing else: the latest run of the worktree
\* is a mergeable review, made at the worktree's version, whose head held the target as it is.
MergesAreReviewed ==
    [][\A c \in (1..Len(commits')) \ (1..Len(commits)) : commits'[c].op # None =>
          LET w == ops[commits'[c].op].tree
          IN /\ run[w].kind = "review" /\ run[w].state = "mergeable"
             /\ run[w].version = row[w].version
             /\ commits'[c].anc = Anc(run[w].head) \cup {c}]_vars

\* docs/architecture.md:472: "a finished merge is never repeated", whatever crashed or failed in between.
MergedOnce ==
    \A c, d \in Merges : ops[commits[c].op].tree = ops[commits[d].op].tree => c = d

\* The executor implements the abstract life of a merge: what Git has made is never given up, and what
\* storage records is the commit that Git made.
Life == INSTANCE MergeLife
    WITH reserved <- {w \in Worktrees : Reserved(w)},
         merges <- {<<ops[commits[c].op].tree, c>> : c \in Merges},
         recorded <- [w \in Worktrees |-> row[w].mergeSha]
ImplementsMergeLife == Life!Spec

\* A reservation that is given up has merged nothing.
FailedMergesAbsent == \A c \in Merges : ops[commits[c].op].status # "failed"

\* What storage records as merged is in the target's history with the reviewed commit, and the row of
\* the worktree and its operation agree.
RecordedIsMerged ==
    \A w \in Worktrees :
        /\ row[w].mergeSha # None <=> LatestStatus(w) \in {"merged", "cleaned"}
        /\ row[w].mergeSha # None => row[w].mergeSha \in Line(target) /\ Source(w) \in Anc(row[w].mergeSha)

\* A merge that Git has made is recorded in the end, whatever kept its daemon from it at first.
FinishedMergesRecorded ==
    \A o \in 1..MaxOperations :
        (\E c \in Merges : commits[c].op = o) ~>
            (\E p \in 1..Len(ops) : p = o /\ ops[p].status \in {"merged", "cleaned"})

\* A cleanup loses no commit: a branch is gone only once the target holds all of it.
NoCommitLost == \A w \in Worktrees : w \notin branch => head[w] \in Anc(target)
-----------------------------------------------------------------------------
\* What these rest on, as an inductive invariant. A commit holds what its ancestors hold.
History == \A c \in 1..Len(commits) :
    c \in Anc(c) /\ c \in Line(c) /\ \A a \in Anc(c) : Anc(a) \subseteq Anc(c)

\* The guard and the lane: one operation at a time.
OneInLane == \A v, w \in Worktrees : stage[v] # "idle" /\ stage[w] # "idle" => v = w

\* A worktree has a last operation if it has any, and those before it have failed.
InTurn ==
    /\ \A o, p \in 1..Len(ops) : o < p /\ ops[o].tree = ops[p].tree => ops[o].status = "failed"
    /\ \A w \in Worktrees : OpsOf(w) # {} => \E o \in OpsOf(w) : \A p \in OpsOf(w) : p <= o

\* A merge is on the target since the commit its operation reserved, with the source it reserved.
MergesLand == \A c \in Merges :
    LET o == commits[c].op
    IN c \in Line(target) /\ c \notin Line(ops[o].target) /\ ops[o].source \in Anc(c)

\* A review's head holds the target it saw.
ReviewsHold == \A w \in Worktrees :
    run[w].kind = "review" => run[w].head \in 1..Len(commits) /\ run[w].target \in Anc(run[w].head)

\* What storage and Git hold at each stage of an operation.
Unmerged(w) == \A o \in OpsOf(w) : ops[o].status = "failed"
Reviewed(w) == /\ run[w].kind = "review" /\ run[w].state = "mergeable"
               /\ run[w].version = row[w].version
Recordable(w) ==
    /\ LatestStatus(w) \in {"reserved", "merged", "cleaned"}
    /\ row[w].mergeSha = None => local[w].merge \in Line(target) /\ Source(w) \in Anc(local[w].merge)
StageAgrees(w) ==
    /\ stage[w] \in {"gating", "gated"} => Unmerged(w)
    /\ stage[w] = "gated" => Reviewed(w)
    /\ stage[w] \in {"inspecting", "moving", "failing"} => Reserved(w)
    /\ stage[w] = "moving" =>
        Reviewed(w) /\ Source(w) = run[w].head /\ ops[Latest(w)].target = run[w].target
    /\ stage[w] = "recording" => Recordable(w)
    /\ stage[w] \in {"cleaning", "removing", "deleting", "cleaned", "unclean"} =>
        row[w].mergeSha # None
    /\ stage[w] \in {"reading", "updating"} => local[w].target # None
    /\ stage[w] = "updating" => row[w].status = "active"
StagesAgree == \A w \in Worktrees : StageAgrees(w)

\* A live run's worktree is neither merged nor being merged, and a branch is only deleted when it is.
IsApart(w) ==
    /\ Live(w) => stage[w] \in {"idle", "gating"} /\ ~Reserved(w) /\ row[w].status = "active"
    /\ row[w].mergeSha # None \/ w \notin branch => row[w].status = "removed"
LiveApart == \A w \in Worktrees : IsApart(w)

\* An operation about to record its merge names the commit that Git has made for it, if there is one.
NamesMerge == \A w \in Worktrees :
    stage[w] = "recording" /\ row[w].mergeSha = None =>
        \A c \in Merges : commits[c].op = Latest(w) => c = local[w].merge

Inductive ==
    /\ TypeOK /\ History /\ OneInLane /\ InTurn /\ MergesLand /\ ReviewsHold /\ StagesAgree
    /\ LiveApart /\ MergedOnce /\ FailedMergesAbsent /\ RecordedIsMerged /\ NoCommitLost
=============================================================================
