------------------------ MODULE MergeOperationProofs ------------------------
(***************************************************************************)
(* TLAPS proofs about MergeOperation, for any worktrees, any history and   *)
(* any number of operations and crashes, and that it implements MergeLife. *)
(***************************************************************************)
EXTENDS MergeOperation, SequenceTheorems, TLAPS

CommitRecs == [anc : SUBSET Nat, line : SUBSET Nat, op : Nat]
OpRecs == [tree : Worktrees, status : Statuses, source : Nat, target : Nat, mergeSha : Nat]

-----------------------------------------------------------------------------
(* What a step may do to the history and to the operations.                *)

\* The parts of the type invariant.
LEMMA Types ==
    ASSUME TypeOK
    PROVE  /\ Len(commits) \in Nat /\ Len(ops) \in Nat /\ ops \in Seq(OpRecs)
           /\ target \in 1..Len(commits)
           /\ \A c \in 1..Len(commits) : /\ Anc(c) \subseteq 1..c /\ Line(c) \subseteq 1..c
                                         /\ commits[c].op \in 0..Len(ops)
           /\ \A o \in 1..Len(ops) : /\ ops[o].source \in 1..Len(commits)
                                     /\ ops[o].target \in 1..Len(commits)
                                     /\ ops[o] \in OpRecs
           /\ \A w \in Worktrees : head[w] \in 1..Len(commits)
<1>1. ops \in Seq(OpRecs) /\ Len(ops) \in Nat /\ Len(commits) \in Nat
  BY LenProperties DEF TypeOK, OpRecs
<1>2. \A o \in 1..Len(ops) : ops[o] \in OpRecs
  BY <1>1, ElementOfSeq
<1> QED
  BY <1>1, <1>2 DEF TypeOK, Anc, Line

\* What was read of a worktree names commits that are there.
LEMMA ReadTyped ==
    ASSUME TypeOK, NEW w \in Worktrees
    PROVE  /\ local[w].head \in 0..Len(commits) /\ local[w].target \in 0..Len(commits)
           /\ local[w].merge \in 0..Len(commits)
BY DEF TypeOK

\* A worktree that has operations has a last one.
LEMMA LatestIs ==
    ops \in Seq(OpRecs) /\ InTurn =>
        \A w \in Worktrees : OpsOf(w) # {} =>
            Latest(w) \in OpsOf(w) /\ \A p \in OpsOf(w) : p <= Latest(w)
<1> SUFFICES ASSUME ops \in Seq(OpRecs), InTurn, NEW w \in Worktrees, OpsOf(w) # {}
             PROVE  Latest(w) \in OpsOf(w) /\ \A p \in OpsOf(w) : p <= Latest(w)
  OBVIOUS
<1>1. \E o \in OpsOf(w) : \A p \in OpsOf(w) : p <= o
  BY DEF InTurn
<1> QED
  BY <1>1 DEF Latest

\* What is not written stays.
LEMMA OpsStay ==
    ASSUME UNCHANGED ops, NEW w
    PROVE  /\ OpsOf(w)' = OpsOf(w) /\ Latest(w)' = Latest(w)
           /\ LatestStatus(w)' = LatestStatus(w) /\ Reserved(w)' = Reserved(w)
           /\ Source(w)' = Source(w)
<1>1. OpsOf(w)' = OpsOf(w)
  BY DEF OpsOf
<1>2. Latest(w)' = Latest(w)
  BY <1>1 DEF Latest
<1> QED
  BY <1>1, <1>2 DEF LatestStatus, Reserved, Source

\* An operation's record is written: the operations of every worktree are the same.
LEMMA OpsSaved ==
    ASSUME ops \in Seq(OpRecs), NEW o \in 1..Len(ops), NEW r \in OpRecs, r.tree = ops[o].tree,
           ops' = [ops EXCEPT ![o] = r]
    PROVE  /\ ops' \in Seq(OpRecs) /\ Len(ops') = Len(ops)
           /\ \A p \in 1..Len(ops) : ops'[p] = IF p = o THEN r ELSE ops[p]
           /\ \A w : OpsOf(w)' = OpsOf(w) /\ Latest(w)' = Latest(w)
<1>1. ops' \in Seq(OpRecs) /\ Len(ops') = Len(ops)
      /\ \A p \in 1..Len(ops) : ops'[p] = IF p = o THEN r ELSE ops[p]
  BY ExceptSeq
<1>2. ASSUME NEW w PROVE OpsOf(w)' = OpsOf(w)
  BY <1>1 DEF OpsOf
<1>3. ASSUME NEW w PROVE Latest(w)' = Latest(w)
  BY <1>2 DEF Latest
<1> QED
  BY <1>1, <1>2, <1>3

\* An operation is added: it is its worktree's last.
LEMMA OpsAdded ==
    ASSUME ops \in Seq(OpRecs), NEW r \in OpRecs, ops' = Append(ops, r)
    PROVE  /\ ops' \in Seq(OpRecs) /\ Len(ops') = Len(ops) + 1
           /\ \A p \in 1..Len(ops) : ops'[p] = ops[p]
           /\ ops'[Len(ops) + 1] = r
           /\ \A w : w # r.tree => OpsOf(w)' = OpsOf(w) /\ Latest(w)' = Latest(w)
           /\ OpsOf(r.tree)' = OpsOf(r.tree) \cup {Len(ops) + 1}
           /\ Latest(r.tree)' = Len(ops) + 1
<1>1. /\ ops' \in Seq(OpRecs) /\ Len(ops') = Len(ops) + 1
      /\ \A p \in 1..Len(ops) : ops'[p] = ops[p]
      /\ ops'[Len(ops) + 1] = r
  BY AppendProperties
<1>2. Len(ops) \in Nat
  BY LenProperties
<1>3. ASSUME NEW w, w # r.tree PROVE OpsOf(w)' = OpsOf(w)
  BY <1>1, <1>2, <1>3 DEF OpsOf
<1>4. ASSUME NEW w, w # r.tree PROVE Latest(w)' = Latest(w)
  BY <1>3, <1>4 DEF Latest
<1>5. OpsOf(r.tree)' = OpsOf(r.tree) \cup {Len(ops) + 1}
  BY <1>1, <1>2 DEF OpsOf
<1>6. Latest(r.tree)' = Len(ops) + 1
  <2>1. \A o \in OpsOf(r.tree)' : o \in Nat /\ o <= Len(ops) + 1
    BY <1>2, <1>5 DEF OpsOf
  <2>2. \A o \in OpsOf(r.tree)' : (\A p \in OpsOf(r.tree)' : p <= o) => o = Len(ops) + 1
    <3>1. Len(ops) + 1 \in OpsOf(r.tree)'
      BY <1>5
    <3> QED
      BY <1>2, <2>1, <3>1
  <2> QED
    BY <1>5, <2>1, <2>2 DEF Latest
<1> QED
  BY <1>1, <1>3, <1>4, <1>5, <1>6

\* A commit is added.
LEMMA CommitAdded ==
    ASSUME TypeOK, NEW p \in 1..Len(commits), NEW ps \in SUBSET (1..Len(commits)), p \in ps,
           NEW m \in Nat, commits' = Commit(p, ps, m)
    PROVE  /\ commits' \in Seq(CommitRecs)
           /\ Len(commits) \in Nat /\ Len(commits') = Len(commits) + 1
           /\ \A c \in 1..Len(commits) : commits'[c] = commits[c]
           /\ commits'[New] = [anc |-> {New} \cup UNION {Anc(q) : q \in ps},
                               line |-> Line(p) \cup {New}, op |-> m]
<1> DEFINE r == [anc |-> {New} \cup UNION {Anc(q) : q \in ps},
                 line |-> Line(p) \cup {New}, op |-> m]
<1>1. Len(commits) \in Nat /\ New \in Nat
  BY DEF TypeOK, New
<1>2. UNION {Anc(q) : q \in ps} \subseteq Nat /\ Line(p) \subseteq Nat
  <2>1. \A c \in 1..Len(commits) : Anc(c) \subseteq Nat /\ Line(c) \subseteq Nat
    <3>1. ASSUME NEW c \in 1..Len(commits) PROVE 1..c \subseteq Nat
      BY <1>1
    <3> QED
      BY <3>1, Types
  <2>2. ps \subseteq 1..Len(commits) /\ p \in 1..Len(commits)
    OBVIOUS
  <2> QED
    BY <2>1, <2>2
<1>3. r \in CommitRecs
  <2>1. {New} \cup UNION {Anc(q) : q \in ps} \in SUBSET Nat /\ Line(p) \cup {New} \in SUBSET Nat
    BY <1>1, <1>2
  <2> QED
    BY <2>1 DEF CommitRecs
<1>4. commits' = Append(commits, r) /\ commits \in Seq(CommitRecs)
  BY DEF Commit, New, TypeOK, CommitRecs
<1> QED
  BY <1>1, <1>3, <1>4, AppendProperties DEF New

-----------------------------------------------------------------------------
(* The steps, by what they do to the history and to the operations.        *)

\* An operation whose record is written is its worktree's last.
Saves(w, r) ==
    /\ Latest(w) \in OpsOf(w) /\ r \in OpRecs
    /\ r.tree = w /\ r.source = Source(w) /\ r.target = ops[Latest(w)].target
    /\ r.mergeSha = ops[Latest(w)].mergeSha \/ r.mergeSha \in 1..Len(commits)
    /\ ops' = [ops EXCEPT ![Latest(w)] = r]

Adds(w) == \E r \in OpRecs : r.tree = w /\ r.status = "reserved" /\ ops' = Append(ops, r)

\* Somebody's commit, or an update's, on the target or elsewhere.
Grows ==
    \E p \in 1..Len(commits), ps \in SUBSET (1..Len(commits)) :
        /\ p \in ps /\ commits' = Commit(p, ps, None) /\ Room
        /\ target' = target \/ (target' = New /\ p = target)

\* An operation that has a status is there.
LEMMA LatestThere ==
    ASSUME TypeOK, InTurn, NEW w \in Worktrees, LatestStatus(w) # "none"
    PROVE  /\ Latest(w) \in OpsOf(w) /\ Latest(w) \in 1..Len(ops)
           /\ ops[Latest(w)].tree = w /\ ops[Latest(w)].status = LatestStatus(w)
           /\ ops[Latest(w)] \in OpRecs
           /\ \A p \in OpsOf(w) : p <= Latest(w) /\ (p # Latest(w) => ops[p].status = "failed")
<1>1. ops \in Seq(OpRecs)
  BY DEF TypeOK, OpRecs
<1>2. OpsOf(w) # {}
  BY DEF LatestStatus
<1>3. Latest(w) \in OpsOf(w) /\ \A p \in OpsOf(w) : p <= Latest(w)
  BY <1>1, <1>2, LatestIs
<1>4. Latest(w) \in 1..Len(ops) /\ ops[Latest(w)].tree = w
  BY <1>3 DEF OpsOf
<1>5. ops[Latest(w)] \in OpRecs
  BY <1>1, <1>4, ElementOfSeq
<1>6. ASSUME NEW p \in OpsOf(w), p # Latest(w) PROVE ops[p].status = "failed"
  <2>1. p \in 1..Len(ops) /\ ops[p].tree = w /\ p < Latest(w)
    BY <1>1, <1>3, <1>4, <1>6, LenProperties DEF OpsOf
  <2> QED
    BY <1>4, <2>1 DEF InTurn
<1> QED
  BY <1>2, <1>3, <1>4, <1>5, <1>6 DEF LatestStatus

\* What the last operation's record says is written in place.
LEMMA StatusSaved ==
    ASSUME TypeOK, InTurn, NEW w \in Worktrees, LatestStatus(w) # "none",
           NEW s \in Statuses, Saved(Latest(w), s)
    PROVE  Saves(w, [ops[Latest(w)] EXCEPT !.status = s])
<1> DEFINE r == [ops[Latest(w)] EXCEPT !.status = s]
<1>1. /\ Latest(w) \in OpsOf(w) /\ Latest(w) \in 1..Len(ops)
      /\ ops[Latest(w)].tree = w /\ ops[Latest(w)] \in OpRecs
  BY LatestThere
<1>2. /\ r \in OpRecs /\ r.tree = w /\ r.source = ops[Latest(w)].source
      /\ r.target = ops[Latest(w)].target /\ r.mergeSha = ops[Latest(w)].mergeSha
  BY <1>1 DEF OpRecs
<1>3. ops' = [ops EXCEPT ![Latest(w)] = r]
  BY DEF Saved
<1> QED
  BY <1>1, <1>2, <1>3 DEF Saves, Source

LEMMA MergeSaved ==
    ASSUME TypeOK, InTurn, NEW w \in Worktrees, LatestStatus(w) # "none", NEW c \in 1..Len(commits),
           ops' = [ops EXCEPT ![Latest(w)].status = "merged", ![Latest(w)].mergeSha = c]
    PROVE  Saves(w, [ops[Latest(w)] EXCEPT !.status = "merged", !.mergeSha = c])
<1> DEFINE r == [ops[Latest(w)] EXCEPT !.status = "merged", !.mergeSha = c]
<1>1. /\ Latest(w) \in OpsOf(w) /\ Latest(w) \in 1..Len(ops)
      /\ ops[Latest(w)].tree = w /\ ops[Latest(w)] \in OpRecs
  BY LatestThere
<1>4. c \in Nat
  BY Types
<1>5. r \in OpRecs
  BY <1>1, <1>4 DEF OpRecs, Statuses
<1>2. /\ r \in OpRecs /\ r.tree = w /\ r.source = ops[Latest(w)].source
      /\ r.target = ops[Latest(w)].target /\ r.mergeSha = c
  BY <1>1, <1>5 DEF OpRecs
<1>3. ops' = [ops EXCEPT ![Latest(w)] = r]
  <2>1. ops \in Seq(OpRecs)
    BY DEF TypeOK, OpRecs
  <2> QED
    BY <1>1, <2>1
<1> QED
  BY <1>1, <1>2, <1>3 DEF Saves, Source

\* In every stage after its reservation an operation is there.
LEMMA OperationThere ==
    ASSUME Inductive, NEW w \in Worktrees,
           stage[w] \in {"inspecting", "moving", "failing", "recording", "cleaning", "removing",
                         "deleting", "cleaned", "unclean"}
    PROVE  LatestStatus(w) \in {"reserved", "merged", "cleaned"}
BY DEF Inductive, StagesAgree, StageAgrees, Reserved, Recordable, RecordedIsMerged

\* A reservation takes the commits its review saw.
LEMMA ReserveAdds ==
    ASSUME Inductive, NEW w \in Worktrees, Reserve(w)
    PROVE  \E r \in OpRecs : /\ ops' = Append(ops, r)
                             /\ r = [tree |-> w, status |-> "reserved", source |-> run[w].head,
                                     target |-> run[w].target, mergeSha |-> None]
                             /\ r.source \in 1..Len(commits) /\ r.target \in 1..Len(commits)
<1> DEFINE r == [tree |-> w, status |-> "reserved", source |-> run[w].head,
                 target |-> run[w].target, mergeSha |-> None]
<1>1. run[w].head \in 1..Len(commits) /\ run[w].target \in Anc(run[w].head)
  BY DEF Reserve, Inductive, StagesAgree, StageAgrees, Reviewed, ReviewsHold
<1>2. run[w].target \in 1..Len(commits)
  <2>1. Anc(run[w].head) \subseteq 1..run[w].head
    BY <1>1 DEF Inductive, TypeOK, Anc
  <2>2. run[w].head <= Len(commits)
    BY <1>1
  <2> QED
    BY <1>1, <2>1, <2>2
<1>3. r \in OpRecs
  BY <1>1, <1>2 DEF OpRecs, Statuses, None
<1> QED
  BY <1>1, <1>2, <1>3 DEF Reserve

\* Every step leaves the history and the operations alone, but for these.
LEMMA HistorySteps ==
    ASSUME Inductive, Next
    PROVE  \/ UNCHANGED <<commits, target, ops>>
           \/ Grows /\ UNCHANGED ops
           \/ \E w \in Worktrees : MoveTarget(w)
           \/ /\ UNCHANGED <<commits, target>>
              /\ \E w \in Worktrees : InspectMisses(w) \/ Reserve(w) \/ Record(w) \/ FinishCleanup(w)
<1> DEFINE Goal == \/ UNCHANGED <<commits, target, ops>>
                   \/ Grows /\ UNCHANGED ops
                   \/ \E w \in Worktrees : MoveTarget(w)
                   \/ /\ UNCHANGED <<commits, target>>
                      /\ \E w \in Worktrees : InspectMisses(w) \/ Reserve(w) \/ Record(w) \/ FinishCleanup(w)
<1>1. TypeOK
  BY DEF Inductive
<1>2. CASE OutsideTarget
  <2>1. target \in 1..Len(commits) /\ {target} \in SUBSET (1..Len(commits))
    BY <1>1 DEF TypeOK
  <2> QED
    BY <1>2, <2>1 DEF OutsideTarget, Grows, records
<1>3. CASE Crash
  BY <1>3 DEF Crash, git
<1>4. ASSUME NEW w \in Worktrees, MergeStep(w) PROVE Goal
  BY <1>4 DEF MergeStep, InspectFinds, InspectMisses, Gate, Reserve, MoveTarget, MoveNothing, MoveFails,
    Record, CleanupLooks, RemoveCheckout, DeleteBranch, CleanupFails, FinishCleanup, git, records
<1>5. ASSUME NEW w \in Worktrees, TreeStep(w) PROVE Goal
  <2>1. CASE Update(w)
    <3>1. head[w] \in 1..Len(commits) /\ Len(commits) \in Nat /\ local[w].target \in 0..Len(commits)
      BY <1>1, Types, ReadTyped
    <3>2. CASE local[w].target \in Anc(head[w])
      BY <2>1, <3>2 DEF Update, records
    <3>3. CASE local[w].target \notin Anc(head[w])
      <4>1. local[w].target # None
        BY <2>1 DEF Update, Inductive, StagesAgree, StageAgrees
      <4> QED
        BY <2>1, <3>1, <3>3, <4>1 DEF Update, records, Grows, None
    <3> QED
      BY <3>2, <3>3
  <2>2. CASE RequestUpdate(w) \/ Discard(w) \/ MarkRemoved(w)
    BY <2>2 DEF RequestUpdate, Discard, MarkRemoved, git, records
  <2> QED
    BY <1>5, <2>1, <2>2 DEF TreeStep
<1>6. ASSUME NEW w \in Worktrees, OtherStep(w) PROVE Goal
  <2>1. head[w] \in 1..Len(commits)
    BY <1>1 DEF TypeOK
  <2>2. CASE OutsideCommit(w) \/ AgentCommits(w)
    BY <2>1, <2>2 DEF OutsideCommit, AgentCommits, Grows, records
  <2>3. CASE \/ BeginMerge(w) \/ BeginUpdate(w) \/ BeginRemoval(w) \/ OutsideEdit(w)
             \/ LaunchWork(w) \/ LaunchReview(w) \/ EndRun(w)
    BY <2>3 DEF BeginMerge, BeginUpdate, BeginRemoval, OutsideEdit, LaunchWork, LaunchReview, EndRun,
      git, records
  <2> QED
    BY <1>6, <2>2, <2>3 DEF OtherStep
<1>7. ASSUME NEW w \in Worktrees, Throw(w) PROVE Goal
  BY <1>7 DEF Throw, git, records
<1> QED
  BY <1>2, <1>3, <1>4, <1>5, <1>6, <1>7 DEF Next

\* No step rewrites the history, moves the target off its line, or changes what was reserved.
Kept ==
    /\ Len(commits) \in Nat /\ Len(commits') \in Nat /\ Len(commits) <= Len(commits')
    /\ \A c \in 1..Len(commits) : commits'[c] = commits[c]
    /\ Line(target) \subseteq Line(target)' /\ Anc(target) \subseteq Anc(target)'
    /\ Len(ops) \in Nat /\ Len(ops') \in Nat /\ Len(ops) <= Len(ops')
    /\ \A o \in 1..Len(ops) : /\ ops'[o].tree = ops[o].tree /\ ops'[o].source = ops[o].source
                              /\ ops'[o].target = ops[o].target

LEMMA GrowsKeeps ==
    ASSUME Inductive, Grows
    PROVE  /\ Len(commits) \in Nat /\ Len(commits') = Len(commits) + 1
           /\ \A c \in 1..Len(commits) : commits'[c] = commits[c]
           /\ commits'[New].op = None
           /\ Line(target) \subseteq Line(target)' /\ Anc(target) \subseteq Anc(target)'
<1>1. TypeOK
  BY DEF Inductive
<1>2. PICK p \in 1..Len(commits), ps \in SUBSET (1..Len(commits)) :
        /\ p \in ps /\ commits' = Commit(p, ps, None)
        /\ target' = target \/ (target' = New /\ p = target)
  BY DEF Grows
<1>3. None \in Nat
  BY DEF None
<1>4. /\ Len(commits) \in Nat /\ Len(commits') = Len(commits) + 1
      /\ \A c \in 1..Len(commits) : commits'[c] = commits[c]
      /\ commits'[New] = [anc |-> {New} \cup UNION {Anc(q) : q \in ps},
                          line |-> Line(p) \cup {New}, op |-> None]
  BY <1>1, <1>2, <1>3, CommitAdded
<1>5. target \in 1..Len(commits)
  BY <1>1 DEF TypeOK
<1>6. CASE target' = target
  BY <1>4, <1>5, <1>6 DEF Line, Anc
<1>7. CASE target' = New /\ p = target
  <2>1. Line(target)' = Line(target) \cup {New}
    BY <1>4, <1>7 DEF Line
  <2>2. Anc(target)' = {New} \cup UNION {Anc(q) : q \in ps}
    BY <1>4, <1>7 DEF Anc
  <2> QED
    BY <1>2, <1>4, <1>7, <2>1, <2>2
<1> QED
  BY <1>2, <1>4, <1>6, <1>7

\* The merge: its commit is new, has both lines of work, and is marked as its operation's.
LEMMA MoveAdds ==
    ASSUME Inductive, NEW w \in Worktrees, MoveTarget(w)
    PROVE  /\ Len(commits) \in Nat /\ Len(commits') = Len(commits) + 1
           /\ \A c \in 1..Len(commits) : commits'[c] = commits[c]
           /\ Latest(w) \in 1..Len(ops) /\ ops[Latest(w)].tree = w
           /\ Source(w) \in 1..Len(commits)
           /\ commits'[New] = [anc |-> {New} \cup (Anc(target) \cup Anc(Source(w))),
                               line |-> Line(target) \cup {New}, op |-> Latest(w)]
           /\ target' = New /\ target = ops[Latest(w)].target
           /\ Line(target) \subseteq Line(target)' /\ Anc(target) \subseteq Anc(target)'
<1>1. TypeOK /\ InTurn
  BY DEF Inductive
<1>2. LatestStatus(w) # "none"
  BY OperationThere DEF MoveTarget
<1>3. Latest(w) \in 1..Len(ops) /\ ops[Latest(w)].tree = w
  BY <1>1, <1>2, LatestThere
<1>4. Source(w) \in 1..Len(commits) /\ target \in 1..Len(commits) /\ Latest(w) \in Nat
  <2>1. Len(ops) \in Nat /\ target \in 1..Len(commits)
    BY <1>1, Types
  <2>2. ops[Latest(w)].source \in 1..Len(commits)
    BY <1>1, <1>3, Types
  <2> QED
    BY <1>3, <2>1, <2>2 DEF Source
<1>5. commits' = Commit(target, {target, Source(w)}, Latest(w)) /\ target' = New
      /\ target = ops[Latest(w)].target
  BY DEF MoveTarget, Source
<1>6. /\ Len(commits) \in Nat /\ Len(commits') = Len(commits) + 1
      /\ \A c \in 1..Len(commits) : commits'[c] = commits[c]
      /\ commits'[New] = [anc |-> {New} \cup UNION {Anc(q) : q \in {target, Source(w)}},
                          line |-> Line(target) \cup {New}, op |-> Latest(w)]
  BY <1>1, <1>4, <1>5, CommitAdded
<1>7. UNION {Anc(q) : q \in {target, Source(w)}} = Anc(target) \cup Anc(Source(w))
  OBVIOUS
<1>8. Line(target)' = Line(target) \cup {New}
  BY <1>5, <1>6 DEF Line
<1>9. Anc(target)' = {New} \cup (Anc(target) \cup Anc(Source(w)))
  BY <1>5, <1>6, <1>7 DEF Anc
<1> QED
  BY <1>3, <1>4, <1>5, <1>6, <1>7, <1>8, <1>9

LEMMA SavesKeep ==
    ASSUME TypeOK, NEW w \in Worktrees, NEW r, Saves(w, r)
    PROVE  /\ ops' \in Seq(OpRecs) /\ Len(ops') = Len(ops) /\ Len(ops) \in Nat
           /\ Latest(w) \in 1..Len(ops) /\ ops[Latest(w)].tree = w
           /\ \A p \in 1..Len(ops) : ops'[p] = IF p = Latest(w) THEN r ELSE ops[p]
           /\ \A v : OpsOf(v)' = OpsOf(v) /\ Latest(v)' = Latest(v)
           /\ \A o \in 1..Len(ops) : /\ ops'[o].tree = ops[o].tree /\ ops'[o].source = ops[o].source
                                     /\ ops'[o].target = ops[o].target
<1>1. ops \in Seq(OpRecs) /\ Len(ops) \in Nat
  BY LenProperties DEF TypeOK, OpRecs
<1>2. Latest(w) \in 1..Len(ops) /\ ops[Latest(w)].tree = w
  BY DEF Saves, OpsOf
<1>3. /\ ops' \in Seq(OpRecs) /\ Len(ops') = Len(ops)
      /\ \A p \in 1..Len(ops) : ops'[p] = IF p = Latest(w) THEN r ELSE ops[p]
      /\ \A v : OpsOf(v)' = OpsOf(v) /\ Latest(v)' = Latest(v)
  BY <1>1, <1>2, OpsSaved DEF Saves
<1> QED
  BY <1>1, <1>2, <1>3 DEF Saves, Source

\* What is to be recorded as merged is a commit of the target.
LEMMA MergeThere ==
    ASSUME Inductive, NEW w \in Worktrees, Record(w), row[w].mergeSha = None
    PROVE  local[w].merge \in 1..Len(commits)
<1>1. TypeOK /\ local[w].merge \in Line(target)
  BY DEF Inductive, StagesAgree, StageAgrees, Recordable, Record
<1>2. target \in 1..Len(commits) /\ Line(target) \subseteq 1..target /\ Len(commits) \in Nat
  BY <1>1, Types
<1> QED
  BY <1>1, <1>2

\* What the four steps that write an operation do to them.
LEMMA OpsWritten ==
    ASSUME Inductive, NEW w \in Worktrees,
           InspectMisses(w) \/ Reserve(w) \/ Record(w) \/ FinishCleanup(w)
    PROVE  UNCHANGED ops \/ (Reserve(w) /\ Adds(w)) \/ \E r : Saves(w, r)
<1>1. TypeOK /\ InTurn
  BY DEF Inductive
<1>2. CASE InspectMisses(w)
  <2>1. LatestStatus(w) # "none" /\ Saved(Latest(w), "failed")
    BY <1>2, OperationThere DEF InspectMisses
  <2> QED
    BY <1>1, <2>1, StatusSaved DEF Statuses
<1>3. CASE Reserve(w)
  BY <1>3, ReserveAdds DEF Adds
<1>4. CASE Record(w)
  <2>1. CASE row[w].mergeSha # None
    BY <1>4, <2>1 DEF Record
  <2>2. CASE row[w].mergeSha = None
    <3>1. LatestStatus(w) # "none"
      BY <1>4, OperationThere DEF Record
    <3>2. local[w].merge \in 1..Len(commits)
      BY <1>4, <2>2, MergeThere
    <3>3. ops' = [ops EXCEPT ![Latest(w)].status = "merged", ![Latest(w)].mergeSha = local[w].merge]
      BY <1>4, <2>2 DEF Record
    <3> QED
      BY <1>1, <3>1, <3>2, <3>3, MergeSaved
  <2> QED
    BY <2>1, <2>2
<1>5. CASE FinishCleanup(w)
  <2>1. LatestStatus(w) # "none"
    BY <1>5, OperationThere DEF FinishCleanup
  <2>2. PICK s \in Statuses : Saved(Latest(w), s)
    BY <1>5 DEF FinishCleanup, Statuses
  <2> QED
    BY <1>1, <2>1, <2>2, StatusSaved
<1> QED
  BY <1>2, <1>3, <1>4, <1>5

LEMMA KeptStep == Inductive /\ [Next]_vars => Kept
<1> SUFFICES ASSUME Inductive, [Next]_vars PROVE Kept
  OBVIOUS
<1>1. TypeOK
  BY DEF Inductive
<1>2. Len(commits) \in Nat /\ Len(ops) \in Nat
  BY <1>1, Types
<1>3. ASSUME UNCHANGED <<commits, target, ops>> PROVE Kept
  BY <1>2, <1>3 DEF Kept, Line, Anc
<1>4. ASSUME Grows, UNCHANGED ops PROVE Kept
  BY <1>2, <1>4, GrowsKeeps DEF Kept
<1>5. ASSUME NEW w \in Worktrees, MoveTarget(w) PROVE Kept
  <2>1. UNCHANGED ops
    BY <1>5 DEF MoveTarget, records
  <2> QED
    <3>1. /\ Len(commits') = Len(commits) + 1
          /\ \A c \in 1..Len(commits) : commits'[c] = commits[c]
          /\ Line(target) \subseteq Line(target)' /\ Anc(target) \subseteq Anc(target)'
      BY <1>5, MoveAdds
    <3> QED
      BY <1>2, <2>1, <3>1 DEF Kept
<1>6. ASSUME UNCHANGED <<commits, target>>, NEW w \in Worktrees,
             InspectMisses(w) \/ Reserve(w) \/ Record(w) \/ FinishCleanup(w)
      PROVE  Kept
  <2>1. CASE UNCHANGED ops
    BY <1>3, <1>6, <2>1
  <2>2. CASE Adds(w)
    <3>1. PICK r \in OpRecs : ops' = Append(ops, r)
      BY <2>2 DEF Adds
    <3>2. Len(ops') = Len(ops) + 1 /\ \A p \in 1..Len(ops) : ops'[p] = ops[p]
      BY <1>1, <3>1, Types, OpsAdded
    <3> QED
      BY <1>2, <1>6, <3>2 DEF Kept, Line, Anc
  <2>3. ASSUME NEW r, Saves(w, r) PROVE Kept
    <3>1. /\ Len(ops') = Len(ops)
          /\ \A o \in 1..Len(ops) : /\ ops'[o].tree = ops[o].tree /\ ops'[o].source = ops[o].source
                                    /\ ops'[o].target = ops[o].target
      BY <1>1, <2>3, SavesKeep
    <3> QED
      BY <1>2, <1>6, <3>1 DEF Kept, Line, Anc
  <2> QED
    BY <1>6, <2>1, <2>2, <2>3, OpsWritten
<1>7. CASE UNCHANGED vars
  BY <1>3, <1>7 DEF vars, git, records
<1>8. CASE Next
  BY <1>3, <1>4, <1>5, <1>6, <1>8, HistorySteps
<1> QED
  BY <1>7, <1>8

-----------------------------------------------------------------------------
(* The parts of the inductive invariant.                                   *)

\* A commit that is added holds what its parents hold.
LEMMA HistoryStep == Inductive /\ [Next]_vars => History'
<1> SUFFICES ASSUME Inductive, [Next]_vars PROVE History'
  OBVIOUS
<1>1. TypeOK /\ History
  BY DEF Inductive
<1>2. ASSUME UNCHANGED commits PROVE History'
  BY <1>1, <1>2 DEF History, Anc, Line
<1>3. ASSUME NEW p \in 1..Len(commits), NEW ps \in SUBSET (1..Len(commits)), p \in ps,
             NEW m \in Nat, commits' = Commit(p, ps, m)
      PROVE  History'
  <2> PICK n \in Nat : n = New
    BY <1>1, Types DEF New
  <2>1. /\ Len(commits) \in Nat /\ Len(commits') = Len(commits) + 1
        /\ \A c \in 1..Len(commits) : commits'[c] = commits[c]
        /\ commits'[n] = [anc |-> {n} \cup UNION {Anc(q) : q \in ps},
                            line |-> Line(p) \cup {n}, op |-> m]
    BY <1>1, <1>3, CommitAdded
  <2>2. \A c \in 1..Len(commits) : /\ Anc(c)' = Anc(c) /\ Line(c)' = Line(c)
                                   /\ Anc(c) \subseteq 1..Len(commits)
    <3>1. \A c \in 1..Len(commits) : Anc(c) \subseteq 1..c
      BY <1>1, Types
    <3> QED
      BY <2>1, <3>1 DEF Anc, Line
  <2>3. Anc(n)' = {n} \cup UNION {Anc(q) : q \in ps} /\ Line(n)' = Line(p) \cup {n}
    BY <2>1 DEF Anc, Line
  <2>4. ASSUME NEW c \in 1..Len(commits)
        PROVE  (c \in Anc(c) /\ c \in Line(c) /\ \A a \in Anc(c) : Anc(a) \subseteq Anc(c))'
    BY <1>1, <2>2 DEF History
  <2>5. n \in Anc(n)' /\ n \in Line(n)'
    BY <2>3
  <2>6. ASSUME NEW a \in Anc(n)' PROVE Anc(a)' \subseteq Anc(n)'
    <3>1. CASE a = n
      BY <3>1
    <3>2. ASSUME NEW q \in ps, a \in Anc(q) PROVE Anc(a)' \subseteq Anc(n)'
      <4>1. a \in 1..Len(commits) /\ Anc(a) \subseteq Anc(q)
        BY <1>1, <2>2, <3>2 DEF History
      <4> QED
        BY <2>2, <2>3, <4>1
    <3> QED
      BY <2>3, <2>6, <3>1, <3>2
  <2>7. \A c \in 1..Len(commits') : c \in 1..Len(commits) \/ c = n
    BY <2>1 DEF New
  <2> QED
    BY <2>4, <2>5, <2>6, <2>7 DEF History
<1>4. ASSUME Grows PROVE History'
  <2>1. None \in Nat
    BY DEF None
  <2> QED
    BY <1>3, <1>4, <2>1 DEF Grows
<1>5. ASSUME NEW w \in Worktrees, MoveTarget(w) PROVE History'
  <2>1. /\ target \in 1..Len(commits) /\ Source(w) \in 1..Len(commits) /\ Latest(w) \in Nat
    <3>1. Latest(w) \in 1..Len(ops) /\ Source(w) \in 1..Len(commits)
      BY <1>5, MoveAdds
    <3> QED
      BY <1>1, <3>1, Types
  <2>2. commits' = Commit(target, {target, Source(w)}, Latest(w))
    BY <1>5 DEF MoveTarget, Source
  <2> QED
    BY <1>3, <2>1, <2>2
<1>6. CASE UNCHANGED vars
  BY <1>2, <1>6 DEF vars, git
<1>7. CASE Next
  BY <1>2, <1>4, <1>5, <1>7, HistorySteps
<1> QED
  BY <1>6, <1>7

\* Whoever works on a worktree holds the lane before the step and after it.
LEMMA LaneSteps ==
    ASSUME TypeOK, Next
    PROVE  \/ UNCHANGED stage
           \/ stage' = [w \in Worktrees |-> "idle"]
           \/ \E w \in Worktrees, s \in Stages :
                (stage[w] # "idle" \/ LaneFree) /\ stage' = [stage EXCEPT ![w] = s]
<1> DEFINE Goal == \/ UNCHANGED stage
                   \/ stage' = [w \in Worktrees |-> "idle"]
                   \/ \E w \in Worktrees, s \in Stages :
                        (stage[w] # "idle" \/ LaneFree) /\ stage' = [stage EXCEPT ![w] = s]
<1>1. CASE OutsideTarget
  BY <1>1 DEF OutsideTarget
<1>2. CASE Crash
  BY <1>2 DEF Crash
<1>3. ASSUME NEW w \in Worktrees, MergeStep(w) PROVE Goal
  <2>1. CASE InspectFinds(w) \/ InspectMisses(w) \/ Gate(w) \/ Reserve(w)
    BY <2>1 DEF InspectFinds, InspectMisses, Gate, Reserve, To, Stages
  <2>2. CASE MoveTarget(w) \/ MoveNothing(w) \/ MoveFails(w) \/ Record(w)
    BY <2>2 DEF MoveTarget, MoveNothing, MoveFails, Record, To, Stages
  <2>3. CASE CleanupLooks(w) \/ RemoveCheckout(w) \/ DeleteBranch(w) \/ CleanupFails(w) \/ FinishCleanup(w)
    BY <2>3 DEF CleanupLooks, RemoveCheckout, DeleteBranch, CleanupFails, FinishCleanup, Done, To, Stages
  <2> QED
    BY <1>3, <2>1, <2>2, <2>3 DEF MergeStep
<1>4. ASSUME NEW w \in Worktrees, TreeStep(w) PROVE Goal
  BY <1>4 DEF TreeStep, RequestUpdate, Update, Discard, MarkRemoved, Done, To, Stages
<1>5. ASSUME NEW w \in Worktrees, OtherStep(w) PROVE Goal
  <2>1. CASE BeginMerge(w)
    <3>1. PICK s \in Stages : To(w, s)
      BY <2>1 DEF BeginMerge, Stages
    <3> QED
      BY <2>1, <3>1 DEF BeginMerge, To
  <2>2. CASE BeginUpdate(w) \/ BeginRemoval(w)
    BY <2>2 DEF BeginUpdate, BeginRemoval, To, Stages
  <2>3. CASE \/ OutsideEdit(w) \/ OutsideCommit(w) \/ LaunchWork(w) \/ LaunchReview(w)
             \/ AgentCommits(w) \/ EndRun(w)
    BY <2>3 DEF OutsideEdit, OutsideCommit, LaunchWork, LaunchReview, AgentCommits, EndRun
  <2> QED
    BY <1>5, <2>1, <2>2, <2>3 DEF OtherStep
<1>6. ASSUME NEW w \in Worktrees, Throw(w) PROVE Goal
  BY <1>6 DEF Throw, Done, To, Stages
<1> QED
  BY <1>1, <1>2, <1>3, <1>4, <1>5, <1>6 DEF Next

LEMMA OneInLaneStep == Inductive /\ [Next]_vars => OneInLane'
<1> SUFFICES ASSUME Inductive, [Next]_vars PROVE OneInLane'
  OBVIOUS
<1>1. TypeOK /\ OneInLane
  BY DEF Inductive
<1>2. CASE UNCHANGED vars
  BY <1>1, <1>2 DEF vars, OneInLane
<1>3. CASE Next
  <2>1. CASE UNCHANGED stage
    BY <1>1, <2>1 DEF OneInLane
  <2>2. CASE stage' = [w \in Worktrees |-> "idle"]
    BY <2>2 DEF OneInLane
  <2>3. ASSUME NEW w \in Worktrees, NEW s \in Stages, stage[w] # "idle" \/ LaneFree,
               stage' = [stage EXCEPT ![w] = s]
        PROVE  OneInLane'
    BY <1>1, <2>3 DEF OneInLane, LaneFree, TypeOK
  <2> QED
    BY <1>1, <1>3, <2>1, <2>2, <2>3, LaneSteps
<1> QED
  BY <1>2, <1>3

\* A reservation is made when all of a worktree's operations before it have failed.
LEMMA InTurnStep == Inductive /\ [Next]_vars => InTurn'
<1> SUFFICES ASSUME Inductive, [Next]_vars PROVE InTurn'
  OBVIOUS
<1>1. TypeOK /\ InTurn /\ StagesAgree
  BY DEF Inductive
<1>2. Len(ops) \in Nat /\ ops \in Seq(OpRecs)
  BY <1>1, Types
<1>3. ASSUME UNCHANGED ops PROVE InTurn'
  BY <1>1, <1>3 DEF InTurn, OpsOf
<1>4. ASSUME NEW w \in Worktrees, NEW r, Saves(w, r) PROVE InTurn'
  <2>1. /\ Len(ops') = Len(ops) /\ Latest(w) \in 1..Len(ops) /\ ops[Latest(w)].tree = w
        /\ \A p \in 1..Len(ops) : ops'[p] = IF p = Latest(w) THEN r ELSE ops[p]
        /\ \A v : OpsOf(v)' = OpsOf(v)
        /\ \A o \in 1..Len(ops) : ops'[o].tree = ops[o].tree
    BY <1>1, <1>4, SavesKeep
  <2>2. \A p \in OpsOf(w) : p <= Latest(w)
    BY <1>1, <1>2, <1>4, LatestIs DEF Saves
  <2>3. ASSUME NEW o \in 1..Len(ops), NEW p \in 1..Len(ops), o < p, ops[o].tree = ops[p].tree
        PROVE  ops'[o].status = "failed"
    <3>1. ops[o].status = "failed"
      BY <1>1, <2>3 DEF InTurn
    <3>2. o # Latest(w)
      BY <1>2, <2>1, <2>2, <2>3 DEF OpsOf
    <3> QED
      BY <2>1, <3>1, <3>2
  <2>4. ASSUME NEW v \in Worktrees, OpsOf(v) # {}
        PROVE  \E o \in OpsOf(v) : \A p \in OpsOf(v) : p <= o
    BY <1>1, <2>4 DEF InTurn
  <2> QED
    BY <2>1, <2>3, <2>4 DEF InTurn
<1>5. ASSUME NEW w \in Worktrees, Unmerged(w), Adds(w) PROVE InTurn'
  <2>1. PICK r \in OpRecs : r.tree = w /\ ops' = Append(ops, r)
    BY <1>5 DEF Adds
  <2>2. /\ Len(ops') = Len(ops) + 1
        /\ \A p \in 1..Len(ops) : ops'[p] = ops[p]
        /\ ops'[Len(ops) + 1].tree = w
        /\ \A v : v # w => OpsOf(v)' = OpsOf(v)
        /\ OpsOf(w)' = OpsOf(w) \cup {Len(ops) + 1}
    BY <1>2, <2>1, OpsAdded
  <2>3. ASSUME NEW o \in 1..Len(ops'), NEW p \in 1..Len(ops'), o < p, ops'[o].tree = ops'[p].tree
        PROVE  ops'[o].status = "failed"
    <3>1. o \in 1..Len(ops) /\ ops'[o] = ops[o]
      BY <1>2, <2>2, <2>3
    <3>2. CASE p = Len(ops) + 1
      BY <1>5, <2>2, <2>3, <3>1, <3>2 DEF Unmerged, OpsOf
    <3>3. CASE p # Len(ops) + 1
      <4>1. p \in 1..Len(ops) /\ ops'[p] = ops[p]
        BY <1>2, <2>2, <3>3
      <4> QED
        BY <1>1, <2>3, <3>1, <4>1 DEF InTurn
    <3> QED
      BY <3>2, <3>3
  <2>4. ASSUME NEW v \in Worktrees, OpsOf(v)' # {}
        PROVE  \E o \in OpsOf(v)' : \A p \in OpsOf(v)' : p <= o
    <3>1. CASE v # w
      BY <1>1, <2>2, <2>4, <3>1 DEF InTurn
    <3>2. CASE v = w
      <4>1. \A p \in OpsOf(w) : p <= Len(ops) + 1
        BY <1>2 DEF OpsOf
      <4>2. Len(ops) + 1 \in OpsOf(w)' /\ \A p \in OpsOf(w)' : p <= Len(ops) + 1
        BY <1>2, <2>2, <4>1
      <4>3. \E o \in OpsOf(w)' : \A p \in OpsOf(w)' : p <= o
        BY <4>2
      <4> QED
        BY <3>2, <4>3
    <3> QED
      BY <3>1, <3>2
  <2> QED
    BY <2>3, <2>4 DEF InTurn
<1>6. ASSUME NEW w \in Worktrees, InspectMisses(w) \/ Reserve(w) \/ Record(w) \/ FinishCleanup(w)
      PROVE  InTurn'
  <2>1. CASE Reserve(w)
    <3>1. Adds(w) /\ Unmerged(w)
      BY <1>1, <2>1, ReserveAdds DEF Adds, Reserve, StagesAgree, StageAgrees
    <3> QED
      BY <1>5, <3>1
  <2>2. CASE ~Reserve(w)
    BY <1>3, <1>4, <1>6, <2>2, OpsWritten
  <2> QED
    BY <2>1, <2>2
<1>7. CASE UNCHANGED vars
  BY <1>3, <1>7 DEF vars, records
<1>8. CASE Next
  <2>1. CASE \E w \in Worktrees : MoveTarget(w)
    BY <1>3, <2>1 DEF MoveTarget, records
  <2> QED
    BY <1>3, <1>6, <1>8, <2>1, HistorySteps
<1> QED
  BY <1>7, <1>8

\* A merge that was there is as it was; a new one is made by an operation's move of the target.
LEMMA MergesAre ==
    ASSUME Inductive, [Next]_vars, NEW c \in Merges'
    PROVE  \/ /\ c \in Merges /\ c \in 1..Len(commits) /\ commits'[c] = commits[c]
              /\ commits[c].op \in 1..Len(ops)
           \/ \E w \in Worktrees : MoveTarget(w) /\ c = New
<1>1. TypeOK /\ Kept
  BY KeptStep DEF Inductive
<1>2. c \in 1..Len(commits') /\ commits'[c].op # None
  BY DEF Merges
<1>3. CASE c \in 1..Len(commits)
  <2>1. commits'[c] = commits[c]
    BY <1>1, <1>3 DEF Kept
  <2>2. commits[c].op \in 0..Len(ops) /\ Len(ops) \in Nat
    BY <1>1, <1>3, Types
  <2> QED
    BY <1>2, <1>3, <2>1, <2>2 DEF Merges, None
<1>4. CASE c \notin 1..Len(commits)
  <2>1. CASE Grows
    <3>1. Len(commits) \in Nat /\ Len(commits') = Len(commits) + 1 /\ commits'[New].op = None
      BY <2>1, GrowsKeeps
    <3> QED
      BY <1>2, <1>4, <3>1 DEF New
  <2>2. ASSUME NEW w \in Worktrees, MoveTarget(w) PROVE c = New
    <3>1. Len(commits) \in Nat /\ Len(commits') = Len(commits) + 1
      BY <2>2, MoveAdds
    <3> QED
      BY <1>2, <1>4, <3>1 DEF New
  <2>3. ~(UNCHANGED commits)
    BY <1>2, <1>4
  <2>4. Next
    BY <2>3 DEF vars, git
  <2> QED
    BY <2>1, <2>2, <2>3, <2>4, HistorySteps
<1> QED
  BY <1>3, <1>4

LEMMA MergesLandStep == Inductive /\ [Next]_vars => MergesLand'
<1> SUFFICES ASSUME Inductive, [Next]_vars, NEW c \in Merges'
             PROVE  LET o == commits'[c].op
                    IN /\ c \in Line(target)' /\ c \notin commits'[ops'[o].target].line
                       /\ ops'[o].source \in commits'[c].anc
  BY DEF MergesLand, Line, Anc
<1>1. TypeOK /\ MergesLand /\ History /\ Kept
  BY KeptStep DEF Inductive
<1>2. CASE c \in Merges /\ c \in 1..Len(commits) /\ commits'[c] = commits[c]
           /\ commits[c].op \in 1..Len(ops)
  <2> DEFINE o == commits[c].op
  <2>1. c \in Line(target) /\ c \notin Line(ops[o].target) /\ ops[o].source \in Anc(c)
    BY <1>1, <1>2 DEF MergesLand
  <2>2. ops'[o].source = ops[o].source /\ ops'[o].target = ops[o].target
        /\ ops[o].target \in 1..Len(commits)
    BY <1>1, <1>2, Types DEF Kept
  <2>3. commits'[ops'[o].target].line = Line(ops[o].target) /\ commits'[c].anc = Anc(c)
    BY <1>1, <1>2, <2>2 DEF Kept, Line, Anc
  <2>4. Line(target) \subseteq Line(target)'
    BY <1>1 DEF Kept
  <2> QED
    BY <1>2, <2>1, <2>2, <2>3, <2>4
<1>3. ASSUME NEW w \in Worktrees, MoveTarget(w), c = New
      PROVE  LET o == commits'[c].op
             IN /\ c \in Line(target)' /\ c \notin commits'[ops'[o].target].line
                /\ ops'[o].source \in commits'[c].anc
  <2>1. /\ Len(commits) \in Nat
        /\ \A d \in 1..Len(commits) : commits'[d] = commits[d]
        /\ Source(w) \in 1..Len(commits)
        /\ commits'[New] = [anc |-> {New} \cup (Anc(target) \cup Anc(Source(w))),
                            line |-> Line(target) \cup {New}, op |-> Latest(w)]
        /\ target' = New /\ target = ops[Latest(w)].target
    BY <1>3, MoveAdds
  <2>2. ops' = ops /\ commits'[c].op = Latest(w)
    BY <1>3, <2>1 DEF MoveTarget, records
  <2>3. target \in 1..Len(commits) /\ Line(target) \subseteq 1..target
    BY <1>1, Types
  <2>4. c \in Line(target)'
    BY <1>3, <2>1 DEF Line
  <2>5. c \notin commits'[ops[Latest(w)].target].line
    <3>1. commits'[target].line = Line(target)
      BY <2>1, <2>3 DEF Line
    <3>2. New \notin 1..target
      BY <2>1, <2>3 DEF New
    <3> QED
      BY <1>3, <2>1, <2>3, <3>1, <3>2
  <2>6. Source(w) \in Anc(Source(w))
    BY <1>1, <2>1 DEF History
  <2>7. ops[Latest(w)].source \in commits'[c].anc
    BY <1>3, <2>1, <2>6 DEF Source
  <2> QED
    BY <2>2, <2>4, <2>5, <2>7
<1> QED
  BY <1>2, <1>3, MergesAre

\* An operation is given up only when the target does not hold its merge.
LEMMA FailedMergesAbsentStep == Inductive /\ [Next]_vars => FailedMergesAbsent'
<1> SUFFICES ASSUME Inductive, [Next]_vars, NEW c \in Merges'
             PROVE  ops'[commits'[c].op].status # "failed"
  BY DEF FailedMergesAbsent
<1>1. TypeOK /\ InTurn /\ FailedMergesAbsent /\ MergesLand /\ Kept
  BY KeptStep DEF Inductive
<1>2. CASE c \in Merges /\ c \in 1..Len(commits) /\ commits'[c] = commits[c]
           /\ commits[c].op \in 1..Len(ops)
  <2> DEFINE o == commits[c].op
  <2>1. ops[o].status # "failed"
    BY <1>1, <1>2 DEF FailedMergesAbsent
  <2>2. CASE UNCHANGED ops
    BY <1>2, <2>1, <2>2
  <2>3. ASSUME NEW w \in Worktrees,
               InspectMisses(w) \/ Reserve(w) \/ Record(w) \/ FinishCleanup(w)
        PROVE  ops'[o].status # "failed"
    <3>1. CASE InspectMisses(w)
      <4>1. LatestStatus(w) # "none"
        BY <3>1, OperationThere DEF InspectMisses
      <4>2. Saves(w, [ops[Latest(w)] EXCEPT !.status = "failed"])
        BY <1>1, <3>1, <4>1, StatusSaved DEF InspectMisses, Statuses
      <4>3. o # Latest(w)
        BY <1>1, <1>2, <3>1 DEF InspectMisses, Landed, MergesLand, Merges
      <4> QED
        BY <1>1, <1>2, <2>1, <4>2, <4>3, SavesKeep
    <3>2. CASE Reserve(w)
      <4>1. PICK r \in OpRecs : ops' = Append(ops, r)
        BY <3>2, ReserveAdds
      <4> QED
        BY <1>1, <1>2, <2>1, <4>1, Types, OpsAdded
    <3>3. CASE Record(w)
      <4>1. CASE row[w].mergeSha # None
        BY <3>3, <4>1, <2>1 DEF Record
      <4>2. CASE row[w].mergeSha = None
        <5>1. LatestStatus(w) # "none"
          BY <3>3, OperationThere DEF Record
        <5>4. local[w].merge \in 1..Len(commits)
          BY <3>3, <4>2, MergeThere
        <5>2. Saves(w, [ops[Latest(w)] EXCEPT !.status = "merged", !.mergeSha = local[w].merge])
          BY <1>1, <3>3, <4>2, <5>1, <5>4, MergeSaved DEF Record
        <5>3. ops[Latest(w)] \in OpRecs
          BY <1>1, <5>1, LatestThere
        <5>5. [ops[Latest(w)] EXCEPT !.status = "merged", !.mergeSha = local[w].merge].status = "merged"
          BY <5>3 DEF OpRecs
        <5>6. PICK r : Saves(w, r) /\ r.status = "merged"
          BY <5>2, <5>5
        <5>7. \A p \in 1..Len(ops) : ops'[p] = IF p = Latest(w) THEN r ELSE ops[p]
          BY <1>1, <5>6, SavesKeep
        <5> QED
          BY <1>2, <2>1, <5>6, <5>7
      <4> QED
        BY <4>1, <4>2
    <3>4. CASE FinishCleanup(w)
      <4>1. LatestStatus(w) # "none"
        BY <3>4, OperationThere DEF FinishCleanup
      <4>2. PICK s \in {"cleaned", "merged"} : Saved(Latest(w), s)
        BY <3>4 DEF FinishCleanup
      <4>3. Saves(w, [ops[Latest(w)] EXCEPT !.status = s]) /\ ops[Latest(w)] \in OpRecs
        BY <1>1, <4>1, <4>2, StatusSaved, LatestThere DEF Statuses
      <4>4. [ops[Latest(w)] EXCEPT !.status = s].status = s
        BY <4>3 DEF OpRecs
      <4>5. PICK r : Saves(w, r) /\ r.status # "failed"
        BY <4>2, <4>3, <4>4
      <4>6. \A p \in 1..Len(ops) : ops'[p] = IF p = Latest(w) THEN r ELSE ops[p]
        BY <1>1, <4>5, SavesKeep
      <4> QED
        BY <1>2, <2>1, <4>5, <4>6
    <3> QED
      BY <2>3, <3>1, <3>2, <3>3, <3>4
  <2>4. CASE UNCHANGED vars
    BY <2>2, <2>4 DEF vars, records
  <2>5. CASE Next
    <3>1. CASE \E w \in Worktrees : MoveTarget(w)
      BY <2>2, <3>1 DEF MoveTarget, records
    <3> QED
      BY <1>2, <2>2, <2>3, <2>5, <3>1, HistorySteps
  <2> QED
    BY <2>4, <2>5
<1>3. ASSUME NEW w \in Worktrees, MoveTarget(w), c = New
      PROVE  ops'[commits'[c].op].status # "failed"
  <2>1. LatestStatus(w) = "reserved"
    BY <1>3 DEF MoveTarget, Inductive, StagesAgree, StageAgrees, Reserved
  <2>2. ops[Latest(w)].status = "reserved"
    BY <1>1, <2>1, LatestThere
  <2>3. commits'[New].op = Latest(w)
    <3>1. commits'[New] = [anc |-> {New} \cup (Anc(target) \cup Anc(Source(w))),
                           line |-> Line(target) \cup {New}, op |-> Latest(w)]
      BY <1>3, MoveAdds
    <3> QED
      BY <3>1
  <2> QED
    BY <1>3, <2>2, <2>3 DEF MoveTarget, records
<1> QED
  BY <1>2, <1>3, MergesAre

\* The target moves for an operation only from the commit it reserved: no merge of its own is on it yet,
\* and those of the operations before it have merged nothing.
LEMMA MergedOnceStep == Inductive /\ [Next]_vars => MergedOnce'
<1> SUFFICES ASSUME Inductive, [Next]_vars, NEW c \in Merges', NEW d \in Merges',
                    ops'[commits'[c].op].tree = ops'[commits'[d].op].tree
             PROVE  c = d
  BY DEF MergedOnce
<1>1. TypeOK /\ InTurn /\ FailedMergesAbsent /\ MergesLand /\ MergedOnce /\ Kept
  BY KeptStep DEF Inductive
<1> DEFINE Old(e) == /\ e \in Merges /\ e \in 1..Len(commits) /\ commits'[e] = commits[e]
                     /\ commits[e].op \in 1..Len(ops)
<1>2. ASSUME NEW w \in Worktrees, MoveTarget(w), NEW e, Old(e),
             ops'[commits'[e].op].tree = ops'[commits'[New].op].tree
      PROVE  FALSE
  <2> DEFINE o == commits[e].op
  <2>1. /\ commits'[New].op = Latest(w) /\ ops[Latest(w)].tree = w /\ Latest(w) \in 1..Len(ops)
        /\ target = ops[Latest(w)].target
    <3>1. /\ commits'[New] = [anc |-> {New} \cup (Anc(target) \cup Anc(Source(w))),
                              line |-> Line(target) \cup {New}, op |-> Latest(w)]
          /\ ops[Latest(w)].tree = w /\ Latest(w) \in 1..Len(ops) /\ target = ops[Latest(w)].target
      BY <1>2, MoveAdds
    <3> QED
      BY <3>1
  <2>2. o \in OpsOf(w)
    BY <1>1, <1>2, <2>1 DEF Kept, OpsOf
  <2>3. LatestStatus(w) # "none"
    BY <1>2, OperationThere DEF MoveTarget
  <2>4. CASE o = Latest(w)
    BY <1>1, <1>2, <2>1, <2>4 DEF MergesLand
  <2>5. CASE o # Latest(w)
    <3>1. ops[o].status = "failed"
      BY <1>1, <2>2, <2>3, <2>5, LatestThere
    <3> QED
      BY <1>1, <1>2, <3>1 DEF FailedMergesAbsent
  <2> QED
    BY <2>4, <2>5
<1>3. CASE Old(c) /\ Old(d)
  <2>1. ops[commits[c].op].tree = ops[commits[d].op].tree
    BY <1>1, <1>3 DEF Kept
  <2> QED
    BY <1>1, <1>3, <2>1 DEF MergedOnce
<1>4. CASE ~Old(c) \/ ~Old(d)
  <2>1. ASSUME ~Old(c), ~Old(d) PROVE c = d
    BY <2>1, MergesAre
  <2>2. ASSUME ~Old(c), Old(d) PROVE c = d
    <3>1. PICK w \in Worktrees : MoveTarget(w) /\ c = New
      BY <2>2, MergesAre
    <3> QED
      BY <1>2, <2>2, <3>1
  <2>3. ASSUME Old(c), ~Old(d) PROVE c = d
    <3>1. PICK w \in Worktrees : MoveTarget(w) /\ d = New
      BY <2>3, MergesAre
    <3> QED
      BY <1>2, <2>3, <3>1
  <2> QED
    BY <1>4, <2>1, <2>2, <2>3
<1> QED
  BY <1>3, <1>4

\* A review records branches of which the one holds the other.
LEMMA ReviewsHoldStep == Inductive /\ [Next]_vars => ReviewsHold'
<1> SUFFICES ASSUME Inductive, [Next]_vars PROVE ReviewsHold'
  OBVIOUS
<1>1. TypeOK /\ ReviewsHold /\ Kept
  BY KeptStep DEF Inductive
<1>2. ASSUME NEW w \in Worktrees, run'[w].kind = "review",
             run'[w].head = run[w].head, run'[w].target = run[w].target, run[w].kind = "review"
      PROVE  run'[w].head \in 1..Len(commits') /\ run'[w].target \in commits'[run'[w].head].anc
  <2>1. run[w].head \in 1..Len(commits) /\ run[w].target \in Anc(run[w].head)
    BY <1>1, <1>2 DEF ReviewsHold
  <2> QED
    BY <1>1, <1>2, <2>1 DEF Kept, Anc
<1>3. ASSUME NEW w \in Worktrees, run'[w].kind = "review",
             ~(run'[w].head = run[w].head /\ run'[w].target = run[w].target /\ run[w].kind = "review")
      PROVE  run'[w].head \in 1..Len(commits') /\ run'[w].target \in commits'[run'[w].head].anc
  <2>1. run \in [Worktrees -> [kind : {"none", "work", "review"}, state : {"live", "mergeable", "ended"},
                               head : 0..Len(commits), target : 0..Len(commits), version : 0..MaxVersion]]
    BY <1>1 DEF TypeOK
  <2>2. CASE LaunchReview(w)
    <3>1. run'[w].head = head[w] /\ run'[w].target = target /\ target \in Anc(head[w])
      BY <2>1, <2>2 DEF LaunchReview
    <3>2. commits' = commits /\ head[w] \in 1..Len(commits)
      BY <1>1, <2>2, Types DEF LaunchReview, git
    <3> QED
      BY <3>1, <3>2 DEF Anc
  <2>3. ~ UNCHANGED run
    BY <1>3
  <2>4. ASSUME NEW v \in Worktrees, LaunchWork(v) \/ EndRun(v) PROVE FALSE
    BY <1>3, <2>1, <2>4 DEF LaunchWork, EndRun
  <2>5. ASSUME Crash PROVE FALSE
    BY <1>3, <2>1, <2>5 DEF Crash
  <2>6. ASSUME NEW v \in Worktrees, LaunchReview(v) PROVE v = w
    BY <1>3, <2>1, <2>6 DEF LaunchReview
  <2>7. ASSUME NEW v \in Worktrees, MergeStep(v) PROVE UNCHANGED run
    BY <2>7 DEF MergeStep, InspectFinds, InspectMisses, Gate, Reserve, MoveTarget, MoveNothing, MoveFails,
      Record, CleanupLooks, RemoveCheckout, DeleteBranch, CleanupFails, FinishCleanup, records
  <2>8. ASSUME NEW v \in Worktrees, TreeStep(v) \/ Throw(v) PROVE UNCHANGED run
    BY <2>8 DEF TreeStep, RequestUpdate, Update, Discard, MarkRemoved, Throw, records
  <2>9. ASSUME NEW v \in Worktrees, OtherStep(v)
        PROVE  UNCHANGED run \/ LaunchWork(v) \/ LaunchReview(v) \/ EndRun(v)
    BY <2>9 DEF OtherStep, BeginMerge, BeginUpdate, BeginRemoval, OutsideEdit, OutsideCommit,
      AgentCommits, records
  <2>10. CASE OutsideTarget
    BY <2>3, <2>10 DEF OutsideTarget, records
  <2> QED
    BY <2>2, <2>3, <2>4, <2>5, <2>6, <2>7, <2>8, <2>9, <2>10 DEF Next, vars, records
<1> QED
  BY <1>2, <1>3 DEF ReviewsHold, Anc

-----------------------------------------------------------------------------
(* What storage, Git and the stages of an operation say of each other.     *)

Recorded(w) ==
    /\ row[w].mergeSha # None <=> LatestStatus(w) \in {"merged", "cleaned"}
    /\ row[w].mergeSha # None => row[w].mergeSha \in Line(target) /\ Source(w) \in Anc(row[w].mergeSha)
Consistent(w) == StageAgrees(w) /\ IsApart(w) /\ Recorded(w)

LEMMA ConsistentNow == Inductive => \A w \in Worktrees : Consistent(w)
BY DEF Inductive, StagesAgree, LiveApart, RecordedIsMerged, Consistent, Recorded

\* An operation of v's is what it was.
SameOps(v) == /\ OpsOf(v)' = OpsOf(v) /\ Latest(v)' = Latest(v)
              /\ \A o \in OpsOf(v) : ops'[o] = ops[o]

LEMMA SameStatus ==
    ASSUME Inductive, NEW v \in Worktrees, SameOps(v)
    PROVE  /\ LatestStatus(v)' = LatestStatus(v) /\ Reserved(v)' = Reserved(v)
           /\ Unmerged(v) => Unmerged(v)'
           /\ LatestStatus(v) # "none" =>
                Source(v)' = Source(v) /\ (ops[Latest(v)].target)' = ops[Latest(v)].target
<1>1. TypeOK /\ InTurn
  BY DEF Inductive
<1>2. CASE OpsOf(v) = {}
  BY <1>2 DEF SameOps, LatestStatus, Reserved, Unmerged
<1>3. CASE OpsOf(v) # {}
  <2>1. Latest(v) \in OpsOf(v)
    BY <1>1, <1>3, LatestIs, Types
  <2>2. ops'[Latest(v)'] = ops[Latest(v)]
    BY <2>1 DEF SameOps
  <2>3. LatestStatus(v)' = LatestStatus(v)
    BY <1>3, <2>2 DEF SameOps, LatestStatus
  <2> QED
    BY <2>1, <2>2, <2>3 DEF SameOps, Reserved, Unmerged, Source
<1> QED
  BY <1>2, <1>3

\* What a step of another worktree, of people and of agents leaves of this one.
Untouched(v) ==
    /\ SameOps(v) /\ row'[v] = row[v] /\ (v \in branch' <=> v \in branch)
    /\ \/ stage'[v] = stage[v] /\ local'[v] = local[v]
       \/ stage'[v] = "idle"
       \/ stage'[v] \in {"discarding", "marking"} /\ ~Live(v)'
    /\ run'[v] = run[v] \/ (stage'[v] \in {"idle", "gating"} /\ ~Live(v)')

\* A merge that was recorded, or is about to be, stays on the target.
LEMMA MergesStay ==
    ASSUME TypeOK, Kept, NEW c \in Line(target)
    PROVE  c \in 1..Len(commits) /\ c \in Line(target)' /\ commits'[c].anc = Anc(c)
<1>1. target \in 1..Len(commits) /\ Line(target) \subseteq 1..target /\ Len(commits) \in Nat
  BY Types
<1>2. c \in 1..Len(commits)
  BY <1>1
<1> QED
  BY <1>2 DEF Kept, Anc

LEMMA UntouchedStays ==
    ASSUME Inductive, Kept, NEW v \in Worktrees, Untouched(v)
    PROVE  Consistent(v)'
<1>1. TypeOK /\ Consistent(v)
  BY ConsistentNow DEF Inductive
<1>2. /\ LatestStatus(v)' = LatestStatus(v) /\ Reserved(v)' = Reserved(v)
      /\ Unmerged(v) => Unmerged(v)'
      /\ LatestStatus(v) # "none" =>
           Source(v)' = Source(v) /\ (ops[Latest(v)].target)' = ops[Latest(v)].target
  BY SameStatus DEF Untouched
<1>3. Recorded(v)'
  <2>1. row[v].mergeSha # None => row[v].mergeSha \in Line(target)'
          /\ commits'[row[v].mergeSha].anc = Anc(row[v].mergeSha)
    BY <1>1, MergesStay DEF Consistent, Recorded
  <2>2. row'[v] = row[v]
    BY DEF Untouched
  <2> QED
    BY <1>1, <1>2, <2>1, <2>2 DEF Consistent, Recorded, Anc
<1>4. IsApart(v)'
  BY <1>1, <1>2 DEF Consistent, IsApart, Untouched, Live
<1>5. StageAgrees(v)'
  <2>1. CASE stage'[v] \in {"idle", "discarding", "marking"}
    BY <2>1 DEF StageAgrees
  <2>2. CASE stage'[v] \notin {"idle", "discarding", "marking"}
    <3>1. stage'[v] = stage[v] /\ local'[v] = local[v] /\ row'[v] = row[v]
      BY <2>2 DEF Untouched
    <3>2. stage[v] # "gating" => run'[v] = run[v]
      BY <2>2, <3>1 DEF Untouched
    <3>3. stage[v] = "recording" => Recordable(v)'
      <4>1. Recordable(v) => (row[v].mergeSha = None =>
              local[v].merge \in Line(target)'
              /\ commits'[local[v].merge].anc = Anc(local[v].merge))
        BY <1>1, MergesStay DEF Recordable
      <4>2. Recordable(v) => LatestStatus(v) # "none"
        BY DEF Recordable
      <4> QED
        BY <1>1, <1>2, <3>1, <4>1, <4>2 DEF Consistent, StageAgrees, Recordable, Anc
    <3>4. Reserved(v) => LatestStatus(v) # "none"
      BY DEF Reserved
    <3> QED
      BY <1>1, <1>2, <3>1, <3>2, <3>3, <3>4 DEF Consistent, StageAgrees, Reviewed
  <2> QED
    BY <2>1, <2>2
<1> QED
  BY <1>3, <1>4, <1>5 DEF Consistent

LEMMA OpsUnwritten == ASSUME UNCHANGED ops, NEW v PROVE SameOps(v)
BY OpsStay DEF SameOps

\* A step writes operations of its own worktree only.
LEMMA OtherOps ==
    ASSUME Inductive, NEW w \in Worktrees, NEW v \in Worktrees, v # w,
           UNCHANGED ops \/ Adds(w) \/ \E r : Saves(w, r)
    PROVE  SameOps(v)
<1>1. TypeOK
  BY DEF Inductive
<1>2. CASE UNCHANGED ops
  BY <1>2, OpsUnwritten
<1>3. CASE Adds(w)
  <2>1. PICK r \in OpRecs : r.tree = w /\ ops' = Append(ops, r)
    BY <1>3 DEF Adds
  <2>2. /\ \A p \in 1..Len(ops) : ops'[p] = ops[p]
        /\ OpsOf(v)' = OpsOf(v) /\ Latest(v)' = Latest(v)
    BY <1>1, <2>1, Types, OpsAdded
  <2> QED
    BY <2>2 DEF SameOps, OpsOf
<1>4. ASSUME NEW r, Saves(w, r) PROVE SameOps(v)
  <2>1. /\ \A p \in 1..Len(ops) : ops'[p] = IF p = Latest(w) THEN r ELSE ops[p]
        /\ OpsOf(v)' = OpsOf(v) /\ Latest(v)' = Latest(v)
        /\ ops[Latest(w)].tree = w
    BY <1>1, <1>4, SavesKeep
  <2> QED
    BY <2>1 DEF SameOps, OpsOf
<1> QED
  BY <1>2, <1>3, <1>4

LEMMA OthersUntouched ==
    ASSUME Inductive, NEW w \in Worktrees, NEW v \in Worktrees, v # w,
           MergeStep(w) \/ TreeStep(w) \/ OtherStep(w) \/ Throw(w)
    PROVE  Untouched(v)
<1>1. TypeOK
  BY DEF Inductive
<1> DEFINE Rest == /\ row'[v] = row[v] /\ (v \in branch' <=> v \in branch)
                   /\ stage'[v] = stage[v] /\ local'[v] = local[v] /\ run'[v] = run[v]
<1>2. CASE MergeStep(w)
  <2>1. Rest
    <3>1. CASE InspectFinds(w) \/ InspectMisses(w) \/ Gate(w) \/ Reserve(w)
      BY <1>1, <3>1 DEF TypeOK, InspectFinds, InspectMisses, Gate, Reserve, To, git, records
    <3>2. CASE MoveTarget(w) \/ MoveNothing(w) \/ MoveFails(w)
      BY <1>1, <3>2 DEF TypeOK, MoveTarget, MoveNothing, MoveFails, To, git, records
    <3>3. CASE Record(w)
      BY <1>1, <3>3 DEF TypeOK, Record, To, git
    <3>4. CASE CleanupLooks(w) \/ RemoveCheckout(w) \/ DeleteBranch(w) \/ CleanupFails(w) \/ FinishCleanup(w)
      BY <1>1, <3>4 DEF TypeOK, CleanupLooks, RemoveCheckout, DeleteBranch, CleanupFails,
        FinishCleanup, Done, To, git, records
    <3> QED
      BY <1>2, <3>1, <3>2, <3>3, <3>4 DEF MergeStep
  <2>2. UNCHANGED ops \/ Adds(w) \/ \E r : Saves(w, r)
    <3>1. CASE InspectMisses(w) \/ Reserve(w) \/ Record(w) \/ FinishCleanup(w)
      BY <3>1, OpsWritten
    <3>2. CASE \/ InspectFinds(w) \/ Gate(w) \/ MoveTarget(w) \/ MoveNothing(w) \/ MoveFails(w)
               \/ CleanupLooks(w) \/ RemoveCheckout(w) \/ DeleteBranch(w) \/ CleanupFails(w)
      BY <3>2 DEF InspectFinds, Gate, MoveTarget, MoveNothing, MoveFails, CleanupLooks,
        RemoveCheckout, DeleteBranch, CleanupFails, records
    <3> QED
      BY <1>2, <3>1, <3>2 DEF MergeStep
  <2> QED
    BY <2>1, <2>2, OtherOps DEF Untouched
<1>3. CASE TreeStep(w)
  <2>1. Rest /\ UNCHANGED ops
    BY <1>1, <1>3 DEF TypeOK, TreeStep, RequestUpdate, Update, Discard, MarkRemoved, Done, To, git, records
  <2> QED
    BY <2>1, OpsUnwritten DEF Untouched
<1>4. CASE OtherStep(w)
  <2>1. Rest /\ UNCHANGED ops
    BY <1>1, <1>4 DEF TypeOK, OtherStep, BeginMerge, BeginUpdate, BeginRemoval, OutsideEdit,
      OutsideCommit, LaunchWork, LaunchReview, AgentCommits, EndRun, To, git, records
  <2> QED
    BY <2>1, OpsUnwritten DEF Untouched
<1>5. CASE Throw(w)
  <2>1. Rest /\ UNCHANGED ops
    BY <1>1, <1>5 DEF TypeOK, Throw, Done, To, git, records
  <2> QED
    BY <2>1, OpsUnwritten DEF Untouched
<1> QED
  BY <1>2, <1>3, <1>4, <1>5

\* People, agents and what only ends leave a worktree's records as they are.
LEMMA PlainUntouched ==
    ASSUME Inductive, NEW v \in Worktrees,
           \/ OutsideTarget \/ Crash \/ Throw(v) \/ Update(v) \/ Discard(v) \/ BeginRemoval(v)
           \/ OutsideEdit(v) \/ OutsideCommit(v) \/ AgentCommits(v) \/ EndRun(v)
    PROVE  Untouched(v)
<1>1. TypeOK /\ Consistent(v)
  BY ConsistentNow DEF Inductive
<1>2. UNCHANGED <<row, branch, ops>>
  BY DEF OutsideTarget, Crash, Throw, Update, Discard, BeginRemoval, OutsideEdit, OutsideCommit,
    AgentCommits, EndRun, git, records
<1>3. SameOps(v)
  BY <1>2, OpsUnwritten
<1>4. CASE OutsideTarget \/ OutsideEdit(v) \/ OutsideCommit(v) \/ AgentCommits(v)
  BY <1>2, <1>3, <1>4 DEF OutsideTarget, OutsideEdit, OutsideCommit, AgentCommits, records, Untouched
<1>5. CASE Throw(v) \/ Update(v)
  BY <1>1, <1>2, <1>3, <1>5 DEF TypeOK, Throw, Update, Done, To, records, Untouched
<1>6. CASE Crash
  BY <1>1, <1>2, <1>3, <1>6 DEF TypeOK, Crash, Live, Untouched
<1>7. CASE EndRun(v)
  <2>1. stage[v] \in {"idle", "gating"} /\ UNCHANGED <<stage, local>>
    BY <1>1, <1>7 DEF EndRun, Consistent, IsApart
  <2>2. run'[v].state # "live"
    <3>1. run \in [Worktrees -> [kind : {"none", "work", "review"},
                                 state : {"live", "mergeable", "ended"},
                                 head : 0..Len(commits), target : 0..Len(commits),
                                 version : 0..MaxVersion]]
      BY <1>1 DEF TypeOK
    <3>2. PICK s \in {"mergeable", "ended"} : run' = [run EXCEPT ![v].state = s]
      BY <1>7 DEF EndRun
    <3> QED
      BY <3>1, <3>2
  <2> QED
    BY <1>2, <1>3, <2>1, <2>2 DEF Untouched, Live
<1>8. CASE Discard(v) \/ BeginRemoval(v)
  <2>1. ~Live(v) /\ run' = run
    BY <1>1, <1>8 DEF Discard, BeginRemoval, records, Consistent, IsApart
  <2>2. stage'[v] \in {"discarding", "marking"}
    BY <1>1, <1>8 DEF TypeOK, Discard, BeginRemoval, To
  <2> QED
    BY <1>2, <1>3, <2>1, <2>2 DEF Untouched, Live
<1> QED
  BY <1>4, <1>5, <1>6, <1>7, <1>8

\* A step that writes no operation and adds no commit.
LEMMA NothingWritten ==
    ASSUME UNCHANGED <<commits, target, ops>>, NEW w
    PROVE  /\ LatestStatus(w)' = LatestStatus(w) /\ Reserved(w)' = Reserved(w)
           /\ Source(w)' = Source(w) /\ (ops[Latest(w)].target)' = ops[Latest(w)].target
           /\ Unmerged(w)' = Unmerged(w)
           /\ Line(target)' = Line(target) /\ \A c : commits'[c].anc = Anc(c)
<1>1. /\ LatestStatus(w)' = LatestStatus(w) /\ Reserved(w)' = Reserved(w)
      /\ Source(w)' = Source(w) /\ Latest(w)' = Latest(w) /\ OpsOf(w)' = OpsOf(w)
  BY OpsStay
<1> QED
  BY <1>1 DEF Unmerged, Line, Anc

\* Steps that write no operation.
LEMMA PlainConsistent ==
    ASSUME Inductive, NEW w \in Worktrees,
           \/ LaunchWork(w) \/ LaunchReview(w) \/ BeginUpdate(w) \/ RequestUpdate(w) \/ MarkRemoved(w)
           \/ BeginMerge(w) \/ InspectFinds(w) \/ Gate(w) \/ MoveNothing(w) \/ MoveFails(w)
           \/ CleanupLooks(w) \/ RemoveCheckout(w) \/ DeleteBranch(w) \/ CleanupFails(w)
    PROVE  Consistent(w)'
<1> USE DEF Consistent, StageAgrees, IsApart, Recorded, To
<1>1. TypeOK /\ InTurn /\ History /\ MergesLand /\ Consistent(w)
  BY ConsistentNow DEF Inductive
<1>2. /\ stage \in [Worktrees -> Stages] /\ stage[w] \in Stages
      /\ row \in [Worktrees -> [status : {"active", "removed"}, version : 1..MaxVersion,
                                mergeSha : 0..Len(commits)]]
      /\ run \in [Worktrees -> [kind : {"none", "work", "review"},
                                state : {"live", "mergeable", "ended"},
                                head : 0..Len(commits), target : 0..Len(commits),
                                version : 0..MaxVersion]]
      /\ local \in [Worktrees -> [head : 0..Len(commits), target : 0..Len(commits),
                                  merge : 0..Len(commits)]]
  BY <1>1 DEF TypeOK
<1>3. UNCHANGED <<commits, target, ops>>
  BY DEF LaunchWork, LaunchReview, BeginUpdate, RequestUpdate, MarkRemoved, BeginMerge, InspectFinds,
    Gate, MoveNothing, MoveFails, CleanupLooks, RemoveCheckout, DeleteBranch, CleanupFails, git, records
<1>4. /\ LatestStatus(w)' = LatestStatus(w) /\ Reserved(w)' = Reserved(w)
      /\ Source(w)' = Source(w) /\ (ops[Latest(w)].target)' = ops[Latest(w)].target
      /\ Unmerged(w)' = Unmerged(w)
      /\ Line(target)' = Line(target) /\ \A c : commits'[c].anc = Anc(c)
  BY <1>3, NothingWritten
<1>5. CASE LaunchWork(w)
  <2>1. Recorded(w)'
    BY <1>1, <1>2, <1>3, <1>4, <1>5 DEF LaunchWork, Launchable, Live, git, Anc
  <2>2. IsApart(w)'
    BY <1>1, <1>2, <1>3, <1>4, <1>5 DEF LaunchWork, Launchable, Live, git, Stages
  <2>3. StageAgrees(w)'
    BY <1>1, <1>2, <1>3, <1>4, <1>5 DEF LaunchWork, Launchable, Live, git
  <2> QED
    BY <2>1, <2>2, <2>3
<1>6. CASE LaunchReview(w)
  <2>1. Recorded(w)'
    BY <1>1, <1>2, <1>3, <1>4, <1>6 DEF LaunchReview, Launchable, Live, git, Anc
  <2>2. IsApart(w)'
    BY <1>1, <1>2, <1>3, <1>4, <1>6 DEF LaunchReview, Launchable, Live, git, Stages
  <2>3. StageAgrees(w)'
    BY <1>1, <1>2, <1>3, <1>4, <1>6 DEF LaunchReview, Launchable, Live, git
  <2> QED
    BY <2>1, <2>2, <2>3
<1>7. CASE BeginUpdate(w)
  <2>1. Recorded(w)'
    BY <1>1, <1>2, <1>3, <1>4, <1>7 DEF BeginUpdate, LaneFree, git, records, Live, Anc
  <2>2. IsApart(w)'
    BY <1>1, <1>2, <1>3, <1>4, <1>7 DEF BeginUpdate, LaneFree, git, records, Live, Stages
  <2>3. StageAgrees(w)'
    <3>1. target # None /\ Len(commits) \in Nat
      BY <1>1, Types DEF None
    <3>2. stage'[w] = "reading" /\ local'[w].target = target
      BY <1>2, <1>7 DEF BeginUpdate
    <3> QED
      BY <3>1, <3>2
  <2> QED
    BY <2>1, <2>2, <2>3
<1>8. CASE RequestUpdate(w)
  <2>1. Recorded(w)'
    BY <1>1, <1>2, <1>3, <1>4, <1>8 DEF RequestUpdate, git, Live, Anc
  <2>2. IsApart(w)'
    BY <1>1, <1>2, <1>3, <1>4, <1>8 DEF RequestUpdate, git, Live, Stages
  <2>3. StageAgrees(w)'
    BY <1>1, <1>2, <1>3, <1>4, <1>8 DEF RequestUpdate, git, Live
  <2> QED
    BY <2>1, <2>2, <2>3
<1>9. CASE MarkRemoved(w)
  <2>1. Recorded(w)'
    BY <1>1, <1>2, <1>3, <1>4, <1>9 DEF MarkRemoved, Done, git, Live, Anc
  <2>2. IsApart(w)'
    BY <1>1, <1>2, <1>3, <1>4, <1>9 DEF MarkRemoved, Done, git, Live, Stages
  <2>3. StageAgrees(w)'
    BY <1>1, <1>2, <1>3, <1>4, <1>9 DEF MarkRemoved, Done, git, Live
  <2> QED
    BY <2>1, <2>2, <2>3
<1>10. CASE Gate(w)
  <2>1. Recorded(w)'
    BY <1>1, <1>2, <1>3, <1>4, <1>10 DEF Gate, git, records, Live, Reviewed, Anc
  <2>2. IsApart(w)'
    BY <1>1, <1>2, <1>3, <1>4, <1>10 DEF Gate, git, records, Live, Reviewed, Stages
  <2>3. StageAgrees(w)'
    BY <1>1, <1>2, <1>3, <1>4, <1>10 DEF Gate, git, records, Live, Reviewed
  <2> QED
    BY <2>1, <2>2, <2>3
<1>11. CASE MoveFails(w)
  <2>1. Recorded(w)'
    BY <1>1, <1>2, <1>3, <1>4, <1>11 DEF MoveFails, git, records, Live, Reviewed, Anc
  <2>2. IsApart(w)'
    BY <1>1, <1>2, <1>3, <1>4, <1>11 DEF MoveFails, git, records, Live, Reviewed, Stages
  <2>3. StageAgrees(w)'
    BY <1>1, <1>2, <1>3, <1>4, <1>11 DEF MoveFails, git, records, Live, Reviewed
  <2> QED
    BY <2>1, <2>2, <2>3
<1>12. CASE CleanupLooks(w)
  <2>1. Recorded(w)'
    BY <1>1, <1>2, <1>3, <1>4, <1>12 DEF CleanupLooks, git, records, Live, Anc
  <2>2. IsApart(w)'
    BY <1>1, <1>2, <1>3, <1>4, <1>12 DEF CleanupLooks, git, records, Live, Stages
  <2>3. StageAgrees(w)'
    BY <1>1, <1>2, <1>3, <1>4, <1>12 DEF CleanupLooks, git, records, Live
  <2> QED
    BY <2>1, <2>2, <2>3
<1>13. CASE RemoveCheckout(w)
  <2>1. Recorded(w)'
    BY <1>1, <1>2, <1>3, <1>4, <1>13 DEF RemoveCheckout, records, Live, Anc
  <2>2. IsApart(w)'
    BY <1>1, <1>2, <1>3, <1>4, <1>13 DEF RemoveCheckout, records, Live, Stages
  <2>3. StageAgrees(w)'
    BY <1>1, <1>2, <1>3, <1>4, <1>13 DEF RemoveCheckout, records, Live
  <2> QED
    BY <2>1, <2>2, <2>3
<1>14. CASE CleanupFails(w)
  <2>1. Recorded(w)'
    BY <1>1, <1>2, <1>3, <1>4, <1>14 DEF CleanupFails, git, records, Live, Anc
  <2>2. IsApart(w)'
    BY <1>1, <1>2, <1>3, <1>4, <1>14 DEF CleanupFails, git, records, Live, Stages
  <2>3. StageAgrees(w)'
    BY <1>1, <1>2, <1>3, <1>4, <1>14 DEF CleanupFails, git, records, Live
  <2> QED
    BY <2>1, <2>2, <2>3
<1>15. CASE DeleteBranch(w)
  <2>1. Recorded(w)'
    BY <1>1, <1>2, <1>3, <1>4, <1>15 DEF DeleteBranch, records, Live, Anc
  <2>2. IsApart(w)'
    BY <1>1, <1>2, <1>3, <1>4, <1>15 DEF DeleteBranch, records, Live, Stages
  <2>3. StageAgrees(w)'
    BY <1>1, <1>2, <1>3, <1>4, <1>15 DEF DeleteBranch, records, Live
  <2> QED
    BY <2>1, <2>2, <2>3
<1>16. CASE InspectFinds(w)
  <2>1. Recorded(w)' /\ IsApart(w)'
    BY <1>1, <1>2, <1>3, <1>4, <1>16 DEF InspectFinds, git, records, Live, Anc
  <2>2. PICK c \in Landed(Latest(w)) : local'[w].merge = c /\ stage'[w] = "recording"
    BY <1>2, <1>16 DEF InspectFinds
  <2>3. LatestStatus(w) = "reserved"
    BY <1>1, <1>16 DEF InspectFinds, Reserved
  <2>4. Latest(w) \in 1..Len(ops)
    BY <1>1, <2>3, LatestThere
  <2>5. c \in Merges /\ c \in Line(target) /\ commits[c].op = Latest(w)
    <3>1. target \in 1..Len(commits) /\ Line(target) \subseteq 1..target /\ Len(commits) \in Nat
      BY <1>1, Types
    <3> QED
      BY <2>2, <2>4, <3>1 DEF Landed, Merges, None
  <2>6. Source(w) \in Anc(c)
    BY <1>1, <2>5 DEF MergesLand, Source
  <2> QED
    BY <1>4, <2>1, <2>2, <2>3, <2>5, <2>6 DEF Recordable, Anc
<1>17. CASE MoveNothing(w)
  <2>1. Recorded(w)' /\ IsApart(w)'
    BY <1>1, <1>2, <1>3, <1>4, <1>17 DEF MoveNothing, git, records, Live, Anc
  <2>2. local'[w].merge = target /\ stage'[w] = "recording" /\ Source(w) \in Anc(target)
    BY <1>2, <1>17 DEF MoveNothing, Source
  <2>3. LatestStatus(w) = "reserved" /\ target \in Line(target)
    BY <1>1, <1>17, Types DEF MoveNothing, Reserved, History
  <2> QED
    BY <1>4, <2>1, <2>2, <2>3 DEF Recordable, Anc
<1>18. CASE BeginMerge(w)
  <2>1. Recorded(w)'
    BY <1>1, <1>2, <1>3, <1>4, <1>18 DEF BeginMerge, git, records, Anc
  <2>2. stage[w] = "idle" /\ row' = row /\ run' = run /\ branch' = branch
    BY <1>18 DEF BeginMerge, LaneFree, git, records
  <2>3. CASE Reserved(w)
    <3>1. stage'[w] = "inspecting"
      BY <1>2, <1>18, <2>3 DEF BeginMerge, Reserved
    <3> QED
      BY <1>1, <1>4, <2>1, <2>2, <2>3, <3>1 DEF Live
  <2>4. CASE ~Reserved(w) /\ LatestStatus(w) \in {"merged", "cleaned"}
    <3>1. stage'[w] = "recording" /\ row[w].mergeSha # None
      BY <1>1, <1>2, <1>18, <2>4 DEF BeginMerge
    <3> QED
      BY <1>1, <1>4, <2>1, <2>2, <2>4, <3>1 DEF Recordable, Live
  <2>5. CASE ~Reserved(w) /\ LatestStatus(w) \notin {"merged", "cleaned"}
    <3>1. stage'[w] = "gating"
      BY <1>1, <1>2, <1>18, <2>5 DEF BeginMerge
    <3>2. Unmerged(w)
      <4>1. CASE LatestStatus(w) = "none"
        <5>1. ASSUME OpsOf(w) # {} PROVE FALSE
          <6>1. Latest(w) \in OpsOf(w)
            BY <1>1, <5>1, LatestIs, Types
          <6>2. ops[Latest(w)] \in OpRecs
            BY <1>1, <6>1, Types DEF OpsOf
          <6> QED
            BY <4>1, <5>1, <6>2 DEF LatestStatus, OpRecs, Statuses
        <5> QED
          BY <5>1 DEF Unmerged
      <4>2. CASE LatestStatus(w) # "none"
        <5>1. /\ ops[Latest(w)].status = LatestStatus(w) /\ ops[Latest(w)] \in OpRecs
              /\ \A p \in OpsOf(w) : p # Latest(w) => ops[p].status = "failed"
          BY <1>1, <4>2, LatestThere
        <5>2. ops[Latest(w)].status = "failed"
          BY <2>5, <5>1 DEF OpRecs, Statuses, Reserved
        <5> QED
          BY <5>1, <5>2 DEF Unmerged
      <4> QED
        BY <4>1, <4>2
    <3> QED
      BY <1>1, <1>4, <2>1, <2>2, <3>1, <3>2 DEF Live
  <2> QED
    BY <2>3, <2>4, <2>5
<1> QED
  BY <1>5, <1>6, <1>7, <1>8, <1>9, <1>10, <1>11, <1>12, <1>13, <1>14, <1>15, <1>16, <1>17, <1>18

\* What a written record changes of its worktree's status.
LEMMA StatusWritten ==
    ASSUME Inductive, NEW w \in Worktrees, NEW r, Saves(w, r)
    PROVE  /\ LatestStatus(w)' = r.status /\ Source(w)' = Source(w) /\ LatestStatus(w) # "none"
           /\ OpsOf(w)' = OpsOf(w) /\ Latest(w)' = Latest(w)
           /\ \A o \in OpsOf(w) : ops'[o] = IF o = Latest(w) THEN r ELSE ops[o]
<1>1. TypeOK /\ InTurn
  BY DEF Inductive
<1>2. /\ \A p \in 1..Len(ops) : ops'[p] = IF p = Latest(w) THEN r ELSE ops[p]
      /\ OpsOf(w)' = OpsOf(w) /\ Latest(w)' = Latest(w)
      /\ Latest(w) \in 1..Len(ops)
  BY <1>1, SavesKeep
<1>3. Latest(w) \in OpsOf(w) /\ r.source = Source(w)
  BY DEF Saves
<1>4. ops'[Latest(w)] = r
  BY <1>2
<1>5. LatestStatus(w)' = r.status
  BY <1>2, <1>3, <1>4 DEF LatestStatus
<1>6. Source(w)' = Source(w)
  BY <1>2, <1>3, <1>4 DEF Source
<1>7. LatestStatus(w) # "none"
  <2>1. ops[Latest(w)] \in OpRecs
    BY <1>1, <1>2, Types
  <2> QED
    BY <1>3, <2>1 DEF LatestStatus, OpRecs, Statuses
<1> QED
  BY <1>2, <1>5, <1>6, <1>7 DEF OpsOf

\* Steps that write an operation, and the merge.
LEMMA WrittenConsistent ==
    ASSUME Inductive, NEW w \in Worktrees,
           InspectMisses(w) \/ Reserve(w) \/ Record(w) \/ FinishCleanup(w) \/ MoveTarget(w)
    PROVE  Consistent(w)'
<1> USE DEF Consistent, StageAgrees, IsApart, Recorded, To
<1>1. TypeOK /\ InTurn /\ History /\ MergesLand /\ Consistent(w)
  BY ConsistentNow DEF Inductive
<1>2. /\ stage \in [Worktrees -> Stages] /\ stage[w] \in Stages
      /\ row \in [Worktrees -> [status : {"active", "removed"}, version : 1..MaxVersion,
                                mergeSha : 0..Len(commits)]]
      /\ run \in [Worktrees -> [kind : {"none", "work", "review"},
                                state : {"live", "mergeable", "ended"},
                                head : 0..Len(commits), target : 0..Len(commits),
                                version : 0..MaxVersion]]
      /\ local \in [Worktrees -> [head : 0..Len(commits), target : 0..Len(commits),
                                  merge : 0..Len(commits)]]
  BY <1>1 DEF TypeOK
<1>3. CASE InspectMisses(w)
  <2>1. LatestStatus(w) = "reserved" /\ row[w].mergeSha = None
    BY <1>1, <1>3 DEF InspectMisses, Reserved
  <2>2. /\ ops[Latest(w)] \in OpRecs
        /\ \A p \in OpsOf(w) : p # Latest(w) => ops[p].status = "failed"
    BY <1>1, <2>1, LatestThere
  <2> DEFINE r == [ops[Latest(w)] EXCEPT !.status = "failed"]
  <2>3. Saves(w, r) /\ r.status = "failed"
    BY <1>1, <1>3, <2>1, <2>2, StatusSaved DEF InspectMisses, Statuses, OpRecs
  <2> HIDE DEF r
  <2>4. /\ LatestStatus(w)' = "failed"
        /\ OpsOf(w)' = OpsOf(w)
        /\ \A o \in OpsOf(w) : ops'[o] = IF o = Latest(w) THEN r ELSE ops[o]
    BY <2>3, StatusWritten
  <2>5. Unmerged(w)'
    BY <2>2, <2>3, <2>4 DEF Unmerged
  <2>6. /\ stage'[w] \in {"gating", "idle"} /\ row' = row /\ run' = run /\ branch' = branch
    BY <1>2, <1>3 DEF InspectMisses, git
  <2> QED
    BY <1>1, <2>1, <2>4, <2>5, <2>6 DEF Live, Reserved
<1>4. CASE Reserve(w)
  <2>1. PICK r \in OpRecs : /\ ops' = Append(ops, r) /\ r.tree = w /\ r.status = "reserved"
                            /\ r.source = run[w].head /\ r.target = run[w].target
    BY <1>4, ReserveAdds
  <2>2. /\ ops'[Len(ops) + 1] = r /\ OpsOf(w)' = OpsOf(w) \cup {Len(ops) + 1}
        /\ Latest(w)' = Len(ops) + 1
    BY <1>1, <2>1, Types, OpsAdded
  <2>3. LatestStatus(w)' = "reserved" /\ Source(w)' = run[w].head
        /\ (ops[Latest(w)].target)' = run[w].target
    BY <2>1, <2>2 DEF LatestStatus, Source
  <2>4. stage[w] = "gated" /\ stage'[w] = "moving" /\ row' = row /\ run' = run /\ branch' = branch
    BY <1>2, <1>4 DEF Reserve, git
  <2>5. row[w].mergeSha = None
    <3>1. Unmerged(w)
      BY <1>1, <2>4
    <3>2. ASSUME LatestStatus(w) \in {"merged", "cleaned"} PROVE FALSE
      <4>1. Latest(w) \in OpsOf(w) /\ ops[Latest(w)].status = LatestStatus(w)
        BY <1>1, <3>2, LatestThere
      <4> QED
        BY <3>1, <3>2, <4>1 DEF Unmerged
    <3> QED
      BY <1>1, <3>2
  <2> QED
    BY <1>1, <2>3, <2>4, <2>5 DEF Live, Reserved, Reviewed
<1>5. CASE Record(w)
  <2>1. LatestStatus(w) \in {"reserved", "merged", "cleaned"} /\ Recordable(w) /\ ~Live(w)
    BY <1>1, <1>5 DEF Record, Recordable
  <2>2. UNCHANGED <<commits, target, branch, run>> /\ stage'[w] = "cleaning"
    BY <1>2, <1>5 DEF Record, git
  <2>3. CASE row[w].mergeSha # None
    <3>1. UNCHANGED <<row, ops>>
      BY <1>5, <2>3 DEF Record
    <3>2. /\ LatestStatus(w)' = LatestStatus(w) /\ Source(w)' = Source(w)
          /\ Line(target)' = Line(target) /\ \A c : commits'[c].anc = Anc(c)
      BY <2>2, <3>1, NothingWritten
    <3> QED
      BY <1>1, <2>1, <2>2, <2>3, <3>1, <3>2 DEF Live, Anc
  <2>4. CASE row[w].mergeSha = None
    <3>1. local[w].merge \in Line(target) /\ Source(w) \in Anc(local[w].merge)
      BY <2>1, <2>4 DEF Recordable
    <3>2. local[w].merge \in 1..Len(commits) /\ Len(commits) \in Nat
      BY <1>1, <1>5, <2>4, MergeThere, Types
    <3>3. PICK r : Saves(w, r) /\ r.status = "merged"
      <4>1. ops[Latest(w)] \in OpRecs
        BY <1>1, <2>1, LatestThere
      <4>2. Saves(w, [ops[Latest(w)] EXCEPT !.status = "merged", !.mergeSha = local[w].merge])
        BY <1>1, <1>5, <2>1, <2>4, <3>2, MergeSaved DEF Record
      <4>3. [ops[Latest(w)] EXCEPT !.status = "merged", !.mergeSha = local[w].merge].status = "merged"
        BY <4>1 DEF OpRecs
      <4> QED
        BY <4>2, <4>3
    <3>4. LatestStatus(w)' = "merged" /\ Source(w)' = Source(w)
      BY <3>3, StatusWritten
    <3>5. row'[w].mergeSha = local[w].merge /\ row'[w].status = "removed"
      BY <1>2, <1>5, <2>4 DEF Record
    <3> QED
      BY <2>1, <2>2, <3>1, <3>2, <3>4, <3>5 DEF Live, Anc, Line, None
  <2> QED
    BY <2>3, <2>4
<1>6. CASE FinishCleanup(w)
  <2>1. row[w].mergeSha # None /\ LatestStatus(w) \in {"merged", "cleaned"}
    BY <1>1, <1>6 DEF FinishCleanup
  <2>2. PICK s \in {"cleaned", "merged"} : Saved(Latest(w), s)
    BY <1>6 DEF FinishCleanup
  <2>3. PICK r : Saves(w, r) /\ r.status = s
    <3>1. Saves(w, [ops[Latest(w)] EXCEPT !.status = s]) /\ ops[Latest(w)] \in OpRecs
      BY <1>1, <2>1, <2>2, StatusSaved, LatestThere DEF Statuses
    <3>2. [ops[Latest(w)] EXCEPT !.status = s].status = s
      BY <3>1 DEF OpRecs
    <3> QED
      BY <3>1, <3>2
  <2>4. LatestStatus(w)' = s /\ Source(w)' = Source(w)
    BY <2>3, StatusWritten
  <2>5. /\ stage'[w] = "idle" /\ row' = row /\ run' = run /\ branch' = branch
        /\ commits' = commits /\ target' = target
    BY <1>2, <1>6 DEF FinishCleanup, Done, git
  <2> QED
    BY <1>1, <2>1, <2>2, <2>4, <2>5 DEF Live, Anc, Line, Reserved
<1>7. CASE MoveTarget(w)
  <2>1. UNCHANGED <<row, run, branch, ops>> /\ stage'[w] \in {"recording", "failing"}
    BY <1>2, <1>7 DEF MoveTarget, records
  <2>2. LatestStatus(w) = "reserved" /\ row[w].mergeSha = None /\ ~Live(w)
    BY <1>1, <1>7 DEF MoveTarget, Reserved
  <2>3. /\ LatestStatus(w)' = LatestStatus(w) /\ Source(w)' = Source(w) /\ Reserved(w)' = Reserved(w)
    BY <2>1, OpsStay
  <2>4. stage'[w] = "recording" => local'[w].merge = New
    BY <1>2, <1>7 DEF MoveTarget
  <2>5. /\ Source(w) \in 1..Len(commits) /\ target' = New
        /\ commits'[New] = [anc |-> {New} \cup (Anc(target) \cup Anc(Source(w))),
                            line |-> Line(target) \cup {New}, op |-> Latest(w)]
    BY <1>7, MoveAdds
  <2>6. Source(w) \in commits'[New].anc /\ New \in commits'[target'].line
    BY <1>1, <2>5 DEF History
  <2>7. Recordable(w)' \/ stage'[w] = "failing"
    BY <2>1, <2>2, <2>3, <2>4, <2>6 DEF Recordable, Anc, Line
  <2> QED
    BY <1>1, <2>1, <2>2, <2>3, <2>7 DEF Live, Reserved
<1> QED
  BY <1>3, <1>4, <1>5, <1>6, <1>7

\* Every step leaves every worktree's records, branches and stage in agreement.
LEMMA ConsistentStep ==
    Inductive /\ [Next]_vars => \A w \in Worktrees : Consistent(w)'
<1> SUFFICES ASSUME Inductive, [Next]_vars, NEW v \in Worktrees PROVE Consistent(v)'
  OBVIOUS
<1>1. Kept
  BY KeptStep
<1>2. ASSUME Untouched(v) PROVE Consistent(v)'
  BY <1>1, <1>2, UntouchedStays
<1>3. CASE UNCHANGED vars
  <2>1. Untouched(v)
    BY <1>3, OpsUnwritten DEF vars, git, records, Untouched
  <2> QED
    BY <1>2, <2>1
<1>4. CASE OutsideTarget \/ Crash
  BY <1>2, <1>4, PlainUntouched
<1>5. ASSUME NEW w \in Worktrees, MergeStep(w) \/ TreeStep(w) \/ OtherStep(w) \/ Throw(w)
      PROVE  Consistent(v)'
  <2>1. CASE v # w
    BY <1>2, <1>5, <2>1, OthersUntouched
  <2>2. CASE v = w
    <3>1. CASE MergeStep(v)
      BY <3>1, PlainConsistent, WrittenConsistent DEF MergeStep
    <3>2. CASE TreeStep(v)
      BY <1>2, <3>2, PlainUntouched, PlainConsistent DEF TreeStep
    <3>3. CASE OtherStep(v)
      BY <1>2, <3>3, PlainUntouched, PlainConsistent DEF OtherStep
    <3>4. CASE Throw(v)
      BY <1>2, <3>4, PlainUntouched
    <3> QED
      BY <1>5, <2>2, <3>1, <3>2, <3>3, <3>4
  <2> QED
    BY <2>1, <2>2
<1> QED
  BY <1>3, <1>4, <1>5 DEF Next

LEMMA AgreementStep ==
    Inductive /\ [Next]_vars => StagesAgree' /\ LiveApart' /\ RecordedIsMerged'
<1> SUFFICES ASSUME Inductive, [Next]_vars PROVE StagesAgree' /\ LiveApart' /\ RecordedIsMerged'
  OBVIOUS
<1>1. \A w \in Worktrees : StageAgrees(w)' /\ IsApart(w)' /\ Recorded(w)'
  BY ConsistentStep DEF Consistent
<1>2. StagesAgree'
  BY <1>1 DEF StagesAgree
<1>3. LiveApart'
  BY <1>1 DEF LiveApart
<1>4. RecordedIsMerged'
  BY <1>1 DEF RecordedIsMerged, Recorded
<1> QED
  BY <1>2, <1>3, <1>4

\* What may change a branch: its deletion, its worktree's agents and people, and an update.
LEMMA BranchSteps ==
    ASSUME Inductive, Next, NEW w \in Worktrees
    PROVE  \/ head'[w] = head[w] /\ (w \in branch' <=> w \in branch)
           \/ head'[w] = head[w] /\ head[w] \in Anc(target)
           \/ w \in branch /\ w \in branch'
<1>1. TypeOK /\ Consistent(w)
  BY ConsistentNow DEF Inductive
<1> DEFINE Goal == \/ head'[w] = head[w] /\ (w \in branch' <=> w \in branch)
                   \/ head'[w] = head[w] /\ head[w] \in Anc(target)
                   \/ w \in branch /\ w \in branch'
<1>2. CASE OutsideTarget \/ Crash
  BY <1>2 DEF OutsideTarget, Crash, git
<1>3. ASSUME NEW v \in Worktrees, DeleteBranch(v) PROVE Goal
  BY <1>3 DEF DeleteBranch
<1>4. ASSUME NEW v \in Worktrees, MergeStep(v), ~DeleteBranch(v) PROVE Goal
  BY <1>4 DEF MergeStep, InspectFinds, InspectMisses, Gate, Reserve, MoveTarget, MoveNothing, MoveFails,
    Record, CleanupLooks, RemoveCheckout, CleanupFails, FinishCleanup, git
<1>5. ASSUME NEW v \in Worktrees, OutsideCommit(v) \/ AgentCommits(v) \/ Update(v) PROVE Goal
  <2>1. branch' = branch
    BY <1>5 DEF OutsideCommit, AgentCommits, Update
  <2>2. CASE v # w
    BY <1>1, <1>5, <2>1, <2>2 DEF TypeOK, OutsideCommit, AgentCommits, Update
  <2>3. CASE v = w
    BY <1>1, <1>5, <2>1, <2>3 DEF OutsideCommit, AgentCommits, Update, Consistent, IsApart, StageAgrees
  <2> QED
    BY <2>2, <2>3
<1>6. ASSUME NEW v \in Worktrees, TreeStep(v) \/ OtherStep(v) \/ Throw(v),
             ~(OutsideCommit(v) \/ AgentCommits(v) \/ Update(v))
      PROVE  Goal
  BY <1>6 DEF TreeStep, RequestUpdate, Discard, MarkRemoved, OtherStep, BeginMerge, BeginUpdate,
    BeginRemoval, OutsideEdit, LaunchWork, LaunchReview, EndRun, Throw, git
<1> QED
  BY <1>2, <1>3, <1>4, <1>5, <1>6 DEF Next

LEMMA NoCommitLostStep == Inductive /\ [Next]_vars => NoCommitLost'
<1> SUFFICES ASSUME Inductive, [Next]_vars, NEW w \in Worktrees, w \notin branch'
             PROVE  head'[w] \in Anc(target)'
  BY DEF NoCommitLost
<1>1. NoCommitLost /\ Kept
  BY KeptStep DEF Inductive
<1>2. head'[w] = head[w] /\ (w \notin branch \/ head[w] \in Anc(target))
  <2>1. CASE UNCHANGED vars
    BY <2>1 DEF vars, git
  <2>2. CASE Next
    BY <2>2, BranchSteps
  <2> QED
    BY <2>1, <2>2
<1> QED
  BY <1>1, <1>2 DEF NoCommitLost, Kept

-----------------------------------------------------------------------------
(* The type invariant.                                                     *)

OpsTyped ==
    /\ ops \in Seq(OpRecs)
    /\ \A o \in 1..Len(ops) : /\ ops[o].source \in 1..Len(commits) /\ ops[o].target \in 1..Len(commits)
                              /\ ops[o].mergeSha \in 0..Len(commits)
CommitsTyped ==
    /\ commits \in Seq(CommitRecs) /\ Len(commits) \in Commits /\ target \in 1..Len(commits)
    /\ \A c \in 1..Len(commits) : /\ commits[c].anc \subseteq 1..c /\ commits[c].line \subseteq 1..c
                                  /\ commits[c].op \in 0..Len(ops)
TreesTyped ==
    /\ head \in [Worktrees -> 1..Len(commits)]
    /\ branch \subseteq Worktrees
    /\ checkout \in [Worktrees -> {"clean", "dirty", "gone"}]
    /\ row \in [Worktrees -> [status : {"active", "removed"}, version : 1..MaxVersion,
                              mergeSha : 0..Len(commits)]]
    /\ run \in [Worktrees -> [kind : {"none", "work", "review"},
                              state : {"live", "mergeable", "ended"},
                              head : 0..Len(commits), target : 0..Len(commits),
                              version : 0..MaxVersion]]
    /\ stage \in [Worktrees -> Stages]
    /\ local \in [Worktrees -> [head : 0..Len(commits), target : 0..Len(commits),
                                merge : 0..Len(commits)]]
    /\ crashes \in 0..MaxCrashes

LEMMA TypesSplit == TypeOK <=> OpsTyped /\ CommitsTyped /\ TreesTyped
BY DEF TypeOK, OpsTyped, CommitsTyped, TreesTyped, OpRecs, CommitRecs

\* A reservation names commits that are there, and so does a record.
LEMMA OpsTypeStep == Inductive /\ [Next]_vars => OpsTyped'
<1> SUFFICES ASSUME Inductive, [Next]_vars PROVE OpsTyped'
  OBVIOUS
<1>1. TypeOK /\ OpsTyped /\ Kept
  BY KeptStep, TypesSplit DEF Inductive
<1>2. ASSUME UNCHANGED ops PROVE OpsTyped'
  BY <1>1, <1>2 DEF OpsTyped, Kept
<1>3. ASSUME NEW w \in Worktrees, Reserve(w) PROVE OpsTyped'
  <2>1. PICK r \in OpRecs : /\ ops' = Append(ops, r)
                            /\ r.source \in 1..Len(commits) /\ r.target \in 1..Len(commits)
                            /\ r.mergeSha = None
    BY <1>3, ReserveAdds
  <2>2. /\ ops' \in Seq(OpRecs) /\ Len(ops') = Len(ops) + 1
        /\ \A p \in 1..Len(ops) : ops'[p] = ops[p]
        /\ ops'[Len(ops) + 1] = r
    BY <1>1, <2>1, Types, OpsAdded
  <2>3. \A o \in 1..Len(ops') : o \in 1..Len(ops) \/ o = Len(ops) + 1
    BY <1>1, <2>2 DEF Kept
  <2>4. ASSUME NEW o \in 1..Len(ops')
        PROVE  /\ ops'[o].source \in 1..Len(commits') /\ ops'[o].target \in 1..Len(commits')
               /\ ops'[o].mergeSha \in 0..Len(commits')
    <3>1. 1..Len(commits) \subseteq 1..Len(commits') /\ 0..Len(commits) \subseteq 0..Len(commits')
          /\ None \in 0..Len(commits)
      BY <1>1 DEF Kept, None
    <3> QED
      BY <1>1, <2>1, <2>2, <2>3, <3>1 DEF OpsTyped
  <2> QED
    BY <2>2, <2>4 DEF OpsTyped
<1>4. ASSUME NEW w \in Worktrees, NEW r, Saves(w, r) PROVE OpsTyped'
  <2>1. /\ ops' \in Seq(OpRecs) /\ Len(ops') = Len(ops)
        /\ Latest(w) \in 1..Len(ops)
        /\ \A p \in 1..Len(ops) : ops'[p] = IF p = Latest(w) THEN r ELSE ops[p]
    BY <1>1, <1>4, SavesKeep
  <2>2. /\ r.source \in 1..Len(commits) /\ r.target \in 1..Len(commits)
        /\ r.mergeSha \in 0..Len(commits)
    BY <1>1, <1>4, <2>1 DEF Saves, Source, OpsTyped, Kept
  <2>3. 1..Len(commits) \subseteq 1..Len(commits') /\ 0..Len(commits) \subseteq 0..Len(commits')
    BY <1>1 DEF Kept
  <2>4. ASSUME NEW o \in 1..Len(ops)
        PROVE  /\ ops'[o].source \in 1..Len(commits') /\ ops'[o].target \in 1..Len(commits')
               /\ ops'[o].mergeSha \in 0..Len(commits')
    BY <1>1, <2>1, <2>2, <2>3 DEF OpsTyped
  <2> QED
    BY <2>1, <2>4 DEF OpsTyped
<1>5. CASE UNCHANGED vars
  BY <1>2, <1>5 DEF vars, records
<1>6. CASE Next
  <2>1. CASE \E w \in Worktrees : MoveTarget(w)
    BY <1>2, <2>1 DEF MoveTarget, records
  <2> QED
    BY <1>2, <1>3, <1>4, <1>6, <2>1, HistorySteps, OpsWritten
<1> QED
  BY <1>5, <1>6

\* A commit's history is made of commits that are there.
LEMMA CommitsTypeStep == Inductive /\ [Next]_vars => CommitsTyped'
<1> SUFFICES ASSUME Inductive, [Next]_vars PROVE CommitsTyped'
  OBVIOUS
<1>1. TypeOK /\ CommitsTyped /\ Kept
  BY KeptStep, TypesSplit DEF Inductive
<1>2. ASSUME UNCHANGED <<commits, target>> PROVE CommitsTyped'
  BY <1>1, <1>2 DEF CommitsTyped, Kept
<1>3. ASSUME NEW p \in 1..Len(commits), NEW ps \in SUBSET (1..Len(commits)), p \in ps,
             NEW m \in 0..Len(ops), commits' = Commit(p, ps, m), Room,
             target' = target \/ target' = New
      PROVE  CommitsTyped'
  <2> PICK n \in Nat : n = New
    BY <1>1, Types DEF New
  <2>0. m \in Nat
    BY <1>1 DEF Kept
  <2>1. /\ commits' \in Seq(CommitRecs)
        /\ Len(commits) \in Nat /\ Len(commits') = Len(commits) + 1
        /\ \A c \in 1..Len(commits) : commits'[c] = commits[c]
        /\ commits'[n] = [anc |-> {n} \cup UNION {Anc(q) : q \in ps},
                          line |-> Line(p) \cup {n}, op |-> m]
    BY <1>1, <1>3, <2>0, CommitAdded
  <2>2. n = Len(commits) + 1
    BY DEF New
  <2>3. /\ commits'[n].anc \subseteq 1..n /\ commits'[n].line \subseteq 1..n
        /\ commits'[n].op \in 0..Len(ops')
    <3>1. \A q \in 1..Len(commits) : Anc(q) \subseteq 1..n /\ Line(q) \subseteq 1..n
      <4>1. \A q \in 1..Len(commits) : Anc(q) \subseteq 1..q /\ Line(q) \subseteq 1..q
        BY <1>1, Types
      <4> QED
        BY <2>1, <2>2, <4>1
    <3>2. UNION {Anc(q) : q \in ps} \subseteq 1..n /\ n \in 1..n
      BY <2>1, <2>2, <3>1
    <3> QED
      BY <1>1, <1>3, <2>1, <3>1, <3>2 DEF Kept
  <2>4. \A c \in 1..Len(commits) : /\ commits'[c].anc \subseteq 1..c /\ commits'[c].line \subseteq 1..c
                                   /\ commits'[c].op \in 0..Len(ops')
    BY <1>1, <2>1 DEF CommitsTyped, Kept
  <2>5. \A c \in 1..Len(commits') : c \in 1..Len(commits) \/ c = n
    BY <2>1, <2>2
  <2>6. Len(commits') \in Commits /\ target' \in 1..Len(commits')
    <3>1. target \in 1..Len(commits) /\ MaxCommits \in Nat /\ Len(commits) < MaxCommits
      BY <1>1, <1>3, Types, BoundsAssumption DEF Room
    <3>2. target' = target \/ target' = n
      BY <1>3
    <3> QED
      BY <2>1, <2>2, <3>1, <3>2 DEF Commits
  <2> QED
    BY <2>1, <2>3, <2>4, <2>5, <2>6 DEF CommitsTyped
<1>4. ASSUME Grows PROVE CommitsTyped'
  <2>1. None \in 0..Len(ops)
    BY <1>1 DEF None, Kept
  <2> QED
    BY <1>3, <1>4, <2>1 DEF Grows
<1>5. ASSUME NEW w \in Worktrees, MoveTarget(w) PROVE CommitsTyped'
  <2>1. /\ target \in 1..Len(commits) /\ Source(w) \in 1..Len(commits) /\ Latest(w) \in 0..Len(ops)
    <3>1. Latest(w) \in 1..Len(ops) /\ Source(w) \in 1..Len(commits)
      BY <1>5, MoveAdds
    <3> QED
      BY <1>1, <3>1, Types
  <2>2. commits' = Commit(target, {target, Source(w)}, Latest(w)) /\ Room /\ target' = New
    BY <1>5 DEF MoveTarget, Source
  <2> QED
    BY <1>3, <2>1, <2>2
<1>6. CASE UNCHANGED vars
  BY <1>2, <1>6 DEF vars, git
<1>7. CASE Next
  BY <1>2, <1>4, <1>5, <1>7, HistorySteps
<1> QED
  BY <1>6, <1>7

\* What is known of a worktree stays so while the history grows.
LEMMA TreesStay ==
    ASSUME TreesTyped, Len(commits) \in Nat, Len(commits') \in Nat, Len(commits) <= Len(commits')
    PROVE  /\ head \in [Worktrees -> 1..Len(commits')]
           /\ row \in [Worktrees -> [status : {"active", "removed"}, version : 1..MaxVersion,
                                     mergeSha : 0..Len(commits')]]
           /\ run \in [Worktrees -> [kind : {"none", "work", "review"},
                                     state : {"live", "mergeable", "ended"},
                                     head : 0..Len(commits'), target : 0..Len(commits'),
                                     version : 0..MaxVersion]]
           /\ local \in [Worktrees -> [head : 0..Len(commits'), target : 0..Len(commits'),
                                       merge : 0..Len(commits')]]
<1>1. 1..Len(commits) \subseteq 1..Len(commits') /\ 0..Len(commits) \subseteq 0..Len(commits')
  OBVIOUS
<1>2. head \in [Worktrees -> 1..Len(commits')]
  BY <1>1 DEF TreesTyped
<1>3. row \in [Worktrees -> [status : {"active", "removed"}, version : 1..MaxVersion,
                             mergeSha : 0..Len(commits')]]
  BY <1>1 DEF TreesTyped
<1>4. run \in [Worktrees -> [kind : {"none", "work", "review"},
                             state : {"live", "mergeable", "ended"},
                             head : 0..Len(commits'), target : 0..Len(commits'),
                             version : 0..MaxVersion]]
  BY <1>1 DEF TreesTyped
<1>5. local \in [Worktrees -> [head : 0..Len(commits'), target : 0..Len(commits'),
                               merge : 0..Len(commits')]]
  BY <1>1 DEF TreesTyped
<1> QED
  BY <1>2, <1>3, <1>4, <1>5

\* A commit is added, and nothing else but a head, a checkout, a stage and what was read changes.
LEMMA TreesTypeStep == Inductive /\ [Next]_vars => TreesTyped'
<1> SUFFICES ASSUME Inductive, [Next]_vars PROVE TreesTyped'
  OBVIOUS
<1> DEFINE n == Len(commits')
<1>1. TypeOK /\ TreesTyped /\ Kept /\ Len(commits) \in Nat /\ n \in Nat /\ Len(commits) <= n
  BY KeptStep, TypesSplit DEF Inductive, Kept
<1>2. /\ head \in [Worktrees -> 1..n]
      /\ row \in [Worktrees -> [status : {"active", "removed"}, version : 1..MaxVersion,
                                mergeSha : 0..n]]
      /\ run \in [Worktrees -> [kind : {"none", "work", "review"},
                                state : {"live", "mergeable", "ended"},
                                head : 0..n, target : 0..n, version : 0..MaxVersion]]
      /\ local \in [Worktrees -> [head : 0..n, target : 0..n, merge : 0..n]]
  BY <1>1, TreesStay
<1>3. /\ branch \subseteq Worktrees /\ checkout \in [Worktrees -> {"clean", "dirty", "gone"}]
      /\ stage \in [Worktrees -> Stages] /\ crashes \in 0..MaxCrashes
      /\ target \in 1..n /\ \A w \in Worktrees : head[w] \in 1..n
  BY <1>1, <1>2, Types DEF TreesTyped
<1>4. NoRead \in [head : 0..n, target : 0..n, merge : 0..n]
  BY <1>1 DEF NoRead, None
<1> HIDE DEF n
<1> DEFINE Typed == /\ head' \in [Worktrees -> 1..n]
                    /\ branch' \subseteq Worktrees
                    /\ checkout' \in [Worktrees -> {"clean", "dirty", "gone"}]
                    /\ row' \in [Worktrees -> [status : {"active", "removed"}, version : 1..MaxVersion,
                                               mergeSha : 0..n]]
                    /\ run' \in [Worktrees -> [kind : {"none", "work", "review"},
                                               state : {"live", "mergeable", "ended"},
                                               head : 0..n, target : 0..n, version : 0..MaxVersion]]
                    /\ stage' \in [Worktrees -> Stages]
                    /\ local' \in [Worktrees -> [head : 0..n, target : 0..n, merge : 0..n]]
                    /\ crashes' \in 0..MaxCrashes
<1>5. ASSUME UNCHANGED vars PROVE Typed
  BY <1>2, <1>3, <1>5 DEF vars, git, records
<1>6. ASSUME OutsideTarget PROVE Typed
  BY <1>2, <1>3, <1>6 DEF OutsideTarget, records
<1>7. ASSUME Crash PROVE Typed
  <2>1. crashes' \in 0..MaxCrashes /\ UNCHANGED <<head, branch, checkout, row>>
    BY <1>3, <1>7, BoundsAssumption DEF Crash, git
  <2>2. stage' \in [Worktrees -> Stages] /\ local' \in [Worktrees -> [head : 0..n, target : 0..n, merge : 0..n]]
    BY <1>4, <1>7 DEF Crash, Stages
  <2>3. run' \in [Worktrees -> [kind : {"none", "work", "review"},
                                state : {"live", "mergeable", "ended"},
                                head : 0..n, target : 0..n, version : 0..MaxVersion]]
    <3>1. ASSUME NEW w \in Worktrees
          PROVE  [run[w] EXCEPT !.state = "ended"] \in [kind : {"none", "work", "review"},
                                state : {"live", "mergeable", "ended"},
                                head : 0..n, target : 0..n, version : 0..MaxVersion]
      BY <1>2
    <3>2. run' = [w \in Worktrees |-> IF Live(w) THEN [run[w] EXCEPT !.state = "ended"] ELSE run[w]]
      BY <1>7 DEF Crash
    <3> QED
      BY <1>2, <3>1, <3>2
  <2> QED
    BY <1>2, <1>3, <2>1, <2>2, <2>3
<1>8. ASSUME NEW w \in Worktrees, MergeStep(w) PROVE Typed
  <2>1. CASE Gate(w) \/ Reserve(w) \/ InspectMisses(w) \/ MoveFails(w) \/ CleanupLooks(w) \/ CleanupFails(w)
    BY <1>2, <1>3, <2>1 DEF Gate, Reserve, InspectMisses, MoveFails, CleanupLooks, CleanupFails,
      To, Stages, git, records
  <2>2. CASE RemoveCheckout(w) \/ DeleteBranch(w)
    BY <1>2, <1>3, <2>2 DEF RemoveCheckout, DeleteBranch, To, Stages, records
  <2>3. CASE FinishCleanup(w)
    BY <1>2, <1>3, <1>4, <2>3 DEF FinishCleanup, Done, To, Stages, git
  <2>4. CASE MoveNothing(w)
    <3>1. local' = [local EXCEPT ![w].merge = target] /\ target \in 0..n
      BY <1>1, <1>3, <2>4 DEF MoveNothing
    <3>2. local' \in [Worktrees -> [head : 0..n, target : 0..n, merge : 0..n]]
      BY <1>2, <3>1
    <3> QED
      BY <1>2, <1>3, <2>4, <3>2 DEF MoveNothing, To, Stages, git, records
  <2>5. CASE MoveTarget(w)
    <3>1. New \in 0..n
      <4>1. n = Len(commits) + 1
        BY <2>5, MoveAdds DEF n
      <4> QED
        BY <1>1, <4>1 DEF New
    <3>2. UNCHANGED <<head, branch, checkout, row, run, crashes>>
      BY <2>5 DEF MoveTarget, records
    <3>3. stage' \in [Worktrees -> Stages]
      BY <1>3, <2>5 DEF MoveTarget, To, Stages
    <3>4. local' = [local EXCEPT ![w].merge = New] \/ local' = local
      BY <2>5 DEF MoveTarget
    <3>5. local' \in [Worktrees -> [head : 0..n, target : 0..n, merge : 0..n]]
      <4>1. [local[w] EXCEPT !.merge = New] \in [head : 0..n, target : 0..n, merge : 0..n]
        <5>1. local[w] \in [head : 0..n, target : 0..n, merge : 0..n]
          BY <1>2
        <5> QED
          BY <3>1, <5>1
      <4>2. local' = [local EXCEPT ![w] = [local[w] EXCEPT !.merge = New]] \/ local' = local
        BY <3>4
      <4> QED
        BY <1>2, <4>1, <4>2
    <3> QED
      BY <1>2, <1>3, <3>2, <3>3, <3>5
  <2>6. CASE InspectFinds(w)
    <3>1. PICK c \in Line(target) : local' = [local EXCEPT ![w].merge = c]
      BY <2>6 DEF InspectFinds, Landed
    <3>2. c \in 0..n
      <4>1. c \in 1..Len(commits)
        BY <1>1, MergesStay
      <4> QED
        BY <1>1, <4>1
    <3>3. local' \in [Worktrees -> [head : 0..n, target : 0..n, merge : 0..n]]
      BY <1>2, <3>1, <3>2
    <3> QED
      BY <1>2, <1>3, <2>6, <3>3 DEF InspectFinds, To, Stages, git, records
  <2>7. CASE Record(w)
    <3>1. CASE row[w].mergeSha # None
      BY <1>2, <1>3, <2>7, <3>1 DEF Record, To, Stages, git
    <3>2. CASE row[w].mergeSha = None
      <4>1. local[w].merge \in 0..n
        BY <1>1, <2>7, <3>2, MergeThere
      <4>2. row' = [row EXCEPT ![w].status = "removed", ![w].mergeSha = local[w].merge]
        BY <2>7, <3>2 DEF Record
      <4>3. row' \in [Worktrees -> [status : {"active", "removed"}, version : 1..MaxVersion,
                                    mergeSha : 0..n]]
        <5>1. [row[w] EXCEPT !.status = "removed", !.mergeSha = local[w].merge] \in
                [status : {"active", "removed"}, version : 1..MaxVersion, mergeSha : 0..n]
          <6>1. row[w] \in [status : {"active", "removed"}, version : 1..MaxVersion, mergeSha : 0..n]
            BY <1>2
          <6> QED
            BY <4>1, <6>1
        <5>2. row' = [row EXCEPT ![w] = [row[w] EXCEPT !.status = "removed", !.mergeSha = local[w].merge]]
          BY <1>2, <4>2
        <5> QED
          BY <1>2, <5>1, <5>2
      <4> QED
        BY <1>2, <1>3, <2>7, <4>3 DEF Record, To, Stages, git
    <3> QED
      BY <3>1, <3>2
  <2> QED
    BY <1>8, <2>1, <2>2, <2>3, <2>4, <2>5, <2>6, <2>7 DEF MergeStep
<1>9. ASSUME NEW w \in Worktrees, OutsideCommit(w) \/ AgentCommits(w) \/ Update(w) PROVE Typed
  <2>1. head' \in [Worktrees -> 1..n]
    <3>1. CASE head' = head
      BY <1>2, <3>1
    <3>2. CASE head' # head
      <4>1. head' = [head EXCEPT ![w] = New]
        BY <1>9, <3>2 DEF OutsideCommit, AgentCommits, Update
      <4>2. PICK ps \in SUBSET (1..Len(commits)) :
              head[w] \in ps /\ commits' = Commit(head[w], ps, None)
        <5>1. head[w] \in 1..Len(commits)
          BY <1>1, Types
        <5>2. CASE OutsideCommit(w) \/ AgentCommits(w)
          BY <5>1, <5>2 DEF OutsideCommit, AgentCommits
        <5>3. CASE Update(w)
          <6>1. local[w].target \in 1..Len(commits)
            <7>1. local[w].target \in 0..Len(commits) /\ Len(commits) \in Nat
              BY <1>1, Types, ReadTyped
            <7>2. local[w].target # None
              BY <5>3 DEF Update, Inductive, StagesAgree, StageAgrees
            <7> QED
              BY <7>1, <7>2 DEF None
          <6> QED
            BY <3>2, <5>1, <5>3, <6>1 DEF Update
        <5> QED
          BY <1>9, <5>2, <5>3
      <4>3. New \in 1..n
        <5>1. head[w] \in 1..Len(commits) /\ None \in Nat
          BY <1>1, Types DEF None
        <5>2. n = Len(commits) + 1
          BY <1>1, <4>2, <5>1, CommitAdded DEF n
        <5> QED
          BY <1>1, <5>2 DEF New
      <4> QED
        BY <1>2, <4>1, <4>3
    <3> QED
      BY <3>1, <3>2
  <2>2. checkout' \in [Worktrees -> {"clean", "dirty", "gone"}]
    BY <1>3, <1>9 DEF OutsideCommit, AgentCommits, Update
  <2>3. local' \in [Worktrees -> [head : 0..n, target : 0..n, merge : 0..n]]
    BY <1>2, <1>4, <1>9 DEF OutsideCommit, AgentCommits, Update, Done
  <2>4. stage' \in [Worktrees -> Stages]
    BY <1>3, <1>9 DEF OutsideCommit, AgentCommits, Update, Done, To, Stages
  <2>5. UNCHANGED <<branch, row, run, crashes>>
    BY <1>9 DEF OutsideCommit, AgentCommits, Update, records
  <2> QED
    BY <1>2, <1>3, <2>1, <2>2, <2>3, <2>4, <2>5
<1>10. ASSUME NEW w \in Worktrees, RequestUpdate(w) \/ Discard(w) \/ MarkRemoved(w) PROVE Typed
  <2>1. row' \in [Worktrees -> [status : {"active", "removed"}, version : 1..MaxVersion, mergeSha : 0..n]]
    <3> DEFINE Row == [status : {"active", "removed"}, version : 1..MaxVersion, mergeSha : 0..n]
    <3>1. row \in [Worktrees -> Row] /\ row[w] \in Row
      BY <1>2
    <3>2. CASE RequestUpdate(w)
      <4>1. row[w].version + 1 \in 1..MaxVersion
        BY <3>1, <3>2, BoundsAssumption DEF RequestUpdate
      <4>2. [row[w] EXCEPT !.version = row[w].version + 1] \in Row
        BY <3>1, <4>1
      <4>3. row' = [row EXCEPT ![w] = [row[w] EXCEPT !.version = row[w].version + 1]]
        BY <3>2 DEF RequestUpdate
      <4> HIDE DEF Row
      <4>4. row' \in [Worktrees -> Row]
        BY <3>1, <4>2, <4>3
      <4> QED
        BY <4>4 DEF Row
    <3>3. CASE Discard(w)
      BY <3>1, <3>3 DEF Discard, records
    <3>4. CASE MarkRemoved(w)
      <4>1. [row[w] EXCEPT !.status = "removed"] \in Row
        BY <3>1
      <4>2. row' = [row EXCEPT ![w] = [row[w] EXCEPT !.status = "removed"]]
        BY <3>4 DEF MarkRemoved
      <4> HIDE DEF Row
      <4>3. row' \in [Worktrees -> Row]
        BY <3>1, <4>1, <4>2
      <4> QED
        BY <4>3 DEF Row
    <3> QED
      BY <1>10, <3>2, <3>3, <3>4
  <2>2. checkout' \in [Worktrees -> {"clean", "dirty", "gone"}] /\ stage' \in [Worktrees -> Stages]
    BY <1>3, <1>10 DEF RequestUpdate, Discard, MarkRemoved, Done, To, Stages, git
  <2>3. local' \in [Worktrees -> [head : 0..n, target : 0..n, merge : 0..n]]
    BY <1>2, <1>4, <1>10 DEF RequestUpdate, Discard, MarkRemoved, Done
  <2>4. UNCHANGED <<head, branch, run, crashes>>
    BY <1>10 DEF RequestUpdate, Discard, MarkRemoved, git, records
  <2> QED
    BY <1>2, <1>3, <2>1, <2>2, <2>3, <2>4
<1>11. ASSUME NEW w \in Worktrees, LaunchWork(w) \/ LaunchReview(w) \/ EndRun(w) PROVE Typed
  <2>1. run' \in [Worktrees -> [kind : {"none", "work", "review"},
                                state : {"live", "mergeable", "ended"},
                                head : 0..n, target : 0..n, version : 0..MaxVersion]]
    <3>1. CASE LaunchWork(w)
      BY <1>1, <1>2, <3>1, BoundsAssumption DEF LaunchWork, None
    <3>2. CASE LaunchReview(w)
      <4>1. row[w].version \in 0..MaxVersion /\ head[w] \in 0..n /\ target \in 0..n
        BY <1>2, <1>3, BoundsAssumption
      <4> QED
        BY <1>2, <3>2, <4>1 DEF LaunchReview
    <3>3. CASE EndRun(w)
      BY <1>2, <3>3 DEF EndRun
    <3> QED
      BY <1>11, <3>1, <3>2, <3>3
  <2>2. UNCHANGED <<head, branch, checkout, row, stage, local, crashes>>
    BY <1>11 DEF LaunchWork, LaunchReview, EndRun, git
  <2> QED
    BY <1>2, <1>3, <2>1, <2>2
<1>12. ASSUME NEW w \in Worktrees, BeginMerge(w) \/ BeginUpdate(w) \/ BeginRemoval(w) \/ OutsideEdit(w)
       PROVE  Typed
  <2>1. local' \in [Worktrees -> [head : 0..n, target : 0..n, merge : 0..n]]
    <3>1. CASE BeginMerge(w)
      <4>1. PICK m : /\ local' = [local EXCEPT ![w].merge = m]
                     /\ m = IF OpsOf(w) = {} THEN None ELSE ops[Latest(w)].mergeSha
        BY <3>1 DEF BeginMerge
      <4>2. m \in 0..n
        <5>1. CASE OpsOf(w) = {}
          BY <1>1, <4>1, <5>1 DEF None
        <5>2. CASE OpsOf(w) # {}
          <6>1. Latest(w) \in 1..Len(ops)
            BY <1>1, <5>2, LatestIs, Types DEF Inductive, OpsOf
          <6>2. ops[Latest(w)].mergeSha \in 0..Len(commits)
            BY <1>1, <6>1 DEF TypeOK
          <6> QED
            BY <1>1, <4>1, <5>2, <6>2
        <5> QED
          BY <5>1, <5>2
      <4> QED
        BY <1>2, <4>1, <4>2
    <3>2. CASE BeginUpdate(w)
      <4>1. head[w] \in 0..n /\ target \in 0..n /\ None \in 0..n
        BY <1>1, <1>3 DEF None
      <4> QED
        BY <1>2, <3>2, <4>1 DEF BeginUpdate
    <3>3. CASE BeginRemoval(w) \/ OutsideEdit(w)
      BY <1>2, <3>3 DEF BeginRemoval, OutsideEdit
    <3> QED
      BY <1>12, <3>1, <3>2, <3>3
  <2>2. stage' \in [Worktrees -> Stages]
    BY <1>3, <1>12 DEF BeginMerge, BeginUpdate, BeginRemoval, OutsideEdit, To, Stages
  <2>3. UNCHANGED <<head, branch, row, run, crashes>>
    BY <1>12 DEF BeginMerge, BeginUpdate, BeginRemoval, OutsideEdit, git, records
  <2>4. checkout' \in [Worktrees -> {"clean", "dirty", "gone"}]
    BY <1>3, <1>12 DEF BeginMerge, BeginUpdate, BeginRemoval, OutsideEdit, git
  <2> QED
    BY <1>2, <1>3, <2>1, <2>2, <2>3, <2>4
<1>13. ASSUME NEW w \in Worktrees, Throw(w) PROVE Typed
  BY <1>2, <1>3, <1>4, <1>13 DEF Throw, Done, To, Stages, git, records
<1>14. Typed
  <2>1. ASSUME NEW w \in Worktrees, TreeStep(w) \/ OtherStep(w) PROVE Typed
    BY <1>9, <1>10, <1>11, <1>12, <2>1 DEF TreeStep, OtherStep
  <2> QED
    BY <1>5, <1>6, <1>7, <1>8, <1>13, <2>1 DEF Next
<1> QED
  BY <1>14 DEF TreesTyped, n

-----------------------------------------------------------------------------
(* The inductive invariant, and what follows.                              *)

LEMMA InductiveInit == Init => Inductive
<1> SUFFICES ASSUME Init PROVE Inductive
  OBVIOUS
<1> DEFINE r == [anc |-> {1}, line |-> {1}, op |-> None]
<1>1. /\ commits = <<r>> /\ Len(commits) = 1 /\ commits[1] = r /\ ops = <<>> /\ Len(ops) = 0
      /\ r \in CommitRecs
  BY DEF Init, CommitRecs, None
<1>2. /\ 1..Len(commits) = {1} /\ 1..Len(ops) = {} /\ 0..Len(commits) = {0, 1}
      /\ r.anc = {1} /\ r.line = {1} /\ r.op = None
  BY <1>1
<1>3. \A w : OpsOf(w) = {} /\ LatestStatus(w) = "none" /\ ~Reserved(w)
  BY <1>2 DEF OpsOf, LatestStatus, Reserved
<1>4. Merges = {}
  BY <1>1, <1>2 DEF Merges
<1>5. OpsTyped
  BY <1>1, <1>2 DEF OpsTyped
<1>6. CommitsTyped
  <2>1. commits \in Seq(CommitRecs)
    BY <1>1
  <2>2. Len(commits) \in Commits /\ target \in 1..Len(commits)
    BY <1>1, BoundsAssumption DEF Init, Commits
  <2>3. {1} \subseteq 1..1 /\ None \in 0..Len(ops)
    BY <1>1 DEF None
  <2> QED
    BY <1>1, <1>2, <2>1, <2>2, <2>3 DEF CommitsTyped
<1>7. TreesTyped
  <2>1. 1 \in 1..MaxVersion /\ None \in 0..MaxVersion /\ 0 \in 0..MaxCrashes
    BY BoundsAssumption DEF None
  <2> QED
    BY <1>2, <2>1 DEF Init, TreesTyped, Stages, NoRead, None
<1>8. History
  <2>1. commits[1].anc = {1} /\ commits[1].line = {1}
    BY <1>1
  <2> QED
    BY <1>2, <2>1 DEF History, Anc, Line
<1>9. OneInLane /\ StagesAgree /\ LiveApart
  BY <1>3 DEF Init, OneInLane, StagesAgree, StageAgrees, LiveApart, IsApart, Live, None
<1>10. InTurn /\ MergesLand /\ MergedOnce /\ FailedMergesAbsent
  BY <1>2, <1>3, <1>4 DEF InTurn, MergesLand, MergedOnce, FailedMergesAbsent
<1>11. ReviewsHold /\ RecordedIsMerged /\ NoCommitLost
  BY <1>3 DEF Init, ReviewsHold, RecordedIsMerged, NoCommitLost, None
<1> QED
  BY <1>5, <1>6, <1>7, <1>8, <1>9, <1>10, <1>11, TypesSplit DEF Inductive

LEMMA InductiveStep == Inductive /\ [Next]_vars => Inductive'
<1> SUFFICES ASSUME Inductive, [Next]_vars PROVE Inductive'
  OBVIOUS
<1>1. TypeOK'
  <2>1. OpsTyped' /\ CommitsTyped' /\ TreesTyped'
    BY OpsTypeStep, CommitsTypeStep, TreesTypeStep
  <2> QED
    BY <2>1 DEF TypeOK, OpsTyped, CommitsTyped, TreesTyped, OpRecs, CommitRecs
<1>2. History' /\ OneInLane' /\ InTurn' /\ MergesLand' /\ ReviewsHold'
  BY HistoryStep, OneInLaneStep, InTurnStep, MergesLandStep, ReviewsHoldStep
<1>3. MergedOnce' /\ FailedMergesAbsent' /\ NoCommitLost'
  BY MergedOnceStep, FailedMergesAbsentStep, NoCommitLostStep
<1>4. StagesAgree' /\ LiveApart' /\ RecordedIsMerged'
  BY AgreementStep
<1> QED
  BY <1>1, <1>2, <1>3, <1>4 DEF Inductive

\* In every reachable state, whatever people, agents and crashes do between two steps.
THEOREM Invariance == Spec => []Inductive
BY InductiveInit, InductiveStep, PTL DEF Spec

\* Every variable keeps its type.
THEOREM TypeCorrect == Spec => []TypeOK
<1>1. Inductive => TypeOK
  BY DEF Inductive
<1> QED
  BY <1>1, Invariance, PTL

\* No worktree is merged into the target twice, whatever is tried again.
THEOREM MergedOnlyOnce == Spec => []MergedOnce
<1>1. Inductive => MergedOnce
  BY DEF Inductive
<1> QED
  BY <1>1, Invariance, PTL

\* An operation recorded as failed has no merge on the target, and never gets one.
THEOREM FailuresMergeNothing == Spec => []FailedMergesAbsent
<1>1. Inductive => FailedMergesAbsent
  BY DEF Inductive
<1> QED
  BY <1>1, Invariance, PTL

\* What storage says is merged is on the target, with the commit that was reviewed.
THEOREM RecordsAreTrue == Spec => []RecordedIsMerged
<1>1. Inductive => RecordedIsMerged
  BY DEF Inductive
<1> QED
  BY <1>1, Invariance, PTL

\* A branch whose commits the target does not hold is never deleted.
THEOREM CommitsAreKept == Spec => []NoCommitLost
<1>1. Inductive => NoCommitLost
  BY DEF Inductive
<1> QED
  BY <1>1, Invariance, PTL

\* A merge's commit holds exactly what a mergeable review of that worktree version saw.
LEMMA ReviewedStep ==
    ASSUME Inductive, [Next]_vars, NEW c \in (1..Len(commits')) \ (1..Len(commits)),
           commits'[c].op # None
    PROVE  LET w == ops[commits'[c].op].tree
           IN /\ run[w].kind = "review" /\ run[w].state = "mergeable"
              /\ run[w].version = row[w].version
              /\ commits'[c].anc = Anc(run[w].head) \cup {c}
<1>1. c \in Merges'
  BY DEF Merges
<1>2. PICK w \in Worktrees : MoveTarget(w) /\ c = New
  BY <1>1, MergesAre
<1>3. /\ commits'[c].op = Latest(w) /\ ops[Latest(w)].tree = w
      /\ commits'[c].anc = {c} \cup (Anc(target) \cup Anc(Source(w)))
      /\ target = ops[Latest(w)].target
  <2>1. /\ commits'[New] = [anc |-> {New} \cup (Anc(target) \cup Anc(Source(w))),
                            line |-> Line(target) \cup {New}, op |-> Latest(w)]
        /\ ops[Latest(w)].tree = w /\ target = ops[Latest(w)].target
    BY <1>2, MoveAdds
  <2> QED
    BY <1>2, <2>1
<1>4. Reviewed(w) /\ Source(w) = run[w].head /\ target = run[w].target
  BY <1>2, <1>3 DEF MoveTarget, Inductive, StagesAgree, StageAgrees
<1>5. Anc(target) \subseteq Anc(run[w].head)
  <2>1. run[w].head \in 1..Len(commits) /\ run[w].target \in Anc(run[w].head)
    BY <1>4 DEF Reviewed, Inductive, ReviewsHold
  <2> QED
    BY <1>4, <2>1 DEF Inductive, History
<1> QED
  BY <1>3, <1>4, <1>5 DEF Reviewed

\* The target takes in only what a review of it has found mergeable.
THEOREM ReviewedMerges == Spec => MergesAreReviewed
<1>1. Inductive /\ [Next]_vars =>
        [\A c \in (1..Len(commits')) \ (1..Len(commits)) : commits'[c].op # None =>
            LET w == ops[commits'[c].op].tree
            IN /\ run[w].kind = "review" /\ run[w].state = "mergeable"
               /\ run[w].version = row[w].version
               /\ commits'[c].anc = Anc(run[w].head) \cup {c}]_vars
  BY ReviewedStep
<1> QED
  BY <1>1, Invariance, PTL DEF Spec, MergesAreReviewed

-----------------------------------------------------------------------------
(* The abstract life of a merge.                                           *)

\* A merge that was made is of its worktree's last operation, which has not failed.
LEMMA MergeOfLatest ==
    ASSUME Inductive, NEW c \in Merges, NEW w, ops[commits[c].op].tree = w
    PROVE  /\ w \in Worktrees /\ commits[c].op = Latest(w) /\ commits[c].op \in 1..Len(ops)
           /\ LatestStatus(w) \notin {"none", "failed"}
           /\ c \in Line(target) /\ c \notin Line(ops[Latest(w)].target)
<1> DEFINE o == commits[c].op
<1>1. TypeOK /\ InTurn /\ FailedMergesAbsent /\ MergesLand
  BY DEF Inductive
<1>2. c \in 1..Len(commits) /\ o # None
  BY DEF Merges
<1>3. o \in 1..Len(ops)
  <2>1. o \in 0..Len(ops) /\ Len(ops) \in Nat
    BY <1>1, <1>2, Types
  <2> QED
    BY <1>2, <2>1 DEF None
<1>4. ops[o] \in OpRecs /\ ops[o].status # "failed"
  BY <1>1, <1>3, Types DEF FailedMergesAbsent
<1>5. w \in Worktrees /\ o \in OpsOf(w)
  BY <1>3, <1>4 DEF OpRecs, OpsOf
<1>6. Latest(w) \in OpsOf(w) /\ \A p \in OpsOf(w) : p <= Latest(w)
  BY <1>1, <1>5, LatestIs, Types
<1>7. o = Latest(w)
  <2>1. Latest(w) \in 1..Len(ops) /\ ops[Latest(w)].tree = w /\ o <= Latest(w)
    BY <1>5, <1>6 DEF OpsOf
  <2>2. ~(o < Latest(w))
    BY <1>1, <1>3, <1>4, <2>1 DEF InTurn
  <2> QED
    BY <1>3, <2>1, <2>2
<1>8. LatestStatus(w) = ops[o].status /\ ops[o].status \in Statuses
  BY <1>4, <1>5, <1>7 DEF LatestStatus, OpRecs
<1> QED
  BY <1>1, <1>3, <1>4, <1>5, <1>7, <1>8 DEF MergesLand, Statuses

\* Entering its recording, an operation names its merge.
LEMMA NamesItself ==
    ASSUME Inductive, NEW w \in Worktrees,
           InspectFinds(w) \/ MoveNothing(w), NEW c \in Merges, commits[c].op = Latest(w)
    PROVE  c = local'[w].merge
<1>1. TypeOK /\ MergesLand /\ MergedOnce
  BY DEF Inductive
<1>2. CASE InspectFinds(w)
  <2>1. PICK d \in Landed(Latest(w)) : local' = [local EXCEPT ![w].merge = d]
    BY <1>2 DEF InspectFinds
  <2>2. local'[w].merge = d
    BY <1>1, <2>1 DEF TypeOK
  <2>3. d \in Merges /\ commits[d].op = commits[c].op
    <3>1. target \in 1..Len(commits) /\ Line(target) \subseteq 1..target /\ Len(commits) \in Nat
      BY <1>1, Types
    <3>2. d \in Line(target) /\ commits[d].op = Latest(w)
      BY <2>1 DEF Landed
    <3> QED
      BY <3>1, <3>2 DEF Merges
  <2> QED
    BY <1>1, <2>2, <2>3 DEF MergedOnce
<1>3. CASE MoveNothing(w)
  BY <1>1, <1>3 DEF MoveNothing, MergesLand
<1> QED
  BY <1>2, <1>3

\* Every step leaves an operation that is about to record its merge with the merge's own commit.
LEMMA NamesMergeStep == Inductive /\ NamesMerge /\ [Next]_vars => NamesMerge'
<1> SUFFICES ASSUME Inductive, NamesMerge, [Next]_vars, NEW v \in Worktrees,
                    stage'[v] = "recording", row'[v].mergeSha = None,
                    NEW c \in Merges', commits'[c].op = Latest(v)'
             PROVE  c = local'[v].merge
  BY DEF NamesMerge
<1>1. TypeOK /\ Kept /\ Consistent(v)
  BY ConsistentNow, KeptStep DEF Inductive
<1>2. /\ stage \in [Worktrees -> Stages]
      /\ local \in [Worktrees -> [head : 0..Len(commits), target : 0..Len(commits),
                                  merge : 0..Len(commits)]]
  BY <1>1 DEF TypeOK
<1>3. ASSUME NEW w \in Worktrees, MoveTarget(w), c = New
      PROVE  c = local'[v].merge
  <2>1. /\ commits'[New].op = Latest(w) /\ ops[Latest(w)].tree = w
        /\ Latest(w) \in 1..Len(ops)
    <3>1. /\ commits'[New] = [anc |-> {New} \cup (Anc(target) \cup Anc(Source(w))),
                              line |-> Line(target) \cup {New}, op |-> Latest(w)]
          /\ ops[Latest(w)].tree = w /\ Latest(w) \in 1..Len(ops)
      BY <1>3, MoveAdds
    <3> QED
      BY <3>1
  <2>2. UNCHANGED ops
    BY <1>3 DEF MoveTarget, records
  <2>3. LatestStatus(v)' # "none" /\ TypeOK' /\ InTurn'
    <3>1. StageAgrees(v)'
      BY ConsistentStep DEF Consistent
    <3> QED
      BY <3>1, InductiveStep DEF StageAgrees, Recordable, Inductive
  <2>4. ops[Latest(v)].tree = v /\ Latest(v)' = Latest(v)
    <3>1. Latest(v)' = Latest(v) /\ LatestStatus(v)' = LatestStatus(v)
      BY <2>2, OpsStay
    <3> QED
      BY <1>1, <2>3, <3>1, LatestThere DEF Inductive
  <2>5. v = w
    BY <1>3, <2>1, <2>4
  <2> QED
    BY <1>2, <1>3, <2>5 DEF MoveTarget, To
<1>4. CASE c \in Merges /\ commits'[c] = commits[c] /\ commits[c].op \in 1..Len(ops)
  <2>1. ASSUME Untouched(v) PROVE c = local'[v].merge
    BY <1>4, <2>1 DEF Untouched, SameOps, NamesMerge
  <2>2. CASE UNCHANGED vars
    <3>1. Untouched(v)
      BY <2>2, OpsUnwritten DEF vars, git, records, Untouched
    <3> QED
      BY <2>1, <3>1
  <2>3. CASE OutsideTarget \/ Crash
    BY <2>1, <2>3, PlainUntouched
  <2>4. ASSUME NEW w \in Worktrees, w # v, MergeStep(w) \/ TreeStep(w) \/ OtherStep(w) \/ Throw(w)
        PROVE  c = local'[v].merge
    BY <2>1, <2>4, OthersUntouched
  <2>5. CASE MergeStep(v)
    <3>1. CASE InspectFinds(v) \/ MoveNothing(v)
      <4>1. Latest(v)' = Latest(v)
        BY <3>1, OpsStay DEF InspectFinds, MoveNothing, records
      <4> QED
        BY <1>4, <3>1, <4>1, NamesItself
    <3>2. CASE MoveTarget(v)
      <4>1. Latest(v)' = Latest(v) /\ target = ops[Latest(v)].target
        BY <3>2, OpsStay DEF MoveTarget, records
      <4> QED
        BY <1>4, <4>1 DEF Inductive, MergesLand
    <3>3. CASE \/ InspectMisses(v) \/ Gate(v) \/ Reserve(v) \/ MoveFails(v) \/ Record(v)
               \/ CleanupLooks(v) \/ RemoveCheckout(v) \/ DeleteBranch(v) \/ CleanupFails(v)
               \/ FinishCleanup(v)
      BY <1>2, <3>3 DEF InspectMisses, Gate, Reserve, MoveFails, Record, CleanupLooks, RemoveCheckout,
        DeleteBranch, CleanupFails, FinishCleanup, Done, To
    <3> QED
      BY <2>5, <3>1, <3>2, <3>3 DEF MergeStep
  <2>6. CASE TreeStep(v)
    BY <1>2, <2>6 DEF TreeStep, RequestUpdate, Update, Discard, MarkRemoved, Done, To
  <2>7. CASE Throw(v)
    BY <1>2, <2>7 DEF Throw, Done, To
  <2>8. CASE OtherStep(v)
    <3>1. CASE BeginMerge(v)
      <4>1. row[v].mergeSha = None
        BY <3>1 DEF BeginMerge, records
      <4> QED
        BY <1>1, <1>2, <3>1, <4>1 DEF BeginMerge, To, Consistent, Recorded
    <3>2. CASE LaunchWork(v) \/ LaunchReview(v)
      BY <3>2 DEF LaunchWork, LaunchReview, Launchable
    <3>3. CASE BeginUpdate(v) \/ BeginRemoval(v)
      BY <1>2, <3>3 DEF BeginUpdate, BeginRemoval, To
    <3>4. CASE OutsideEdit(v) \/ OutsideCommit(v) \/ AgentCommits(v) \/ EndRun(v)
      BY <2>1, <3>4, PlainUntouched
    <3> QED
      BY <2>8, <3>1, <3>2, <3>3, <3>4 DEF OtherStep
  <2> QED
    BY <2>2, <2>3, <2>4, <2>5, <2>6, <2>7, <2>8 DEF Next
<1> QED
  BY <1>3, <1>4, MergesAre

LEMMA NamesMergeInit == Init => NamesMerge
BY DEF Init, NamesMerge

LifeInv == Inductive /\ NamesMerge

LEMMA LifeInvariance == Spec => []LifeInv
<1>1. Init => NamesMerge
  BY NamesMergeInit
<1>2. Inductive /\ NamesMerge /\ [Next]_vars => NamesMerge'
  BY NamesMergeStep
<1> QED
  BY <1>1, <1>2, Invariance, PTL DEF Spec, LifeInv

\* The state of the abstract life.
reservedBar == {w \in Worktrees : Reserved(w)}
mergesBar == {<<ops[commits[c].op].tree, c>> : c \in Merges}
recordedBar == [w \in Worktrees |-> row[w].mergeSha]

\* A worktree's merges, of which there is one at most.
LEMMA LifeMerges ==
    ASSUME Inductive, NEW w, NEW c
    PROVE  /\ c \in Life!MergesOf(w) <=> c \in Merges /\ ops[commits[c].op].tree = w
           /\ c \in Life!MergesOf(w) =>
                /\ commits[c].op = Latest(w) /\ LatestStatus(w) \notin {"none", "failed"}
                /\ c \in Line(target) /\ c \notin Line(ops[Latest(w)].target)
<1>1. Merges \subseteq Commits
  <2>1. Len(commits) \in 1..MaxCommits /\ MaxCommits \in Nat
    BY BoundsAssumption DEF Inductive, TypeOK, Commits
  <2> QED
    BY <2>1 DEF Merges, Commits
<1>2. c \in Life!MergesOf(w) <=> c \in Merges /\ ops[commits[c].op].tree = w
  BY <1>1 DEF Life!MergesOf
<1> QED
  BY <1>2, MergeOfLatest

\* Only the merge's record writes what storage records.
LEMMA RecordWrites ==
    ASSUME Inductive, Next
    PROVE  \/ recordedBar' = recordedBar
           \/ \E w \in Worktrees : Record(w) /\ row[w].mergeSha = None
<1>1. TypeOK
  BY DEF Inductive
<1>2. ASSUME UNCHANGED row PROVE recordedBar' = recordedBar
  BY <1>2 DEF recordedBar
<1>3. ASSUME NEW w \in Worktrees, RequestUpdate(w) \/ MarkRemoved(w)
      PROVE  recordedBar' = recordedBar
  <2>1. row \in [Worktrees -> [status : {"active", "removed"}, version : 1..MaxVersion,
                               mergeSha : 0..Len(commits)]]
    BY <1>1 DEF TypeOK
  <2>2. \A v \in Worktrees : row'[v].mergeSha = row[v].mergeSha
    BY <1>3, <2>1 DEF RequestUpdate, MarkRemoved
  <2> QED
    BY <2>2 DEF recordedBar
<1>4. ASSUME NEW w \in Worktrees, Record(w), row[w].mergeSha # None PROVE UNCHANGED row
  BY <1>4 DEF Record
<1>5. ASSUME NEW w \in Worktrees, MergeStep(w), ~Record(w) PROVE UNCHANGED row
  BY <1>5 DEF MergeStep, InspectFinds, InspectMisses, Gate, Reserve, MoveTarget, MoveNothing, MoveFails,
    CleanupLooks, RemoveCheckout, DeleteBranch, CleanupFails, FinishCleanup, records
<1>6. ASSUME NEW w \in Worktrees, Update(w) \/ Discard(w) \/ OtherStep(w) \/ Throw(w)
      PROVE  UNCHANGED row
  BY <1>6 DEF Update, Discard, OtherStep, Throw, BeginMerge, BeginUpdate, BeginRemoval, OutsideEdit,
    OutsideCommit, LaunchWork, LaunchReview, AgentCommits, EndRun, records
<1>7. ASSUME OutsideTarget \/ Crash PROVE UNCHANGED row
  BY <1>7 DEF OutsideTarget, Crash, records
<1> QED
  BY <1>2, <1>3, <1>4, <1>5, <1>6, <1>7 DEF Next, TreeStep

\* Only the move of the target makes a merge.
LEMMA MoveMakes ==
    ASSUME Inductive, [Next]_vars
    PROVE  /\ \A w \in Worktrees : MoveTarget(w) => mergesBar' = mergesBar \cup {<<w, New>>}
           /\ ~(\E w \in Worktrees : MoveTarget(w)) => mergesBar' = mergesBar
<1>1. TypeOK /\ Kept
  BY KeptStep DEF Inductive
<1>2. \A c \in Merges : /\ c \in 1..Len(commits) /\ c \in Merges'
                        /\ commits'[c] = commits[c] /\ commits[c].op \in 1..Len(ops)
                        /\ ops'[commits[c].op].tree = ops[commits[c].op].tree
  <2> SUFFICES ASSUME NEW c \in Merges
               PROVE  /\ c \in 1..Len(commits) /\ c \in Merges'
                      /\ commits'[c] = commits[c] /\ commits[c].op \in 1..Len(ops)
                      /\ ops'[commits[c].op].tree = ops[commits[c].op].tree
    OBVIOUS
  <2>1. c \in 1..Len(commits) /\ commits[c].op # None
    BY DEF Merges
  <2>2. commits'[c] = commits[c] /\ c \in 1..Len(commits')
    BY <1>1, <2>1 DEF Kept
  <2>3. commits[c].op \in 0..Len(ops) /\ Len(ops) \in Nat
    BY <1>1, <2>1, Types
  <2>4. commits[c].op \in 1..Len(ops)
    BY <2>1, <2>3 DEF None
  <2> QED
    BY <1>1, <2>1, <2>2, <2>4 DEF Kept, Merges
<1>3. ASSUME NEW w \in Worktrees, MoveTarget(w) PROVE mergesBar' = mergesBar \cup {<<w, New>>}
  <2>1. /\ commits'[New].op = Latest(w) /\ ops[Latest(w)].tree = w
        /\ Latest(w) # None /\ New \in 1..Len(commits')
    <3>1. /\ commits'[New] = [anc |-> {New} \cup (Anc(target) \cup Anc(Source(w))),
                              line |-> Line(target) \cup {New}, op |-> Latest(w)]
          /\ ops[Latest(w)].tree = w /\ Latest(w) \in 1..Len(ops)
          /\ Len(commits) \in Nat /\ Len(commits') = Len(commits) + 1
      BY <1>3, MoveAdds
    <3> QED
      BY <3>1 DEF None, New
  <2>2. ops'[commits'[New].op].tree = w
    BY <1>3, <2>1 DEF MoveTarget, records
  <2>3. Merges' = Merges \cup {New}
    BY <1>2, <2>1, MergesAre DEF Merges
  <2> QED
    BY <1>2, <2>2, <2>3 DEF mergesBar
<1>4. CASE ~ \E w \in Worktrees : MoveTarget(w)
  <2>1. Merges' = Merges
    BY <1>2, <1>4, MergesAre
  <2>2. \A c \in Merges : <<ops'[commits'[c].op].tree, c>> = <<ops[commits[c].op].tree, c>>
    BY <1>2
  <2>3. mergesBar' = {<<ops'[commits'[c].op].tree, c>> : c \in Merges}
    BY <2>1 DEF mergesBar
  <2>4. \A x : x \in mergesBar' <=> x \in mergesBar
    BY <2>2, <2>3 DEF mergesBar
  <2>5. mergesBar' = mergesBar
    BY <2>3, <2>4 DEF mergesBar
  <2> QED
    BY <1>4, <2>5
<1> QED
  BY <1>3, <1>4

\* A reservation is given up, made or kept by steps that write operations; the others leave it.
LEMMA ReservationsWritten ==
    ASSUME Inductive, [Next]_vars
    PROVE  \/ reservedBar' = reservedBar
           \/ \E w \in Worktrees : InspectMisses(w) \/ Reserve(w) \/ (Record(w) /\ row[w].mergeSha = None)
<1>1. CASE UNCHANGED ops
  BY <1>1, OpsStay DEF reservedBar
<1>2. ASSUME NEW w \in Worktrees, Record(w), row[w].mergeSha # None PROVE UNCHANGED ops
  BY <1>2 DEF Record
<1>3. ASSUME NEW w \in Worktrees, FinishCleanup(w) PROVE reservedBar' = reservedBar
  <2>1. \A v \in Worktrees : v # w => Reserved(v)' = Reserved(v)
    BY <1>3, OthersUntouched, SameStatus DEF MergeStep, Untouched
  <2>2. row[w].mergeSha # None /\ row' = row
    BY <1>3 DEF Inductive, StagesAgree, StageAgrees, FinishCleanup
  <2>3. ~Reserved(w)
    BY <2>2 DEF Inductive, RecordedIsMerged, Reserved
  <2>4. ~Reserved(w)'
    <3>1. Consistent(w)'
      BY ConsistentStep
    <3> QED
      BY <2>2, <3>1 DEF Consistent, Recorded, Reserved
  <2> QED
    BY <2>1, <2>3, <2>4 DEF reservedBar
<1>4. CASE UNCHANGED vars
  BY <1>1, <1>4 DEF vars, records
<1>5. ASSUME NEW w \in Worktrees, MoveTarget(w) PROVE UNCHANGED ops
  BY <1>5 DEF MoveTarget, records
<1> QED
  BY <1>1, <1>2, <1>3, <1>4, <1>5, HistorySteps

\* A step that writes an operation of one worktree leaves the other reservations.
LEMMA OneReservation ==
    ASSUME Inductive, NEW w \in Worktrees, MergeStep(w)
    PROVE  /\ Reserved(w)' => reservedBar' = reservedBar \cup {w}
           /\ ~Reserved(w)' => reservedBar' = reservedBar \ {w}
<1>1. \A v \in Worktrees : v # w => Reserved(v)' = Reserved(v)
  BY OthersUntouched, SameStatus DEF Untouched
<1> QED
  BY <1>1 DEF reservedBar

\* Every step is one of the merge's life, or leaves it.
LEMMA LifeStep ==
    ASSUME LifeInv, LifeInv', [Next]_vars
    PROVE  [Life!Next]_(Life!lifeVars)
<1>1. TypeOK /\ Inductive /\ NamesMerge /\ \A w \in Worktrees : Consistent(w) /\ Consistent(w)'
  BY ConsistentNow, ConsistentStep DEF LifeInv, Inductive
<1>2. ASSUME NEW w \in Worktrees, MoveTarget(w) PROVE Life!Merge(w)
  <2>1. Reserved(w) /\ target = ops[Latest(w)].target
    BY <1>1, <1>2 DEF MoveTarget, Consistent, StageAgrees
  <2>2. Life!MergesOf(w) = {}
    BY <1>1, <2>1, LifeMerges DEF Life!MergesOf
  <2>3. New \in Commits
    BY <1>1, <1>2, Types, BoundsAssumption DEF MoveTarget, Room, New, Commits
  <2>4. \A v \in Worktrees : New \notin Life!MergesOf(v)
    BY <1>1, LifeMerges, Types DEF Merges, New
  <2>5. mergesBar' = mergesBar \cup {<<w, New>>}
    BY <1>1, <1>2, MoveMakes
  <2>6. reservedBar' = reservedBar /\ recordedBar' = recordedBar
    BY <1>2, OpsStay DEF MoveTarget, records, reservedBar, recordedBar
  <2> QED
    BY <2>1, <2>2, <2>3, <2>4, <2>5, <2>6 DEF Life!Merge, reservedBar, mergesBar, recordedBar
<1>3. ASSUME UNCHANGED commits PROVE mergesBar' = mergesBar
  <2>1. ASSUME NEW w \in Worktrees, MoveTarget(w) PROVE FALSE
    <3>1. Len(commits') = Len(commits) + 1 /\ Len(commits) \in Nat
      BY <1>1, <2>1, MoveAdds
    <3> QED
      BY <1>3, <3>1
  <2> QED
    BY <1>1, <2>1, MoveMakes
<1>4. ASSUME NEW w \in Worktrees, InspectMisses(w) PROVE Life!GiveUp(w)
  <2>1. Reserved(w)
    BY <1>1, <1>4 DEF InspectMisses, Consistent, StageAgrees
  <2>2. Life!MergesOf(w) = {}
    BY <1>1, <1>4, LifeMerges DEF Life!MergesOf, InspectMisses, Landed
  <2>3. ~Reserved(w)'
    <3>1. LatestStatus(w) # "none" /\ Saved(Latest(w), "failed") /\ "failed" \in Statuses
      BY <1>4, <2>1 DEF InspectMisses, Reserved, Statuses
    <3>2. Saves(w, [ops[Latest(w)] EXCEPT !.status = "failed"]) /\ ops[Latest(w)] \in OpRecs
      BY <1>1, <3>1, StatusSaved, LatestThere DEF Inductive
    <3>3. LatestStatus(w)' = [ops[Latest(w)] EXCEPT !.status = "failed"].status
      BY <1>1, <3>2, StatusWritten
    <3> QED
      BY <3>2, <3>3 DEF OpRecs, Reserved
  <2>4. reservedBar' = reservedBar \ {w}
    BY <1>1, <1>4, <2>3, OneReservation DEF MergeStep
  <2>5. mergesBar' = mergesBar /\ recordedBar' = recordedBar
    BY <1>3, <1>4 DEF InspectMisses, git, recordedBar
  <2> QED
    BY <2>1, <2>2, <2>4, <2>5 DEF Life!GiveUp, reservedBar, mergesBar, recordedBar
<1>5. ASSUME NEW w \in Worktrees, Reserve(w) PROVE Life!Reserve(w)
  <2>1. Unmerged(w)
    BY <1>1, <1>5 DEF Reserve, Consistent, StageAgrees
  <2>2. LatestStatus(w) \in {"none", "failed"}
    BY <1>1, <2>1, LatestThere DEF Inductive, Unmerged
  <2>3. ~Reserved(w) /\ row[w].mergeSha = None
    BY <1>1, <2>2 DEF Reserved, Consistent, Recorded
  <2>4. Life!MergesOf(w) = {}
    BY <1>1, <2>2, LifeMerges DEF Life!MergesOf
  <2>5. Reserved(w)'
    <3>1. stage'[w] = "moving"
      BY <1>1, <1>5 DEF TypeOK, Reserve, To
    <3> QED
      BY <1>1, <3>1 DEF Consistent, StageAgrees
  <2>6. reservedBar' = reservedBar \cup {w}
    BY <1>1, <1>5, <2>5, OneReservation DEF MergeStep
  <2>7. mergesBar' = mergesBar /\ recordedBar' = recordedBar
    BY <1>3, <1>5 DEF Reserve, git, recordedBar
  <2> QED
    BY <2>3, <2>4, <2>6, <2>7 DEF Life!Reserve, reservedBar, mergesBar, recordedBar
<1>6. ASSUME NEW w \in Worktrees, Record(w), row[w].mergeSha = None PROVE Life!Record(w)
  <2>1. LatestStatus(w) = "reserved"
    BY <1>1, <1>6 DEF Record, Consistent, StageAgrees, Recordable, Recorded
  <2>2. local[w].merge \in Commits
    <3>1. local[w].merge \in 1..Len(commits) /\ Len(commits) \in 1..MaxCommits
      BY <1>1, <1>6, MergeThere DEF TypeOK, Commits
    <3> QED
      BY <3>1, BoundsAssumption DEF Commits
  <2>3. Life!MergesOf(w) \subseteq {local[w].merge}
    <3>1. \A c \in Life!MergesOf(w) : c \in Merges /\ commits[c].op = Latest(w)
      BY <1>1, LifeMerges
    <3> QED
      BY <1>1, <1>6, <3>1 DEF NamesMerge, Record
  <2>4. /\ row' = [row EXCEPT ![w].status = "removed", ![w].mergeSha = local[w].merge]
        /\ UNCHANGED commits
    BY <1>6 DEF Record, git
  <2>5. recordedBar' = [recordedBar EXCEPT ![w] = local[w].merge]
    <3>1. row \in [Worktrees -> [status : {"active", "removed"}, version : 1..MaxVersion,
                                 mergeSha : 0..Len(commits)]]
      BY <1>1 DEF TypeOK
    <3>2. \A v \in Worktrees : row'[v].mergeSha = IF v = w THEN local[w].merge ELSE row[v].mergeSha
      BY <2>4, <3>1
    <3> QED
      BY <3>2 DEF recordedBar
  <2>6. ~Reserved(w)'
    <3>1. row'[w].mergeSha # None
      BY <2>2, <2>5 DEF recordedBar, Commits, None
    <3> QED
      BY <1>1, <3>1 DEF Consistent, Recorded, Reserved
  <2>7. reservedBar' = reservedBar \ {w}
    BY <1>1, <1>6, <2>6, OneReservation DEF MergeStep
  <2>8. mergesBar' = mergesBar
    BY <1>3, <2>4
  <2> QED
    BY <2>1, <2>2, <2>3, <2>5, <2>7, <2>8
    DEF Life!Record, reservedBar, mergesBar, recordedBar, Reserved
<1>7. ASSUME NEW w \in Worktrees, \/ MoveTarget(w) \/ InspectMisses(w) \/ Reserve(w)
                                  \/ Record(w) /\ row[w].mergeSha = None
      PROVE  Life!Next
  BY <1>2, <1>4, <1>5, <1>6, <1>7 DEF Life!Next
<1>8. CASE \A w \in Worktrees : /\ ~MoveTarget(w) /\ ~InspectMisses(w) /\ ~Reserve(w)
                               /\ ~(Record(w) /\ row[w].mergeSha = None)
  <2>1. reservedBar' = reservedBar
    BY <1>1, <1>8, ReservationsWritten
  <2>3. mergesBar' = mergesBar
    BY <1>1, <1>8, MoveMakes
  <2>2. UNCHANGED recordedBar
    <3>1. CASE UNCHANGED vars
      BY <3>1 DEF vars, records, recordedBar
    <3>2. CASE Next
      BY <1>1, <1>8, <3>2, RecordWrites
    <3> QED
      BY <3>1, <3>2
  <2> QED
    BY <2>1, <2>2, <2>3 DEF Life!lifeVars, reservedBar, mergesBar, recordedBar
<1> QED
  BY <1>7, <1>8

\* The merge executor implements MergeLife: a merge that Git has made is not given up, and its record
\* names it, whatever fails, crashes or is tried again.
THEOREM Implements == Spec => ImplementsMergeLife
<1>1. Init => Life!Init
  <2> SUFFICES ASSUME Init PROVE Life!Init
    OBVIOUS
  <2>1. commits[1].op = None /\ Len(commits) = 1 /\ Len(ops) = 0
    BY DEF Init
  <2>2. Merges = {}
    BY <2>1 DEF Merges
  <2>3. \A w \in Worktrees : ~Reserved(w)
    BY <2>1 DEF Reserved, LatestStatus, OpsOf
  <2>4. \A w \in Worktrees : row[w].mergeSha = None
    BY DEF Init
  <2> QED
    BY <2>2, <2>3, <2>4 DEF Life!Init
<1>2. LifeInv /\ LifeInv' /\ [Next]_vars => [Life!Next]_(Life!lifeVars)
  BY LifeStep
<1> QED
  BY <1>1, <1>2, LifeInvariance, PTL DEF Spec, ImplementsMergeLife, Life!Spec

\* A merge that Git has made is recorded by its own commit, or its reservation still stands, so that the
\* next attempt finds it.
MergesAccounted == \A c \in Merges :
    LET w == ops[commits[c].op].tree IN Reserved(w) \/ row[w].mergeSha = c

\* Nothing but the merge's life is needed to see that.
THEOREM MergesAreAccounted == Spec => []MergesAccounted
<1> DEFINE Held == \A w \in Worktrees, c \in Commits :
                       c \in Life!MergesOf(w) => w \in reservedBar \/ recordedBar[w] = c
<1>1. Inductive => (MergesAccounted <=> Held)
  <2> SUFFICES ASSUME Inductive PROVE MergesAccounted <=> Held
    OBVIOUS
  <2>1. \A w \in Worktrees : (w \in reservedBar <=> Reserved(w)) /\ recordedBar[w] = row[w].mergeSha
    BY DEF reservedBar, recordedBar
  <2>2. \A w, c : c \in Life!MergesOf(w) <=> c \in Merges /\ ops[commits[c].op].tree = w
    BY LifeMerges
  <2>3. \A c \in Merges : ops[commits[c].op].tree \in Worktrees
    BY MergeOfLatest
  <2>4. \A w : Life!MergesOf(w) \subseteq Commits
    BY DEF Life!MergesOf
  <2>5. ASSUME Held PROVE MergesAccounted
    BY <2>1, <2>2, <2>3, <2>4, <2>5 DEF MergesAccounted
  <2>6. ASSUME MergesAccounted PROVE Held
    BY <2>1, <2>2, <2>6 DEF MergesAccounted
  <2> QED
    BY <2>5, <2>6
<1>2. Init => MergesAccounted
  <2> SUFFICES ASSUME Init PROVE MergesAccounted
    OBVIOUS
  <2>1. commits[1].op = None /\ Len(commits) = 1
    BY DEF Init
  <2> QED
    BY <2>1 DEF Merges, MergesAccounted
<1>3. Held /\ [Life!Next]_(Life!lifeVars) => Held'
  <2> SUFFICES ASSUME Held, [Life!Next]_(Life!lifeVars) PROVE Held'
    OBVIOUS
  <2> DEFINE Of(w) == {c \in Commits : <<w, c>> \in mergesBar}
  <2>1. \A w : Life!MergesOf(w) = Of(w) /\ Life!MergesOf(w)' = Of(w)'
    BY DEF Life!MergesOf, mergesBar
  <2>2. \A v \in Worktrees : \A c \in Of(v) : v \in reservedBar \/ recordedBar[v] = c
    BY <2>1
  <2>3. CASE UNCHANGED <<reservedBar, mergesBar, recordedBar>>
    BY <2>1, <2>3, <2>2
  <2>4. ASSUME NEW w \in Worktrees, Life!Reserve(w) PROVE Held'
    <3>1. reservedBar' = reservedBar \cup {w} /\ mergesBar' = mergesBar /\ recordedBar' = recordedBar
      BY <2>4 DEF Life!Reserve, reservedBar, mergesBar, recordedBar
    <3> QED
      BY <2>1, <2>2, <3>1
  <2>5. ASSUME NEW w \in Worktrees, Life!Merge(w) PROVE Held'
    <3>1. PICK d : mergesBar' = mergesBar \cup {<<w, d>>}
      BY <2>5 DEF Life!Merge, mergesBar
    <3>2. w \in reservedBar /\ reservedBar' = reservedBar /\ recordedBar' = recordedBar
      BY <2>5 DEF Life!Merge, reservedBar, recordedBar
    <3> QED
      BY <2>1, <2>2, <3>1, <3>2
  <2>6. ASSUME NEW w \in Worktrees, Life!GiveUp(w) PROVE Held'
    <3>1. /\ Of(w) = {} /\ reservedBar' = reservedBar \ {w}
          /\ mergesBar' = mergesBar /\ recordedBar' = recordedBar
      BY <2>1, <2>6 DEF Life!GiveUp, reservedBar, mergesBar, recordedBar
    <3> QED
      BY <2>1, <2>2, <3>1
  <2>7. ASSUME NEW w \in Worktrees, Life!Record(w) PROVE Held'
    <3>1. PICK d \in Commits : /\ Of(w) \subseteq {d} /\ reservedBar' = reservedBar \ {w}
                               /\ recordedBar' = [recordedBar EXCEPT ![w] = d]
      BY <2>1, <2>7 DEF Life!Record, reservedBar, recordedBar
    <3>2. mergesBar' = mergesBar
      BY <2>7 DEF Life!Record, mergesBar
    <3>3. \A v \in Worktrees : recordedBar'[v] = IF v = w THEN d ELSE recordedBar[v]
      BY <3>1 DEF recordedBar
    <3> QED
      BY <2>1, <2>2, <3>1, <3>2, <3>3
  <2> QED
    BY <2>3, <2>4, <2>5, <2>6, <2>7 DEF Life!Next, Life!lifeVars, reservedBar, mergesBar, recordedBar
<1>4. LifeInv /\ LifeInv' /\ [Next]_vars /\ MergesAccounted => MergesAccounted'
  <2>1. Inductive' => (MergesAccounted' <=> Held')
    BY <1>1, PTL
  <2> QED
    BY <1>1, <1>3, <2>1, LifeStep DEF LifeInv
<1> QED
  BY <1>2, <1>4, LifeInvariance, PTL DEF Spec
=============================================================================
