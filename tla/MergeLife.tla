----------------------------- MODULE MergeLife -----------------------------
(***************************************************************************)
(* What the merge executor promises: a worktree is merged once, by a       *)
(* reservation that storage holds; a reservation whose merge Git has made  *)
(* is never given up; and the record names the merge that was made.  How   *)
(* this is kept while Git and storage change apart, commands fail late and *)
(* the daemon crashes is in MergeOperation, which implements this module.  *)
(***************************************************************************)
EXTENDS Naturals

CONSTANTS
    Worktrees,
    Commits,     \* what the integration target's history may hold
    None         \* no commit

VARIABLES
    reserved,    \* worktrees whose merge storage has reserved
    merges,      \* pairs <<worktree, commit>>: the merges Git has made
    recorded     \* [Worktrees -> Commits \cup {None}]: the merge that storage records

lifeVars == <<reserved, merges, recorded>>

\* The merges of one worktree.
MergesOf(w) == {c \in Commits : <<w, c>> \in merges}

Init == reserved = {} /\ merges = {} /\ recorded = [w \in Worktrees |-> None]

Reserve(w) == /\ w \notin reserved /\ MergesOf(w) = {} /\ recorded[w] = None
              /\ reserved' = reserved \cup {w}
              /\ UNCHANGED <<merges, recorded>>

\* Git makes the merge, as a commit that is no other's.
Merge(w) == /\ w \in reserved /\ MergesOf(w) = {}
            /\ \E c \in Commits : /\ \A v \in Worktrees : c \notin MergesOf(v)
                                  /\ merges' = merges \cup {<<w, c>>}
            /\ UNCHANGED <<reserved, recorded>>

\* The reservation has failed, for Git has merged nothing.
GiveUp(w) == /\ w \in reserved /\ MergesOf(w) = {}
             /\ reserved' = reserved \ {w}
             /\ UNCHANGED <<merges, recorded>>

\* The merge's record: the one that was made, or a commit of the target that held it all already.
Record(w) == /\ w \in reserved
             /\ \E c \in Commits : /\ MergesOf(w) \subseteq {c}
                                   /\ recorded' = [recorded EXCEPT ![w] = c]
             /\ reserved' = reserved \ {w}
             /\ UNCHANGED merges

Next == \E w \in Worktrees : Reserve(w) \/ Merge(w) \/ GiveUp(w) \/ Record(w)

Spec == Init /\ [][Next]_lifeVars
=============================================================================
