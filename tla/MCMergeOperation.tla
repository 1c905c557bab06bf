-------------------------- MODULE MCMergeOperation --------------------------
(* An instance of MergeOperation for TLC.  What other worktrees' merges do to *)
(* the target of this one, OutsideTarget does at any time.                   *)
EXTENDS MergeOperation

CONSTANTS w1
=============================================================================
