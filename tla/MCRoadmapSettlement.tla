------------------------ MODULE MCRoadmapSettlement ------------------------
(* Instances of RoadmapSettlement for TLC. *)
EXTENDS RoadmapSettlement

CONSTANTS e1, e2, d1, v1

\* Every entry in one plan version.
OnePlan == [e \in Entries |-> v1]
=============================================================================
