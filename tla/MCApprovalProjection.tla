------------------------ MODULE MCApprovalProjection ------------------------
(***************************************************************************)
(* Finite instance of ApprovalProjection: two gates of two loops of one    *)
(* run (one loop anchored by inheritance, one by lineage) and a loop whose *)
(* anchor names a run of another platform.                                 *)
(***************************************************************************)
EXTENDS ApprovalProjection

CONSTANTS r1, rf, w1, w2

MCLoops == {"l1", "l2", "l3"}
MCInherit == [l \in MCLoops |-> IF l = "l1" THEN r1 ELSE NoRun]
MCLineage == [l \in MCLoops |-> IF l = "l2" THEN r1 ELSE IF l = "l3" THEN rf ELSE NoRun]

MCLoopOf == [g \in Gates |-> IF g = "g1" THEN "l1" ELSE IF g = "g2" THEN "l2" ELSE "l3"]
=============================================================================
