---------------------------- MODULE MCChainPause ----------------------------
(***************************************************************************)
(* Finite instance of ChainPause: two runs with one loop each, two         *)
(* concurrent decisions, two retry tasks, whose loops are outside any run. *)
(***************************************************************************)
EXTENDS ChainPause, TLC

MCSeeds ==
  "a1" :> [role |-> "gather", model |-> "m1", run |-> "r1"] @@
  "b1" :> [role |-> "gather", model |-> "m3", run |-> "r2"]

MCTaskIds == <<"t1", "t2">>
Symmetry == Permutations(Requests)
=============================================================================
