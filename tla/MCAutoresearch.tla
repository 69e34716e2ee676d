--------------------------- MODULE MCAutoresearch ---------------------------
(***************************************************************************)
(* Finite instance of Autoresearch: two experiments; one with repeated     *)
(* measurements and two reviews; one with a repeated baseline, better or   *)
(* worse, which sets two pipelines going, up to their reviews.             *)
(***************************************************************************)
EXTENDS Autoresearch

Bounds(cap, baselines, measures, reviews) ==
  [cap |-> cap, baselines |-> baselines, measures |-> measures, reviews |-> reviews]
MCLimits ==
  {Bounds(2, <<3>>, 1, 1), Bounds(1, <<3>>, 2, 2),
   Bounds(1, <<3, 2>>, 1, 0), Bounds(1, <<2, 3>>, 1, 0)}
=============================================================================
