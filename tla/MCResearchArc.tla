--------------------------- MODULE MCResearchArc ---------------------------
(***************************************************************************)
(* Finite instance of ResearchArc: two gatherers per plan, two plans per   *)
(* behaviour (a replanned arc, or a second run).                           *)
(***************************************************************************)
EXTENDS ResearchArc
=============================================================================
