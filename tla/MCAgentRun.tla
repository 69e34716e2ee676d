----------------------------- MODULE MCAgentRun -----------------------------
(***************************************************************************)
(* Finite instance of AgentRun: one run, two coordinators that may ask     *)
(* (one per kind of anchor), two tool gates, up to two outcome stamps.     *)
(***************************************************************************)
EXTENDS AgentRun
=============================================================================
