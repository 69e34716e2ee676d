--------------------------- MODULE MCSandboxServer ---------------------------
(***************************************************************************)
(* Finite instances of SandboxServer: two requests at a time, a directory  *)
(* with one file and two contents; for the timeout, also a file beside it. *)
(***************************************************************************)
EXTENDS SandboxServer
=============================================================================
