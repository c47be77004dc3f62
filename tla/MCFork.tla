------------------------------- MODULE MCFork -------------------------------
(***************************************************************************)
(* One worker and its children, in a build that reads ts->ts_pid back.     *)
(***************************************************************************)
EXTENDS Fork
=============================================================================
