------------------------------- MODULE MCExit -------------------------------
(***************************************************************************)
(* Two workers and their children: four users of a barrier made for two.   *)
(***************************************************************************)
EXTENDS Exit
=============================================================================
