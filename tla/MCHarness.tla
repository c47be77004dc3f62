----------------------------- MODULE MCHarness ------------------------------
(***************************************************************************)
(* Small harnesses for TLC.  The failure points of each configuration are  *)
(* definitions here, its numbers are in the .cfg.                          *)
(***************************************************************************)
EXTENDS Harness

BenchFailure == {"bench"}
SomeFailure  == {"fork", "spawn", "bench", "post"}
=============================================================================
