----------------------------- MODULE MCCascade ------------------------------
(***************************************************************************)
(* Cascades of a few workers, with the lock primitives of each question.   *)
(***************************************************************************)
EXTENDS Cascade

BlockingKinds == {"mutex", "cond", "cond_o", "lockf", "fcntl"}
FlockOnly     == {"flock"}
=============================================================================
