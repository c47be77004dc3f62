----------------------------- MODULE MCBarrier ------------------------------
(***************************************************************************)
(* Barrier with as many arrivals per phase as threads, the way             *)
(* barrier_create(lm_optT * lm_optP, ...) sets ba_hwm.  The threads are    *)
(* interchangeable, but the liveness property rules symmetry out.          *)
(***************************************************************************)
EXTENDS Barrier

CONSTANTS t1, t2, t3

MCThreads == {t1, t2, t3}
MCHwm == Cardinality(MCThreads)
=============================================================================
