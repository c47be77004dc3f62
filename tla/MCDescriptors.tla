---------------------------- MODULE MCDescriptors ---------------------------
(***************************************************************************)
(* Two workers, as threads and as processes, with every benchmark.         *)
(***************************************************************************)
EXTENDS Descriptors

CloseTcpOnly == {"close_tcp"}
=============================================================================
