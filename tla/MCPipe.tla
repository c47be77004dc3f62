------------------------------- MODULE MCPipe -------------------------------
(***************************************************************************)
(* Two workers, as threads and as processes, with every transport and      *)
(* mode, and a buffer that is empty, fits or does not fit the channel.     *)
(***************************************************************************)
EXTENDS Pipe

MCBenchmarks == [m : {"st", "mt", "mp"}, x : {"pipe", "fifo", "sock", "tcp"},
                 s : {0, 1, 3}]
=============================================================================
