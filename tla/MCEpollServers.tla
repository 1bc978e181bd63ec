---------------------------- MODULE MCEpollServers -----------------------------
(* Two clients on each server: one may end its stream, reset it, or do both; the   *)
(* other may get its descriptor.  The signal server does not read.  One signal     *)
(* more is raised than its pipe holds, and the pipe holds one more than a recv     *)
(* reads.                                                                          *)
EXTENDS EpollServers
CONSTANTS a, b, t1, t2

MCMaxSent == [s \in Servers |-> IF s = "signal" THEN 0 ELSE 2]
=============================================================================
