-------------------------------- MODULE MCGMutex --------------------------------
(* GMutex with three threads: a holder, a sleeper and a thread that barges in. *)
EXTENDS GMutex

CONSTANTS t1, t2, t3
================================================================================
