----------------------------- MODULE MCGThreadPool -----------------------------
(* GThreadPool on small instances. *)
EXTENDS GThreadPool

CONSTANTS p1, p2, w1, w2, w3, t1, t2, t3
================================================================================
