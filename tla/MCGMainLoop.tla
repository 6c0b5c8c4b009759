------------------------------ MODULE MCGMainLoop ------------------------------
(* GMainLoop with two or three threads sharing one context. *)
EXTENDS GMainLoop

CONSTANTS t1, t2, t3, l1, l2
================================================================================
