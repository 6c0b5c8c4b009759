----------------------------- MODULE MCGCancellable -----------------------------
(* GCancellable on small instances. *)
EXTENDS GCancellable

CONSTANTS a, b, u1, s1
================================================================================
