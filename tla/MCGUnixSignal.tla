----------------------------- MODULE MCGUnixSignal -----------------------------
(* GUnixSignal on small instances. *)
EXTENDS GUnixSignal

CONSTANTS c1, c2, g1, g2, a1, a2
================================================================================
