----------------------------- MODULE MCGSourceChild -----------------------------
(* GSourceChild with two or three sources. *)
EXTENDS GSourceChild, TLC

CONSTANTS s1, s2, s3

Symmetry == Permutations(Source)
=================================================================================
