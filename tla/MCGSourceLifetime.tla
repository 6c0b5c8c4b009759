-------------------------- MODULE MCGSourceLifetime --------------------------
(* GSourceLifetime with two or three users of the source besides the owner. *)
EXTENDS GSourceLifetime, TLC

CONSTANTS u1, u2, u3, c1, c2

Symmetry == Permutations(User) \cup Permutations(Callback)
==============================================================================
