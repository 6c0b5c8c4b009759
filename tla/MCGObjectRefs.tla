----------------------------- MODULE MCGObjectRefs -----------------------------
(* GObjectRefs on small instances. *)
EXTENDS GObjectRefs, TLC

CONSTANTS a, b, o1, o2, r1, r2

AddressOf == o1 :> 1 @@ o2 :> 2
OwnerOf == o1 :> a @@ o2 :> b
================================================================================
