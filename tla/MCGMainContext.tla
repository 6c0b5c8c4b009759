---------------------------- MODULE MCGMainContext ----------------------------
(* GMainContext with a timer that may recurse and a source with a descriptor. *)
EXTENDS GMainContext

CONSTANTS t1, c1

AllUrgent == [s \in Source |-> 1]
===============================================================================
