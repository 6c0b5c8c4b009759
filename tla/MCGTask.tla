-------------------------------- MODULE MCGTask --------------------------------
(* GTask on small instances. *)
EXTENDS GTask

CONSTANTS t1, t2

(* t2 is started by the main thread or by the function of t1. *)
CallersOf == [t \in Task |-> IF t = t1 THEN {Main} ELSE {Main, t1}]
================================================================================
