-------------------------------- MODULE TaskPool --------------------------------
(*****************************************************************************)
(* What the documentation of GThreadPool promises about tasks, without the   *)
(* threads that run them: a task is run at most once, a pool that is freed   *)
(* without "immediate" runs all of its tasks first, one that is freed with   *)
(* it starts no more, and no pool goes while one of its tasks is running.    *)
(*****************************************************************************)

CONSTANTS Pool, Task

VARIABLES stage,   \* of each pool
          fate     \* of each task: how far it is, and in which pool

New == <<"new">>
In(step, p) == <<step, p>>
Tasks(step, p) == {t \in Task : fate[t] = In(step, p)}
Advance(S, p, step) == fate' = [t \in Task |-> IF t \in S THEN In(step, p) ELSE fate[t]]

Init == /\ stage = [p \in Pool |-> "none"]
        /\ fate = [t \in Task |-> New]

Move(p, from, to) == stage[p] = from /\ stage' = [stage EXCEPT ![p] = to]

Open(p) == Move(p, "none", "open") /\ UNCHANGED fate

Close(p) == /\ Move(p, "open", "draining") \/ Move(p, "open", "stopping")
            /\ UNCHANGED fate

Submit(p, t) == /\ stage[p] = "open" /\ fate[t] = New
                /\ Advance({t}, p, "queued") /\ UNCHANGED stage

Begin(p, t) == /\ stage[p] \in {"open", "draining"} /\ fate[t] = In("queued", p)
               /\ Advance({t}, p, "running") /\ UNCHANGED stage

Finish(p, t) == /\ fate[t] = In("running", p)
                /\ Advance({t}, p, "done") /\ UNCHANGED stage

\* Nothing is left to do, and whoever waits for more is sent away.
Drained(p) == /\ Tasks("queued", p) = {}
              /\ Move(p, "draining", "stopping") /\ UNCHANGED fate

Drop(p, t) == /\ stage[p] = "stopping" /\ fate[t] = In("queued", p)
              /\ Advance({t}, p, "dropped") /\ UNCHANGED stage

Release(p) == /\ Tasks("running", p) = {}
              /\ \/ Move(p, "stopping", "freed")
                 \/ Move(p, "draining", "freed") /\ Tasks("queued", p) = {}
              /\ Advance(Tasks("queued", p), p, "dropped")

Next == \E p \in Pool :
          \/ Open(p) \/ Close(p) \/ Drained(p) \/ Release(p)
          \/ \E t \in Task : Submit(p, t) \/ Begin(p, t) \/ Finish(p, t) \/ Drop(p, t)

Spec == Init /\ [][Next]_<<stage, fate>>
================================================================================
