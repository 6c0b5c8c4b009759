-------------------------------- MODULE Monitor --------------------------------
(*****************************************************************************)
(* What a GMutex together with one GCond promises, without the futex words: *)
(* at most one thread holds the lock, only the holder gives it up, a thread *)
(* joins the waiters of the condition only in the step that gives the lock  *)
(* up, and a thread that leaves the waiters has to acquire the lock again.  *)
(* Waking up more waiters than were signalled is allowed: g_cond_wait() is  *)
(* documented to have spurious wakeups.                                     *)
(*****************************************************************************)
CONSTANT Thread

VARIABLES holders,    \* the threads that hold the mutex
          waiters     \* the threads blocked on the condition

Init == holders = {} /\ waiters = {}

Acquire(t) == /\ holders = {}
              /\ t \notin waiters
              /\ holders' = {t}
              /\ UNCHANGED waiters

Release(t) == /\ holders = {t}
              /\ holders' = {}
              /\ UNCHANGED waiters

\* The lock is released and the wait begins in one step.
Wait(t) == /\ holders = {t}
           /\ holders' = {}
           /\ waiters' = waiters \cup {t}

\* A signal, a broadcast, a timeout or a spurious wakeup.
Wake(T) == /\ waiters' = waiters \ T
           /\ UNCHANGED holders

Next == \/ \E t \in Thread : Acquire(t) \/ Release(t) \/ Wait(t)
        \/ \E T \in SUBSET Thread : Wake(T)

Spec == Init /\ [][Next]_<<holders, waiters>>
================================================================================
