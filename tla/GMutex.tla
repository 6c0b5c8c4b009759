--------------------------------- MODULE GMutex --------------------------------
(*****************************************************************************)
(* The futex implementation of GMutex and GCond (glib/gthread-posix.c): one *)
(* mutex word, one condition counter, and threads that lock, try to lock,   *)
(* unlock, wait, wait until a deadline, signal and broadcast.  A step is one *)
(* atomic instruction on a word or one futex system call.  The kernel's     *)
(* futex may wake any sleeper, and may return early from a wait.            *)
(*****************************************************************************)
EXTENDS Naturals, FiniteSets

CONSTANTS Thread,
          CounterSize   \* values of the condition counter (2^32 for a guint)

ASSUME CounterAssumption == CounterSize \in Nat /\ CounterSize >= 2

\* GMutexState
EMPTY == 0
OWNED == 1
CONTENDED == 2

VARIABLES word,      \* mutex->i[0]
          counter,   \* cond->i[0]
          pc,        \* the next instruction of each thread
          ret,       \* where the call a thread is inside of returns to
          sampled,   \* the local of g_cond_wait: the counter it read
          timed,     \* the threads whose wait is g_cond_wait_until
          owed,      \* history: the waiters that a broadcast has found blocked
          promise    \* history: who was blocked when a signal with the lock began

vars == <<word, counter, pc, ret, sampled, timed, owed, promise>>

Labels == {"idle", "cs", "xchg", "futexwait", "asleep", "wake", "sampled",
           "condwait", "condsleep", "relock", "sigwake", "bcastwake"}

Holds(t) == \/ pc[t] \in {"cs", "sampled"}
            \/ pc[t] \in {"sigwake", "bcastwake"} /\ ret[t] = "cs"

\* Between the sample of the counter and the FUTEX_WAIT that compares it.
InWindow(t) == \/ pc[t] \in {"sampled", "condwait"}
               \/ pc[t] = "wake" /\ ret[t] = "condwait"

\* Inside g_cond_wait and not yet certain to come back from it.
Blocked(t) == pc[t] = "condsleep" \/ (InWindow(t) /\ sampled[t] = counter)

Goto(t, label) == pc' = [pc EXCEPT ![t] = label]

Init == /\ word = EMPTY
        /\ counter = 0
        /\ pc = [t \in Thread |-> "idle"]
        /\ ret = [t \in Thread |-> "idle"]
        /\ sampled = [t \in Thread |-> 0]
        /\ timed = {}
        /\ owed = {}
        /\ promise = [t \in Thread |-> {}]

--------------------------------------------------------------------------------
(* The mutex. *)

\* g_mutex_lock: the compare-and-exchange EMPTY -> OWNED, or the slow path.
\* Called from outside, and by g_cond_wait when it comes back ("relock").
Lock(t) == /\ pc[t] \in {"idle", "relock"}
           /\ \/ /\ word = EMPTY
                 /\ word' = OWNED
                 /\ Goto(t, "cs")
              \/ /\ word # EMPTY
                 /\ Goto(t, "xchg")
                 /\ UNCHANGED word
           /\ UNCHANGED <<counter, ret, sampled, timed, owed, promise>>

\* Mutant: a thread that gets the lock in the slow path records OWNED.
LockExchangeOwned(t) == /\ pc[t] = "xchg"
                        /\ word' = IF word = EMPTY THEN OWNED ELSE CONTENDED
                        /\ Goto(t, IF word = EMPTY THEN "cs" ELSE "futexwait")
                        /\ UNCHANGED <<counter, ret, sampled, timed, owed, promise>>

\* g_mutex_lock_slowpath: the exchange at the head of its loop.
LockExchange(t) == /\ pc[t] = "xchg"
                   /\ word' = CONTENDED
                   /\ Goto(t, IF word = EMPTY THEN "cs" ELSE "futexwait")
                   /\ UNCHANGED <<counter, ret, sampled, timed, owed, promise>>

\* ... and its body: the kernel sleeps only if the word is still CONTENDED.
LockFutexWait(t) == /\ pc[t] = "futexwait"
                    /\ Goto(t, IF word = CONTENDED THEN "asleep" ELSE "xchg")
                    /\ UNCHANGED <<word, counter, ret, sampled, timed, owed, promise>>

\* The futex returns early (a signal handler ran); the loop goes round.
LockSpuriousWake(t) == /\ pc[t] = "asleep"
                       /\ Goto(t, "xchg")
                       /\ UNCHANGED <<word, counter, ret, sampled, timed, owed, promise>>

\* g_mutex_trylock: leaves the word alone unless it is EMPTY.
TryLock(t) == /\ pc[t] = "idle"
              /\ word' = IF word = EMPTY THEN OWNED ELSE word
              /\ Goto(t, IF word = EMPTY THEN "cs" ELSE "idle")
              /\ UNCHANGED <<counter, ret, sampled, timed, owed, promise>>

\* The exchange of g_mutex_unlock, returning to label when no wake is due.
UnlockExchange(t, label) == /\ word' = EMPTY
                            /\ \/ /\ word = OWNED
                                  /\ Goto(t, label)
                                  /\ UNCHANGED ret
                               \/ /\ word # OWNED
                                  /\ Goto(t, "wake")
                                  /\ ret' = [ret EXCEPT ![t] = label]

Unlock(t) == /\ pc[t] = "cs"
             /\ UnlockExchange(t, "idle")
             /\ UNCHANGED <<counter, sampled, timed, owed, promise>>

\* Mutant: the wake is left out.
UnlockWakeNobody(t) == /\ pc[t] = "wake"
                       /\ Goto(t, ret[t])
                       /\ ret' = [ret EXCEPT ![t] = "idle"]
                       /\ UNCHANGED <<word, counter, sampled, timed, owed, promise>>

\* g_mutex_unlock_slowpath: FUTEX_WAKE of one sleeper, if there is one.
UnlockWake(t) == /\ pc[t] = "wake"
                 /\ \/ \E u \in Thread :
                         /\ pc[u] = "asleep"
                         /\ pc' = [pc EXCEPT ![t] = ret[t], ![u] = "xchg"]
                    \/ /\ \A u \in Thread : pc[u] # "asleep"
                       /\ Goto(t, ret[t])
                 /\ ret' = [ret EXCEPT ![t] = "idle"]
                 /\ UNCHANGED <<word, counter, sampled, timed, owed, promise>>

--------------------------------------------------------------------------------
(* The condition variable. *)

\* g_cond_wait and g_cond_wait_until: the counter is read with the lock held.
\* (A g_cond_wait_until whose deadline has passed returns here at once.)
CondWait(t) == /\ pc[t] = "cs"
               /\ timed' \in {timed, timed \cup {t}}
               /\ sampled' = [sampled EXCEPT ![t] = counter]
               /\ Goto(t, "sampled")
               /\ UNCHANGED <<word, counter, ret, owed, promise>>

\* Mutant: the counter is sampled after the unlock.
CondUnlockSamples(t) == /\ pc[t] = "sampled"
                        /\ UnlockExchange(t, "condwait")
                        /\ sampled' = [sampled EXCEPT ![t] = counter]
                        /\ UNCHANGED <<counter, timed, owed, promise>>

\* The g_mutex_unlock inside g_cond_wait.
CondUnlock(t) == /\ pc[t] = "sampled"
                 /\ UnlockExchange(t, "condwait")
                 /\ UNCHANGED <<counter, sampled, timed, owed, promise>>

\* The wait of u ends and g_mutex_lock is next.
BackFromSleep(u) == /\ sampled' = [sampled EXCEPT ![u] = 0]
                    /\ timed' = timed \ {u}
                    /\ owed' = owed \ {u}

\* Mutant: g_cond_wait does not take the mutex again when it need not sleep.
CondFutexWaitNoRelock(t) ==
  /\ pc[t] = "condwait"
  /\ \/ /\ sampled[t] = counter
        /\ Goto(t, "condsleep")
        /\ UNCHANGED <<sampled, timed, owed>>
     \/ /\ sampled[t] # counter
        /\ Goto(t, "cs")
        /\ BackFromSleep(t)
  /\ UNCHANGED <<word, counter, ret, promise>>

\* FUTEX_WAIT: sleeps only if the counter is still the one sampled.
CondFutexWait(t) == /\ pc[t] = "condwait"
                    /\ \/ /\ sampled[t] = counter
                          /\ Goto(t, "condsleep")
                          /\ UNCHANGED <<sampled, timed, owed>>
                       \/ /\ sampled[t] # counter
                          /\ Goto(t, "relock")
                          /\ BackFromSleep(t)
                    /\ UNCHANGED <<word, counter, ret, promise>>

CondTimeout(t) == /\ pc[t] = "condsleep"
                  /\ t \in timed
                  /\ Goto(t, "relock")
                  /\ BackFromSleep(t)
                  /\ UNCHANGED <<word, counter, ret, promise>>

CondSpuriousWake(t) == /\ pc[t] = "condsleep"
                       /\ Goto(t, "relock")
                       /\ BackFromSleep(t)
                       /\ UNCHANGED <<word, counter, ret, promise>>

\* g_atomic_int_inc on the counter wraps.  The bound: no waiter stays between
\* its sample and its FUTEX_WAIT while the counter goes all the way round.
NextCounter == (counter + 1) % CounterSize
NoWrapInWindow == \A u \in Thread : InWindow(u) => sampled[u] # NextCounter

\* Mutant: the signal wakes without incrementing the counter.
SignalWithoutIncrement(t) ==
  /\ pc[t] \in {"idle", "cs"}
  /\ ret' = [ret EXCEPT ![t] = pc[t]]
  /\ promise' = [promise EXCEPT ![t] =
                   IF pc[t] = "cs" THEN {u \in Thread : Blocked(u)} ELSE {}]
  /\ Goto(t, "sigwake")
  /\ UNCHANGED <<word, counter, sampled, timed, owed>>

\* g_cond_signal, with or without the lock: the increment.
Signal(t) == /\ pc[t] \in {"idle", "cs"}
             /\ NoWrapInWindow
             /\ counter' = NextCounter
             /\ ret' = [ret EXCEPT ![t] = pc[t]]
             /\ promise' = [promise EXCEPT ![t] =
                              IF pc[t] = "cs" THEN {u \in Thread : Blocked(u)} ELSE {}]
             /\ Goto(t, "sigwake")
             /\ UNCHANGED <<word, sampled, timed, owed>>

\* ... and FUTEX_WAKE of one sleeper.
SignalWake(t) ==
  /\ pc[t] = "sigwake"
  /\ \/ \E u \in Thread : /\ pc[u] = "condsleep"
                          /\ pc' = [pc EXCEPT ![t] = ret[t], ![u] = "relock"]
                          /\ BackFromSleep(u)
     \/ /\ \A u \in Thread : pc[u] # "condsleep"
        /\ Goto(t, ret[t])
        /\ UNCHANGED <<sampled, timed, owed>>
  /\ promise' = [promise EXCEPT ![t] = {}]
  /\ ret' = [ret EXCEPT ![t] = "idle"]
  /\ UNCHANGED <<word, counter>>

\* g_cond_broadcast: the increment ...
Broadcast(t) == /\ pc[t] \in {"idle", "cs"}
                /\ NoWrapInWindow
                /\ counter' = NextCounter
                /\ ret' = [ret EXCEPT ![t] = pc[t]]
                /\ owed' = owed \cup {u \in Thread : Blocked(u)}
                /\ Goto(t, "bcastwake")
                /\ UNCHANGED <<word, sampled, timed, promise>>

\* ... and FUTEX_WAKE of every sleeper.
BroadcastWake(t) ==
  /\ pc[t] = "bcastwake"
  /\ LET Woken == {u \in Thread : pc[u] = "condsleep"}
     IN  /\ pc' = [u \in Thread |-> IF u = t THEN ret[t]
                                    ELSE IF u \in Woken THEN "relock" ELSE pc[u]]
         /\ sampled' = [u \in Thread |-> IF u \in Woken THEN 0 ELSE sampled[u]]
         /\ timed' = timed \ Woken
         /\ owed' = owed \ Woken
  /\ ret' = [ret EXCEPT ![t] = "idle"]
  /\ UNCHANGED <<word, counter, promise>>

--------------------------------------------------------------------------------
\* The steps a thread takes by itself once a call has begun.
Step(t) == \/ pc[t] = "relock" /\ Lock(t)
           \/ LockExchange(t) \/ LockFutexWait(t) \/ UnlockWake(t)
           \/ CondUnlock(t) \/ CondFutexWait(t) \/ CondTimeout(t)
           \/ SignalWake(t) \/ BroadcastWake(t)

Next == \E t \in Thread :
          \/ Lock(t) \/ LockExchange(t) \/ LockFutexWait(t) \/ LockSpuriousWake(t)
          \/ TryLock(t) \/ Unlock(t) \/ UnlockWake(t)
          \/ CondWait(t) \/ CondUnlock(t) \/ CondFutexWait(t)
          \/ CondTimeout(t) \/ CondSpuriousWake(t)
          \/ Signal(t) \/ SignalWake(t) \/ Broadcast(t) \/ BroadcastWake(t)

Spec == Init /\ [][Next]_vars

\* A thread inside a call is scheduled; nobody is made to call anything.
FairSpec == Spec /\ \A t \in Thread : WF_vars(Step(t))

--------------------------------------------------------------------------------
\* Every variable has its type; the counter in particular keeps its width.
TypeOK == /\ word \in {EMPTY, OWNED, CONTENDED}
          /\ counter \in 0 .. CounterSize - 1
          /\ pc \in [Thread -> Labels]
          /\ ret \in [Thread -> {"idle", "cs", "condwait"}]
          /\ sampled \in [Thread -> 0 .. CounterSize - 1]
          /\ timed \subseteq Thread
          /\ owed \subseteq Thread
          /\ promise \in [Thread -> SUBSET Thread]

\* At most one thread holds the mutex, and while one does the word is not
\* EMPTY: its g_mutex_unlock() never takes the "Attempt to unlock mutex that was
\* not locked" abort and no g_mutex_trylock() succeeds under it.
MutualExclusion == /\ \A t, u \in Thread : Holds(t) /\ Holds(u) => t = u
                   /\ \A t \in Thread : Holds(t) => word # EMPTY

\* A thread asleep in g_mutex_lock_slowpath() is never forgotten: the word says
\* CONTENDED, so the next unlock wakes, or a wake is on its way, or a thread is
\* about to write CONTENDED again.
NoForgottenSleeper ==
  (\E t \in Thread : pc[t] = "asleep") =>
     \/ word = CONTENDED
     \/ \E u \in Thread : pc[u] \in {"wake", "xchg"}

\* Every thread that was blocked in g_cond_wait() when a g_cond_broadcast()
\* incremented the counter is asleep only until that broadcast has made its
\* FUTEX_WAKE call, including the one that had released the mutex but had not
\* yet reached its FUTEX_WAIT.
BroadcastReleasesAll ==
  \A t \in owed : Blocked(t) => \E u \in Thread : pc[u] = "bcastwake"

\* g_cond_signal() called with the mutex held unblocks at least one of the
\* threads that were waiting when it was called ("at least one of them is
\* unblocked"), and not only a thread that began to wait later.
SignalReleasesOne ==
  [][\A t \in Thread :
       (pc[t] = "sigwake" /\ pc'[t] # "sigwake" /\ promise[t] # {})
         => \E u \in promise[t] : ~Blocked(u)']_vars

\* Whenever some thread is in g_mutex_lock()'s slow path, some thread eventually
\* holds the mutex: the lock is never free with everyone asleep.
LockIsTaken ==
  (\E t \in Thread : pc[t] \in {"xchg", "futexwait", "asleep"})
     ~> (\E t \in Thread : Holds(t))

\* The mutex and the condition behave as the abstract monitor.
Abstract == INSTANCE Monitor
              WITH holders <- {t \in Thread : Holds(t)},
                   waiters <- {t \in Thread : Blocked(t) /\ ~Holds(t)}

\* Every step of the futex code is a step of Monitor: the lock is released and
\* the wait begins in one indivisible step, and a woken thread reacquires.
ImplementsMonitor == Abstract!Spec
================================================================================
