------------------------------ MODULE GMutexProofs ------------------------------
(*****************************************************************************)
(* Proofs about GMutex, for every set of threads and every counter width.   *)
(*****************************************************************************)
EXTENDS GMutex, TLAPS

\* Where a wake returns to: an unlock to its caller or into g_cond_wait, a
\* signal or a broadcast to a caller that may hold the mutex.
RetOK == \A t \in Thread :
           /\ pc[t] = "wake" => ret[t] \in {"idle", "condwait"}
           /\ pc[t] \in {"sigwake", "bcastwake"} => ret[t] \in {"idle", "cs"}

\* A waiter that a broadcast has overtaken before its FUTEX_WAIT will not sleep.
OwedInv == \A t \in owed :
             /\ InWindow(t) \/ pc[t] = "condsleep"
             /\ InWindow(t) => sampled[t] # counter

\* While a signaller holds the mutex nobody can begin to wait, so whoever is
\* still blocked was blocked when the signal began, and is asleep.
PromiseInv == \A t \in Thread :
                pc[t] = "sigwake" /\ ret[t] = "cs" =>
                  \A u \in Thread : Blocked(u) => pc[u] = "condsleep" /\ u \in promise[t]

PromiseHeld == \A t \in Thread :
                 promise[t] # {} => pc[t] = "sigwake" /\ ret[t] = "cs"

IInv == /\ TypeOK /\ RetOK /\ MutualExclusion /\ NoForgottenSleeper
        /\ OwedInv /\ BroadcastReleasesAll /\ PromiseHeld /\ PromiseInv
--------------------------------------------------------------------------------
\* The increment of the condition counter stays within its width.
LEMMA NextCounterType == ASSUME counter \in 0 .. CounterSize - 1
                         PROVE  NextCounter \in 0 .. CounterSize - 1
  BY CounterAssumption DEF NextCounter

\* Every variable keeps its type: what every other proof starts from.
THEOREM TypeCorrect == Spec => [](TypeOK /\ RetOK)
<1> USE CounterAssumption DEF EMPTY, OWNED, CONTENDED
<1>1. Init => TypeOK /\ RetOK
  BY DEF Init, TypeOK, RetOK, Labels
<1>2. TypeOK /\ RetOK /\ [Next]_vars => (TypeOK /\ RetOK)'
  <2> SUFFICES ASSUME TypeOK, RetOK, [Next]_vars
               PROVE  (TypeOK /\ RetOK)'
    OBVIOUS
  <2> USE DEF TypeOK, RetOK, Labels, Goto
  <2>1. ASSUME NEW t \in Thread, Lock(t) PROVE (TypeOK /\ RetOK)'
    BY <2>1 DEF Lock
  <2>2. ASSUME NEW t \in Thread, LockExchange(t) PROVE (TypeOK /\ RetOK)'
    BY <2>2 DEF LockExchange
  <2>3. ASSUME NEW t \in Thread, LockFutexWait(t) PROVE (TypeOK /\ RetOK)'
    BY <2>3 DEF LockFutexWait
  <2>4. ASSUME NEW t \in Thread, LockSpuriousWake(t) PROVE (TypeOK /\ RetOK)'
    BY <2>4 DEF LockSpuriousWake
  <2>5. ASSUME NEW t \in Thread, TryLock(t) PROVE (TypeOK /\ RetOK)'
    BY <2>5 DEF TryLock
  <2>6. ASSUME NEW t \in Thread, Unlock(t) PROVE (TypeOK /\ RetOK)'
    BY <2>6 DEF Unlock, UnlockExchange
  <2>7. ASSUME NEW t \in Thread, UnlockWake(t) PROVE (TypeOK /\ RetOK)'
    BY <2>7 DEF UnlockWake
  <2>8. ASSUME NEW t \in Thread, CondWait(t) PROVE (TypeOK /\ RetOK)'
    BY <2>8 DEF CondWait
  <2>9. ASSUME NEW t \in Thread, CondUnlock(t) PROVE (TypeOK /\ RetOK)'
    BY <2>9 DEF CondUnlock, UnlockExchange
  <2>10. ASSUME NEW t \in Thread, CondFutexWait(t) PROVE (TypeOK /\ RetOK)'
    BY <2>10 DEF CondFutexWait, BackFromSleep
  <2>11. ASSUME NEW t \in Thread, CondTimeout(t) PROVE (TypeOK /\ RetOK)'
    BY <2>11 DEF CondTimeout, BackFromSleep
  <2>12. ASSUME NEW t \in Thread, CondSpuriousWake(t) PROVE (TypeOK /\ RetOK)'
    BY <2>12 DEF CondSpuriousWake, BackFromSleep
  <2>13. ASSUME NEW t \in Thread, Signal(t) PROVE (TypeOK /\ RetOK)'
    BY <2>13, NextCounterType DEF Signal
  <2>14. ASSUME NEW t \in Thread, SignalWake(t) PROVE (TypeOK /\ RetOK)'
    BY <2>14 DEF SignalWake, BackFromSleep
  <2>15. ASSUME NEW t \in Thread, Broadcast(t) PROVE (TypeOK /\ RetOK)'
    BY <2>15, NextCounterType DEF Broadcast
  <2>16. ASSUME NEW t \in Thread, BroadcastWake(t) PROVE (TypeOK /\ RetOK)'
    BY <2>16 DEF BroadcastWake
  <2>17. CASE UNCHANGED vars
    BY <2>17 DEF vars
  <2> QED
    BY <2>1, <2>2, <2>3, <2>4, <2>5, <2>6, <2>7, <2>8, <2>9, <2>10, <2>11,
       <2>12, <2>13, <2>14, <2>15, <2>16, <2>17 DEF Next
<1> QED
  BY <1>1, <1>2, PTL DEF Spec

\* The parts of the invariant that are about the mutex alone.
LEMMA MutexStep == TypeOK /\ RetOK /\ MutualExclusion /\ [Next]_vars => MutualExclusion'
<1> SUFFICES ASSUME TypeOK, RetOK, MutualExclusion, [Next]_vars
             PROVE  MutualExclusion'
  OBVIOUS
<1> USE DEF TypeOK, RetOK, MutualExclusion, Holds, Goto, EMPTY, OWNED, CONTENDED
<1>1. ASSUME NEW t \in Thread, Lock(t) PROVE MutualExclusion'
  BY <1>1 DEF Lock
<1>2. ASSUME NEW t \in Thread, LockExchange(t) PROVE MutualExclusion'
  BY <1>2 DEF LockExchange
<1>3. ASSUME NEW t \in Thread, LockFutexWait(t) PROVE MutualExclusion'
  BY <1>3 DEF LockFutexWait
<1>4. ASSUME NEW t \in Thread, LockSpuriousWake(t) PROVE MutualExclusion'
  BY <1>4 DEF LockSpuriousWake
<1>5. ASSUME NEW t \in Thread, TryLock(t) PROVE MutualExclusion'
  BY <1>5 DEF TryLock
<1>6. ASSUME NEW t \in Thread, Unlock(t) PROVE MutualExclusion'
  BY <1>6 DEF Unlock, UnlockExchange
<1>7. ASSUME NEW t \in Thread, UnlockWake(t) PROVE MutualExclusion'
  BY <1>7 DEF UnlockWake
<1>8. ASSUME NEW t \in Thread, CondWait(t) PROVE MutualExclusion'
  BY <1>8 DEF CondWait
<1>9. ASSUME NEW t \in Thread, CondUnlock(t) PROVE MutualExclusion'
  BY <1>9 DEF CondUnlock, UnlockExchange
<1>10. ASSUME NEW t \in Thread, CondFutexWait(t) PROVE MutualExclusion'
  BY <1>10 DEF CondFutexWait, BackFromSleep
<1>11. ASSUME NEW t \in Thread, CondTimeout(t) PROVE MutualExclusion'
  BY <1>11 DEF CondTimeout, BackFromSleep
<1>12. ASSUME NEW t \in Thread, CondSpuriousWake(t) PROVE MutualExclusion'
  BY <1>12 DEF CondSpuriousWake, BackFromSleep
<1>13. ASSUME NEW t \in Thread, Signal(t) PROVE MutualExclusion'
  BY <1>13 DEF Signal, NoWrapInWindow
<1>14. ASSUME NEW t \in Thread, SignalWake(t) PROVE MutualExclusion'
  BY <1>14 DEF SignalWake, BackFromSleep
<1>15. ASSUME NEW t \in Thread, Broadcast(t) PROVE MutualExclusion'
  BY <1>15 DEF Broadcast, NoWrapInWindow
<1>16. ASSUME NEW t \in Thread, BroadcastWake(t) PROVE MutualExclusion'
  BY <1>16 DEF BroadcastWake
<1>17. CASE UNCHANGED vars
  BY <1>17 DEF vars
<1> QED
  BY <1>1, <1>2, <1>3, <1>4, <1>5, <1>6, <1>7, <1>8, <1>9,
       <1>10, <1>11, <1>12, <1>13, <1>14, <1>15, <1>16, <1>17 DEF Next

\* A sleeper on the mutex word stays covered.
LEMMA SleeperStep == TypeOK /\ RetOK /\ NoForgottenSleeper /\ [Next]_vars => NoForgottenSleeper'
<1> SUFFICES ASSUME TypeOK, RetOK, NoForgottenSleeper, [Next]_vars
             PROVE  NoForgottenSleeper'
  OBVIOUS
<1> USE DEF TypeOK, RetOK, NoForgottenSleeper, Goto, EMPTY, OWNED, CONTENDED
<1>1. ASSUME NEW t \in Thread, Lock(t) PROVE NoForgottenSleeper'
  BY <1>1 DEF Lock
<1>2. ASSUME NEW t \in Thread, LockExchange(t) PROVE NoForgottenSleeper'
  BY <1>2 DEF LockExchange
<1>3. ASSUME NEW t \in Thread, LockFutexWait(t) PROVE NoForgottenSleeper'
  BY <1>3 DEF LockFutexWait
<1>4. ASSUME NEW t \in Thread, LockSpuriousWake(t) PROVE NoForgottenSleeper'
  BY <1>4 DEF LockSpuriousWake
<1>5. ASSUME NEW t \in Thread, TryLock(t) PROVE NoForgottenSleeper'
  BY <1>5 DEF TryLock
<1>6. ASSUME NEW t \in Thread, Unlock(t) PROVE NoForgottenSleeper'
  BY <1>6 DEF Unlock, UnlockExchange
<1>7. ASSUME NEW t \in Thread, UnlockWake(t) PROVE NoForgottenSleeper'
  BY <1>7 DEF UnlockWake
<1>8. ASSUME NEW t \in Thread, CondWait(t) PROVE NoForgottenSleeper'
  BY <1>8 DEF CondWait
<1>9. ASSUME NEW t \in Thread, CondUnlock(t) PROVE NoForgottenSleeper'
  BY <1>9 DEF CondUnlock, UnlockExchange
<1>10. ASSUME NEW t \in Thread, CondFutexWait(t) PROVE NoForgottenSleeper'
  BY <1>10 DEF CondFutexWait, BackFromSleep
<1>11. ASSUME NEW t \in Thread, CondTimeout(t) PROVE NoForgottenSleeper'
  BY <1>11 DEF CondTimeout, BackFromSleep
<1>12. ASSUME NEW t \in Thread, CondSpuriousWake(t) PROVE NoForgottenSleeper'
  BY <1>12 DEF CondSpuriousWake, BackFromSleep
<1>13. ASSUME NEW t \in Thread, Signal(t) PROVE NoForgottenSleeper'
  BY <1>13 DEF Signal, NoWrapInWindow
<1>14. ASSUME NEW t \in Thread, SignalWake(t) PROVE NoForgottenSleeper'
  BY <1>14 DEF SignalWake, BackFromSleep
<1>15. ASSUME NEW t \in Thread, Broadcast(t) PROVE NoForgottenSleeper'
  BY <1>15 DEF Broadcast, NoWrapInWindow
<1>16. ASSUME NEW t \in Thread, BroadcastWake(t) PROVE NoForgottenSleeper'
  BY <1>16 DEF BroadcastWake
<1>17. CASE UNCHANGED vars
  BY <1>17 DEF vars
<1> QED
  BY <1>1, <1>2, <1>3, <1>4, <1>5, <1>6, <1>7, <1>8, <1>9,
       <1>10, <1>11, <1>12, <1>13, <1>14, <1>15, <1>16, <1>17 DEF Next

\* A waiter that a broadcast has found blocked is released by it.
LEMMA BroadcastStep ==
  TypeOK /\ RetOK /\ OwedInv /\ BroadcastReleasesAll /\ [Next]_vars
    => (OwedInv /\ BroadcastReleasesAll)'
<1> SUFFICES ASSUME TypeOK, RetOK, OwedInv, BroadcastReleasesAll, [Next]_vars
             PROVE  (OwedInv /\ BroadcastReleasesAll)'
  OBVIOUS
<1> USE DEF TypeOK, RetOK, OwedInv, BroadcastReleasesAll, Blocked, InWindow, Goto
<1>1. ASSUME NEW t \in Thread, Lock(t) PROVE (OwedInv /\ BroadcastReleasesAll)'
  BY <1>1 DEF Lock
<1>2. ASSUME NEW t \in Thread, LockExchange(t) PROVE (OwedInv /\ BroadcastReleasesAll)'
  BY <1>2 DEF LockExchange
<1>3. ASSUME NEW t \in Thread, LockFutexWait(t) PROVE (OwedInv /\ BroadcastReleasesAll)'
  BY <1>3 DEF LockFutexWait
<1>4. ASSUME NEW t \in Thread, LockSpuriousWake(t) PROVE (OwedInv /\ BroadcastReleasesAll)'
  BY <1>4 DEF LockSpuriousWake
<1>5. ASSUME NEW t \in Thread, TryLock(t) PROVE (OwedInv /\ BroadcastReleasesAll)'
  BY <1>5 DEF TryLock
<1>6. ASSUME NEW t \in Thread, Unlock(t) PROVE (OwedInv /\ BroadcastReleasesAll)'
  BY <1>6 DEF Unlock, UnlockExchange
<1>7. ASSUME NEW t \in Thread, UnlockWake(t) PROVE (OwedInv /\ BroadcastReleasesAll)'
  BY <1>7 DEF UnlockWake
<1>8. ASSUME NEW t \in Thread, CondWait(t) PROVE (OwedInv /\ BroadcastReleasesAll)'
  BY <1>8 DEF CondWait
<1>9. ASSUME NEW t \in Thread, CondUnlock(t) PROVE (OwedInv /\ BroadcastReleasesAll)'
  BY <1>9 DEF CondUnlock, UnlockExchange
<1>10. ASSUME NEW t \in Thread, CondFutexWait(t) PROVE (OwedInv /\ BroadcastReleasesAll)'
  BY <1>10 DEF CondFutexWait, BackFromSleep
<1>11. ASSUME NEW t \in Thread, CondTimeout(t) PROVE (OwedInv /\ BroadcastReleasesAll)'
  BY <1>11 DEF CondTimeout, BackFromSleep
<1>12. ASSUME NEW t \in Thread, CondSpuriousWake(t) PROVE (OwedInv /\ BroadcastReleasesAll)'
  BY <1>12 DEF CondSpuriousWake, BackFromSleep
<1>13. ASSUME NEW t \in Thread, Signal(t) PROVE (OwedInv /\ BroadcastReleasesAll)'
  BY <1>13 DEF Signal, NoWrapInWindow
<1>14. ASSUME NEW t \in Thread, SignalWake(t) PROVE (OwedInv /\ BroadcastReleasesAll)'
  BY <1>14 DEF SignalWake, BackFromSleep
<1>15. ASSUME NEW t \in Thread, Broadcast(t) PROVE (OwedInv /\ BroadcastReleasesAll)'
  BY <1>15 DEF Broadcast, NoWrapInWindow
<1>16. ASSUME NEW t \in Thread, BroadcastWake(t) PROVE (OwedInv /\ BroadcastReleasesAll)'
  BY <1>16 DEF BroadcastWake
<1>17. CASE UNCHANGED vars
  BY <1>17 DEF vars
<1> QED
  BY <1>1, <1>2, <1>3, <1>4, <1>5, <1>6, <1>7, <1>8, <1>9,
     <1>10, <1>11, <1>12, <1>13, <1>14, <1>15, <1>16, <1>17 DEF Next

\* What a signal with the mutex held has promised stays within reach.
LEMMA PromiseStep ==
  TypeOK /\ RetOK /\ MutualExclusion /\ PromiseHeld /\ PromiseInv /\ [Next]_vars
    => (PromiseHeld /\ PromiseInv)'
<1> SUFFICES ASSUME TypeOK, RetOK, MutualExclusion, PromiseHeld, PromiseInv, [Next]_vars
             PROVE  (PromiseHeld /\ PromiseInv)'
  OBVIOUS
<1> USE DEF TypeOK, RetOK, MutualExclusion, Holds, PromiseHeld, PromiseInv,
            Blocked, InWindow, Goto
<1>1. ASSUME NEW t \in Thread, Lock(t) PROVE (PromiseHeld /\ PromiseInv)'
  BY <1>1 DEF Lock
<1>2. ASSUME NEW t \in Thread, LockExchange(t) PROVE (PromiseHeld /\ PromiseInv)'
  BY <1>2 DEF LockExchange
<1>3. ASSUME NEW t \in Thread, LockFutexWait(t) PROVE (PromiseHeld /\ PromiseInv)'
  BY <1>3 DEF LockFutexWait
<1>4. ASSUME NEW t \in Thread, LockSpuriousWake(t) PROVE (PromiseHeld /\ PromiseInv)'
  BY <1>4 DEF LockSpuriousWake
<1>5. ASSUME NEW t \in Thread, TryLock(t) PROVE (PromiseHeld /\ PromiseInv)'
  BY <1>5 DEF TryLock
<1>6. ASSUME NEW t \in Thread, Unlock(t) PROVE (PromiseHeld /\ PromiseInv)'
  BY <1>6 DEF Unlock, UnlockExchange
<1>7. ASSUME NEW t \in Thread, UnlockWake(t) PROVE (PromiseHeld /\ PromiseInv)'
  BY <1>7 DEF UnlockWake
<1>8. ASSUME NEW t \in Thread, CondWait(t) PROVE (PromiseHeld /\ PromiseInv)'
  BY <1>8 DEF CondWait
<1>9. ASSUME NEW t \in Thread, CondUnlock(t) PROVE (PromiseHeld /\ PromiseInv)'
  BY <1>9 DEF CondUnlock, UnlockExchange
<1>10. ASSUME NEW t \in Thread, CondFutexWait(t) PROVE (PromiseHeld /\ PromiseInv)'
  BY <1>10 DEF CondFutexWait, BackFromSleep
<1>11. ASSUME NEW t \in Thread, CondTimeout(t) PROVE (PromiseHeld /\ PromiseInv)'
  BY <1>11 DEF CondTimeout, BackFromSleep
<1>12. ASSUME NEW t \in Thread, CondSpuriousWake(t) PROVE (PromiseHeld /\ PromiseInv)'
  BY <1>12 DEF CondSpuriousWake, BackFromSleep
<1>13. ASSUME NEW t \in Thread, Signal(t) PROVE (PromiseHeld /\ PromiseInv)'
  BY <1>13 DEF Signal, NoWrapInWindow
<1>14. ASSUME NEW t \in Thread, SignalWake(t) PROVE (PromiseHeld /\ PromiseInv)'
  BY <1>14 DEF SignalWake, BackFromSleep
<1>15. ASSUME NEW t \in Thread, Broadcast(t) PROVE (PromiseHeld /\ PromiseInv)'
  BY <1>15 DEF Broadcast, NoWrapInWindow
<1>16. ASSUME NEW t \in Thread, BroadcastWake(t) PROVE (PromiseHeld /\ PromiseInv)'
  BY <1>16 DEF BroadcastWake
<1>17. CASE UNCHANGED vars
  BY <1>17 DEF vars
<1> QED
  BY <1>1, <1>2, <1>3, <1>4, <1>5, <1>6, <1>7, <1>8, <1>9,
     <1>10, <1>11, <1>12, <1>13, <1>14, <1>15, <1>16, <1>17 DEF Next

--------------------------------------------------------------------------------
\* The inductive invariant.
LEMMA Invariance == Spec => []IInv
<1>1. Init => IInv
  BY CounterAssumption
     DEF Init, IInv, TypeOK, RetOK, Labels, MutualExclusion, Holds, NoForgottenSleeper,
         OwedInv, BroadcastReleasesAll, PromiseHeld, PromiseInv, Blocked, InWindow,
         EMPTY, OWNED, CONTENDED
<1>2. TypeOK /\ RetOK /\ TypeOK' /\ RetOK' /\ IInv /\ [Next]_vars => IInv'
  BY MutexStep, SleeperStep, BroadcastStep, PromiseStep DEF IInv
<1> QED
  BY <1>1, <1>2, TypeCorrect, PTL DEF Spec

\* g_mutex_lock, g_mutex_trylock and g_cond_wait never let two threads hold the
\* mutex, and the holder's unlock never finds the word EMPTY.
THEOREM MutexSafe == Spec => []MutualExclusion
  BY Invariance, PTL DEF IInv

\* No thread asleep in g_mutex_lock_slowpath is ever forgotten.
THEOREM SleepersCovered == Spec => []NoForgottenSleeper
  BY Invariance, PTL DEF IInv

\* g_cond_broadcast releases every thread that was waiting when it was called.
THEOREM BroadcastSafe == Spec => []BroadcastReleasesAll
  BY Invariance, PTL DEF IInv

\* g_cond_signal with the mutex held releases a thread that was waiting.
THEOREM SignalSafe == Spec => SignalReleasesOne
<1> DEFINE A == \A t \in Thread :
                  (pc[t] = "sigwake" /\ pc'[t] # "sigwake" /\ promise[t] # {})
                    => \E u \in promise[t] : ~Blocked(u)'
<1>1. IInv /\ [Next]_vars => A
  <2> SUFFICES ASSUME IInv, [Next]_vars, NEW s \in Thread,
                      pc[s] = "sigwake", pc'[s] # "sigwake", promise[s] # {}
               PROVE  \E u \in promise[s] : ~Blocked(u)'
    OBVIOUS
  <2> USE DEF IInv, TypeOK, RetOK, PromiseHeld, PromiseInv
  <2>1. SignalWake(s)
    BY DEF Next, vars, Goto, Lock, LockExchange, LockFutexWait, LockSpuriousWake, TryLock,
           Unlock, UnlockExchange, UnlockWake, CondWait, CondUnlock, CondFutexWait,
           CondTimeout, CondSpuriousWake, Signal, SignalWake, Broadcast, BroadcastWake
  <2>2. ret[s] = "cs"
    OBVIOUS
  <2>3. \A u \in promise[s] : Blocked(u) => pc[u] = "condsleep"
    BY <2>2
  <2> QED
    BY <2>1, <2>2, <2>3 DEF SignalWake, BackFromSleep, Goto, Blocked, InWindow
<1>2. IInv /\ [Next]_vars => [A]_vars
  BY <1>1
<1> QED
  BY <1>2, Invariance, PTL DEF Spec, SignalReleasesOne

--------------------------------------------------------------------------------
H == {t \in Thread : Holds(t)}
W == {t \in Thread : Blocked(t) /\ ~Holds(t)}

\* The shapes of step the abstract monitor allows.
LEMMA MonitorSteps ==
  /\ H' = H /\ W' \subseteq W => Abstract!Next
  /\ \A t \in Thread : H = {} /\ H' = {t} /\ W' = W /\ t \notin W => Abstract!Next
  /\ \A t \in Thread : H = {t} /\ H' = {} /\ W' \in {W, W \cup {t}} => Abstract!Next
<1>1. ASSUME H' = H, W' \subseteq W PROVE Abstract!Next
  <2>1. W' = W \ (W \ W')
    BY <1>1
  <2>2. Abstract!Wake(W \ W')
    BY <1>1, <2>1 DEF Abstract!Wake, H, W
  <2>3. (W \ W') \in SUBSET Thread
    BY DEF W
  <2> QED
    BY <2>2, <2>3 DEF Abstract!Next
<1>2. ASSUME NEW t \in Thread, H = {}, H' = {t}, W' = W, t \notin W PROVE Abstract!Next
  BY <1>2 DEF Abstract!Next, Abstract!Acquire, H, W
<1>3. ASSUME NEW t \in Thread, H = {t}, H' = {}, W' \in {W, W \cup {t}} PROVE Abstract!Next
  <2>1. CASE W' = W
    BY <1>3, <2>1 DEF Abstract!Next, Abstract!Release, H, W
  <2>2. CASE W' = W \cup {t}
    BY <1>3, <2>2 DEF Abstract!Next, Abstract!Wait, H, W
  <2> QED
    BY <1>3, <2>1, <2>2
<1> QED
  BY <1>1, <1>2, <1>3

\* The futex code implements the abstract monitor.
THEOREM Refinement == Spec => ImplementsMonitor
<1>1. Init => Abstract!Init
  BY DEF Init, Abstract!Init, Holds, Blocked, InWindow
<1>2. IInv /\ [Next]_vars => [Abstract!Next]_<<H, W>>
  <2> SUFFICES ASSUME IInv, [Next]_vars
               PROVE  Abstract!Next \/ (H' = H /\ W' = W)
    BY DEF H, W
  <2> USE DEF IInv, TypeOK, RetOK, MutualExclusion, Holds, Blocked, InWindow,
              Goto, EMPTY, OWNED, CONTENDED
  <2>1. ASSUME NEW t \in Thread, Lock(t) PROVE Abstract!Next \/ (H' = H /\ W' = W)
    <3>1. CASE word = EMPTY
      <4>1. H = {} /\ H' = {t}
        BY <2>1, <3>1 DEF Lock, H
      <4>2. W' = W /\ t \notin W
        BY <2>1, <3>1 DEF Lock, W
      <4> QED
        BY <4>1, <4>2, MonitorSteps
    <3>2. CASE word # EMPTY
      <4>1. H' = H
        BY <2>1, <3>2 DEF Lock, H
      <4>2. W' = W
        BY <2>1, <3>2 DEF Lock, W
      <4> QED
        BY <4>1, <4>2
    <3> QED
      BY <3>1, <3>2
  <2>2. ASSUME NEW t \in Thread, LockExchange(t) PROVE Abstract!Next \/ (H' = H /\ W' = W)
    <3>1. CASE word = EMPTY
      <4>1. H = {} /\ H' = {t}
        BY <2>2, <3>1 DEF LockExchange, H
      <4>2. W' = W /\ t \notin W
        BY <2>2, <3>1 DEF LockExchange, W
      <4> QED
        BY <4>1, <4>2, MonitorSteps
    <3>2. CASE word # EMPTY
      <4>1. H' = H
        BY <2>2, <3>2 DEF LockExchange, H
      <4>2. W' = W
        BY <2>2, <3>2 DEF LockExchange, W
      <4> QED
        BY <4>1, <4>2
    <3> QED
      BY <3>1, <3>2
  <2>3. ASSUME NEW t \in Thread, LockFutexWait(t) PROVE Abstract!Next \/ (H' = H /\ W' = W)
    <3>1. H' = H
      BY <2>3 DEF LockFutexWait, H
    <3>2. W' \subseteq W
      BY <2>3 DEF LockFutexWait, W
    <3> QED
      BY <3>1, <3>2, MonitorSteps
  <2>4. ASSUME NEW t \in Thread, LockSpuriousWake(t) PROVE Abstract!Next \/ (H' = H /\ W' = W)
    <3>1. H' = H
      BY <2>4 DEF LockSpuriousWake, H
    <3>2. W' \subseteq W
      BY <2>4 DEF LockSpuriousWake, W
    <3> QED
      BY <3>1, <3>2, MonitorSteps
  <2>5. ASSUME NEW t \in Thread, TryLock(t) PROVE Abstract!Next \/ (H' = H /\ W' = W)
    <3>1. CASE word = EMPTY
      <4>1. H = {} /\ H' = {t}
        BY <2>5, <3>1 DEF TryLock, H
      <4>2. W' = W /\ t \notin W
        BY <2>5, <3>1 DEF TryLock, W
      <4> QED
        BY <4>1, <4>2, MonitorSteps
    <3>2. CASE word # EMPTY
      <4>1. H' = H
        BY <2>5, <3>2 DEF TryLock, H
      <4>2. W' = W
        BY <2>5, <3>2 DEF TryLock, W
      <4> QED
        BY <4>1, <4>2
    <3> QED
      BY <3>1, <3>2
  <2>6. ASSUME NEW t \in Thread, Unlock(t) PROVE Abstract!Next \/ (H' = H /\ W' = W)
    <3>1. H = {t} /\ H' = {}
      BY <2>6 DEF Unlock, UnlockExchange, H
    <3>2. W' \in {W, W \cup {t}}
      BY <2>6 DEF Unlock, UnlockExchange, W
    <3> QED
      BY <3>1, <3>2, MonitorSteps
  <2>7. ASSUME NEW t \in Thread, UnlockWake(t) PROVE Abstract!Next \/ (H' = H /\ W' = W)
    <3>1. H' = H
      BY <2>7 DEF UnlockWake, H
    <3>2. W' \subseteq W
      BY <2>7 DEF UnlockWake, W
    <3> QED
      BY <3>1, <3>2, MonitorSteps
  <2>8. ASSUME NEW t \in Thread, CondWait(t) PROVE Abstract!Next \/ (H' = H /\ W' = W)
    <3>1. H' = H
      BY <2>8 DEF CondWait, H
    <3>2. W' \subseteq W
      BY <2>8 DEF CondWait, W
    <3> QED
      BY <3>1, <3>2, MonitorSteps
  <2>9. ASSUME NEW t \in Thread, CondUnlock(t) PROVE Abstract!Next \/ (H' = H /\ W' = W)
    <3>1. H = {t} /\ H' = {}
      BY <2>9 DEF CondUnlock, UnlockExchange, H
    <3>2. W' \in {W, W \cup {t}}
      BY <2>9 DEF CondUnlock, UnlockExchange, W
    <3> QED
      BY <3>1, <3>2, MonitorSteps
  <2>10. ASSUME NEW t \in Thread, CondFutexWait(t) PROVE Abstract!Next \/ (H' = H /\ W' = W)
    <3>1. H' = H
      BY <2>10 DEF CondFutexWait, BackFromSleep, H
    <3>2. W' \subseteq W
      BY <2>10 DEF CondFutexWait, BackFromSleep, W
    <3> QED
      BY <3>1, <3>2, MonitorSteps
  <2>11. ASSUME NEW t \in Thread, CondTimeout(t) PROVE Abstract!Next \/ (H' = H /\ W' = W)
    <3>1. H' = H
      BY <2>11 DEF CondTimeout, BackFromSleep, H
    <3>2. W' \subseteq W
      BY <2>11 DEF CondTimeout, BackFromSleep, W
    <3> QED
      BY <3>1, <3>2, MonitorSteps
  <2>12. ASSUME NEW t \in Thread, CondSpuriousWake(t) PROVE Abstract!Next \/ (H' = H /\ W' = W)
    <3>1. H' = H
      BY <2>12 DEF CondSpuriousWake, BackFromSleep, H
    <3>2. W' \subseteq W
      BY <2>12 DEF CondSpuriousWake, BackFromSleep, W
    <3> QED
      BY <3>1, <3>2, MonitorSteps
  <2>13. ASSUME NEW t \in Thread, Signal(t) PROVE Abstract!Next \/ (H' = H /\ W' = W)
    <3>1. H' = H
      BY <2>13 DEF Signal, NoWrapInWindow, H
    <3>2. W' \subseteq W
      BY <2>13 DEF Signal, NoWrapInWindow, W
    <3> QED
      BY <3>1, <3>2, MonitorSteps
  <2>14. ASSUME NEW t \in Thread, SignalWake(t) PROVE Abstract!Next \/ (H' = H /\ W' = W)
    <3>1. H' = H
      BY <2>14 DEF SignalWake, BackFromSleep, H
    <3>2. W' \subseteq W
      BY <2>14 DEF SignalWake, BackFromSleep, W
    <3> QED
      BY <3>1, <3>2, MonitorSteps
  <2>15. ASSUME NEW t \in Thread, Broadcast(t) PROVE Abstract!Next \/ (H' = H /\ W' = W)
    <3>1. H' = H
      BY <2>15 DEF Broadcast, NoWrapInWindow, H
    <3>2. W' \subseteq W
      BY <2>15 DEF Broadcast, NoWrapInWindow, W
    <3> QED
      BY <3>1, <3>2, MonitorSteps
  <2>16. ASSUME NEW t \in Thread, BroadcastWake(t) PROVE Abstract!Next \/ (H' = H /\ W' = W)
    <3>1. H' = H
      BY <2>16 DEF BroadcastWake, H
    <3>2. W' \subseteq W
      BY <2>16 DEF BroadcastWake, W
    <3> QED
      BY <3>1, <3>2, MonitorSteps
  <2>17. CASE UNCHANGED vars
    BY <2>17 DEF vars, H, W
  <2> QED
    BY <2>1, <2>2, <2>3, <2>4, <2>5, <2>6, <2>7, <2>8, <2>9,
       <2>10, <2>11, <2>12, <2>13, <2>14, <2>15, <2>16, <2>17 DEF Next
<1> QED
  BY <1>1, <1>2, Invariance, PTL DEF Spec, ImplementsMonitor, Abstract!Spec, H, W
================================================================================
