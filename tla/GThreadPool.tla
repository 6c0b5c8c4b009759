------------------------------ MODULE GThreadPool ------------------------------
(*****************************************************************************)
(* Thread pools (glib/gthreadpool.c) and the queues they are made of         *)
(* (glib/gasyncqueue.c).  Every pool has a queue, whose mutex protects the   *)
(* pool; a thread that has nothing to do for its pool waits in one global    *)
(* queue, from which any pool may take it.  A step is a critical section of  *)
(* a queue's mutex or one access to an atomic variable.  A condition         *)
(* variable is the set of threads asleep on it (GMutex).                     *)
(*****************************************************************************)
EXTENDS Integers, Sequences, FiniteSets

CONSTANTS Pool,        \* the pools
          MaxPools,    \* bound: the pools that exist at once
          Task,        \* what clients push, each once
          Thread,      \* bound: the pool threads that exist at once
          None,
          Bogus,       \* GUINT_TO_POINTER (1), pushed to wake a pool's threads
          Marker,      \* wakeup_thread_marker
          Limits,      \* bound: the max_threads that pools are created with
          NewLimits,   \* bound: those that they are given later
          UnusedLimits,\* bound: the max_unused_threads that clients ask for
          MaxChanges,  \* bound: calls that change a limit
          MaxFailures  \* bound: how often g_thread_try_new fails

ASSUME PoolAssumption ==
  /\ MaxPools \in Nat /\ None \notin Pool \cup Task /\ IsFiniteSet(Thread)
  /\ Bogus \notin Task /\ Marker \notin Pool
  /\ Limits \cup NewLimits \cup UnusedLimits \subseteq Nat \cup {-1}
  /\ MaxChanges \in Nat /\ MaxFailures \in Nat

VARIABLES pools,         \* the GRealThreadPool of each pool
          threads,       \* the threads in g_thread_pool_thread_proxy
          asleep,        \* those asleep on the condition of the queue they wait in
          unusedQueue,   \* unused_thread_queue
          unusedThreads, maxUnused, killUnused, serial,   \* the atomic variables
          setter,        \* the call of g_thread_pool_set_max_unused_threads
          fate,          \* history: what became of each task
          bogusFreed,    \* history: item_free_func was called for Bogus
          changes, failures

unusedVars == <<unusedQueue, unusedThreads, maxUnused, killUnused, serial, setter>>
historyVars == <<bogusFreed, changes, failures>>
vars == <<pools, threads, asleep, unusedVars, fate, historyVars>>

(* A pool: its fields, how many threads a caller that holds its mutex has yet *)
(* to start, and where its g_thread_pool_free is.  Queues are popped at the   *)
(* front and pushed at the back.                                              *)
Freer == {"out", "check", "wait", "woken", "done"}
PoolRecord == [phase : {"none", "new", "live", "freed"}, max : Limits \cup NewLimits \cup {0}, num : Nat,
               exclusive : BOOLEAN, running : BOOLEAN, immediate : BOOLEAN,
               waiting : BOOLEAN, queue : Seq(Task \cup {Bogus}), toStart : Nat, freer : Freer]
NoPool == [phase |-> "none", max |-> 0, num |-> 0, exclusive |-> FALSE,
           running |-> FALSE, immediate |-> FALSE, waiting |-> FALSE, queue |-> <<>>,
           toStart |-> 0, freer |-> "out"]

DefaultUnused == 8

(* A thread: in its pool ("start" to "back"), or waiting for a new one; with  *)
(* the local variables of g_thread_pool_wait_for_new_pool.                    *)
Places == {"none", "start", "pop", "func", "back",
           "limits", "serial", "check", "enter", "idle", "marker", "relay", "kill", "update",
           "quit", "got"}
ThreadRecord == [at : Places, pool : Pool \cup {None}, task : Task \cup {None},
                 limit : UnusedLimits \cup {0, DefaultUnused}, seen : Nat, relayed : BOOLEAN]
NoThread == [at |-> "none", pool |-> None, task |-> None,
             limit |-> 0, seen |-> 0, relayed |-> FALSE]

New == <<"new">>
In(step, p) == <<step, p>>
NoSetter == [at |-> "out", n |-> 0]

Init == /\ pools = [p \in Pool |-> NoPool]
        /\ threads = [w \in Thread |-> NoThread]
        /\ asleep = {}
        /\ unusedQueue = <<>> /\ unusedThreads = 0
        /\ maxUnused = DefaultUnused
        /\ killUnused = 0 /\ serial = 0 /\ setter = NoSetter
        /\ fate = [t \in Task |-> New]
        /\ bogusFreed = FALSE /\ changes = 0 /\ failures = 0

--------------------------------------------------------------------------------
(* GAsyncQueue. *)

At(w, place) == threads[w].at = place
Waiters(p) == {w \in Thread : At(w, "pop") /\ threads[w].pool = p}
Idle == {w \in Thread : At(w, "idle")}

\* g_async_queue_length_unlocked: negative when threads wait for more than there is.
Length(p) == Len(pools[p].queue) - Cardinality(Waiters(p))

\* The threads that n calls of g_cond_signal wake of those in S.
Signal(S, n) == LET sleepers == asleep \cap S
                    k == IF n < Cardinality(sleepers) THEN n ELSE Cardinality(sleepers)
                IN  {X \in SUBSET sleepers : Cardinality(X) = k}

\* The pool's mutex can be taken: nobody is in the middle of a call that holds it.
Unlocked(p) == pools[p].toStart = 0 /\ pools[p].freer # "check"

--------------------------------------------------------------------------------
(* Starting threads. *)

\* A thread that does not exist yet; which one makes no difference.
Unborn == LET dead == {w \in Thread : At(w, "none")}
          IN  IF dead = {} THEN {} ELSE {CHOOSE w \in dead : TRUE}
Enough(p) == pools[p].max # -1 /\ pools[p].num >= pools[p].max
NotStarted == [unused |-> unusedQueue, threads |-> threads, woken |-> {}, n |-> 0,
               failed |-> FALSE]

\* The system has no more threads to give.
MayFail == failures < MaxFailures

\* Mutant: an unused thread is taken for granted when none can be counted on.
StartThreadGreedy(p) ==
  IF Enough(p) THEN {NotStarted}
  ELSE IF Idle # {} /\ Len(unusedQueue) <= Cardinality(Idle)
  THEN {[NotStarted EXCEPT !.unused = Append(unusedQueue, p), !.woken = X, !.n = 1] :
          X \in Signal(Idle, 1)}
  ELSE {[NotStarted EXCEPT !.threads[w] = [NoThread EXCEPT !.at = "start", !.pool = p],
                           !.n = 1] : w \in Unborn}

\* The outcomes of g_thread_pool_start_thread: enough are running, an unused thread is
\* handed the pool, a new one is created (by the helper thread when the pool is shared),
\* or g_thread_try_new fails.
StartThread(p) ==
  IF Enough(p) THEN {NotStarted}
  ELSE IF Len(unusedQueue) < Cardinality(Idle)
  THEN {[NotStarted EXCEPT !.unused = Append(unusedQueue, p), !.woken = X, !.n = 1] :
          X \in Signal(Idle, 1)}
  ELSE {[NotStarted EXCEPT !.threads[w] = [NoThread EXCEPT !.at = "start", !.pool = p],
                           !.n = 1] : w \in Unborn}
       \cup {r \in {[NotStarted EXCEPT !.failed = TRUE]} : MayFail}

\* What the start of a thread changes besides the pool.
Started(r) == /\ unusedQueue' = r.unused
              /\ threads' = r.threads
              /\ failures' = failures + (IF r.failed THEN 1 ELSE 0)
              /\ UNCHANGED <<unusedThreads, maxUnused, killUnused, serial, setter>>

\* g_thread_pool_new_full; an exclusive pool starts its threads at once.  (Where the helper
\* thread cannot be created, the call returns NULL and leaves nothing behind.)
NewFull(p, max, exclusive) ==
  /\ pools[p].phase = "none"
  /\ Cardinality({o \in Pool : pools[o].phase \in {"new", "live"}}) < MaxPools
  /\ exclusive => max # -1
  /\ pools' = [pools EXCEPT ![p] =
       [NoPool EXCEPT !.phase = IF exclusive /\ max > 0 THEN "new" ELSE "live",
                      !.max = max, !.exclusive = exclusive, !.running = TRUE,
                      !.toStart = IF exclusive THEN max ELSE 0]]
  /\ UNCHANGED <<threads, asleep, unusedVars, fate, historyVars>>

\* One more thread for g_thread_pool_new_full, which frees the pool when that fails, with
\* the threads it has so far, or for g_thread_pool_set_max_threads, which then gives up.
StartNext(p) ==
  /\ pools[p].toStart > 0
  /\ \E r \in StartThread(p) :
       LET left == IF r.failed THEN 0 ELSE pools[p].toStart - 1
           phase == IF pools[p].phase = "live" \/ left > 0 THEN pools[p].phase
                    ELSE IF r.failed THEN "freed" ELSE "live"
       IN  /\ pools' = [pools EXCEPT ![p].toStart = left, ![p].num = @ + r.n,
                                     ![p].phase = phase]
           /\ asleep' = asleep \ r.woken
           /\ Started(r)
  /\ UNCHANGED <<fate, bogusFreed, changes>>

\* A client may use the pool: it has not been freed, and nobody holds its mutex.
Usable(p) == pools[p].phase = "live" /\ pools[p].running /\ Unlocked(p)

\* g_thread_pool_set_max_threads.
SetMaxThreads(p, max) ==
  /\ Usable(p) /\ changes < MaxChanges
  /\ pools[p].exclusive => max # -1
  /\ LET n == IF pools[p].exclusive THEN max - pools[p].num ELSE Length(p)
     IN  pools' = [pools EXCEPT ![p].max = max, ![p].toStart = IF n > 0 THEN n ELSE 0]
  /\ changes' = changes + 1
  /\ UNCHANGED <<threads, asleep, unusedVars, fate, bogusFreed, failures>>

\* g_async_queue_push_unlocked wakes a thread if any waits.
PushSignal(p) == Signal(Waiters(p), 1)

\* Mutant: threads are started only for tasks that find others in the queue.
PushStarts(p) == IF Length(p) > 0 THEN StartThread(p) ELSE {NotStarted}
\* g_thread_pool_push: start a thread unless one is waiting, and queue the task also
\* when that failed.
PushStart(p) == IF Length(p) >= 0 THEN StartThread(p) ELSE {NotStarted}
Push(p, t) ==
  /\ Usable(p) /\ fate[t] = New
  /\ \E r \in PushStart(p), X \in PushSignal(p) :
       /\ pools' = [pools EXCEPT ![p].num = @ + r.n, ![p].queue = Append(@, t)]
       /\ asleep' = asleep \ (r.woken \cup X)
       /\ Started(r)
  /\ fate' = [fate EXCEPT ![t] = In("queued", p)]
  /\ UNCHANGED <<bogusFreed, changes>>

\* The queue with its item i, which g_async_queue_remove_unlocked has found, in front.
MovedToFront(q, i) ==
  [j \in DOMAIN q |-> IF j = 1 THEN q[i] ELSE IF j <= i THEN q[j - 1] ELSE q[j]]

\* g_thread_pool_move_to_front.
MoveToFront(p, t) ==
  /\ Usable(p)
  /\ \E i \in DOMAIN pools[p].queue :
       /\ pools[p].queue[i] = t
       /\ pools' = [pools EXCEPT ![p].queue = MovedToFront(@, i)]
  /\ \E X \in Signal(Waiters(p), 1) : asleep' = asleep \ X
  /\ UNCHANGED <<threads, unusedVars, fate, historyVars>>

--------------------------------------------------------------------------------
(* Freeing a pool. *)

Count(q, x) == Cardinality({i \in DOMAIN q : q[i] = x})

\* g_thread_pool_free_internal, with q in the queue: one Bogus is taken out, and the
\* free function of the items is called for the rest.  x was popped just before and
\* skipped, or is None.
Released(p, q, x) ==
  /\ fate' = [t \in Task |-> IF t = x THEN In("lost", p)
                             ELSE IF Count(q, t) > 0 THEN In("freed", p) ELSE fate[t]]
  /\ bogusFreed' = (bogusFreed \/ Count(q, Bogus) > 1)

\* The pool record after g_thread_pool_wakeup_and_stop_all, with n threads to wake.
Stopped(rec, n) == [rec EXCEPT !.immediate = TRUE, !.queue = @ \o [i \in 1 .. n |-> Bogus]]

\* g_thread_pool_free up to where it waits, or goes on, with the mutex held.
Free(p, imm, wait) ==
  /\ Usable(p)
  /\ imm \/ pools[p].max # 0 \/ Length(p) = 0
  /\ pools' = [pools EXCEPT ![p].running = FALSE, ![p].immediate = imm,
                            ![p].waiting = wait, ![p].freer = "check"]
  /\ UNCHANGED <<threads, asleep, unusedVars, fate, historyVars>>

\* Every thread of the pool is waiting for a task, and there is none.
AllWait(p) == Length(p) = - pools[p].num

\* The condition that g_thread_pool_free waits for.
FreeMayGoOn(p) == AllWait(p) \/ (pools[p].immediate /\ pools[p].num = 0)

FreeWaits(p) ==
  /\ pools[p].freer = "check"
  /\ pools[p].waiting /\ ~FreeMayGoOn(p)
  /\ pools' = [pools EXCEPT ![p].freer = "wait"]
  /\ UNCHANGED <<threads, asleep, unusedVars, fate, historyVars>>

FreeWakes(p) ==
  /\ pools[p].freer = "woken"
  /\ pools' = [pools EXCEPT ![p].freer = "check"]
  /\ UNCHANGED <<threads, asleep, unusedVars, fate, historyVars>>

\* The rest of g_thread_pool_free: free the pool, stop its threads, or leave it to them.
FreeEnds(p) ==
  /\ pools[p].freer = "check"
  /\ pools[p].waiting => FreeMayGoOn(p)
  /\ LET rec == [pools[p] EXCEPT !.freer = "done"]
         stop == pools[p].immediate \/ AllWait(p)
     IN  \/ /\ stop /\ rec.num = 0
            /\ pools' = [pools EXCEPT ![p] = [rec EXCEPT !.phase = "freed", !.queue = <<>>]]
            /\ Released(p, rec.queue, None)
            /\ UNCHANGED asleep
         \/ /\ stop /\ rec.num # 0
            /\ pools' = [pools EXCEPT ![p] =
                           [Stopped(rec, rec.num) EXCEPT !.waiting = FALSE]]
            /\ \E X \in Signal(Waiters(p), rec.num) : asleep' = asleep \ X
            /\ UNCHANGED <<fate, bogusFreed>>
         \/ /\ ~stop
            /\ pools' = [pools EXCEPT ![p] = [rec EXCEPT !.waiting = FALSE]]
            /\ UNCHANGED <<asleep, fate, bogusFreed>>
  /\ UNCHANGED <<threads, unusedVars, changes, failures>>

--------------------------------------------------------------------------------
(* A thread in its pool. *)

Go(w, place) == threads' = [threads EXCEPT ![w].at = place]

\* Mutant: the last thread frees the pool also under a g_thread_pool_free that waits.
LastFreesWaiting(rec) == ~rec.running /\ rec.num = 0
\* rec is the pool without the thread that leaves: nobody waits for it, and that was
\* the last thread.
LastFrees(rec) == ~rec.running /\ ~rec.waiting /\ rec.num = 0

\* Mutant: g_thread_pool_free is only told of a pool that stops immediately.
TellsFreerRarely(rec, length) == ~rec.running /\ rec.waiting /\ rec.immediate
\* g_thread_pool_free waits, and may have to go on.
TellsFreer(rec, length) == ~rec.running /\ rec.waiting /\ (rec.immediate \/ length <= 0)

\* The thread goes to the global pool, with q in the queue of p after its last pop:
\* it may be the last of a freed pool, or the last that was busy, or g_thread_pool_free
\* may wait for it.  x is a task it popped and skipped, or None.
Leave(w, p, q, x) ==
  LET rec == [pools[p] EXCEPT !.num = @ - 1, !.queue = q]
      others == Waiters(p) \ {w}
      length == Len(q) - Cardinality(others)
      stop == ~rec.running /\ ~rec.waiting /\ rec.num # 0 /\ length = - rec.num
  IN  /\ pools' = [pools EXCEPT ![p] =
           IF LastFrees(rec) THEN [rec EXCEPT !.phase = "freed", !.queue = <<>>]
           ELSE IF stop THEN Stopped(rec, rec.num)
           ELSE IF TellsFreer(rec, length) /\ rec.freer = "wait"
           THEN [rec EXCEPT !.freer = "woken"] ELSE rec]
      /\ Released(p, IF LastFrees(rec) THEN q ELSE <<>>, x)
      /\ \E X \in Signal(others, IF stop THEN rec.num ELSE 0) : asleep' = asleep \ (X \cup {w})
      /\ threads' = [threads EXCEPT ![w] = [NoThread EXCEPT !.at = "limits"]]
      /\ unusedThreads' = unusedThreads + 1
      /\ UNCHANGED <<unusedQueue, maxUnused, killUnused, serial, setter, changes, failures>>

\* Mutant: a task is run however the pool was freed.
RunsAlways(p) == TRUE
\* A task that was popped is run.
Runs(p) == pools[p].running \/ ~pools[p].immediate

\* g_thread_pool_wait_for_new_task has popped the first of the queue.
Take(w, p) ==
  LET x == Head(pools[p].queue)
      q == Tail(pools[p].queue)
  IN  \/ /\ Runs(p)
         /\ pools' = [pools EXCEPT ![p].queue = q]
         /\ threads' = [threads EXCEPT ![w].at = "func", ![w].task = x]
         /\ fate' = [fate EXCEPT ![x] = In("running", p)]
         /\ asleep' = asleep \ {w}
         /\ UNCHANGED <<unusedVars, historyVars>>
      \/ /\ ~Runs(p)
         /\ Leave(w, p, q, IF x = Bogus THEN None ELSE x)

\* The pool has tasks for its threads, and this one is not superfluous.
Active(p) == /\ pools[p].running \/ (~pools[p].immediate /\ Length(p) > 0)
             /\ pools[p].max = -1 \/ pools[p].num <= pools[p].max

\* The thread, new in the pool or back from a task, asks for the next one: it gets it,
\* waits in the queue, or leaves.
NextTask(w) ==
  LET p == threads[w].pool
  IN  /\ threads[w].at \in {"start", "back"} /\ Unlocked(p)
      /\ \/ Active(p) /\ pools[p].queue # <<>> /\ Take(w, p)
         \/ /\ Active(p) /\ pools[p].queue = <<>>
            /\ Go(w, "pop") /\ asleep' = asleep \cup {w}
            /\ UNCHANGED <<pools, unusedVars, fate, historyVars>>
         \/ ~Active(p) /\ Leave(w, p, pools[p].queue, None)

\* pool->func has returned.
FuncReturns(w) ==
  /\ At(w, "func")
  /\ threads' = [threads EXCEPT ![w].at = "back", ![w].task = None]
  /\ fate' = [fate EXCEPT ![threads[w].task] = In("done", threads[w].pool)]
  /\ UNCHANGED <<pools, asleep, unusedVars, historyVars>>

\* A thread that was signalled in g_async_queue_pop_intern_unlocked goes on.
PopWakes(w) ==
  LET p == threads[w].pool
  IN  /\ At(w, "pop") /\ w \notin asleep /\ Unlocked(p)
      /\ \/ /\ pools[p].queue = <<>>
            /\ asleep' = asleep \cup {w}
            /\ UNCHANGED <<pools, threads, unusedVars, fate, historyVars>>
         \/ pools[p].queue # <<>> /\ Take(w, p)

\* The half second of a thread in a shared pool is over, at whatever time it gets the
\* mutex again.
PopTimesOut(w) ==
  LET p == threads[w].pool
  IN  /\ At(w, "pop") /\ w \in asleep /\ ~pools[p].exclusive /\ Unlocked(p)
      /\ \/ pools[p].queue = <<>> /\ Leave(w, p, <<>>, None)
         \/ pools[p].queue # <<>> /\ Take(w, p)

--------------------------------------------------------------------------------
(* A thread in the global pool: g_thread_pool_wait_for_new_pool. *)

\* At first, and when a marker tells of new limits.
ReadLimits(w) ==
  /\ At(w, "limits") \/ At(w, "update")
  /\ threads' = [threads EXCEPT ![w].at = IF At(w, "limits") THEN "serial" ELSE "check",
                                ![w].limit = maxUnused, ![w].relayed = FALSE]
  /\ UNCHANGED <<pools, asleep, unusedVars, fate, historyVars>>

ReadSerial(w) ==
  /\ At(w, "serial")
  /\ threads' = [threads EXCEPT ![w].at = "check", ![w].seen = serial]
  /\ UNCHANGED <<pools, asleep, unusedVars, fate, historyVars>>

\* A superfluous thread stops.
CheckLimit(w) ==
  /\ At(w, "check")
  /\ Go(w, IF threads[w].limit # -1 /\ unusedThreads >= threads[w].limit
           THEN "quit" ELSE "enter")
  /\ UNCHANGED <<pools, asleep, unusedVars, fate, historyVars>>

\* The thread pops the first of unused_thread_queue: a pool or a marker.
TakePool(w) ==
  LET x == Head(unusedQueue)
  IN  /\ unusedQueue # <<>>
      /\ unusedQueue' = Tail(unusedQueue)
      /\ threads' = IF x = Marker THEN [threads EXCEPT ![w].at = "marker"]
                    ELSE [threads EXCEPT ![w].at = "got", ![w].pool = x]
      /\ asleep' = asleep \ {w}
      /\ UNCHANGED <<unusedThreads, maxUnused, killUnused, serial, setter>>

IdlePop(w) ==
  /\ \/ At(w, "enter") /\ TakePool(w)
     \/ At(w, "idle") /\ w \notin asleep /\ TakePool(w)
     \/ /\ unusedQueue = <<>> /\ w \notin asleep
        /\ At(w, "enter") \/ At(w, "idle")
        /\ Go(w, "idle") /\ asleep' = asleep \cup {w}
        /\ UNCHANGED unusedVars
  /\ UNCHANGED <<pools, fate, historyVars>>

\* max_idle_time is over, at whatever time the thread gets the mutex again.
IdleTimesOut(w) ==
  /\ At(w, "idle") /\ w \in asleep
  /\ \/ TakePool(w)
     \/ /\ unusedQueue = <<>>
        /\ Go(w, "quit") /\ asleep' = asleep \ {w}
        /\ UNCHANGED unusedVars
  /\ UNCHANGED <<pools, fate, historyVars>>

\* The thread has a marker.  One whose serial it knows it relays, once; for a new one it
\* stops, as long as threads have to, or takes over the new limits.
HandleMarker(w) ==
  /\ \/ /\ At(w, "marker")
        /\ threads' = [threads EXCEPT
             ![w].at = IF threads[w].seen # serial THEN "kill"
                       ELSE IF threads[w].relayed THEN "check" ELSE "relay",
             ![w].seen = serial]
        /\ UNCHANGED <<unusedQueue, asleep, killUnused>>
     \/ /\ At(w, "relay")
        /\ unusedQueue' = Append(unusedQueue, Marker)
        /\ \E X \in Signal(Idle, 1) : asleep' = asleep \ X
        /\ threads' = [threads EXCEPT ![w].at = "check", ![w].relayed = TRUE]
        /\ UNCHANGED killUnused
     \/ /\ At(w, "kill")
        /\ killUnused' = killUnused - 1
        /\ Go(w, IF killUnused > 0 THEN "quit" ELSE "update")
        /\ UNCHANGED <<unusedQueue, asleep>>
  /\ UNCHANGED <<pools, unusedThreads, maxUnused, serial, setter, fate, historyVars>>

\* The thread is no longer unused: it ends, or goes to its new pool.
LeaveIdle(w) ==
  /\ At(w, "quit") \/ At(w, "got")
  /\ unusedThreads' = unusedThreads - 1
  /\ threads' = [threads EXCEPT ![w] =
       IF At(w, "quit") THEN NoThread
       ELSE [NoThread EXCEPT !.at = "start", !.pool = threads[w].pool]]
  /\ UNCHANGED <<pools, asleep, unusedQueue, maxUnused, killUnused, serial, setter, fate,
                 historyVars>>

--------------------------------------------------------------------------------
(* g_thread_pool_set_max_unused_threads, one access to a shared variable per step. *)

SetMaxUnused(m) ==
  /\ setter.at = "out" /\ changes < MaxChanges
  /\ maxUnused' = m
  /\ changes' = changes + 1
  /\ setter' = IF m = -1 THEN NoSetter ELSE [at |-> "read", n |-> m]
  /\ UNCHANGED <<pools, threads, asleep, unusedQueue, unusedThreads, killUnused, serial,
                 fate, bogusFreed, failures>>

SetterStep ==
  /\ \/ /\ setter.at = "read"
        /\ setter' = IF unusedThreads > setter.n
                     THEN [at |-> "kill", n |-> unusedThreads - setter.n] ELSE NoSetter
        /\ UNCHANGED <<killUnused, serial, unusedQueue, asleep>>
     \/ /\ setter.at = "kill"
        /\ killUnused' = setter.n
        /\ setter' = [setter EXCEPT !.at = "serial"]
        /\ UNCHANGED <<serial, unusedQueue, asleep>>
     \/ /\ setter.at = "serial"
        /\ serial' = serial + 1
        /\ setter' = [setter EXCEPT !.at = "push"]
        /\ UNCHANGED <<killUnused, unusedQueue, asleep>>
     \/ /\ setter.at = "push"
        /\ unusedQueue' = unusedQueue \o [i \in 1 .. setter.n |-> Marker]
        /\ \E X \in Signal(Idle, setter.n) : asleep' = asleep \ X
        /\ setter' = NoSetter
        /\ UNCHANGED <<killUnused, serial>>
  /\ UNCHANGED <<pools, threads, unusedThreads, maxUnused, fate, historyVars>>

--------------------------------------------------------------------------------
Client(p) == \/ \E max \in Limits, exclusive \in BOOLEAN : NewFull(p, max, exclusive)
             \/ \E max \in NewLimits : SetMaxThreads(p, max)
             \/ \E t \in Task : Push(p, t) \/ MoveToFront(p, t)
             \/ \E imm, wait \in BOOLEAN : Free(p, imm, wait)
Call(p) == StartNext(p) \/ FreeWaits(p) \/ FreeWakes(p) \/ FreeEnds(p)
Work(w) == \/ NextTask(w) \/ FuncReturns(w) \/ PopWakes(w)
           \/ ReadLimits(w) \/ ReadSerial(w) \/ CheckLimit(w) \/ IdlePop(w)
           \/ HandleMarker(w) \/ LeaveIdle(w)
Expire(w) == PopTimesOut(w) \/ IdleTimesOut(w)

\* g_thread_pool_new_full has freed a pool that threads were started for or handed to:
\* they use it next, and what the program does then is not defined.
Abandoned(p) == pools[p].phase = "freed" /\ pools[p].freer = "out" /\ pools[p].num > 0
Sound == \A p \in Pool : ~Abandoned(p)

Next == /\ Sound
        /\ \/ \E p \in Pool : Client(p) \/ Call(p)
           \/ \E w \in Thread : Work(w) \/ Expire(w)
           \/ \E m \in UnusedLimits : SetMaxUnused(m)
           \/ SetterStep

Spec == Init /\ [][Next]_vars

\* Threads inside the library go on, and tasks end; nothing is assumed of timeouts or of
\* clients.
FairSpec == /\ Spec
            /\ \A p \in Pool : WF_vars(Sound /\ Call(p))
            /\ \A w \in Thread : WF_vars(Sound /\ Work(w))
            /\ WF_vars(Sound /\ SetterStep)

--------------------------------------------------------------------------------
(* Properties. *)

\* Type correctness of the pools, the threads and the global queue.
TypeOK == /\ pools \in [Pool -> PoolRecord]
          /\ threads \in [Thread -> ThreadRecord]
          /\ asleep \subseteq {w \in Thread : At(w, "pop") \/ At(w, "idle")}
          /\ unusedQueue \in Seq(Pool \cup {Marker})
          /\ unusedThreads \in Nat /\ maxUnused \in UnusedLimits \cup {DefaultUnused}
          /\ killUnused \in Int /\ serial \in Nat
          /\ setter.at \in {"out", "read", "kill", "serial", "push"} /\ setter.n \in Nat

Members(p) == {w \in Thread : threads[w].pool = p}

\* num_threads counts exactly the threads in the pool and those that were handed it in
\* the global queue and have not come yet: the last one to leave knows that it is.
ThreadsCounted == \A p \in Pool :
  pools[p].num = Cardinality(Members(p)) + Count(unusedQueue, p)

\* No thread, no entry of the global queue and no call refers to a pool that was freed;
\* but for an exclusive pool whose creation failed half-way.
NoUseAfterFree == \A p \in Pool : pools[p].phase = "freed" /\ ~Abandoned(p) =>
  /\ Members(p) = {} /\ Count(unusedQueue, p) = 0
  /\ pools[p].freer \in {"out", "done"}

\* A pool lives as long as anybody can reach it: the last to leave knows that it is the
\* last, be it a thread that times out, one on its way through the global queue, or
\* g_thread_pool_free, and nobody comes to a pool that is freed.  The one exception is
\* g_thread_pool_new_full, which frees an exclusive pool under the threads it has started
\* when the next cannot be created.
PoolLives == TypeOK /\ ThreadsCounted /\ NoUseAfterFree

\* A pool in the global queue, which counts on a thread to come, is reached: as many
\* threads wait there as entries are before it, whatever markers are pushed and relayed.
HandOverReached == \A i \in DOMAIN unusedQueue :
  unusedQueue[i] \in Pool => i <= Cardinality(Idle)

Awake(S) == Cardinality(S \ asleep)
Least(m, n) == IF m < n THEN m ELSE n

\* A queue that holds something has as many of its waiting threads awake as can take it:
\* a timeout or another thread that takes an item never makes a signal get lost.
NoLostSignal ==
  /\ \A p \in Pool :
       Awake(Waiters(p)) >= Least(Len(pools[p].queue), Cardinality(Waiters(p)))
  /\ Awake(Idle) >= Least(Len(unusedQueue), Cardinality(Idle))

\* On their way to the pool, and about to ask for a task.
Coming(p) == Cardinality({w \in Members(p) : threads[w].at \in {"got", "start"}})
             + Count(unusedQueue, p)

\* When more tasks are queued than threads are waiting or coming for, the pool has all
\* the threads it may have, however limits, timeouts and pushes are interleaved; unless
\* threads could not be created.
WorkConserving == \A p \in Pool :
  Usable(p) /\ failures = 0 /\ Length(p) > Coming(p) => Enough(p)

\* No task waits for a thread that does not come: signals, hand-overs through the global
\* queue and the decision not to start a thread rest on threads that may time out, be
\* stopped by a marker or take something else just then.
NoTaskStranded == HandOverReached /\ NoLostSignal /\ WorkConserving

\* The free function gets the tasks that a freed pool has not run, all of them and
\* nothing else.
FreeFuncExact == /\ ~bogusFreed
                 /\ \A p \in Pool, t \in Task : fate[t] # In("lost", p)

\* Every task of a pool that is not frozen is run or dropped in the end, unless threads
\* could not be created.
TaskServed == \A p \in Pool, t \in Task :
  fate[t] = In("queued", p) ~>
    (fate[t] # In("queued", p) \/ pools[p].max = 0 \/ failures > 0)

\* g_thread_pool_free returns, and the pool is freed in the end, by the call or by the
\* last thread, unless threads could not be created.
PoolIsFreed == \A p \in Pool :
  (pools[p].freer # "out") ~>
    ((pools[p].freer = "done" /\ pools[p].phase = "freed") \/ failures > 0)

\* The pools keep the promises of TaskPool.
Stage(p) == IF pools[p].phase \in {"none", "new"} THEN "none"
            ELSE IF pools[p].phase = "freed"
            THEN IF pools[p].freer = "out" THEN "none" ELSE "freed"
            ELSE IF pools[p].running THEN "open"
            ELSE IF pools[p].immediate THEN "stopping" ELSE "draining"
Outcome(t) == IF fate[t][1] \in {"lost", "freed"} THEN In("dropped", fate[t][2]) ELSE fate[t]
Promise == INSTANCE TaskPool WITH stage <- [p \in Pool |-> Stage(p)],
                                  fate <- [t \in Task |-> Outcome(t)]
ImplementsTaskPool == Promise!Spec
================================================================================
