------------------------------- MODULE GMainLoop -------------------------------
(*****************************************************************************)
(* Who owns a GMainContext and runs its iterations (glib/gmain.c): threads  *)
(* acquire and release the context, iterate it, run and quit main loops on  *)
(* it, wait for one another, and call all of this again from the callbacks  *)
(* of an iteration.  A step is the code between two points where the        *)
(* context's mutex is dropped; GMutex shows that such code is atomic and    *)
(* what g_cond_signal and g_cond_broadcast wake.  Sources are abstracted to *)
(* "some callback runs here" and "something other than the wakeup is ready".*)
(*****************************************************************************)
EXTENDS Integers, Sequences

CONSTANTS Thread, Loop, NoThread, NoLoop,
          MaxDepth     \* bound: calls nested in one thread

ASSUME OwnerAssumption == /\ NoThread \notin Thread
                          /\ NoLoop \notin Loop
                          /\ MaxDepth \in Nat \ {0}

VARIABLES owner,        \* context->owner
          ownerCount,   \* context->owner_count
          waiters,      \* context->waiters: the threads, one GMainWaiter each
          asleep,       \* the threads blocked in g_cond_wait on context->cond
          running,      \* the loops with loop->is_running set
          wakeup,       \* context->wakeup is readable
          stack         \* the calls each thread is inside of, innermost last

vars == <<owner, ownerCount, waiters, asleep, running, wakeup, stack>>

(* A call in progress: what it is, where it has dropped the mutex, and the    *)
(* owner_count while it is the innermost.  g_main_context_iteration is        *)
(* "iteration" when it may block and "nonblocking" when not; "woken" is       *)
(* "polled" with the wakeup among the descriptors that poll() found ready.    *)
Callback == {"prepare", "check", "dispatch"}
Labels == Callback \cup {"held", "wait", "poll", "polled", "woken"}
Kinds == {"acquire", "run", "iteration", "nonblocking", "pending"}
Frame == [kind : Kinds, loop : Loop \cup {NoLoop}, at : Labels, count : Nat]
MayBlock(f) == f.kind \in {"run", "iteration"}

\* g_main_loop_run acquires for itself and then once more for each iteration.
Weight(kind) == IF kind = "run" THEN 2 ELSE 1

Depth(t) == Len(stack[t])
Top(t) == stack[t][Depth(t)]
Below(t) == SubSeq(stack[t], 1, Depth(t) - 1)
TopAt(t, labels) == Depth(t) > 0 /\ Top(t).at \in labels

\* A thread makes a call from outside, from a callback, or while it has acquired.
Caller(t) == Depth(t) = 0 \/ TopAt(t, Callback \cup {"held"})

\* context->in_check_or_prepare
InCheckOrPrepare == \E t \in Thread : \E i \in DOMAIN stack[t] :
                      stack[t][i].at \in {"prepare", "check"}

\* Where g_main_context_prepare drops the mutex: in a prepare callback, or not
\* before poll().  Called recursively it warns and does nothing.
StartLabels == IF InCheckOrPrepare THEN {"poll"} ELSE {"prepare", "poll"}

Init == /\ owner = NoThread
        /\ ownerCount = 0
        /\ waiters = <<>>
        /\ asleep = {}
        /\ running = {}
        /\ wakeup = FALSE
        /\ stack = [t \in Thread |-> <<>>]

--------------------------------------------------------------------------------
(* Ownership. *)

CanAcquire(t) == owner \in {NoThread, t}

NewFrame(kind, loop, at, count) ==
  [kind |-> kind, loop |-> loop, at |-> at, count |-> count]

\* g_main_context_acquire_unlocked succeeds and the call goes on at label at.
AcquireAndPush(t, kind, loop, at) ==
  /\ CanAcquire(t)
  /\ owner' = t
  /\ ownerCount' = ownerCount + Weight(kind)
  /\ stack' = [stack EXCEPT ![t] =
                 Append(@, NewFrame(kind, loop, at, ownerCount + Weight(kind)))]
  /\ UNCHANGED <<waiters, asleep>>

\* g_main_context_wait_internal: queue a GMainWaiter and sleep on the condition.
WaitAndPush(t, kind, loop) ==
  /\ ~CanAcquire(t)
  /\ waiters' = Append(waiters, t)
  /\ asleep' = asleep \cup {t}
  /\ stack' = [stack EXCEPT ![t] = Append(@, NewFrame(kind, loop, "wait", 0))]
  /\ UNCHANGED <<owner, ownerCount>>

\* Mutant: the waiter is unlinked and not woken.
WakeWaiterNot(queue) ==
  /\ waiters' = IF queue = <<>> THEN queue ELSE Tail(queue)
  /\ UNCHANGED asleep

\* The end of g_main_context_release_unlocked when the count is zero: the first
\* GMainWaiter is unlinked and the condition, which all of them share, signalled.
WakeWaiter(queue) ==
  \/ queue = <<>> /\ waiters' = queue /\ UNCHANGED asleep
  \/ /\ queue # <<>>
     /\ waiters' = Tail(queue)
     /\ IF asleep = {} THEN UNCHANGED asleep ELSE \E u \in asleep : asleep' = asleep \ {u}

\* Mutant: g_main_loop_run forgets the release of its own acquire.
ReleaseAndPopOnce(t) ==
  /\ ownerCount' = ownerCount - 1
  /\ stack' = [stack EXCEPT ![t] = Below(t)]
  /\ \/ /\ ownerCount' = 0
        /\ owner' = NoThread
        /\ WakeWaiter(waiters)
     \/ /\ ownerCount' # 0
        /\ UNCHANGED <<owner, waiters, asleep>>

\* The last g_main_context_release_unlocked of the call on top of t's stack.
ReleaseAndPop(t) ==
  /\ ownerCount' = ownerCount - Weight(Top(t).kind)
  /\ stack' = [stack EXCEPT ![t] = Below(t)]
  /\ \/ /\ ownerCount' = 0
        /\ owner' = NoThread
        /\ WakeWaiter(waiters)
     \/ /\ ownerCount' # 0
        /\ UNCHANGED <<owner, waiters, asleep>>

\* g_main_context_acquire, and g_main_context_release by the same thread.
Acquire(t) == /\ Caller(t)
              /\ Depth(t) < MaxDepth
              /\ AcquireAndPush(t, "acquire", NoLoop, "held")
              /\ UNCHANGED <<running, wakeup>>

Release(t) == /\ TopAt(t, {"held"})
              /\ ReleaseAndPop(t)
              /\ UNCHANGED <<running, wakeup>>

--------------------------------------------------------------------------------
(* Calls. *)

\* g_main_context_iteration and g_main_context_pending; not blocking, they
\* return at once when another thread is the owner.
IterationBegin(t) ==
  /\ Caller(t)
  /\ Depth(t) < MaxDepth
  /\ \/ \E kind \in {"iteration", "nonblocking", "pending"}, at \in StartLabels :
          AcquireAndPush(t, kind, NoLoop, at)
     \/ WaitAndPush(t, "iteration", NoLoop)
  /\ UNCHANGED <<running, wakeup>>

\* The environment runs each GMainLoop in one call at a time.
LoopFree(l) == \A t \in Thread : \A i \in DOMAIN stack[t] : stack[t][i].loop # l

\* g_main_loop_run up to its first iteration, or up to its wait for the owner.
\* From a prepare or check callback it warns and returns.
RunBegin(t, l) ==
  /\ Caller(t)
  /\ Depth(t) < MaxDepth
  /\ LoopFree(l)
  /\ \/ /\ ~InCheckOrPrepare
        /\ \E at \in StartLabels : AcquireAndPush(t, "run", l, at)
     \/ WaitAndPush(t, "run", l)
  /\ running' = running \cup {l}
  /\ UNCHANGED wakeup

\* Mutant: g_main_loop_quit does not broadcast to the waiters.
QuitNoBroadcast(t, l) == /\ Caller(t)
                         /\ running' = running \ {l}
                         /\ wakeup' = TRUE
                         /\ UNCHANGED <<owner, ownerCount, waiters, asleep, stack>>

\* g_main_loop_quit, by any thread.
Quit(t, l) == /\ Caller(t)
              /\ running' = running \ {l}
              /\ wakeup' = TRUE
              /\ asleep' = {}
              /\ UNCHANGED <<owner, ownerCount, waiters, stack>>

\* g_main_context_wakeup
Wakeup(t) == /\ Caller(t)
             /\ wakeup' = TRUE
             /\ UNCHANGED <<owner, ownerCount, waiters, asleep, running, stack>>

--------------------------------------------------------------------------------
(* The wait for ownership. *)

\* g_cond_wait may return though nobody signalled.
SpuriousWake(t) == /\ t \in asleep
                   /\ asleep' = asleep \ {t}
                   /\ UNCHANGED <<owner, ownerCount, waiters, running, wakeup, stack>>

\* The queue without the GMainWaiter of t, if that is still linked.
Position(t) == CHOOSE i \in DOMAIN waiters : waiters[i] = t
WithoutWaiter(t) ==
  IF \E i \in DOMAIN waiters : waiters[i] = t
  THEN SubSeq(waiters, 1, Position(t) - 1)
         \o SubSeq(waiters, Position(t) + 1, Len(waiters))
  ELSE waiters

\* g_main_context_wait_internal returns: the waiter's own record is removed and
\* it tries once to become the owner.
WaitReturn(t) ==
  /\ TopAt(t, {"wait"})
  /\ t \notin asleep
  /\ LET f == Top(t)
         quit == f.kind = "run" /\ f.loop \notin running
     IN \/ \* Got the context: iterate.
           /\ owner = NoThread
           /\ ~quit
           /\ owner' = t
           /\ ownerCount' = Weight(f.kind)
           /\ \E at \in StartLabels :
                stack' = [stack EXCEPT ![t][Depth(t)] =
                            [f EXCEPT !.at = at, !.count = Weight(f.kind)]]
           /\ waiters' = WithoutWaiter(t)
           /\ UNCHANGED asleep
        \/ \* Got the context, but the loop was quit: release it again.
           /\ owner = NoThread
           /\ quit
           /\ stack' = [stack EXCEPT ![t] = Below(t)]
           /\ WakeWaiter(WithoutWaiter(t))
           /\ UNCHANGED <<owner, ownerCount>>
        \/ \* Another thread was faster: g_main_loop_run waits again.
           /\ owner # NoThread
           /\ f.kind = "run" /\ ~quit
           /\ waiters' = Append(WithoutWaiter(t), t)
           /\ asleep' = asleep \cup {t}
           /\ UNCHANGED <<owner, ownerCount, stack>>
        \/ \* ... and g_main_context_iteration, or a loop that was quit, returns.
           /\ owner # NoThread
           /\ f.kind # "run" \/ quit
           /\ waiters' = WithoutWaiter(t)
           /\ stack' = [stack EXCEPT ![t] = Below(t)]
           /\ UNCHANGED <<owner, ownerCount, asleep>>
  /\ UNCHANGED <<running, wakeup>>

--------------------------------------------------------------------------------
(* One iteration: prepare, poll, check, dispatch. *)

MoveTop(t, at) == stack' = [stack EXCEPT ![t][Depth(t)].at = at]

\* The end of g_main_context_iterate_unlocked, and the loop of g_main_loop_run.
EndIteration(t) ==
  LET f == Top(t)
  IN  \/ /\ f.kind = "run" /\ f.loop \in running
         /\ \E at \in {"prepare", "poll"} : MoveTop(t, at)
         /\ UNCHANGED <<owner, ownerCount, waiters, asleep>>
      \/ /\ f.kind # "run" \/ f.loop \notin running
         /\ ReleaseAndPop(t)

\* The last prepare callback returns.
PrepareEnd(t) == /\ TopAt(t, {"prepare"})
                 /\ MoveTop(t, "poll")
                 /\ UNCHANGED <<owner, ownerCount, waiters, asleep, running, wakeup>>

\* poll() returns: because it may not block, because the wakeup is readable, or
\* (PollEvent) because of a descriptor, a timeout or EINTR.  The mutex is not
\* held: a wakeup from here on is not in the revents.
PollReturn(t) == /\ TopAt(t, {"poll"})
                 /\ wakeup \/ ~MayBlock(Top(t))
                 /\ MoveTop(t, IF wakeup THEN "woken" ELSE "polled")
                 /\ UNCHANGED <<owner, ownerCount, waiters, asleep, running, wakeup>>

PollEvent(t) == /\ TopAt(t, {"poll"})
                /\ ~wakeup /\ MayBlock(Top(t))
                /\ MoveTop(t, "polled")
                /\ UNCHANGED <<owner, ownerCount, waiters, asleep, running, wakeup>>

\* What follows g_main_context_check in the iteration: callbacks, or its end.
AfterCheck(t) == \/ /\ Top(t).kind # "pending"
                    /\ MoveTop(t, "dispatch")
                    /\ UNCHANGED <<owner, ownerCount, waiters, asleep>>
                 \/ EndIteration(t)

\* Mutant: the wakeup is acknowledged before the test for recursion.
CheckBeginAcknowledges(t) ==
  /\ TopAt(t, {"polled", "woken"})
  /\ wakeup' = (wakeup /\ Top(t).at # "woken")
  /\ \/ /\ ~InCheckOrPrepare
        /\ MoveTop(t, "check")
        /\ UNCHANGED <<owner, ownerCount, waiters, asleep>>
     \/ AfterCheck(t)
  /\ UNCHANGED running

\* g_main_context_check with the mutex taken again: the wakeup that poll() saw is
\* acknowledged, except by a recursive call, which warns and does nothing.
CheckBegin(t) ==
  /\ TopAt(t, {"polled", "woken"})
  /\ \/ /\ ~InCheckOrPrepare
        /\ wakeup' = (wakeup /\ Top(t).at # "woken")
        /\ \/ /\ MoveTop(t, "check")
              /\ UNCHANGED <<owner, ownerCount, waiters, asleep>>
           \/ AfterCheck(t)
     \/ /\ InCheckOrPrepare
        /\ AfterCheck(t)
        /\ UNCHANGED wakeup
  /\ UNCHANGED running

\* The last check callback returns.
CheckEnd(t) == /\ TopAt(t, {"check"})
               /\ AfterCheck(t)
               /\ UNCHANGED <<running, wakeup>>

\* The last dispatch callback returns.
DispatchEnd(t) == /\ TopAt(t, {"dispatch"})
                  /\ EndIteration(t)
                  /\ UNCHANGED <<running, wakeup>>

--------------------------------------------------------------------------------
\* What a thread does by itself: return from its waits, its poll and callbacks.
Step(t) == \/ Release(t) \/ WaitReturn(t) \/ PrepareEnd(t) \/ PollReturn(t)
           \/ CheckBegin(t) \/ CheckEnd(t) \/ DispatchEnd(t)

Next == \E t \in Thread :
          \/ Acquire(t) \/ Release(t) \/ IterationBegin(t) \/ Wakeup(t)
          \/ \E l \in Loop : RunBegin(t, l) \/ Quit(t, l)
          \/ SpuriousWake(t) \/ WaitReturn(t)
          \/ PrepareEnd(t) \/ PollReturn(t) \/ PollEvent(t)
          \/ CheckBegin(t) \/ CheckEnd(t) \/ DispatchEnd(t)

Spec == Init /\ [][Next]_vars

\* Threads are scheduled, callbacks return, and poll() returns once the wakeup
\* is readable.  No event is promised, nobody has to call anything, and no
\* wakeup is spurious by fairness.
FairSpec == Spec /\ \A t \in Thread : WF_vars(Step(t))

--------------------------------------------------------------------------------
\* Every variable has its type.
TypeOK == /\ owner \in Thread \cup {NoThread}
          /\ ownerCount \in Nat
          /\ waiters \in Seq(Thread)
          /\ asleep \subseteq Thread
          /\ running \subseteq Loop
          /\ wakeup \in BOOLEAN
          /\ stack \in [Thread -> Seq(Frame)]

\* The calls of a thread that hold the context, and what they leave in the count.
Owning(t, i) == stack[t][i].at # "wait"
CountBelow(t, i) == IF i = 1 THEN 0 ELSE stack[t][i - 1].count

\* Only the owner iterates: a thread inside prepare, poll, check or dispatch, or
\* between acquire and release, is context->owner, however deeply its calls are
\* nested; owner_count is exactly what its calls have acquired, so the matching
\* releases reach zero exactly when the outermost call returns, and the
\* g_assert (context->owner_count == 0) on taking a free context cannot fail.
OwnerBalanced ==
  /\ owner = NoThread <=> ownerCount = 0
  /\ \A t \in Thread : \A i \in DOMAIN stack[t] :
       Owning(t, i) => /\ owner = t
                       /\ stack[t][i].count = CountBelow(t, i) + Weight(stack[t][i].kind)
  /\ \A t \in Thread : owner = t => Depth(t) > 0 /\ Top(t).count = ownerCount

\* A quit is never slept through: if the innermost call of a thread is
\* g_main_loop_run on a loop that has been quit and it is in poll(), the wakeup
\* is readable.  Nested iterations and callbacks may have acknowledged wakeups in
\* between.
QuitWakesPoll ==
  \A t \in Thread :
    TopAt(t, {"poll"}) /\ Top(t).kind = "run" /\ Top(t).loop \notin running => wakeup

TopRuns(t, l) == Depth(t) > 0 /\ Top(t).kind = "run" /\ Top(t).loop = l

\* g_main_loop_run returns after g_main_loop_quit, whether it is iterating or
\* still waiting for another thread to give up the context (unless a callback
\* nests another call in it first).
QuitReturns ==
  \A t \in Thread, l \in Loop :
    (TopRuns(t, l) /\ l \notin running) ~> ~(TopRuns(t, l) /\ l \notin running)

\* A thread that waits for the context does not sleep for ever while nobody owns
\* it: g_main_context_wait waits "until that owner releases ownership".
NoStrandedWaiter ==
  \A t \in Thread : []<>~(t \in asleep /\ owner = NoThread)
================================================================================
