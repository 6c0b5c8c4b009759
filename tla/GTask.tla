-------------------------------- MODULE GTask --------------------------------
(*****************************************************************************)
(* GTask (gio/gtask.c): an operation that ends with one call of a callback   *)
(* in the context it was started in, or, synchronously, with the return of   *)
(* the caller.  Tasks run in a thread of the shared pool, whose size a       *)
(* manager raises when its tasks block one another; a cancellation may end   *)
(* one early while its function goes on.  The actors are the callers (the    *)
(* main thread, or the function of another task), the pool's threads, a      *)
(* thread that cancels the GCancellable that tasks share, the manager, and   *)
(* the main loop.  The pool is taken at its word (see TaskPool): a task in   *)
(* its queue is run as long as fewer threads than its limit are busy.        *)
(*****************************************************************************)
EXTENDS Integers, FiniteSets

CONSTANTS Task, Main, None,
          Callers,     \* who may start each task: Main, or tasks whose function does
          Cancellable, \* the tasks that have the GCancellable
          PoolSize     \* G_TASK_POOL_SIZE

ASSUME TaskAssumption ==
  /\ IsFiniteSet(Task) /\ Main \notin Task /\ None \notin Task \cup {Main}
  /\ Callers \in [Task -> SUBSET (Task \cup {Main})]
  /\ Cancellable \subseteq Task /\ PoolSize \in Nat \ {0}

VARIABLES task,     \* the GTasks
          caller,   \* where the call that starts each task is
          worker,   \* where the pool's thread, or the operation, of each task is
          cancel,   \* the GCancellable and the thread that cancels it
          pool,     \* the shared pool and its manager
          main      \* the main loop

vars == <<task, caller, worker, cancel, pool, main>>

(* kind, by: how and by whom the task is run.  cancelled, complete, onCancel:  *)
(* thread_cancelled, thread_complete, return_on_cancel.  connected: the        *)
(* handler of "cancelled"; idles: the idle sources; calls: of the callback;    *)
(* outcome: what the caller was given in the end; sure: return-on-cancel is    *)
(* FALSE and the function was told so.                                         *)
Kind == {"async", "sync", "plain"}
TaskRecord ==
  [kind : Kind, by : Task \cup {Main}, refs : Nat, freed : BOOLEAN, cancelled : BOOLEAN,
   complete : BOOLEAN, onCancel : BOOLEAN, sure : BOOLEAN, returned : BOOLEAN,
   connected : BOOLEAN, idles : Nat, calls : Nat, outcome : {"none", "cancelled", "read"}]

CallerPlaces == {"new", "check", "connect", "push", "return", "wait", "asleep",
                 "completing", "done"}
WorkerPlaces == {"none", "operation", "queued", "popped", "running", "returning",
                 "set complete", "set finish", "set notify", "complete", "finish", "notify",
                 "unref", "cleanup", "counted", "gone"}
CancelPlaces == {"idle", "flagged", "emitting", "handler", "complete", "finish", "notify", "end"}
(* The places in which the task's function is on the stack. *)
InFunction == {"running", "returning", "set complete", "set finish", "set notify"}

Init ==
  /\ \E k \in [Task -> Kind], b \in [Task -> Task \cup {Main}] :
       /\ \A t \in Task : b[t] \in Callers[t]
       /\ task = [t \in Task |->
            [kind |-> k[t], by |-> b[t], refs |-> 0, freed |-> FALSE, cancelled |-> FALSE,
             complete |-> FALSE, onCancel |-> FALSE, sure |-> TRUE, returned |-> FALSE,
             connected |-> FALSE, idles |-> 0, calls |-> 0, outcome |-> "none"]]
  /\ caller = [t \in Task |-> "new"] /\ worker = [t \in Task |-> "none"]
  /\ cancel = [flag |-> FALSE, at |-> "idle", task |-> None, left |-> {}]
  /\ pool = [queue |-> {}, running |-> 0, max |-> PoolSize, armed |-> FALSE, pending |-> 0]
  /\ main = [at |-> "loop", task |-> None, drops |-> 0]

Set(t, rec) == task' = [task EXCEPT ![t] = rec]
CallerAt(t, place) == caller' = [caller EXCEPT ![t] = place]
WorkerAt(t, place) == worker' = [worker EXCEPT ![t] = place]

\* A task with n references fewer; the last one frees it, and nothing is left of it but
\* what the properties ask of its caller.
Dropped(rec, n) ==
  IF rec.refs = n THEN [rec EXCEPT !.refs = 0, !.freed = TRUE, !.cancelled = FALSE,
                                   !.complete = FALSE, !.onCancel = FALSE, !.sure = TRUE, !.returned = FALSE,
                                   !.outcome = "none"]
                  ELSE [rec EXCEPT !.refs = @ - n]

\* The task's own mutex is held over g_task_start_task_thread; all other sections that
\* hold it are single steps.
Locked(t) == caller[t] \in {"connect", "push"}

\* A thread is in a call that starts a task.
Busy(who) == \E t \in Task : task[t].by = who /\ caller[t] \notin {"new", "done"}

--------------------------------------------------------------------------------
(* Returning to the caller. *)

\* g_task_return, where the callback is to be called in an idle source: the reference it
\* takes and the one of the source.
InIdle(rec) == [rec EXCEPT !.refs = @ + 2, !.idles = @ + 1]

IsCancelled(t) == t \in Cancellable /\ cancel.flag

\* g_task_propagate_error: a cancelled operation has no other result.
Propagate(t) == IF IsCancelled(t) THEN "cancelled" ELSE "read"

\* complete_in_idle_cb and g_task_return_now: the callback, then the flag completed, a
\* bit in an unlocked word that ever_returned shares.
Dispatch(t) ==
  /\ main.at = "loop" /\ ~Busy(Main) /\ task[t].idles > 0
  /\ Set(t, [task[t] EXCEPT !.idles = @ - 1])
  /\ main' = [at |-> "callback", task |-> t, drops |-> 2]
  /\ UNCHANGED <<caller, worker, cancel, pool>>
Callback ==
  LET t == main.task IN
  /\ main.at = "callback"
  /\ Set(t, [task[t] EXCEPT !.calls = @ + 1, !.outcome = Propagate(t)])
  /\ main' = [main EXCEPT !.at = "completing"]
  /\ UNCHANGED <<caller, worker, cancel, pool>>
Completed ==
  LET t == main.task IN
  /\ main.at = "completing"
  /\ Set(t, Dropped(task[t], main.drops))
  /\ main' = [at |-> "loop", task |-> None, drops |-> 0]
  /\ UNCHANGED <<caller, worker, cancel, pool>>

\* The end of an operation without a thread: the callback is called at once in the main
\* loop, if that is in a later iteration and nothing was cancelled, or in an idle source.
OperationReturns(t) ==
  LET rec == [task[t] EXCEPT !.returned = TRUE] IN
  /\ worker[t] = "operation"
  /\ WorkerAt(t, "gone")
  /\ \/ /\ main.at = "loop" /\ ~Busy(Main) /\ ~IsCancelled(t)
        /\ Set(t, rec)
        /\ main' = [at |-> "callback", task |-> t, drops |-> 1]
     \/ Set(t, Dropped(InIdle(rec), 1)) /\ UNCHANGED main
  /\ UNCHANGED <<caller, cancel, pool>>

--------------------------------------------------------------------------------
(* Starting a task. *)

\* g_task_new, and g_task_set_return_on_cancel before the task is run.
New(t, b) ==
  LET who == task[t].by IN
  /\ caller[t] = "new" /\ ~Busy(who) /\ (b => t \in Cancellable)
  /\ IF who = Main THEN main.at = "loop" ELSE worker[who] = "running"
  /\ Set(t, [task[t] EXCEPT !.refs = 1, !.onCancel = b, !.sure = ~b])
  /\ IF task[t].kind = "plain" THEN CallerAt(t, "done") /\ WorkerAt(t, "operation")
                               ELSE CallerAt(t, "check") /\ UNCHANGED worker
  /\ UNCHANGED <<cancel, pool, main>>

\* g_task_start_task_thread: the mutex is taken; a task that is to return on a
\* cancellation which has happened is complete.
Check(t) ==
  LET early == task[t].onCancel /\ IsCancelled(t) IN
  /\ caller[t] = "check"
  /\ Set(t, [task[t] EXCEPT !.cancelled = early, !.complete = early])
  /\ CallerAt(t, IF early \/ t \notin Cancellable THEN "push" ELSE "connect")
  /\ UNCHANGED <<worker, cancel, pool, main>>
\* The handler has a reference to the task.
Connect(t) ==
  /\ caller[t] = "connect"
  /\ Set(t, [task[t] EXCEPT !.connected = TRUE, !.refs = @ + 1])
  /\ CallerAt(t, "push")
  /\ UNCHANGED <<worker, cancel, pool, main>>
\* The task is pushed, and g_task_run_in_thread or g_task_run_in_thread_sync goes on.
Push(t) ==
  /\ caller[t] = "push"
  /\ pool' = [pool EXCEPT !.queue = @ \cup {t}]
  /\ WorkerAt(t, "queued")
  /\ CallerAt(t, CASE task[t].kind = "sync"                       -> "wait"
                   [] task[t].kind # "sync" /\ task[t].complete -> "return"
                   [] OTHER                                       -> "done")
  /\ Set(t, IF task[t].kind = "sync" \/ task[t].complete THEN [task[t] EXCEPT !.refs = @ + 1]
                                                         ELSE task[t])
  /\ UNCHANGED <<cancel, main>>
Return(t) ==
  /\ caller[t] = "return"
  /\ Set(t, Dropped(InIdle(task[t]), 1))
  /\ CallerAt(t, "done")
  /\ UNCHANGED <<worker, cancel, pool, main>>

\* The wait, which looks at thread_complete with the mutex; a wakeup may be spurious.
Wait(t) ==
  /\ caller[t] = "wait"
  /\ CallerAt(t, IF task[t].complete THEN "completing" ELSE "asleep")
  /\ UNCHANGED <<task, worker, cancel, pool, main>>
SpuriousWakeup(t) ==
  /\ caller[t] = "asleep"
  /\ CallerAt(t, "wait")
  /\ UNCHANGED <<task, worker, cancel, pool, main>>

\* The caller sets the flag completed and has its result.
SyncCompleted(t) ==
  /\ caller[t] = "completing"
  /\ Set(t, Dropped([task[t] EXCEPT !.outcome = Propagate(t)], 1))
  /\ CallerAt(t, "done")
  /\ UNCHANGED <<worker, cancel, pool, main>>

--------------------------------------------------------------------------------
(* g_task_thread_complete, by the pool's thread or in the handler. *)

\* Mutant: a task that is complete already is completed again.
CompleteAgain(rec) == TRUE
\* Only the first one goes on.
First(rec) == ~rec.complete

\* Mutant: the handler stays connected.
DisconnectedNot(t) == task[t]
\* The handler is disconnected; its reference is dropped when it does not run.
Disconnected(t) ==
  IF task[t].connected /\ cancel.task # t THEN Dropped([task[t] EXCEPT !.connected = FALSE], 1)
                                          ELSE [task[t] EXCEPT !.connected = FALSE]

\* The caller that waits is signalled, or the callback is to be called.
Notify(t) ==
  IF task[t].kind = "sync"
  THEN /\ caller' = [caller EXCEPT ![t] = IF @ = "asleep" THEN "wait" ELSE @]
       /\ UNCHANGED task
  ELSE Set(t, InIdle(task[t])) /\ UNCHANGED caller

--------------------------------------------------------------------------------
(* A thread of the pool. *)

Threads == {t \in Task : worker[t] \notin {"none", "operation", "queued", "gone"}}
\* g_task_thread_cleanup holds task_pool_mutex in two steps.
PoolLocked == \E t \in Task : worker[t] = "counted"

\* GThreadPool: a thread is free for the task.
Pop(t) ==
  /\ t \in pool.queue /\ Cardinality(Threads) < pool.max
  /\ pool' = [pool EXCEPT !.queue = @ \ {t}]
  /\ WorkerAt(t, "popped")
  /\ UNCHANGED <<task, caller, cancel, main>>

\* Mutant: the manager is not told that the pool is full.
SetupQuietly(t) ==
  /\ worker[t] = "popped" /\ ~PoolLocked
  /\ pool' = [pool EXCEPT !.running = @ + 1]
  /\ WorkerAt(t, "running")
  /\ UNCHANGED <<task, caller, cancel, main>>
\* g_task_thread_setup.
Setup(t) ==
  /\ worker[t] = "popped" /\ ~PoolLocked
  /\ pool' = [pool EXCEPT !.running = @ + 1, !.armed = @ \/ pool.running + 1 >= PoolSize]
  /\ WorkerAt(t, "running")
  /\ UNCHANGED <<task, caller, cancel, main>>

\* task_pool_manager_timeout, in the worker context.
ManagerTimeout ==
  /\ pool.armed /\ ~PoolLocked
  /\ pool' = [pool EXCEPT !.max = pool.running + 1, !.armed = FALSE]
  /\ UNCHANGED <<task, caller, worker, cancel, main>>

\* The function returns a value with g_task_return_*, whether the task has been completed
\* meanwhile or not; it sets ever_returned.
Returning(t) ==
  /\ worker[t] = "running" /\ ~Busy(t) /\ ~task[t].returned
  /\ WorkerAt(t, "returning")
  /\ UNCHANGED <<task, caller, cancel, pool, main>>
Returned(t) ==
  /\ worker[t] = "returning"
  /\ Set(t, [task[t] EXCEPT !.returned = TRUE])
  /\ WorkerAt(t, "running")
  /\ UNCHANGED <<caller, cancel, pool, main>>

\* Mutant: a task that was cancelled before may still change the flag.
SetOnCancelAnyway(t, b) ==
  /\ worker[t] = "running" /\ ~Busy(t) /\ ~Locked(t) /\ t \in Cancellable
  /\ Set(t, [task[t] EXCEPT !.onCancel = b, !.sure = ~b])
  /\ UNCHANGED <<caller, worker, cancel, pool, main>>
\* g_task_set_return_on_cancel, in the function; after a cancellation it is refused, and
\* changes nothing, or completes the task.
SetOnCancel(t, b) ==
  /\ worker[t] = "running" /\ ~Busy(t) /\ ~Locked(t) /\ t \in Cancellable
  /\ IF task[t].cancelled
     THEN /\ b /\ ~task[t].onCancel
          /\ WorkerAt(t, "set complete")
          /\ Set(t, [task[t] EXCEPT !.sure = FALSE])
     ELSE Set(t, [task[t] EXCEPT !.onCancel = b, !.sure = ~b]) /\ UNCHANGED worker
  /\ UNCHANGED <<caller, cancel, pool, main>>

FunctionEnds(t) ==
  /\ worker[t] = "running" /\ ~Busy(t)
  /\ WorkerAt(t, "complete")
  /\ UNCHANGED <<task, caller, cancel, pool, main>>

\* g_task_thread_complete at the end of the function, or in g_task_set_return_on_cancel.
Complete(t) ==
  /\ worker[t] \in {"complete", "set complete"} /\ ~Locked(t)
  /\ Set(t, [task[t] EXCEPT !.complete = TRUE])
  /\ WorkerAt(t, CASE ~First(task[t]) /\ worker[t] = "complete" -> "unref"
                   [] ~First(task[t]) /\ worker[t] # "complete" -> "running"
                   [] First(task[t]) /\ worker[t] = "complete"  -> "finish"
                   [] OTHER                                     -> "set finish")
  /\ UNCHANGED <<caller, cancel, pool, main>>
Finish(t) ==
  /\ worker[t] \in {"finish", "set finish"}
  /\ Set(t, Disconnected(t))
  /\ WorkerAt(t, IF worker[t] = "finish" THEN "notify" ELSE "set notify")
  /\ UNCHANGED <<caller, cancel, pool, main>>
Notified(t) ==
  /\ worker[t] \in {"notify", "set notify"}
  /\ Notify(t)
  /\ WorkerAt(t, IF worker[t] = "notify" THEN "unref" ELSE "running")
  /\ UNCHANGED <<cancel, pool, main>>
Unref(t) ==
  /\ worker[t] = "unref"
  /\ Set(t, Dropped(task[t], 1))
  /\ WorkerAt(t, "cleanup")
  /\ UNCHANGED <<caller, cancel, pool, main>>

\* g_task_thread_cleanup: the tasks in the queue are counted, then the limit is set.
CleanupCounts(t) ==
  /\ worker[t] = "cleanup" /\ ~PoolLocked
  /\ pool' = [pool EXCEPT !.pending = Cardinality(pool.queue)]
  /\ WorkerAt(t, "counted")
  /\ UNCHANGED <<task, caller, cancel, main>>
Cleanup(t) ==
  LET left == pool.running - 1 IN
  /\ worker[t] = "counted"
  /\ pool' = [pool EXCEPT !.running = left, !.pending = 0,
                          !.max = IF left + 1 > PoolSize THEN left + 1 ELSE PoolSize,
                          !.armed = @ /\ left + pool.pending >= PoolSize]
  /\ WorkerAt(t, "gone")
  /\ UNCHANGED <<task, caller, cancel, main>>

--------------------------------------------------------------------------------
(* The thread that cancels. *)

CancelAt(place) == cancel' = [cancel EXCEPT !.at = place]

\* g_cancellable_cancel: the flag, then the emission to the handlers that are connected.
Cancel ==
  /\ ~cancel.flag
  /\ cancel' = [cancel EXCEPT !.flag = TRUE, !.at = "flagged"]
  /\ UNCHANGED <<task, caller, worker, pool, main>>
EmissionStarts ==
  /\ cancel.at = "flagged"
  /\ cancel' = [cancel EXCEPT !.at = "emitting", !.left = {t \in Task : task[t].connected}]
  /\ UNCHANGED <<task, caller, worker, pool, main>>
HandlerCalled(t) ==
  /\ cancel.at = "emitting" /\ t \in cancel.left
  /\ IF task[t].connected
     THEN cancel' = [cancel EXCEPT !.at = "handler", !.task = t, !.left = @ \ {t}]
     ELSE cancel' = [cancel EXCEPT !.left = @ \ {t}]
  /\ UNCHANGED <<task, caller, worker, pool, main>>
EmissionEnds ==
  /\ cancel.at = "emitting" /\ cancel.left = {}
  /\ CancelAt("idle")
  /\ UNCHANGED <<task, caller, worker, pool, main>>

\* task_thread_cancelled (the order of the queue, which it changes, is left out).
Handler ==
  LET t == cancel.task IN
  /\ cancel.at = "handler" /\ ~Locked(t)
  /\ Set(t, [task[t] EXCEPT !.cancelled = TRUE])
  /\ CancelAt(IF task[t].onCancel THEN "complete" ELSE "end")
  /\ UNCHANGED <<caller, worker, pool, main>>
HandlerCompletes ==
  LET t == cancel.task IN
  /\ cancel.at = "complete" /\ ~Locked(t)
  /\ Set(t, [task[t] EXCEPT !.complete = TRUE])
  /\ CancelAt(IF First(task[t]) THEN "finish" ELSE "end")
  /\ UNCHANGED <<caller, worker, pool, main>>
HandlerFinishes ==
  /\ cancel.at = "finish"
  /\ Set(cancel.task, Disconnected(cancel.task))
  /\ CancelAt("notify")
  /\ UNCHANGED <<caller, worker, pool, main>>
HandlerNotifies ==
  /\ cancel.at = "notify"
  /\ Notify(cancel.task)
  /\ CancelAt("end")
  /\ UNCHANGED <<worker, pool, main>>
\* task_thread_cancelled_disconnect_notify, if the handler was disconnected meanwhile.
HandlerEnds ==
  LET t == cancel.task IN
  /\ cancel.at = "end"
  /\ Set(t, IF task[t].connected THEN task[t] ELSE Dropped(task[t], 1))
  /\ cancel' = [cancel EXCEPT !.at = "emitting", !.task = None]
  /\ UNCHANGED <<caller, worker, pool, main>>

--------------------------------------------------------------------------------
CallerStep(t) == \/ Check(t) \/ Connect(t) \/ Push(t) \/ Return(t) \/ Wait(t)
                 \/ SyncCompleted(t)
WorkerStep(t) == \/ OperationReturns(t) \/ Pop(t) \/ Setup(t) \/ Returned(t) \/ FunctionEnds(t)
                 \/ Complete(t) \/ Finish(t) \/ Notified(t) \/ Unref(t) \/ CleanupCounts(t)
                 \/ Cleanup(t)
CancelStep == \/ EmissionStarts \/ (\E t \in Task : HandlerCalled(t)) \/ EmissionEnds \/ Handler
              \/ HandlerCompletes \/ HandlerFinishes \/ HandlerNotifies \/ HandlerEnds
MainStep == (\E t \in Task : Dispatch(t)) \/ Callback \/ Completed

Next == \/ \E t \in Task : \/ CallerStep(t) \/ WorkerStep(t) \/ SpuriousWakeup(t) \/ Returning(t)
                          \/ \E b \in BOOLEAN : New(t, b) \/ SetOnCancel(t, b)
        \/ Cancel \/ CancelStep \/ MainStep \/ ManagerTimeout

Spec == Init /\ [][Next]_vars
\* Threads are scheduled, operations and functions end, the main loop runs and the
\* manager's timeout expires.
FairSpec ==
  /\ Spec
  /\ \A t \in Task : WF_vars(CallerStep(t)) /\ WF_vars(WorkerStep(t))
  /\ WF_vars(CancelStep) /\ WF_vars(MainStep) /\ WF_vars(ManagerTimeout)

--------------------------------------------------------------------------------
\* Type invariant of the module.
TypeOK ==
  /\ task \in [Task -> TaskRecord]
  /\ caller \in [Task -> CallerPlaces] /\ worker \in [Task -> WorkerPlaces]
  /\ cancel \in [flag : BOOLEAN, at : CancelPlaces, task : Task \cup {None}, left : SUBSET Task]
  /\ pool \in [queue : SUBSET Task, running : 0 .. Cardinality(Task),
               max : 1 .. Cardinality(Task) + PoolSize, armed : BOOLEAN,
               pending : 0 .. Cardinality(Task)]
  /\ main \in [at : {"loop", "callback", "completing"}, task : Task \cup {None}, drops : 0 .. 2]

\* However the end of the function, a cancellation and a change of return-on-cancel race,
\* the callback is called once: by one idle source or at once, and never for a task that
\* is run synchronously.
CompletesOnce ==
  \A t \in Task :
    /\ task[t].calls + task[t].idles + (IF main.at = "callback" /\ main.task = t THEN 1 ELSE 0) <= 1
    /\ task[t].kind = "sync" => task[t].calls + task[t].idles = 0

\* Whoever uses a task has a reference to it: the pool's thread until its last, the
\* handler though the task may be completed and disconnected under it, the main loop, and
\* the caller.
NoUseAfterFree ==
  \A t \in Task : task[t].freed =>
    /\ caller[t] = "done" /\ cancel.task # t /\ main.task # t /\ ~task[t].connected
    /\ worker[t] \in {"none", "cleanup", "counted", "gone"}

\* The result and the flags are not locked.  The caller reads the result only after the
\* function, which writes it, is over, although a cancelled task completes while its
\* function still runs; and the word of the flags has two writers (ever_returned by the
\* function, completed by who completes the task) only after a cancellation has completed
\* the task under a function that had not forbidden it.
NoDataRace ==
  \A t \in Task :
    /\ task[t].outcome = "read" => worker[t] \notin InFunction
    /\ worker[t] = "returning" /\ (caller[t] = "completing" \/ (main.at = "completing" /\ main.task = t))
         => task[t].cancelled /\ ~task[t].sure

\* A function that has set return-on-cancel to FALSE, and was told TRUE, makes its changes
\* undisturbed: the task is not completed by a cancellation before the function ends or
\* sets the flag again.
NotCompletedUnderFunction ==
  \A t \in Task : worker[t] \in InFunction /\ task[t].sure => ~task[t].complete

\* A function in the pool's thread and the thread that completes its task share the
\* result and the flags without a lock: they never meet at the result, and at the flags
\* only when a cancellation overtakes the function; one that has forbidden it is not
\* overtaken.
FunctionUndisturbed == NoDataRace /\ NotCompletedUnderFunction

\* A cancellation that the handler has heard completes a task that is to return on it, be
\* the flag set before or after; only then does the function find itself overtaken.
CancelledReturns ==
  \A t \in Task :
    task[t].cancelled /\ task[t].onCancel /\ cancel.task # t => task[t].complete

\* A task completes once, and a cancellation completes it if it is to.
CompletesRight == CompletesOnce /\ CancelledReturns

\* When all is done the task is freed; the circle of references between it and the
\* cancellable is broken.
NothingLeaks ==
  (\A t \in Task : caller[t] \in {"new", "done"} /\ worker[t] \in {"none", "gone"})
    /\ cancel.task = None /\ main.task = None
  => \A t \in Task : caller[t] = "done" /\ task[t].idles = 0 => task[t].freed

\* The references that the caller, the pool's thread, the handler, the idle source and
\* the cancellable have keep a task exactly as long as it is needed.
Lifetimes == TypeOK /\ NoUseAfterFree /\ NothingLeaks

\* Every task that is started comes back, with its callback or from the call, also when
\* the functions of a full pool wait for tasks that are still in its queue.
Returns(t) == IF task[t].kind = "sync" THEN caller[t] = "done" ELSE task[t].calls = 1
EveryTaskReturns == \A t \in Task : caller[t] # "new" ~> Returns(t)
================================================================================
