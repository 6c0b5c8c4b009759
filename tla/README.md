# A TLA+ verification of GLib

GLib is the C library under GTK and GNOME.  Most of its 670 000 lines of C are
conversions, containers and wrappers of operating-system calls; what makes it
hard to get right is a small concurrent core on which everything else is built.
This directory models that core: one module per component, translated from the
C source, TLC configurations that check the modules on small instances, and
TLAPS proofs of the results that matter for every instance.

## Inventory

The components and what each keeps, does and promises.  `PROJECT.json` lists which
are modelled, wholly or in part; see also "Not modelled".

| Component | State | Operations | What is hard | What makes it correct |
|---|---|---|---|---|
| `GMutex`, `GCond` (`glib/gthread-posix.c`) | one futex word, one counter | lock, trylock, unlock, wait, wait_until, signal, broadcast | lost wakeups between an exchange and a futex call | mutual exclusion, no forgotten sleeper, signal and broadcast release waiters |
| `GMainContext` ownership (`glib/gmain.c`) | `owner`, `owner_count`, `waiters`, the condition, `GMainLoop.is_running` | acquire, release, wait, run, quit, iteration | several threads running loops on one context; recursive loops | one owner, balanced counts, a quit loop returns, a waiter gets the context |
| `GMainContext` iteration (`glib/gmain.c`) | the source lists, flags, `pending_dispatches`, `timeout`, `poll_changed`, the wakeup | prepare, query, poll, check, dispatch | the lock is dropped around every callback; other threads attach, destroy and change sources meanwhile | no lost wakeup, nothing destroyed is dispatched, a source does not recurse, priorities |
| `GSource` (`glib/gmain.c`) | flags, reference count, callback, children, parent | attach, destroy, ref, unref, set_callback, set_priority, set_ready_time, add/remove child | destroy racing dispatch, context teardown racing destroy | no use after free, freed once, nothing leaks |
| `GWakeup` (`glib/gwakeup.c`) | an eventfd | signal, acknowledge | acknowledging a signal that was meant for the next poll | a signal makes the next poll return |
| Unix signal and child watches (`glib/gmain.c`) | `unix_signal_pending`, per-source `pending`, `child_exited` | signal handler, worker thread, prepare/check/dispatch | order of clearing flags and of `waitpid` | no signal and no exit status is missed |
| `GThreadPool`, `GAsyncQueue` (`glib/gthreadpool.c`, `glib/gasyncqueue.c`) | queue, thread counts, the unused-thread queue | push, set_max_threads, free | idle threads migrating between pools, free while running | every task runs once, limits hold, free returns |
| `GCancellable` (`gio/gcancellable.c`) | `cancelled`, `cancelled_running`, the wakeup | cancel, reset, connect, disconnect, dispose | disconnect waiting for the handler that is running | the handler runs once, nobody disconnects into a running handler |
| `GTask` (`gio/gtask.c`) | result, flags, callback | return, run_in_thread, cancel | return racing cancellation | the callback runs exactly once |
| `GOnce`, `GBitLock`, `GRWLock`, `GRecMutex` (`glib/gthread.c`, `glib/gbitlock.c`) | status words | once, lock, unlock | double-checked initialisation | initialised once |
| `GObject` (`gobject/gobject.c`) | reference count, weak refs, toggle refs | ref, unref, weak_ref_get, toggle | resurrecting in dispose, a weak reference taken while the last one goes | finalised once, never used after |
| `GSignal`, `GClosure` (`gobject/gsignal.c`) | handler lists, emission stack | connect, disconnect, block, emit | handlers changed during emission | every handler connected before and not disconnected runs |
| Containers (`glib/ghash.c`, `gtree.c`, `gsequence.c`, `glist.c`, ...) | data structures | insert, remove, lookup, iterate | sequential algorithms | agree with a map, a set or a sequence |
| `gio` streams, D-Bus, settings, files | I/O state | many | mostly I/O | not planned |
| `girepository`, `gmodule`, `gthread`, `rust/glib-native`, `tools`, `tests` | none of their own, or a separate port | | | not planned |

How they interact: every operation of a main context runs under one `GMutex`,
which is dropped around every callback of the user, around `poll()` and in
`g_cond_wait`; a `GSource` finds its context through a pointer guarded by the
global `source_destroy_lock`; other threads reach a sleeping owner only through
the `GWakeup`.  `GThreadPool`, `GCancellable` and `GTask` are clients of the
mutex and of the context; signals and closures are clients of `GObject`.  `GTask`
runs its functions in one shared `GThreadPool`, listens to a `GCancellable` and
ends in an idle source of a main context; Unix signals travel from the handler
through the worker thread's context to the watch's; a `GCancellable` keeps its
mutex while it emits, and its sources meet that emission through a pointer that
both sides exchange.

## Plan

Done, in this order, because each module rests on the ones before:

1. `Monitor`, `GMutex`: the lock and the condition everything else assumes.
2. `GMainLoop`: who may iterate a context, and how threads wait and quit.
3. `GMainContext`: one iteration over the sources, with everything other threads
   may do meanwhile.
4. `GSourceLifetime`: reference counts of sources, callbacks and contexts.
5. `GSourceChild`: child sources.
6. `TaskPool`, `GThreadPool`: pools, their queues, and the threads they share.
7. `GCancellable` with its sources; `GUnixSignal`, signal and child watches.
8. `GObjectRefs`: references, weak references, dispose and finalization.
9. `GTask`, on top of the pool, the cancellable and the main loop.
10. Proofs: `GMutexProofs`, `GMainLoopProofs`.
11. Proofs: `GUnixSignalProofs`, `GTaskProofs`, `GCancellableProofs`,
    `GObjectRefsProofs`.
12. Proofs: `GThreadPoolProofs`, with the refinement of `TaskPool`.

Next:

13. Proofs: `DispatchBlocks` of `GSourceChild`, `RefCounting` of `GSourceLifetime`,
    `PendingSound` and `NoOversleep` of `GMainContext`.
14. Poll records: `add_poll`, `remove_poll`, `query` and the distribution of
    `revents` in check, with the records that stay stale above `max_priority`.
15. `GOnce`, `GBitLock`; toggle references and weak notifies of `GObject`; `GSignal`
    emission with handlers that are blocked, connected and disconnected in it.

## Modules and the code

A step of a model is the code between two points where a lock is dropped or an
atomic instruction is executed; `PROJECT.json` names the lines of every definition.
An `MC...` module only names the model values of its configuration.

**`GMutex`** (`glib/gthread-posix.c`, the futex implementation).  `word` is the
mutex, `counter` the condition; each thread has a label between its atomic
instructions.  Each exchange, compare-and-exchange and futex call is an action.
`FUTEX_WAIT` compares and sleeps atomically, and may return spuriously;
`FUTEX_WAKE` wakes any sleeper.  The deadline of `g_cond_wait_until` may pass at
any time.  **`Monitor`** is the abstract specification: a lock that at most one
thread holds.  The counter has `CounterSize` values; the bound `NoWrapInWindow`
keeps it from wrapping completely between a waiter's sample and its sleep, which
takes 2^32 signals in the code.

**`GMainLoop`** (`glib/gmain.c`).  `owner`, `ownerCount`, `waiters`, `wakeup` and
`running` are the fields of the same names; `stack` holds the calls each thread is
inside of, because `g_main_context_iteration`, `g_main_loop_run` and
`g_main_context_acquire` may be called again from every callback.  `asleep` are
the threads in `g_cond_wait` on the one condition of the context.  Sources are
abstracted to "a callback runs here" and "poll() may return".

**`GMainContext`** (`glib/gmain.c`).  The source lists, the flags of each source,
the cached time, `timeout`, `poll_changed`, the wakeup and `pending_dispatches`;
`frames` has one entry per iteration of the owner, nested ones last, with its
`GSourceIter` and locals.  A turn of the loops of prepare and check is an action,
callbacks begin and end, and `Attach`, `DestroyBegin`, `DestroyEnd`,
`SetReadyTime` and `SetPriority` are interleaved wherever the mutex is free, also
during prepare() and check().  Two kinds of source stand for all: `Timer` (a ready
time, neither prepare() nor check()) and `Custom` (a descriptor; its prepare() and
check() say what they like, so it covers idle sources).  A destroyed source leaves
its list when its last internal reference goes (`Unref`), and a list that becomes
empty is freed (`FreeLists`); where the iterator would then read it, the C is
undefined and the model stops.  The histories `quiet` and `moved` and the set
`leaked` record the cases that the properties except.

**`GSourceLifetime`** (`glib/gmain.c`).  One source, its callback records and its
context, with their reference counts, `source_destroy_lock` and the mutex.  A
thread has a stack of the steps it still has to take, so that calls nest as they
do in the code: the `g_main_context_unref` at the end of `g_source_destroy` may
become the teardown of the context.  The checks of `g_source_attach` and the locked
rest are two steps, and so are `g_source_destroy`'s look for a context and the clearing
of the flag when it found none.  Two attaches of one source at the same time are a
programmer's error and excluded, and `g_source_set_callback` without a context, which
takes no lock, is called only by the sole holder.

**`GSourceChild`** (`glib/gmain.c`).  The list, parents, flags and the dispatch of
nested iterations, in the callbacks of parents and of children.  prepare and check are
one step here, whose outcome is any set of sources that have something to do.
`g_source_add_child_source` checks (`AddChild`) and inserts (`InsertChild`) in two
steps, between which the parent may be destroyed; one such call is in progress at a
time, and nobody else attaches or adds the child meanwhile.  If the parent has no
context the insertion is still one step, and `g_source_remove_child_source` of such a
parent is left out.  What a child leaks that is destroyed before it is inserted is the
subject of `GSourceLifetime`.

**`GThreadPool`** (`glib/gthreadpool.c`, with `glib/gasyncqueue.c` as far as it is
used).  `pools` are the `GRealThreadPool`s with their queues, `threads` the calls of
`g_thread_pool_thread_proxy`, each at a place with its local variables;
`unusedQueue`, `unusedThreads`, `maxUnused`, `killUnused` and `serial` are the static
variables, read and written one at a time where the code does.  `asleep` are the
threads in a timed or untimed wait on their queue's condition; a timeout may end a
wait at any moment, also after a signal was sent.  Clients push, move tasks to the
front, change both limits and free pools in all four combinations of immediate and
wait; `g_thread_try_new` fails `MaxFailures` times, wherever it is called for a pool's
thread.  (That the helper thread `pool-spawner` cannot be started, `gthreadpool.c:633-646`,
is left out: the call then returns NULL with nothing started.)  **`TaskPool`** is what this
promises to clients, without threads: each task is queued, run and finished once, or
dropped by an immediate free, and no pool goes while a task runs.

**`GCancellable`** (`gio/gcancellable.c`, with emission and disconnection of
`gobject/gsignal.c` as far as it is used).  `cancelled` and `cancelledRunning` are
the atomic fields, `mutex` is held over an emission, `handlers` is the handler list;
each thread has a place in one call, with the handlers of its emission still to run.
A `GCancellableSource` has its references, the pointer behind `self_ptr` that the
handler and dispose exchange, and the flag that dispose spins on.  A disconnect waits
for the mutex and the emission in a place of its own (`wait`), and is then in the gap
between its unlock and the removal of the handler (`gap`).  A reset may come at any
time, with live sources too, as `gio/tests/cancellable.c:836-877` does it (the
documentation, `gcancellable.c:258-259`, calls it undefined while an operation uses the
cancellable).  A source that was triggered hears of the next cancellation only if it is
prepared in between, which puts its pointer back (`due`).  `overtaken` are the handlers
and sources that are half way through a disconnect or a prepare when an emission begins.

**`GUnixSignal`** (`glib/gmain.c`).  The handler's activations, the worker thread, a
user thread that makes and destroys watches and itself runs
`dispatch_unix_signals_unlocked`, and the main thread, which iterates the watches'
context; all flags are single accesses.  A child watch polls a pidfd or depends on
`SIGCHLD`, as the system decides when it is made; children exit at any time and may be
reaped by other code.  Two simplifications: the reference to the context that
`wake_source` takes and drops (`gmain.c:5802-5807`) is left out, since the end of the
context is not modelled here, so nothing is said about a last reference dropped with
`unix_signal_lock` held; and every watch has a callback (5913-5918 and 6190-6195, which
warn and end the watch, are left out).

**`GObjectRefs`** (`gobject/gobject.c`).  `object` has the count, the flags and the
data list's lock, `data` the `WeakRefData` with its own count, lock and list, `weak`
the `GWeakRef` with its pointer and bit lock.  Every compare-and-exchange of ref and
unref, every lock and every part of a critical section is a step.  dispose may keep a
reference, and threads may set and get weak references while it runs.  Objects have
an identity of their own: memory is not reused.  `Commit` joins the unlock of the old
object's `WeakRefData` (`gobject.c:6097`) with the setting of the `GWeakRef` (6120); in
between the old list lacks a `GWeakRef` that still points to the object, but it is locked,
so whoever meets it has to wait.  Its paths for an object that was destroyed before
being set and for too many weak references (6105-6116) are dropped.  The data
list's lock inside `weak_ref_data_get` (6041, 6067, 6226, 6259, 4703) is a leaf, nothing
is waited for under it, and is left out of the order of locks.

**`GTask`** (`gio/gtask.c`).  `task` has the fields under the lock and those that have
none; `caller`, `worker`, `cancel` and `main` say where the call that starts each
task, the pool's thread, the cancelling thread and the main loop are; `pool` is the
queue with its limit and the manager that raises it.  A task is run in the pool,
synchronously, or by an operation of its own; a function may start tasks and wait for
them.  The pool is taken at its word, `TaskPool`'s, which the run `pool` checks;
whether the callback may be called at once is a free choice, since it depends on the
clock.  A function may return a value at any time, also after the task was cancelled and
completed.  `Push` joins `g_thread_pool_push` (`gtask.c:1670`) with the unlock (1714,
1718) and the caller's unref (1720); in the code the function may begin before the unlock,
but what it does under the task's lock waits for it.  What a lost write to the flags does beyond `ever_returned` is not modelled.

## Runs

| Run | Bounds | What it shows |
|---|---|---|
| `mutex` | 3 threads, counter of 3 values | a thread asleep on the word is always covered by `CONTENDED`, a wake on its way or a thread about to write `CONTENDED`; a broadcast leaves nobody asleep who was waiting, a signal under the mutex releases someone who was; the code implements `Monitor`; a contended mutex is taken by somebody in the end |
| `loop` | 2 threads, 2 loops, calls nested 3 deep | only the owner iterates, `owner_count` is exactly what its calls acquired; a quit loop never sleeps in poll(), and returns |
| `loop_waiters` | 3 threads, 1 loop, no nesting | **violation**, see "Findings" |
| `context` | a timer that may recurse and a descriptor source that may not and moves between 2 priorities, 2 nested iterations, 2 clock values | poll() sleeps no longer than any source allows; what is pending is alive, of the most urgent priority and stays ready; the flags blocked and `IN_CALL` are exact; iterators stay in live lists; an urgent source is dispatched in the end |
| `lifetime` | 3 users, 2 callback records | exact counts, no use after free and no leak but for three races (`RefCounting`); finalize() without the writer lock but in one case |
| `child` | 3 sources, 2 nested iterations | a source is blocked all through its dispatch, children exactly with their parent; a child brings its parent along; children of a source that is being destroyed die |
| `pool` | 1 pool, 2 tasks, 2 threads, limits 2 then 0 or 1, no unused threads kept, one creation fails | the pool lives as long as anybody reaches it, unless its creation fails half-way; no signal, hand-over or start is missed; `TaskPool` is implemented; every task is served, every freed pool goes |
| `pool_free` | 1 pool, 2 tasks, 2 threads | **violation**, see "Findings" |
| `cancellable` | 2 threads, 1 handler, 1 source, 1 descriptor, 2 resets | a callback runs once per cancellation and not after its disconnect, descriptor and source see every cancellation, no freed source is used, each but for a cancel that overtakes; every call returns |
| `unix_signals` | 1 child watch, 1 signal watch, 1 activation of the handler at a time, 2 signals | nothing is forgotten on the way, nobody sleeps through it; no freed watch is met and no child is reaped for nothing; everything is reported in the end |
| `object_refs` | 2 threads, 2 objects, 1 shared weak reference, 1 reference per thread and object | exact counts, no use after free, no leak; a weak reference and its object agree; it is cleared by the last reference only; the three kinds of lock admit no deadlock |
| `task` | 2 tasks, a pool for 1, the second nested in the first or not, and cancellable | completed once; function and completion meet only after a cancellation, and never at the result; nothing leaks or dies early; every task returns, also one that a full pool waits for |

A property that joins several invariants (`RefCounting`, `NothingForgotten`, ...)
names its parts, each of which is stated on its own in the module.

Why the bounds are enough: the lost-wakeup cases of the mutex need a holder, a
sleeper and a thread that barges in; a counter of three values tells "unchanged"
from "changed once" and "changed more than once".  Ownership is proved for every
number of threads; the run adds the other properties, which are about one loop
and one other thread.  Two nested iterations are enough where every interaction is
between an iteration and the one around it: the pending array, the flags and the
iterator of the outer one are what the inner one can disturb.  Two
priorities tell "more urgent" from "less urgent", and the clock values "not yet"
from "due", with a third value for no ready time at all.  Three users are one that
destroys, one that drops and one that sets the callback; three sources a parent with
two children or a parent with a child and a stranger.  Two tasks and two threads make
one thread leave, or come from the global queue, while the other works; the limits say
"below", "at" and "frozen"; that a thread reads the limit again after a marker
(`gthreadpool.c:214`) takes two changes of it, which only the proofs reach.  Each race of a
cancellable is between one emission and one other call, so two threads meet all of them;
the safety properties are proved for any number, and the inductive invariant was checked
with three.  The second reset lets a source that was triggered, prepared and triggered
again be reset once more.  One child and one
signal watch have different ways through the worker; the second signal meets the scan
of the first.  Two objects are needed for an order of locks, and one weak reference
that moves between them for everything that is retried.  The smallest pool that can
block itself has one thread and a function that starts a second task.

Deadlock is checked where the system never stops (`mutex`, `loop`, `context`,
`child`) and in `lifetime`, which has an explicit final step `Done`.  The other models
end when tasks, signals or references are used up; there the liveness properties say
that no call is left hanging, and `NoDeadlock` says it of `GObjectRefs`, which has none.

### Fairness

- `GMutex`: a thread inside a call is scheduled; nobody has to call anything, and
  no wake is spurious by fairness.
- `GMainLoop`: weak fairness of each thread's own steps: callbacks return, and
  poll() returns once the wakeup is readable or it may not block.  No event is
  promised and no thread has to iterate.
- `GMainContext`: weak fairness of the owner's steps and of the clock, and strong
  fairness of `Iterate`: the program keeps running its loop, although other calls
  (`g_main_context_pending`) may come between.  Of other threads `UrgentIsDispatched`
  assumes, in its hypothesis, that they stop in the end changing priorities during
  prepare() and check(), and descriptors during poll(): a check that finds `poll_changed`
  gives up (`gmain.c:4276-4281`), so a thread that does so for ever starves the loop.
- `GSourceChild`: strong fairness of a destroying thread, which has to get a
  mutex that others take and release again and again (`LockIsTaken` shows that the
  mutex is always taken by somebody; that it is not always somebody else is the
  scheduler's), and weak fairness of dispatch.
- `GThreadPool`: weak fairness of each call and each thread in it: tasks end, a timed
  wait ends.  Clients do nothing by fairness.
- `GCancellable`: strong fairness of each thread inside a call, for the same reason as
  in `GSourceChild`: the mutex is taken again and again.  Callbacks return.
- `GUnixSignal`: weak fairness of delivery by the kernel, of the handler, the worker,
  a user thread inside a call, and the main thread.  Children need not exit.
- `GTask`: weak fairness of callers, pool threads, the cancelling thread, the main loop
  and the manager's timeout.  Functions and operations end; nobody has to cancel.
- `GObjectRefs` has no fairness: all its properties are about safety.

### Where the code breaks its promises, and how the properties say so

No run forbids a use of the API because a property would fail there, except the two
programmer's errors named under `GSourceLifetime`.  Where the code
does not do what its documentation, a comment or a careful reader expects, the property
names the exception exactly, by the state or by a history variable that records only that
race, and says that nothing else breaks it; where the C is undefined afterwards the model
stops.  The most telling two of these defects have a run of their own ("Findings").

- `g_main_context_pending` in a dispatch callback refills `pending_dispatches` under
  the outer dispatch, which then skips entries and drops the array with their references
  (`gmain.c:3537`, 3628; "Dispatches all pending sources.", 4423).  `leaked` has those
  references.  `PassedOverStaysReady` says why the source is not lost: it is still
  `G_SOURCE_READY`, so that a later check lists it again; `UrgentIsDispatched` excepts
  the sources in `leaked`, which a callback that does it every time may starve.
- `g_source_set_priority` during another source's prepare() or check() frees the
  `GSourceList` that the iterator points to (`gmain.c:1214-1217`, read at 1064), although
  "we have to keep it reffed until after we advance iter->current_list" (1078-1079).
  `IterListLives` says that nothing else does (`moved`), destruction in particular.
- The owner attaches a source from its own prepare().  `g_source_attach_unlocked` wakes
  only another owner (`gmain.c:1267`), the iterator may have passed the place of the new
  source, and poll() sleeps past it.  `NoOversleep` excepts those sources (`quiet`), and a
  prepare() during which some priority changed, which moves sources past the iterator.
- An attach checks the source without a lock (`gmain.c:1307-1309`) and a destroy that
  finds no context clears the active flag without one (1430-1438).  If the source is
  attached in between, or its context is between the two loops of its teardown (572-586;
  "This will cause them to be freed", 624-625), the context's reference is never dropped.
  `RefCounting` counts that one reference (`orphaned`): the source leaks exactly then.
- `g_source_unref` reads the context once (`gmain.c:2521`); if another holder attaches,
  destroys and drops the source before the decrement, the last unref takes it for
  unattached and frees it while it is linked.  And a `g_source_set_callback` that found no
  context drops the same callback record as the teardown (1828, 1344).  `RefCounting`
  holds up to these two (`lost`).
- A context that goes with dispatches pending drops their references with
  `source_destroy_lock` held for writing (`gmain.c:553`); if one is the last, finalize()
  runs then, and a `GSource` method called there waits for its own thread.
  `FinalizeMayCall` says that this is the only case: the source was destroyed and given up
  by everybody while it was pending.
- A child's dispatch that iterates the context dispatches its parent, whose end
  unblocks the child in its own dispatch (`gmain.c:3469`, 3524; "all processing of this
  source is blocked until the dispatch function returns", 2132-2133).  `DispatchBlocks`
  excepts exactly those children until their dispatch ends (`overrun`).
- `g_source_destroy` of a source without a context leaves its children alone
  (`gmain.c:1437-1438`; "when @source is destroyed, it will destroy @child_source as well",
  1634), and a child that is inserted after its parent was destroyed, between the checks of
  `g_source_add_child_source` and its lock (1661-1668), lives on, blocked for ever if the
  parent was in its dispatch (`late`).  `ChildDies` speaks of children that have the parent
  while it is being destroyed under the lock.
- `g_thread_pool_new_full` frees an exclusive pool when a thread cannot be created, also
  while the earlier ones run (`gthreadpool.c:650-675`).  `PoolLives` excepts exactly that
  (`Abandoned`), and the model stops there.  Where creation fails for a shared pool, a task
  may wait for ever, which the liveness properties except by `failures`.
- `g_cancellable_disconnect` lets go of the mutex before it disconnects
  (`gcancellable.c:700-702`); a cancel may call the callback in between and after the
  disconnect has returned, although "cancelled_handler is never called after this, it is
  now safe to free the data" (138-139, also 113-116 and 674).
  `NotCalledAfterDisconnect` excepts exactly the handlers in that gap when an emission
  begins (`overtaken`).
- prepare puts the source's pointer back after it has seen no cancel running
  (`gcancellable.c:763-766`); a cancel that starts in between has taken it already, and a
  dispose no longer waits for the handler, the race that the comment at 799-811 means to
  eliminate.  `SourceLives` excepts the sources in the middle of a prepare when an emission
  begins (`overtaken`).
- A function that returns a value after its task was cancelled and completed, as the
  class example (`gtask.c:411-415`), its text (386-389) and a test
  (`gio/tests/task.c:1935`) do, writes `ever_returned` in the word in which the main thread
  sets `completed`, without a lock (`gtask.c:592-597`, 1368, 1395).  `NoDataRace` says that
  two writers meet there only then, never under a function that forbade it with
  return-on-cancel FALSE, and never at the result.

A disconnect from the handler itself is documented as wrong and not modelled.  Met while
modelling `GTask`, and in no property: a cancellation that comes between the check and the
connection of the handler (`gtask.c:1644`, 1661), or before the start of a task with
return-on-cancel FALSE, is not heard by the handler, since it is connected with
`g_signal_connect_data`.  The documentation warns of a livelock of about ten tasks that
wait for one another in the pool (`gtask.c:1691-1693`); `EveryTaskReturns` shows for two
tasks in a pool of one that the manager's timeout resolves it, as the comment at 644-649
intends, however long that takes.

### Findings

`pool_free`: `g_thread_pool_wakeup_and_stop_all` pushes one bogus item per thread to
wake it (`gthreadpool.c:997-998`), but a thread that is not waiting in the queue leaves
without taking one, and `g_thread_pool_free_internal` removes a single item (972): with
two such threads the free function of the items is called for what is no item, which
the comment at 969-971 means to prevent.

`loop_waiters`: releasing the context unlinks the first `GMainWaiter` but signals a
condition that all waiters share (`gmain.c:3749-3754`).  Another waiter may wake and remove
its own record (3791); the first sleeps on without a record, also when nobody owns the
context.  The documentation says the wait lasts "until that owner releases ownership or
until @cond is signaled" (3823-3824).

## What is proved

For every value of the constants, by TLAPS:

- `GMutexProofs`.  `TypeCorrect`, `MutexSafe`, `SleepersCovered`, `BroadcastSafe`,
  `SignalSafe` and `Refinement` (every step of `GMutex` is a step of `Monitor` or
  changes nothing there).  Assumptions: the counter has at least two values.  The
  inductive invariant joins to the properties what they need: where a wake returns
  to (`RetOK`), that a waiter overtaken by a broadcast has a sample that differs
  from the counter (`OwedInv`), and that while a signaller holds the mutex every
  blocked thread is asleep and was there when the signal began (`PromiseInv`).
- `GMainLoopProofs`.  `TypeCorrect` and `OwnerSafe`, for any number of threads and
  loops and any depth.  `OwnerBalanced` alone is not inductive: it does not say that
  a thread without ownership has no call in progress but perhaps one that waits.
  `Owned` says that, and that the owner's calls form a chain in which each leaves its
  own weight in the count; the proof then shows for each of a few shapes (push, pop,
  replace the innermost call) that the chain is kept, and that each action has one of
  the shapes.  `QuitSafe` proves `QuitWakesPoll`.  Its invariant speaks of more calls
  than the property: of those still in prepare, which will poll next, and of every
  call on a stack, not the innermost alone (`AllHeed`); and it says that only the
  innermost call of a thread is outside a callback or the wait to acquire (`Nested`).
  With `Owned`, the check that acknowledges the wakeup then finds no other call in
  prepare or poll, so none can lose it.

- `GUnixSignalProofs`, for any number of watches, activations of the handler and
  signals.  `SignalsSafe` proves `NothingForgotten`, `WatchesSafe` proves `WatchesSound`,
  and `HandlerInstalled` that `unix_signal_refcount` is the number of listed watches of
  the signal, so that the handler is removed with the last one.  The invariant follows a
  signal along its way: a bit in `unixPending` has an activation or a scan that comes for
  it, also after `anyPending` was cleared (`PendingTold`, `FlagTold`), and a scan
  that has taken the bits still has every listed watch of the signal to visit.  `ListedInv`,
  `NewInv`, `FinalInv` and `VisitInv` say which phase of a watch is on the list and who may
  still meet it; without them a scan could meet a watch that the other thread frees.
- `GTaskProofs`, for any finite set of tasks and any limits of the pool.  `CompletionSafe`
  proves `CompletesRight`, `LifetimesSafe` proves `Lifetimes`, `FunctionSafe` proves
  `FunctionUndisturbed`, with functions that return at any time, and `ThreadsCounted` that the pool counts the threads that run a function exactly.  The
  invariant is one conjunction per task.  `Stage` says which places of caller, worker,
  cancelling thread and main loop go together; `Refs` counts the references; `Once` counts
  the tokens, of which there is one for the completion until it is delivered, whoever
  has it; `Connected`, `Flags` and `Read` tie the handler, `thread_complete`,
  `thread_cancelled` and the result to the stage.  A step of one task leaves the conjunct
  of every other task alone (`Frame`), so each action is proved for its own task only.
- `GCancellableProofs`, for any finite set of threads and any handlers, sources,
  descriptors and resets, and cancels at any time.  `HandlersSafe` proves `HandlerCalls`,
  `SourcesSafe` proves `SourceLives`, `CancelSeen` proves `CancelIsSeen`, and
  `SourcesCounted` that the references of a source are exactly its holders.
  There are four layers, each
  inductive with the ones before.  `Base`: the mutex is held exactly by the emission or a
  direct call, `cancelled_running` counts exactly that emission, and what is half way
  through a disconnect or a prepare while an emission runs is in `overtaken`
  (`BoundInv`), so that the exceptions of the properties are no larger than the races.  `CallsInv`: the
  handler list has no handler twice, and what an emission still owes each user.
  `SourceInv`: the count, who took the pointer behind `self_ptr`, and that a thread
  disposing of a source has the only reference but for the handler's.  `SeenInv`: a source
  that is neither ready nor dispatched after a cancellation is still in the emission's list
  or in the hands of its maker.
- `GObjectRefsProofs`, for any finite set of threads and any objects, `GWeakRef`s and
  numbers of references.  `RefsSafe` proves `RefCounting`, `WeakRefsSafe` proves
  `WeakRefsExact`, `ClearsOnlyLast` proves the action property `ClearedOnlyLast`, and
  `LocksHeld` says who has each lock.  `GObjectRefsFacts` has the invariant, five layers
  of it: what a thread works on, by its place (`Base`); who has a lock (`Locks`); that a
  `GWeakRef` points to an object exactly if it is in its list, which in the code
  holds while nobody has locked the `GWeakRef` and in the model, where `Commit` is one
  step, always; it needs the locks, as two threads may be about to move it (`Lists`); the counts of objects
  and their ends (`Life`); the counts of the `WeakRefData` and of the notification queues
  (`Rest`).  `Life` is where the races are.  A thread that has seen a count of one, and
  either has the `WeakRefData`'s lock or knows that there is no `WeakRefData`, has the one
  reference that is left (`Sole`): another could come from a holder, which the count
  excludes, or from a `GWeakRef`, which that lock excludes.  An object whose count is 0 has
  one thread, `Doomed`, that will free it, and what still points to it is
  being cleared by that thread under the same lock; so `g_weak_ref_get`, which has the
  lock, finds the count above 0.  A lemma for each of the 51 alternatives of the actions,
  named `Did` and the alternative, says what it leaves in each field, and a lemma `Step`
  that it keeps the layers.
- `GThreadPoolProofs`, for any pools and tasks, any finite set of threads and any limits,
  with creation failing anywhere.  A step that frees a pool under its threads (`Abandons`)
  ends the behaviour, since the C is undefined from there; the invariant holds up to it, and
  the properties with their one exception after it.
  `PoolsLive` proves `PoolLives`, `TasksServed` proves `NoTaskStranded`, and `Refinement`
  that every step is one of `TaskPool` or changes nothing there (`ImplementsTaskPool`).
  The invariant has three layers.  `Base`: `num_threads` is the number of the pool's
  threads and of its entries in the global queue, `unused_threads` that of the threads on
  their way through it, and what each phase of a pool allows (a bogus item is in the queue
  of a pool that is being stopped only); so a thread that takes `num_threads` to 0 knows
  that nobody is left.  `Tasks`: the queue has each queued task once (`QueueInv`), a running
  task has exactly one thread (`RunInv`), and a pool without threads that is freed without
  waiting has nothing in its queue that no thread comes for (`FrozenInv`);
  without the last, `Release` of `TaskPool` could not be shown.  `Served` is
  `NoTaskStranded`, with the start of threads seen while it is under way: a shared pool has
  no more tasks than threads that come for them and threads still to be started, or has as
  many as it may have, and an exclusive pool has its threads or is about to
  (`ConservingInv`).  A lemma `...Did` for each action says what it leaves in each field,
  and one for each layer that it keeps it.

The assumptions are `ASSUME`s of the modules, evaluated in every run: sets that are counted are
finite, and `None` is no thread, watch or task.  The proofs showed two places in the
models where arms of a `CASE` overlapped, so that the formula left open which one applied
(`Push` and `Complete` of `GTask`, `MainDispatches` of `GUnixSignal`); the arms are
disjoint now, in the order in which the code tests them.

The type invariants of `GMutex` and `GMainLoop` and mutual exclusion are proved and not
checked by a run of their own.  Only model-checked: the invariants of `GMainContext`,
`GSourceLifetime` and `GSourceChild`, for which no inductive invariant has been worked out.
`FreeFuncExact` of `GThreadPool` is false (see the finding).  `NoDeadlock` and the
liveness properties of every module are beyond the prover (`ENABLED`, fairness), and stay
with TLC.

## Not modelled

- Of the main context: the poll records and their `revents`, so that nothing is said
  about records that stay stale above `max_priority` (`gmain.c:4301`); identifiers of
  sources, which wrap at 2^32 (1234), and lookup by them, which gives no reference
  (2551); `G_MAIN_CONTEXT_FLAGS_OWNERLESS_POLLING`; `g_main_context_wait` with a
  condition of the caller's own, which is deprecated; prepare() that returns a timeout;
  the thread-default stack; the functions of timeout and idle sources, which are kinds
  of source here.
- Of `GSource`: the dispose function and resurrection in it; several sources in one
  teardown; `g_source_set_callback` on an unattached source by several holders;
  children of children; changing `G_SOURCE_CAN_RECURSE` while attached.
- Of `GThreadPool`: the sort function, the idle time as a setting, and a promise about
  limits: a thread that reads an old limit and the new serial (`gthreadpool.c:154`)
  takes a marker for one that it knows, so a new limit reaches most threads only.
- Of `GCancellable`: the stack of current cancellables and references to the
  cancellable.  Of `GUnixSignal`: the Windows branches and the wait status.
- Of `GObject`: toggle references and weak notifies, floating references, construction,
  properties and signals.  Of `GTask`: the order of the queue, kinds of result, errors.
- `GOnce`, `GBitLock`, `GRWLock` and `GRecMutex`; `GSignal` and `GClosure` beyond what
  `GCancellable` needs; the platforms without futexes, where `GMutex` wraps pthreads or
  SRW locks.
- Containers, strings, parsers and the Unicode tables, by far most of the lines: they
  are sequential, have dense unit tests, and what they compute for every input is
  neither within TLC's bounds nor within the prover's reach (induction over data).
- `gio` streams, files, sockets, D-Bus and settings, which are input and output around
  `GTask` and `GCancellable`; `girepository`, `gmodule`, tools, tests, and the separate
  Rust port.
