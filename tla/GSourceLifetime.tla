---------------------------- MODULE GSourceLifetime ----------------------------
(*****************************************************************************)
(* References to a GSource, to the data of its callback and to its context   *)
(* (glib/gmain.c): threads that hold the source destroy it, change its       *)
(* callback and drop it, while the owner of the context dispatches it and    *)
(* the last g_main_context_unref tears the context down, in any thread.      *)
(* Each thread has a stack of the steps it is still to take, next one first; *)
(* a step ends where the code drops a lock or calls code of the user.        *)
(*****************************************************************************)
EXTENDS Integers, Sequences, FiniteSets

CONSTANTS User,            \* threads that hold a reference to the source
          Owner,           \* the thread that iterates the context
          Callback,        \* GSourceCallback records
          None

Thread == User \cup {Owner}

ASSUME LifetimeAssumption == /\ IsFiniteSet(User) /\ Owner \notin User
                             /\ None \notin Thread \cup Callback

VARIABLES srcRef,     \* source->ref_count
          srcCtx,     \* source->context is set
          active,     \* G_HOOK_FLAG_ACTIVE
          linked,     \* the source is in context->source_lists
          srcFreed,
          cb,         \* source->callback_data
          cbRef,      \* callback->ref_count
          notified,   \* the callbacks whose destroy notify has been called
          ctxRef,     \* context->ref_count
          ctxFreed,
          mutex,      \* who holds context->mutex
          writer,     \* who holds source_destroy_lock for writing
          pending,    \* the source is in context->pending_dispatches
          holds,      \* the users that still hold their reference
          app,        \* the owner still holds its reference to the context
          null,       \* threads in g_source_unref_internal with context NULL
          orphaned,   \* history: ACTIVE was cleared without the lock of its context
          lost,       \* history: the step was taken after which the C is undefined
          todo        \* per thread: the steps it is still to take

srcVars == <<srcRef, srcCtx, active, linked, srcFreed>>
cbVars == <<cb, cbRef, notified>>
ctxVars == <<ctxRef, ctxFreed, mutex, writer, pending>>
userVars == <<holds, app>>
history == <<orphaned, lost>>
vars == <<srcVars, cbVars, ctxVars, userVars, null, history, todo>>

Init == /\ srcRef = Cardinality(User)
        /\ srcCtx = FALSE /\ active = TRUE /\ linked = FALSE /\ srcFreed = FALSE
        /\ cb = None
        /\ cbRef = [c \in Callback |-> 0] /\ notified = {}
        /\ ctxRef = 1 /\ ctxFreed = FALSE
        /\ mutex = None /\ writer = None /\ pending = FALSE
        /\ holds = User /\ app = TRUE
        /\ null = {}
        /\ orphaned = FALSE /\ lost = FALSE
        /\ todo = [t \in Thread |-> <<>>]

\* A step, with the callback record that a local variable holds for it.
Op(op) == [op |-> op, cb |-> None]
Cb(op, c) == [op |-> op, cb |-> c]
At(t, op) == todo[t] # <<>> /\ Head(todo[t]).op = op
Idle(t) == todo[t] = <<>>
Todo(t, ops) == {i \in DOMAIN todo[t] : todo[t][i].op \in ops}
\* The step that t is at is replaced by these.
Then(t, steps) == todo' = [todo EXCEPT ![t] = steps \o (IF @ = <<>> THEN @ ELSE Tail(@))]

\* A step with the context's mutex: it is free or, where the caller has the lock, ours.
Lockable(t) == mutex \in {None, t}

\* source_dup_main_context takes the reader lock, and a reference if there is a context.
CanRead(t) == writer = None
Dup == ctxRef' = IF srcCtx THEN ctxRef + 1 ELSE ctxRef
Back == IF srcCtx THEN <<Op("ctxUnref")>> ELSE <<>>

--------------------------------------------------------------------------------
(* Calls of the users. *)

\* The checks of g_source_attach, without a lock, with a context that the caller holds a
\* reference to for the time of the call.  Two attaches of one source at the same time
\* are a programmer's error.
Attach(t) ==
  /\ Idle(t) /\ t \in holds
  /\ ~srcCtx /\ active /\ app
  /\ \A u \in Thread : Todo(u, {"attach"}) = {}
  /\ ctxRef' = ctxRef + 1
  /\ Then(t, <<Op("attach"), Op("ctxUnref")>>)
  /\ UNCHANGED <<srcVars, cbVars, ctxFreed, mutex, writer, pending, userVars, null, history>>

\* The rest of g_source_attach, with the lock.
AttachLocked(t) ==
  /\ At(t, "attach")
  /\ mutex = None
  /\ srcCtx' = TRUE /\ linked' = TRUE
  /\ srcRef' = srcRef + 1
  /\ orphaned' = (orphaned \/ ~active)
  /\ Then(t, <<>>)
  /\ UNCHANGED <<active, srcFreed, cbVars, ctxVars, userVars, null, lost>>

\* g_source_destroy up to g_source_destroy_internal, or to the clearing of the flag.
Destroy(t) ==
  /\ Idle(t) /\ t \in holds
  /\ CanRead(t)
  /\ Dup
  /\ Then(t, IF srcCtx THEN <<Op("destroy"), Op("unlock"), Op("ctxUnref")>> ELSE <<Op("clear")>>)
  /\ UNCHANGED <<srcVars, cbVars, ctxFreed, mutex, writer, pending, userVars, null, history>>

\* g_source_destroy found no context and clears the flag without a lock.  If there is
\* one by now, or one that is being torn down, its reference is never dropped.
ClearActive(t) ==
  /\ At(t, "clear")
  /\ active' = FALSE
  /\ orphaned' = (orphaned \/ (active /\ linked))
  /\ Then(t, <<>>)
  /\ UNCHANGED <<srcRef, srcCtx, linked, srcFreed, cbVars, ctxVars, userVars, null, lost>>

\* g_source_set_callback with a new record.  Without a context it takes no lock: it is up
\* to the users that only one of them calls it then.
SetCallback(t, c) ==
  /\ Idle(t) /\ t \in holds
  /\ CanRead(t)
  /\ srcCtx \/ holds = {t}
  /\ cbRef[c] = 0 /\ c \notin notified
  /\ cbRef' = [cbRef EXCEPT ![c] = 1]
  /\ Dup
  /\ Then(t, IF srcCtx THEN <<Cb("setCallback", c), Op("ctxUnref")>>
                       ELSE <<Cb("cbRead", c), Cb("cbWrite", c)>>)
  /\ UNCHANGED <<srcVars, cb, notified, ctxFreed, mutex, writer, pending, userVars, null, history>>

\* g_source_unref up to g_source_unref_internal.
Unref(t) ==
  /\ Idle(t) /\ t \in holds
  /\ CanRead(t)
  /\ holds' = holds \ {t}
  /\ Dup
  /\ null' = IF srcCtx THEN null ELSE null \cup {t}
  /\ Then(t, <<Op("srcUnref"), Op("unlock")>> \o Back)
  /\ UNCHANGED <<srcVars, cbVars, ctxFreed, mutex, writer, pending, app, history>>

--------------------------------------------------------------------------------
(* The owner of the context. *)

\* g_main_context_check finds the source ready; its reference joins the pending ones.
Check ==
  /\ Idle(Owner) /\ app
  /\ mutex = None
  /\ linked /\ active /\ ~pending
  /\ pending' = TRUE
  /\ srcRef' = srcRef + 1
  /\ UNCHANGED <<srcCtx, active, linked, srcFreed, cbVars, ctxRef, ctxFreed, mutex, writer,
                 userVars, null, history, todo>>

\* g_main_context_prepare drops what an earlier g_main_context_pending left behind.
Prepare ==
  /\ Idle(Owner) /\ app /\ pending
  /\ mutex = None
  /\ pending' = FALSE
  /\ mutex' = Owner
  /\ Then(Owner, <<Op("srcUnref"), Op("unlock")>>)
  /\ UNCHANGED <<srcVars, cbVars, ctxRef, ctxFreed, writer, userVars, null, history>>

\* g_main_dispatch takes a reference to the callback's data.
TakeCallback == /\ Then(Owner, <<Cb("callback", cb), Cb("cbUnref", cb), Op("dispatched"),
                                 Op("srcUnref"), Op("unlock")>>)
                /\ cbRef' = IF cb = None THEN cbRef ELSE [cbRef EXCEPT ![cb] = @ + 1]

\* g_main_dispatch up to the call of the source's dispatch function.
Dispatch ==
  /\ Idle(Owner) /\ app /\ pending
  /\ mutex = None
  /\ pending' = FALSE
  /\ IF active
     THEN TakeCallback /\ UNCHANGED mutex
     ELSE /\ mutex' = Owner
          /\ Then(Owner, <<Op("srcUnref"), Op("unlock")>>)
          /\ UNCHANGED cbRef
  /\ UNCHANGED <<srcVars, cb, notified, ctxRef, ctxFreed, writer, userVars, null, history>>

\* The dispatch function returns.
CallbackReturn ==
  /\ At(Owner, "callback")
  /\ Then(Owner, <<>>)
  /\ UNCHANGED <<srcVars, cbVars, ctxVars, userVars, null, history>>

\* The mutex is taken again; a source that said FALSE and still lives is destroyed.
Dispatched ==
  /\ At(Owner, "dispatched")
  /\ mutex = None
  /\ mutex' = Owner
  /\ \/ Then(Owner, <<>>)
     \/ active /\ Then(Owner, <<Op("destroy")>>)
  /\ UNCHANGED <<srcVars, cbVars, ctxRef, ctxFreed, writer, pending, userVars, null, history>>

\* The owner gives up its reference to the context.
AppUnref ==
  /\ Idle(Owner) /\ app
  /\ app' = FALSE
  /\ Then(Owner, <<Op("ctxUnref")>>)
  /\ UNCHANGED <<srcVars, cbVars, ctxVars, holds, null, history>>

--------------------------------------------------------------------------------
(* Steps inside calls. *)

\* g_source_destroy_internal: the mutex is dropped for the callback's destroy notify.  If
\* a g_source_set_callback without the mutex has read the same record, both drop its only
\* reference.
DestroyInternal(t) ==
  /\ At(t, "destroy")
  /\ Lockable(t)
  /\ IF ~active
     THEN mutex' = t /\ Then(t, <<>>) /\ UNCHANGED <<active, cb, lost>>
     ELSE /\ active' = FALSE
          /\ cb' = None
          /\ lost' = (cb # None /\ \E u \in Thread : At(u, "cbWrite"))
          /\ IF cb = None THEN mutex' = t /\ Then(t, <<Op("srcUnref")>>)
             ELSE mutex' = None /\ Then(t, <<Cb("cbUnref", cb), Op("lock"), Op("srcUnref")>>)
  /\ UNCHANGED <<srcRef, srcCtx, linked, srcFreed, cbRef, notified, ctxRef, ctxFreed, writer,
                 pending, userVars, null, orphaned>>

\* g_source_set_callback_indirect with the mutex; the old record is dropped after the
\* reference to the context.
SetCallbackSwap(t) ==
  /\ At(t, "setCallback")
  /\ mutex = None
  /\ cb' = Head(todo[t]).cb
  /\ todo' = [todo EXCEPT ![t] = Append(Tail(@), Cb("cbUnref", cb))]
  /\ UNCHANGED <<srcVars, cbRef, notified, ctxVars, userVars, null, history>>

\* g_source_set_callback_indirect without a context: the old record is read ...
SetCallbackRead(t) ==
  /\ At(t, "cbRead")
  /\ todo' = [todo EXCEPT ![t] = Append(Tail(@), Cb("cbUnref", cb))]
  /\ UNCHANGED <<srcVars, cbVars, ctxVars, userVars, null, history>>

\* ... and the new one is written.
SetCallbackWrite(t) ==
  /\ At(t, "cbWrite")
  /\ cb' = Head(todo[t]).cb
  /\ Then(t, <<>>)
  /\ UNCHANGED <<srcVars, cbRef, notified, ctxVars, userVars, null, history>>

\* g_source_callback_unref, if there is a record.
CallbackUnref(t) ==
  /\ At(t, "cbUnref")
  /\ LET c == Head(todo[t]).cb
     IN  IF c = None THEN UNCHANGED <<cbRef, notified>>
         ELSE /\ cbRef' = [cbRef EXCEPT ![c] = @ - 1]
              /\ notified' = IF cbRef[c] = 1 THEN notified \cup {c} ELSE notified
  /\ Then(t, <<>>)
  /\ UNCHANGED <<srcVars, cb, ctxVars, userVars, null, history>>

Lock(t) ==
  /\ At(t, "lock")
  /\ t \notin null => mutex = None
  /\ mutex' = IF t \in null THEN mutex ELSE t
  /\ Then(t, <<>>)
  /\ UNCHANGED <<srcVars, cbVars, ctxRef, ctxFreed, writer, pending, userVars, null, history>>

Unlock(t) ==
  /\ At(t, "unlock")
  /\ mutex' = IF mutex = t THEN None ELSE mutex
  /\ null' = null \ {t}
  /\ Then(t, <<>>)
  /\ UNCHANGED <<srcVars, cbVars, ctxRef, ctxFreed, writer, pending, userVars, history>>

\* g_source_unref_internal with more than one reference.
SourceUnref(t) ==
  /\ At(t, "srcUnref") /\ srcRef > 1
  /\ srcRef' = srcRef - 1
  /\ Then(t, <<>>)
  /\ UNCHANGED <<srcCtx, active, linked, srcFreed, cbVars, ctxVars, userVars, null, history>>

FinalSteps == <<Op("finalize"), Cb("cbUnref", cb), Op("lock"), Op("free")>>

\* g_source_unref_internal with the last one, with the mutex if there is a context: the
\* source leaves its list, and lives on while finalize() and the destroy notify of its
\* callback run without the mutex.  Whoever read no context before the source was attached
\* does not take it out of the list.
SourceLastUnref(t) ==
  /\ At(t, "srcUnref") /\ srcRef = 1
  /\ t \notin null => Lockable(t)
  /\ linked' = (linked /\ t \in null)
  /\ cb' = None
  /\ mutex' = IF mutex = t THEN None ELSE mutex
  /\ lost' = (linked /\ t \in null)
  /\ Then(t, FinalSteps)
  /\ UNCHANGED <<srcRef, srcCtx, active, srcFreed, cbRef, notified, ctxRef, ctxFreed, writer,
                 pending, userVars, null, orphaned>>

Finalize(t) ==
  /\ At(t, "finalize")
  /\ Then(t, <<>>)
  /\ UNCHANGED <<srcVars, cbVars, ctxVars, userVars, null, history>>

SourceFree(t) ==
  /\ At(t, "free")
  /\ srcRef' = srcRef - 1
  /\ srcFreed' = TRUE
  /\ Then(t, <<>>)
  /\ UNCHANGED <<srcCtx, active, linked, cbVars, ctxVars, userVars, null, history>>

--------------------------------------------------------------------------------
(* g_main_context_unref. *)

\* Another reference is left, or the caller goes for source_destroy_lock.
ContextUnref(t) ==
  /\ At(t, "ctxUnref")
  /\ IF ctxRef > 1 THEN ctxRef' = ctxRef - 1 /\ Then(t, <<>>)
                   ELSE Then(t, <<Op("ctxLast")>>) /\ UNCHANGED ctxRef
  /\ UNCHANGED <<srcVars, cbVars, ctxFreed, mutex, writer, pending, userVars, null, history>>

\* Mutant: nobody looks whether a reference was taken in the meantime.
StillLastUnchecked == TRUE
StillLast == ctxRef = 1

\* The decrement under source_destroy_lock: a reader may have taken a reference.
ContextLastUnref(t) ==
  /\ At(t, "ctxLast")
  /\ writer = None
  /\ ctxRef' = ctxRef - 1
  /\ IF StillLast THEN writer' = t /\ Then(t, <<Op("tdPending"), Op("tdCollect")>>)
                  ELSE UNCHANGED writer /\ Then(t, <<>>)
  /\ UNCHANGED <<srcVars, cbVars, ctxFreed, mutex, pending, userVars, null, history>>

\* The references of pending_dispatches are dropped, without the mutex.
TeardownPending(t) ==
  /\ At(t, "tdPending")
  /\ mutex = None
  /\ pending' = FALSE
  /\ Then(t, IF pending THEN <<Op("srcUnref"), Op("unlock")>> ELSE <<>>)
  /\ UNCHANGED <<srcVars, cbVars, ctxRef, ctxFreed, mutex, writer, userVars, null, history>>

Collect == srcRef' = IF linked THEN srcRef + 1 ELSE srcRef

\* Mutant: source_destroy_lock is released when everything is done.
TeardownStepsLocked == (IF linked THEN <<Op("destroy"), Op("tdFree"), Op("srcUnref"), Op("unlock")>>
                                  ELSE <<Op("tdFree")>>) \o <<Op("tdRelease")>>
TeardownSteps == <<Op("tdRelease")>> \o
  (IF linked THEN <<Op("destroy"), Op("tdFree"), Op("srcUnref"), Op("unlock")>> ELSE <<Op("tdFree")>>)

\* The sources that are left lose their context, and are kept for the next two loops;
\* the mutex stays held.
TeardownCollect(t) ==
  /\ At(t, "tdCollect")
  /\ mutex = None
  /\ mutex' = t
  /\ Collect
  /\ srcCtx' = (srcCtx /\ ~linked)
  /\ Then(t, TeardownSteps)
  /\ UNCHANGED <<active, linked, srcFreed, cbVars, ctxRef, ctxFreed, writer, pending, userVars, null, history>>

\* source_destroy_lock is released: others find the source without a context.
TeardownRelease(t) ==
  /\ At(t, "tdRelease")
  /\ writer' = None
  /\ Then(t, <<>>)
  /\ UNCHANGED <<srcVars, cbVars, ctxRef, ctxFreed, mutex, pending, userVars, null, history>>

\* The context is freed; what is left of the call is the unref of the sources.
TeardownFree(t) ==
  /\ At(t, "tdFree")
  /\ ctxFreed' = TRUE
  /\ mutex' = None
  /\ linked' = FALSE
  /\ null' = IF linked THEN null \cup {t} ELSE null
  /\ Then(t, <<>>)
  /\ UNCHANGED <<srcRef, srcCtx, active, srcFreed, cbVars, ctxRef, writer, pending, userVars, history>>

Terminated == app = FALSE /\ holds = {} /\ \A t \in Thread : Idle(t)
Done == Terminated /\ UNCHANGED vars

Step(t) == \/ AttachLocked(t) \/ ClearActive(t) \/ DestroyInternal(t)
           \/ SetCallbackSwap(t) \/ SetCallbackRead(t) \/ SetCallbackWrite(t) \/ CallbackUnref(t)
           \/ Lock(t) \/ Unlock(t)
           \/ SourceUnref(t) \/ SourceLastUnref(t) \/ Finalize(t) \/ SourceFree(t)
           \/ ContextUnref(t) \/ ContextLastUnref(t) \/ TeardownPending(t)
           \/ TeardownCollect(t) \/ TeardownRelease(t) \/ TeardownFree(t)

Defined == \/ \E t \in User : \/ Attach(t) \/ Destroy(t) \/ Unref(t)
                              \/ \E c \in Callback : SetCallback(t, c)
           \/ Check \/ Prepare \/ Dispatch \/ CallbackReturn \/ Dispatched \/ AppUnref
           \/ \E t \in Thread : Step(t)
           \/ Done

\* What the C does after a lost step is undefined; the model stops.
Undefined == lost /\ UNCHANGED vars

Next == (~lost /\ Defined) \/ Undefined

Spec == Init /\ [][Next]_vars

--------------------------------------------------------------------------------
(* Properties. *)

Ops == {"attach", "clear", "destroy", "setCallback", "cbRead", "cbWrite", "callback", "cbUnref",
        "dispatched", "lock", "unlock", "srcUnref", "finalize", "free", "ctxUnref", "ctxLast",
        "tdPending", "tdCollect", "tdRelease", "tdFree"}

\* Every variable has its type; the counts in particular never fall below zero.
TypeOK == /\ srcRef \in Nat /\ srcCtx \in BOOLEAN /\ active \in BOOLEAN
          /\ linked \in BOOLEAN /\ srcFreed \in BOOLEAN
          /\ cb \in Callback \cup {None}
          /\ cbRef \in [Callback -> Nat] /\ notified \subseteq Callback
          /\ ctxRef \in Nat /\ ctxFreed \in BOOLEAN
          /\ mutex \in Thread \cup {None} /\ writer \in Thread \cup {None}
          /\ pending \in BOOLEAN
          /\ holds \subseteq User /\ app \in BOOLEAN /\ null \subseteq Thread
          /\ orphaned \in BOOLEAN /\ lost \in BOOLEAN
          /\ todo \in [Thread -> Seq([op : Ops, cb : Callback \cup {None}])]

Count(ops) == Cardinality(UNION {{t} \X Todo(t, ops) : t \in Thread})
One(P) == IF P THEN 1 ELSE 0

\* source->ref_count is the number of those who will still drop a reference: the users,
\* the context while the source is attached and not destroyed, the pending dispatches,
\* and the calls in progress, whose unref is still to come.  One reference more is there
\* for ever if the source was marked as destroyed without the lock while it was attached.
SourceRefsExact ==
  ~srcFreed => srcRef = Cardinality(holds) + One(linked /\ active) + One(pending)
                        + Count({"srcUnref", "free"}) + One(orphaned)

\* No thread is still to touch a source, a context or a callback's data that is freed,
\* and what the context or the source point to is not freed either.
NoUseAfterFree ==
  /\ srcFreed => /\ ~linked /\ ~pending /\ holds = {}
                 /\ Count({"attach", "clear", "destroy", "setCallback", "cbRead", "cbWrite",
                           "dispatched", "srcUnref", "finalize", "free"}) = 0
  /\ ctxFreed => /\ (srcCtx => srcFreed) /\ ~app
                 /\ \A t \in Thread \ null :
                      Todo(t, {"attach", "destroy", "dispatched", "lock", "ctxUnref", "ctxLast",
                               "tdPending", "tdCollect", "tdFree"}) = {}
  /\ cb \notin notified
  /\ \A t \in Thread : \A i \in DOMAIN todo[t] : todo[t][i].cb \notin notified

\* Once everybody has dropped what they held, the context has been freed and, but for an
\* orphaned source, so have the source and the data of every callback that was set.
NothingLeaks == Terminated => /\ ctxFreed
                              /\ srcFreed <=> ~orphaned
                              /\ srcFreed => \A c \in Callback : cbRef[c] = 0

\* However attach, destroy, dispatch, set_callback, unref and the teardown of the context
\* race, every count is the number of those who will still drop a reference, nothing is
\* touched after it is freed, and everything is freed in the end.  Exactly three races of
\* the code are the exceptions: a g_source_destroy() that found no context clears ACTIVE
\* while the source is being attached or its context torn down (orphaned, a leak); a
\* g_source_unref() that found no context drops the last reference after an attach; and
\* a g_source_set_callback() overlaps the teardown (both lost).
RefCounting == TypeOK /\ SourceRefsExact /\ (~lost => NoUseAfterFree /\ NothingLeaks)

\* User code, finalize() and the destroy notify of a callback, may call GSource methods:
\* its thread does not hold source_destroy_lock, which those methods take for reading.
\* The one exception is a source that was destroyed and dropped by everybody while its
\* dispatch was pending, in a context that goes before the dispatch.
UserCode == {"finalize", "cbUnref"}
FinalizeMayCall ==
  \A t \in Thread : writer = t /\ todo[t] # <<>> /\ Head(todo[t]).op \in UserCode =>
    Todo(t, {"tdCollect"}) # {} /\ ~active /\ holds = {}
================================================================================
