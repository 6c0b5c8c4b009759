----------------------------- MODULE GCancellable -----------------------------
(*****************************************************************************)
(* A GCancellable (gio/gcancellable.c): threads cancel and reset it, connect *)
(* and disconnect handlers, take and release its file descriptor, and make,  *)
(* prepare, dispatch and drop GCancellableSources on it.  A step is one      *)
(* access to an atomic variable, one critical section of the cancellable's   *)
(* mutex or of the signal lock, or one callback; the mutex is held while the *)
(* handlers of "cancelled" run.                                              *)
(*****************************************************************************)
EXTENDS Integers, Sequences, FiniteSets

CONSTANTS Thread, None,
          User,             \* the handlers of g_cancellable_connect
          Source,           \* the GCancellableSources
          MaxFds,           \* bound: g_cancellable_make_pollfd calls in force
          MaxResets         \* bound: g_cancellable_reset calls

ASSUME CancellableAssumption ==
  /\ IsFiniteSet(Thread)
  /\ None \notin Thread \cup User \cup Source /\ User \cap Source = {}
  /\ MaxFds \in Nat /\ MaxResets \in Nat

VARIABLES cancelled, cancelledRunning,   \* the atomic fields
          mutex,      \* the thread that holds priv->mutex
          fds,        \* fd_refcount
          readable,   \* the wakeup's descriptor is readable
          handlers,   \* the handlers of the signal, in the order they are called
          source,     \* the GCancellableSources
          thread,     \* where each thread is, and its local variables
          connection, \* of each user: "none", "on", "off", or "gone" after the disconnect
          calls,      \* history: calls of each user's callback for this cancellation
          overtaken,  \* history: handlers that a cancel met in the middle of their disconnect,
                      \* and sources that it met in the middle of their preparation
          due,        \* history: sources that could hear of this cancellation
          resets

vars == <<cancelled, cancelledRunning, mutex, fds, readable, handlers, source, thread,
          connection, calls, overtaken, due, resets>>

(* A source: its references, the pointer behind self_ptr and its flag, its    *)
(* cancellable, whether it is ready and whether its callback was dispatched.  *)
(* held: its creator's reference, dropped when it is destroyed.               *)
SourceRecord == [phase : {"none", "live", "freed"}, refs : Nat, held : BOOLEAN,
                 self : BOOLEAN, called : BOOLEAN, cancellable : BOOLEAN,
                 ready : BOOLEAN, dispatched : BOOLEAN]
NoSource == [phase |-> "none", refs |-> 0, held |-> FALSE, self |-> FALSE,
             called |-> FALSE, cancellable |-> FALSE, ready |-> FALSE, dispatched |-> FALSE]

(* A thread: at the step it takes next, for handler h, with todo the handlers *)
(* its emission has still to call, and back where it goes after an unref.     *)
Places == {"idle", "cancel", "locked", "emit", "callback", "direct", "wait", "gap",
           "exchange", "ref", "ready", "called", "unref", "dispose", "self", "spin",
           "disconnect", "drop", "new", "prepare", "prepare2"}
ThreadRecord == [at : Places, h : User \cup Source \cup {None},
                 todo : Seq(User \cup Source), back : {"idle", "emit"}]
Resting == [at |-> "idle", h |-> None, todo |-> <<>>, back |-> "idle"]

Init == /\ cancelled = FALSE /\ cancelledRunning = 0 /\ mutex = None
        /\ fds = 0 /\ readable = FALSE
        /\ handlers = <<>>
        /\ source = [s \in Source |-> NoSource]
        /\ thread = [t \in Thread |-> Resting]
        /\ connection = [u \in User |-> "none"]
        /\ calls = [u \in User |-> 0]
        /\ overtaken = {} /\ due = {} /\ resets = 0

At(t, place) == thread[t].at = place
Here(t) == thread[t].h
Step(t, place) == thread' = [thread EXCEPT ![t].at = place]
Begin(t, place, h) == /\ At(t, "idle")
                      /\ thread' = [thread EXCEPT ![t].at = place, ![t].h = h]
In(seq, h) == \E i \in DOMAIN seq : seq[i] = h
Connected(h) == In(handlers, h)
\* A handler is at most once in the list.
Without(seq, h) ==
  IF In(seq, h) THEN LET i == CHOOSE i \in DOMAIN seq : seq[i] = h
                     IN  [j \in 1 .. Len(seq) - 1 |-> IF j < i THEN seq[j] ELSE seq[j + 1]]
                ELSE seq

flagVars == <<cancelled, cancelledRunning, mutex>>
fdVars == <<fds, readable>>
metVars == <<overtaken, due>>
userVars == <<connection, calls, metVars, resets>>

--------------------------------------------------------------------------------
(* g_cancellable_cancel. *)

\* Not yet cancelled, as far as the caller can see.
Cancel(t) ==
  /\ ~cancelled
  /\ Begin(t, "cancel", None)
  /\ UNCHANGED <<flagVars, fdVars, handlers, source, userVars>>

\* What a cancel that gets the mutex now comes upon: a g_cancellable_disconnect that has
\* given the mutex back, and a source whose prepare has found no cancel running.
Amid(h) == \E t \in Thread : Here(t) = h /\ thread[t].at \in {"gap", "prepare", "prepare2"}

\* The exchange under the mutex, which only one caller wins.
CancelLock(t) ==
  /\ At(t, "cancel") /\ mutex = None
  /\ \/ /\ cancelled
        /\ Step(t, "idle")
        /\ UNCHANGED <<flagVars, readable, metVars>>
     \/ /\ ~cancelled
        /\ cancelled' = TRUE /\ cancelledRunning' = cancelledRunning + 1 /\ mutex' = t
        /\ readable' = (fds > 0)
        /\ overtaken' = overtaken \cup {h \in User \cup Source : Amid(h)}
        /\ due' = {x \in Source : source[x].held /\ source[x].self}
        /\ Step(t, "locked")
  /\ UNCHANGED <<fds, handlers, source, connection, calls, resets>>

\* g_signal_emit starts: handlers connected from here on are not called.
EmitStart(t) ==
  /\ At(t, "locked")
  /\ thread' = [thread EXCEPT ![t].at = "emit", ![t].todo = handlers]
  /\ UNCHANGED <<flagVars, fdVars, handlers, source, userVars>>

\* The next handler that is still connected is called.
EmitNext(t) ==
  /\ At(t, "emit") /\ thread[t].todo # <<>>
  /\ LET h == Head(thread[t].todo)
         place == IF ~Connected(h) THEN "emit" ELSE IF h \in User THEN "callback" ELSE "exchange"
     IN  /\ thread' = [thread EXCEPT ![t].at = place, ![t].todo = Tail(@),
                                     ![t].h = IF Connected(h) THEN h ELSE None]
         /\ calls' = IF place = "callback" THEN [calls EXCEPT ![h] = @ + 1] ELSE calls
  /\ UNCHANGED <<flagVars, fdVars, handlers, source, connection, metVars, resets>>

CallbackReturns(t) ==
  /\ At(t, "callback")
  /\ thread' = [thread EXCEPT ![t].at = "emit", ![t].h = None]
  /\ UNCHANGED <<flagVars, fdVars, handlers, source, userVars>>

EmitEnd(t) ==
  /\ At(t, "emit") /\ thread[t].todo = <<>>
  /\ cancelledRunning' = cancelledRunning - 1 /\ mutex' = None
  /\ thread' = [thread EXCEPT ![t] = Resting]
  /\ UNCHANGED <<cancelled, fdVars, handlers, source, userVars>>

--------------------------------------------------------------------------------
(* Handlers. *)

\* g_cancellable_connect: connect, or call back at once with the mutex held.
Connect(t, u) ==
  /\ connection[u] = "none" /\ mutex = None
  /\ \/ /\ ~cancelled /\ At(t, "idle")
        /\ connection' = [connection EXCEPT ![u] = "on"]
        /\ handlers' = Append(handlers, u)
        /\ UNCHANGED <<flagVars, thread, calls>>
     \/ /\ cancelled
        /\ Begin(t, "direct", u)
        /\ mutex' = t
        /\ connection' = [connection EXCEPT ![u] = "off"]
        /\ calls' = [calls EXCEPT ![u] = @ + 1]
        /\ UNCHANGED <<cancelled, cancelledRunning, handlers>>
  /\ UNCHANGED <<fdVars, source, metVars, resets>>

DirectReturns(t) ==
  /\ At(t, "direct")
  /\ mutex' = None
  /\ thread' = [thread EXCEPT ![t] = Resting]
  /\ UNCHANGED <<cancelled, cancelledRunning, fdVars, handlers, source, userVars>>

\* g_cancellable_disconnect.
Disconnect(t, u) ==
  /\ connection[u] = "on"
  /\ Begin(t, "wait", u)
  /\ UNCHANGED <<flagVars, fdVars, handlers, source, userVars>>

\* Mutant: the call does not wait for the emission.
DisconnectAtOnce(t) ==
  /\ At(t, "wait")
  /\ Step(t, "gap")
  /\ UNCHANGED <<flagVars, fdVars, handlers, source, userVars>>
\* It has the mutex, and no emission is running (with the mutex free none ever is, so
\* that nobody waits on cancellable_cond: EmissionLocked); it lets go of the mutex.
DisconnectLock(t) ==
  /\ At(t, "wait") /\ mutex = None /\ cancelledRunning = 0
  /\ Step(t, "gap")
  /\ UNCHANGED <<flagVars, fdVars, handlers, source, userVars>>

\* g_signal_handler_disconnect, and the return to the caller.
DisconnectEnds(t) ==
  /\ At(t, "gap")
  /\ handlers' = Without(handlers, Here(t))
  /\ connection' = [connection EXCEPT ![Here(t)] = "gone"]
  /\ thread' = [thread EXCEPT ![t] = Resting]
  /\ UNCHANGED <<flagVars, fdVars, source, calls, metVars, resets>>

--------------------------------------------------------------------------------
(* Reset and the file descriptor. *)

\* g_cancellable_reset.
Reset(t) ==
  /\ At(t, "idle") /\ mutex = None /\ resets < MaxResets
  /\ cancelled' = FALSE
  /\ readable' = IF cancelled THEN FALSE ELSE readable
  /\ calls' = [u \in User |-> IF connection[u] = "on" THEN 0 ELSE calls[u]]
  /\ resets' = resets + 1
  /\ UNCHANGED <<cancelledRunning, mutex, fds, handlers, source, thread, connection, metVars>>

\* g_cancellable_make_pollfd.
MakePollfd(t) ==
  /\ At(t, "idle") /\ mutex = None /\ fds < MaxFds
  /\ fds' = fds + 1
  /\ readable' = IF fds = 0 THEN cancelled ELSE readable
  /\ UNCHANGED <<flagVars, handlers, source, thread, userVars>>

\* g_cancellable_release_fd.
ReleaseFd(t) ==
  /\ At(t, "idle") /\ mutex = None /\ fds > 0
  /\ fds' = fds - 1
  /\ readable' = (readable /\ fds > 1)
  /\ UNCHANGED <<flagVars, handlers, source, thread, userVars>>

--------------------------------------------------------------------------------
(* GCancellableSource. *)

Set(s, rec) == source' = [source EXCEPT ![s] = rec]
SetAndStep(t, rec, place) == Set(Here(t), rec) /\ Step(t, place)
Rec(t) == source[Here(t)]
otherVars == <<flagVars, fdVars, userVars>>

\* g_cancellable_source_new up to the connection of its handler.
SourceNew(t, s) ==
  /\ source[s].phase = "none"
  /\ Begin(t, "new", s)
  /\ Set(s, [NoSource EXCEPT !.phase = "live", !.refs = 1, !.held = TRUE, !.self = TRUE,
                             !.cancellable = TRUE])
  /\ handlers' = Append(handlers, s)
  /\ UNCHANGED otherVars

\* Mutant: a cancellation before the connection is not noticed.
SourceChecksNot(t) ==
  /\ At(t, "new")
  /\ thread' = [thread EXCEPT ![t] = Resting]
  /\ UNCHANGED <<otherVars, source, handlers>>
\* ... and its last step.
SourceChecks(t) ==
  /\ At(t, "new")
  /\ Set(Here(t), [Rec(t) EXCEPT !.ready = @ \/ cancelled])
  /\ thread' = [thread EXCEPT ![t] = Resting]
  /\ UNCHANGED <<otherVars, handlers>>

\* cancellable_source_cancelled, the handler: take the pointer, which a dispose may have
\* taken; then, with a reference, make the source ready and say so.
Exchange(t) ==
  /\ At(t, "exchange")
  /\ Set(Here(t), [Rec(t) EXCEPT !.self = FALSE])
  /\ IF Rec(t).self THEN Step(t, "ref")
                    ELSE thread' = [thread EXCEPT ![t].at = "emit", ![t].h = None]
  /\ UNCHANGED <<otherVars, handlers>>
HandlerRefs(t) ==
  /\ At(t, "ref")
  /\ SetAndStep(t, [Rec(t) EXCEPT !.refs = @ + 1], "ready")
  /\ UNCHANGED <<otherVars, handlers>>
HandlerReadies(t) ==
  /\ At(t, "ready")
  /\ SetAndStep(t, [Rec(t) EXCEPT !.ready = TRUE], "called")
  /\ UNCHANGED <<otherVars, handlers>>
\* Mutant: the flag is forgotten.
HandlerCalledNot(t) ==
  /\ At(t, "called")
  /\ thread' = [thread EXCEPT ![t].at = "unref", ![t].back = "emit"]
  /\ UNCHANGED <<otherVars, source, handlers>>
HandlerCalled(t) ==
  /\ At(t, "called")
  /\ Set(Here(t), [Rec(t) EXCEPT !.called = TRUE])
  /\ thread' = [thread EXCEPT ![t].at = "unref", ![t].back = "emit"]
  /\ UNCHANGED <<otherVars, handlers>>

\* cancellable_source_prepare, by the owner of the context with a reference of the
\* iteration: unless a cancel is running, the handler may be called once more.
Preparing(s) == \E t \in Thread : thread[t].h = s /\ thread[t].at \in {"prepare", "prepare2"}
Prepare(t, s) ==
  /\ source[s].held /\ ~Preparing(s)
  /\ \A o \in Thread : ~(At(o, "new") /\ Here(o) = s)
  /\ cancelledRunning = 0
  /\ Begin(t, "prepare", s)
  /\ Set(s, [source[s] EXCEPT !.refs = @ + 1])
  /\ overtaken' = overtaken \ {s}
  /\ UNCHANGED <<flagVars, fdVars, connection, calls, due, resets, handlers>>
PrepareFlag(t) ==
  /\ At(t, "prepare")
  /\ SetAndStep(t, [Rec(t) EXCEPT !.called = FALSE], "prepare2")
  /\ UNCHANGED <<otherVars, handlers>>
PrepareSelf(t) ==
  /\ At(t, "prepare2")
  /\ SetAndStep(t, [Rec(t) EXCEPT !.self = TRUE], "unref")
  /\ UNCHANGED <<otherVars, handlers>>

\* cancellable_source_dispatch.
Dispatch(t, s) ==
  /\ At(t, "idle") /\ source[s].held /\ source[s].ready /\ ~Preparing(s)
  /\ Set(s, [source[s] EXCEPT !.ready = FALSE, !.dispatched = TRUE])
  /\ due' = due \ {s}
  /\ UNCHANGED <<flagVars, fdVars, connection, calls, overtaken, resets, thread, handlers>>

\* The source is destroyed and its creator's reference dropped.
Drop(t, s) ==
  /\ source[s].held
  /\ \A o \in Thread : ~(At(o, "new") /\ Here(o) = s)
  /\ Begin(t, "unref", s)
  /\ Set(s, [source[s] EXCEPT !.held = FALSE])
  /\ UNCHANGED <<otherVars, handlers>>

Return(t) == thread' = [thread EXCEPT ![t].at = thread[t].back, ![t].h = None,
                                      ![t].back = "idle"]

\* g_source_unref_internal: drop a reference that is not the last one, or dispose first.
Unref(t) ==
  /\ At(t, "unref")
  /\ \/ /\ Rec(t).refs > 1
        /\ Set(Here(t), [Rec(t) EXCEPT !.refs = @ - 1])
        /\ Return(t)
     \/ Rec(t).refs = 1 /\ Step(t, "dispose") /\ UNCHANGED source
  /\ UNCHANGED <<otherVars, handlers>>

\* cancellable_source_dispose: take the cancellable, take the pointer, and when the
\* handler has it, wait until the handler has said so; then disconnect.
Dispose(t) ==
  /\ At(t, "dispose")
  /\ SetAndStep(t, [Rec(t) EXCEPT !.cancellable = FALSE],
                IF Rec(t).cancellable THEN "self" ELSE "drop")
  /\ UNCHANGED <<otherVars, handlers>>
\* Mutant: the dispose does not wait for the handler.
DisposeSelfBlind(t) ==
  /\ At(t, "self")
  /\ SetAndStep(t, [Rec(t) EXCEPT !.self = FALSE], "disconnect")
  /\ UNCHANGED <<otherVars, handlers>>
DisposeSelf(t) ==
  /\ At(t, "self")
  /\ SetAndStep(t, [Rec(t) EXCEPT !.self = FALSE], IF Rec(t).self THEN "disconnect" ELSE "spin")
  /\ UNCHANGED <<otherVars, handlers>>
DisposeSpin(t) ==
  /\ At(t, "spin") /\ Rec(t).called
  /\ Step(t, "disconnect")
  /\ UNCHANGED <<otherVars, source, handlers>>
DisposeDisconnect(t) ==
  /\ At(t, "disconnect")
  /\ handlers' = Without(handlers, Here(t))
  /\ Step(t, "drop")
  /\ UNCHANGED <<otherVars, source>>

\* The source is freed, unless it has been referenced again: then once more.
DropLast(t) ==
  /\ At(t, "drop")
  /\ \/ /\ Rec(t).refs = 1
        /\ Set(Here(t), [Rec(t) EXCEPT !.refs = 0, !.phase = "freed"])
        /\ Return(t)
     \/ Rec(t).refs # 1 /\ Step(t, "unref") /\ UNCHANGED source
  /\ UNCHANGED <<otherVars, handlers>>

--------------------------------------------------------------------------------
Start(t) == \/ Cancel(t) \/ Reset(t) \/ MakePollfd(t) \/ ReleaseFd(t)
            \/ \E u \in User : Connect(t, u) \/ Disconnect(t, u)
            \/ \E s \in Source : SourceNew(t, s) \/ Prepare(t, s) \/ Dispatch(t, s) \/ Drop(t, s)
GoOn(t) == \/ CancelLock(t) \/ EmitStart(t) \/ EmitNext(t) \/ CallbackReturns(t) \/ EmitEnd(t)
           \/ DirectReturns(t) \/ DisconnectLock(t) \/ DisconnectEnds(t)
           \/ SourceChecks(t) \/ PrepareFlag(t) \/ PrepareSelf(t)
           \/ Exchange(t) \/ HandlerRefs(t) \/ HandlerReadies(t) \/ HandlerCalled(t)
           \/ Unref(t) \/ Dispose(t) \/ DisposeSelf(t) \/ DisposeSpin(t)
           \/ DisposeDisconnect(t) \/ DropLast(t)

\* A thread works on a source that has been freed, or the g_assert of
\* cancellable_source_cancelled is about to fail: the model ends there.
Freed(t) == /\ Here(t) \in Source /\ ~At(t, "exchange")
            /\ source[Here(t)].phase # "live"
Aborts(t) == At(t, "called") /\ Rec(t).called
Sound == \A t \in Thread : ~Freed(t) /\ ~Aborts(t)

Next == Sound /\ \E t \in Thread : Start(t) \/ GoOn(t)

Spec == Init /\ [][Next]_vars

\* A thread inside the library goes on, and gets the mutex in the end when it is free
\* again and again (LockIsTaken of GMutex, and callbacks that return).
FairSpec == Spec /\ \A t \in Thread : SF_vars(Sound /\ GoOn(t))

--------------------------------------------------------------------------------
(* Properties. *)

\* Type correctness.
TypeOK == /\ cancelled \in BOOLEAN /\ cancelledRunning \in Nat
          /\ mutex \in Thread \cup {None}
          /\ fds \in 0 .. MaxFds /\ readable \in BOOLEAN
          /\ handlers \in Seq(User \cup Source)
          /\ source \in [Source -> SourceRecord]
          /\ thread \in [Thread -> ThreadRecord]
          /\ connection \in [User -> {"none", "on", "off", "gone"}]
          /\ calls \in [User -> Nat] /\ resets \in 0 .. MaxResets
          /\ overtaken \subseteq User \cup Source /\ due \subseteq Source

\* An emission runs only with the mutex held: g_cancellable_disconnect, once it has the
\* mutex, never finds one, and no caller meets another's emission half way.
EmissionLocked == cancelledRunning = (IF \E t \in Thread : /\ mutex = t
                                                           /\ ~At(t, "direct") THEN 1 ELSE 0)

\* However a connect and a cancel meet, the callback is called exactly once for a
\* cancellation: at the connect, or by the cancel before it gives the mutex back.
ExactlyOnce == \A u \in User :
  /\ calls[u] <= 1
  /\ connection[u] = "off" => calls[u] = 1
  /\ connection[u] = "on" /\ cancelled /\ mutex = None => calls[u] = 1

\* Once g_cancellable_disconnect has returned, the callback is not running: its data can
\* be freed; unless a cancel began after the call had let go of the mutex.
NotCalledAfterDisconnect == \A u \in User \ overtaken : connection[u] = "gone" =>
  ~\E t \in Thread : At(t, "callback") /\ Here(t) = u

\* However connect, cancel and disconnect meet, a callback is called exactly once for a
\* cancellation, and is not running when its disconnect has returned, but for a cancel
\* that begins between the disconnect's unlock and the removal of the handler.
HandlerCalls == ExactlyOnce /\ NotCalledAfterDisconnect

\* The descriptor is readable exactly while the cancellable is cancelled.
FdTellsCancelled == mutex = None /\ fds > 0 => (readable <=> cancelled)

\* When a cancel is over, every source that was made before, or while it ran, is ready
\* or was dispatched: none misses the cancellation.
SourceTriggers == \A s \in Source :
  source[s].held /\ cancelled /\ mutex = None /\ (\A t \in Thread : ~At(t, "new")) =>
    source[s].ready \/ source[s].dispatched

\* A source that was triggered before, and prepared since, is triggered again by the next
\* cancellation after a reset.
TriggersAgain == \A s \in due : source[s].held /\ mutex = None => source[s].ready

\* A cancellation that is over is seen by all that were made before or during it, by the
\* descriptor and by the sources, with resets in between.
CancelIsSeen == FdTellsCancelled /\ SourceTriggers /\ TriggersAgain

\* No thread is in the middle of an operation on a source that has been freed, neither
\* the handler that has taken the pointer nor anybody who drops a reference, and the
\* handler's assertion holds; unless a cancel began in the middle of the source's last
\* preparation.
NoUseAfterFree == \A t \in Thread :
  Here(t) \in Source \ overtaken => ~Freed(t) /\ ~Aborts(t)

\* Emissions are serialised by the mutex, and a source's memory outlives the handler that
\* works on it without a lock, but for a cancel in the middle of a preparation.
SourceLives == TypeOK /\ EmissionLocked /\ NoUseAfterFree

\* Everybody who waits for the mutex, and a dispose that spins on the handler's flag,
\* goes on in the end, unless the program has failed.
CallsReturn == \A t \in Thread : ~At(t, "idle") ~> (At(t, "idle") \/ ~Sound)
================================================================================
