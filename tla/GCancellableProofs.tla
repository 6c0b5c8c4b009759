-------------------------- MODULE GCancellableProofs --------------------------
(*****************************************************************************)
(* Proofs about GCancellable, for any number of threads, handlers, sources,  *)
(* descriptors and resets.  The invariant comes in layers, each inductive    *)
(* with the ones before it: who holds the mutex (Base), the calls of the     *)
(* users' handlers (CallsInv), the memory of a source (SourceInv), and what  *)
(* a cancellation makes ready (SeenInv).  Goes and Sets say what a step      *)
(* leaves in the record of its thread and of its source; a lemma for each    *)
(* action, named Did and the action, puts it in these terms, and is all that *)
(* the layers use of the action.                                             *)
(*****************************************************************************)
EXTENDS GCancellable, FiniteSetTheorems, TLAPS

Bit(b) == IF b THEN 1 ELSE 0

\* After the last reference but the thread's own, and with a reference of the thread's.
Disposal == {"dispose", "self", "spin", "disconnect", "drop"}
Unreffing == Disposal \cup {"unref"}
Preparation == {"prepare", "prepare2"}
Handling == {"ref", "ready", "called"}
HolderPlaces == Preparation \cup Unreffing \cup {"ready", "called"}
SourcePlaces == HolderPlaces \cup {"new", "exchange", "ref"}

\* A thread at the place a, which goes back to b, is in an emission.
Emits(a, b) ==
  a \in {"locked", "emit", "callback", "exchange", "ref", "ready", "called"} \/ b = "emit"
Emitting(t) == Emits(thread[t].at, thread[t].back)

--------------------------------------------------------------------------------
(* The invariant. *)

\* What a thread works on, by its place.
Placed(a, h, b) ==
  /\ a \in {"idle", "cancel", "locked", "emit"} => h = None
  /\ a \in {"callback", "direct", "wait", "gap"} => h \in User
  /\ a \in SourcePlaces => h \in Source
  /\ b = "emit" => a \in Unreffing
ThreadInv(t) == Placed(thread[t].at, thread[t].h, thread[t].back)

\* The emission has the mutex and is counted.
MutexInv ==
  /\ \A t \in Thread : mutex = t <=> (Emitting(t) \/ At(t, "direct"))
  /\ \A t \in Thread : Emitting(t) => cancelled /\ cancelledRunning = 1
  /\ (\A t \in Thread : ~Emitting(t)) => cancelledRunning = 0

\* What a cancel has met half way, and what is half way during an emission, is noted.
BoundInv ==
  \A t \in Thread, o \in Thread :
    Emitting(t) /\ thread[o].at \in {"gap"} \cup Preparation => thread[o].h \in overtaken

Base == TypeOK /\ (\A t \in Thread : ThreadInv(t)) /\ MutexInv /\ BoundInv

\* No handler is twice in a list.
NoDup(seq) == \A i, j \in DOMAIN seq : seq[i] = seq[j] => i = j

\* The list has the users that are connected, and no source before it is made.
ListInv ==
  /\ NoDup(handlers)
  /\ \A u \in User : In(handlers, u) <=> connection[u] = "on"
  /\ \A s \in Source : In(handlers, s) => source[s].phase # "none"

\* How often the callback of a user was called: a cancel owes one to each that is in its
\* list.
Owed(t, u) == At(t, "locked") \/ In(thread[t].todo, u)
Leaves(t, u) == thread[t].at \in {"wait", "gap"} /\ thread[t].h = u
UserInv(u) ==
  /\ calls[u] \in {0, 1}
  /\ connection[u] = "none" => calls[u] = 0
  /\ connection[u] = "off" => calls[u] = 1
  /\ connection[u] = "on" /\ ~cancelled => calls[u] = 0
  /\ connection[u] = "on" /\ cancelled /\ (\A t \in Thread : ~Emitting(t)) => calls[u] = 1
  /\ \A t \in Thread : connection[u] = "on" /\ Emitting(t) => (calls[u] = 0 <=> Owed(t, u))
  /\ \A t \in Thread : Leaves(t, u) => connection[u] \in {"on", "gone"}
  /\ u \notin overtaken => \A t \in Thread : At(t, "callback") /\ Here(t) = u => connection[u] # "gone"
CallsInv == /\ ListInv /\ (\A u \in User : UserInv(u))
            /\ \A t \in Thread : Emitting(t) /\ ~At(t, "locked") => NoDup(thread[t].todo)

\* The threads that have a reference to the source.
Holders(s) == {t \in Thread : thread[t].h = s /\ thread[t].at \in HolderPlaces}
Holds(t, s) == thread[t].h = s /\ thread[t].at \in HolderPlaces
Handles(t, s) == thread[t].h = s /\ thread[t].at \in Handling
Disposes(t, s) == thread[t].h = s /\ thread[t].at \in Disposal
Detaches(t, s) == thread[t].h = s /\ thread[t].at \in {"self", "spin"}

CountInv(s) ==
  /\ source[s].refs = Bit(source[s].held) + Cardinality(Holders(s))
  /\ source[s].phase = "live" <=> source[s].refs # 0
  /\ source[s].phase # "live" => ~source[s].self
  /\ \A t \in Thread : thread[t].h = s /\ At(t, "new") => source[s].held

\* Who disposes of a source has the only reference, but for the handler's.
Disposer(o, s) ==
  /\ ~source[s].held
  /\ ~At(o, "dispose") => ~source[s].cancellable
  /\ At(o, "spin") => ~source[s].self
  /\ \A p \in Thread \ {o} : Holds(p, s) =>
       thread[p].at \in {"ready", "called"} \/ (At(p, "unref") /\ thread[p].back = "emit")
Detached(s) ==
  /\ ~source[s].held
  /\ \A t \in Thread : thread[t].h = s => thread[t].at \notin Preparation
  /\ source[s].self => \E o \in Thread : Detaches(o, s)
DisposeInv(s) == /\ \A o \in Thread : Disposes(o, s) => Disposer(o, s)
                 /\ ~source[s].cancellable => Detached(s)

\* The handler has taken the pointer, and has not said so; a dispose waits for it.
HandlerInv(s) ==
  /\ \A t \in Thread : Handles(t, s) => ~source[s].self /\ ~source[s].called /\ source[s].phase = "live"
  /\ source[s].self /\ source[s].called => \E t \in Thread : thread[t].h = s /\ At(t, "prepare")
  /\ \A t \in Thread : thread[t].h = s /\ At(t, "prepare2") => ~source[s].called
  /\ ~source[s].cancellable =>
       (\E o \in Thread : Detaches(o, s)) \/ (\A t \in Thread : ~Handles(t, s))

SourceInv(s) == CountInv(s) /\ DisposeInv(s) /\ (s \notin overtaken => HandlerInv(s))

\* A source that its creator has is in the list; a cancellation has made it ready, or the
\* emission, or its maker, is about to.
Taken(t, s) == thread[t].h = s /\ thread[t].at \in {"ref", "ready"}
Reaches(t, s) == /\ Emitting(t)
                 /\ \/ At(t, "locked") \/ In(thread[t].todo, s)
                    \/ thread[t].h = s /\ At(t, "exchange")
PendingBy(t, s) == (thread[t].h = s /\ At(t, "new")) \/ Reaches(t, s) \/ Taken(t, s)
TriggerInv(s) == (s \in due => source[s].phase # "none") /\ (source[s].held =>
  /\ In(handlers, s)
  /\ cancelled =>
       source[s].ready \/ source[s].dispatched \/ \E t \in Thread : PendingBy(t, s)
  /\ ~source[s].self =>
       source[s].ready \/ source[s].dispatched \/ \E t \in Thread : Taken(t, s)
  /\ s \in due => \/ source[s].ready
                  \/ \E t \in Thread : Taken(t, s) \/ (source[s].self /\ Reaches(t, s)))
FdInv == fds > 0 => (readable <=> cancelled)
SeenInv == FdInv /\ \A s \in Source : TriggerInv(s)

--------------------------------------------------------------------------------
(* What each action does. *)

\* The thread t goes on at the place a, with the handler h, the list q and the place b to
\* go back to; no other thread does anything.
Goes(t, a, h, q, b) ==
  /\ thread' \in [Thread -> ThreadRecord]
  /\ thread'[t].at = a /\ thread'[t].h = h /\ thread'[t].todo = q /\ thread'[t].back = b
  /\ \A o \in Thread \ {t} : thread'[o] = thread[o]

\* The fields of the source s are set, and those of no other.
Sets(s, phase, refs, held, self, called, cancellable, ready, dispatched) ==
  /\ source' \in [Source -> SourceRecord]
  /\ source'[s].phase = phase /\ source'[s].refs = refs /\ source'[s].held = held
  /\ source'[s].self = self /\ source'[s].called = called
  /\ source'[s].cancellable = cancellable
  /\ source'[s].ready = ready /\ source'[s].dispatched = dispatched
  /\ \A p \in Source \ {s} : source'[p] = source[p]

\* The shapes that the steps of a thread have.
LEMMA GoesAt ==
  ASSUME TypeOK, NEW t \in Thread, NEW a \in Places, thread' = [thread EXCEPT ![t].at = a]
  PROVE  Goes(t, a, thread[t].h, thread[t].todo, thread[t].back)
  BY DEF Goes, TypeOK, ThreadRecord
LEMMA GoesTo ==
  ASSUME TypeOK, NEW t \in Thread, NEW a \in Places, NEW h \in User \cup Source \cup {None},
         thread' = [thread EXCEPT ![t].at = a, ![t].h = h]
  PROVE  Goes(t, a, h, thread[t].todo, thread[t].back)
  BY DEF Goes, TypeOK, ThreadRecord
LEMMA GoesIdle ==
  ASSUME TypeOK, NEW t \in Thread, thread' = [thread EXCEPT ![t] = Resting]
  PROVE  Goes(t, "idle", None, <<>>, "idle")
<1>1. Resting \in ThreadRecord
  BY DEF Resting, ThreadRecord, Places
<1> QED
  BY <1>1 DEF Goes, TypeOK, Resting
LEMMA GoesBack ==
  ASSUME TypeOK, NEW t \in Thread,
         thread' = [thread EXCEPT ![t].at = thread[t].back, ![t].h = None, ![t].back = "idle"]
  PROVE  Goes(t, thread[t].back, None, thread[t].todo, "idle")
<1>1. thread[t].back \in {"idle", "emit"} /\ thread[t].back \in Places
  BY DEF TypeOK, ThreadRecord, Places
<1> QED
  BY <1>1 DEF Goes, TypeOK, ThreadRecord
LEMMA GoesNot ==
  ASSUME TypeOK, NEW t \in Thread, thread' = thread
  PROVE  Goes(t, thread[t].at, thread[t].h, thread[t].todo, thread[t].back)
  BY DEF Goes, TypeOK

LEMMA SetsRefs ==
  ASSUME TypeOK, NEW s \in Source, NEW x \in Nat, source' = [source EXCEPT ![s] = [source[s] EXCEPT !.refs = x]]
  PROVE  Sets(s, source[s].phase, x, source[s].held, source[s].self, source[s].called,
             source[s].cancellable, source[s].ready, source[s].dispatched)
  BY DEF Sets, TypeOK, SourceRecord
LEMMA SetsHeld ==
  ASSUME TypeOK, NEW s \in Source, NEW x \in BOOLEAN, source' = [source EXCEPT ![s] = [source[s] EXCEPT !.held = x]]
  PROVE  Sets(s, source[s].phase, source[s].refs, x, source[s].self, source[s].called,
             source[s].cancellable, source[s].ready, source[s].dispatched)
  BY DEF Sets, TypeOK, SourceRecord
LEMMA SetsSelf ==
  ASSUME TypeOK, NEW s \in Source, NEW x \in BOOLEAN, source' = [source EXCEPT ![s] = [source[s] EXCEPT !.self = x]]
  PROVE  Sets(s, source[s].phase, source[s].refs, source[s].held, x, source[s].called,
             source[s].cancellable, source[s].ready, source[s].dispatched)
  BY DEF Sets, TypeOK, SourceRecord
LEMMA SetsCalled ==
  ASSUME TypeOK, NEW s \in Source, NEW x \in BOOLEAN, source' = [source EXCEPT ![s] = [source[s] EXCEPT !.called = x]]
  PROVE  Sets(s, source[s].phase, source[s].refs, source[s].held, source[s].self, x,
             source[s].cancellable, source[s].ready, source[s].dispatched)
  BY DEF Sets, TypeOK, SourceRecord
LEMMA SetsCancellable ==
  ASSUME TypeOK, NEW s \in Source, NEW x \in BOOLEAN, source' = [source EXCEPT ![s] = [source[s] EXCEPT !.cancellable = x]]
  PROVE  Sets(s, source[s].phase, source[s].refs, source[s].held, source[s].self,
             source[s].called, x, source[s].ready, source[s].dispatched)
  BY DEF Sets, TypeOK, SourceRecord
LEMMA SetsReady ==
  ASSUME TypeOK, NEW s \in Source, NEW x \in BOOLEAN, source' = [source EXCEPT ![s] = [source[s] EXCEPT !.ready = x]]
  PROVE  Sets(s, source[s].phase, source[s].refs, source[s].held, source[s].self,
             source[s].called, source[s].cancellable, x, source[s].dispatched)
  BY DEF Sets, TypeOK, SourceRecord

LEMMA DidCancel ==
  ASSUME Base, NEW t \in Thread, Cancel(t)
  PROVE  /\ At(t, "idle") /\ ~cancelled
         /\ Goes(t, "cancel", None, thread[t].todo, thread[t].back)
         /\ source' = source
         /\ UNCHANGED <<cancelled, cancelledRunning, mutex, fds, readable, handlers,
                connection, calls, overtaken, due, resets>>
<1>1. /\ TypeOK /\ thread[t] \in ThreadRecord /\ ThreadInv(t)
  BY DEF Base, TypeOK
<1>2. At(t, "idle") /\ ~cancelled
  BY DEF Cancel, At, Begin, flagVars
<1>t. thread' = [thread EXCEPT ![t].at = "cancel", ![t].h = None]
  BY <1>2 DEF Cancel, At, Begin, Goes, Rec
<1>3. Goes(t, "cancel", None, thread[t].todo, thread[t].back)
  BY <1>1, <1>2, <1>t, GoesTo DEF Places
<1>4. source' = source
  BY <1>2 DEF Cancel, At, Begin, Rec
<1>5. UNCHANGED <<cancelled, cancelledRunning, mutex, fds, readable, handlers, connection,
             calls, overtaken, due, resets>>
  BY <1>2 DEF Cancel, At, Begin, flagVars, fdVars, userVars, metVars, otherVars
<1> QED
  BY <1>2, <1>3, <1>4, <1>5

LEMMA DidCancelLost ==
  ASSUME Base, NEW t \in Thread, CancelLock(t), cancelled
  PROVE  /\ At(t, "cancel") /\ mutex = None
         /\ Goes(t, "idle", thread[t].h, thread[t].todo, thread[t].back)
         /\ source' = source
         /\ UNCHANGED <<cancelled, cancelledRunning, mutex, fds, readable, handlers,
                connection, calls, overtaken, due, resets>>
<1>1. /\ TypeOK /\ thread[t] \in ThreadRecord /\ ThreadInv(t)
  BY DEF Base, TypeOK
<1>2. At(t, "cancel") /\ mutex = None
  BY DEF CancelLock, At, Step, flagVars, flagVars
<1>t. thread' = [thread EXCEPT ![t].at = "idle"]
  BY <1>2 DEF CancelLock, At, Step, flagVars, Goes, Rec, flagVars
<1>3. Goes(t, "idle", thread[t].h, thread[t].todo, thread[t].back)
  BY <1>1, <1>2, <1>t, GoesAt DEF Places
<1>4. source' = source
  BY <1>2 DEF CancelLock, At, Step, flagVars, Rec
<1>5. UNCHANGED <<cancelled, cancelledRunning, mutex, fds, readable, handlers, connection,
             calls, overtaken, due, resets>>
  BY <1>2 DEF CancelLock, At, Step, flagVars, flagVars, fdVars, userVars, metVars, otherVars
<1> QED
  BY <1>2, <1>3, <1>4, <1>5

LEMMA DidCancelWon ==
  ASSUME Base, NEW t \in Thread, CancelLock(t), ~cancelled
  PROVE  /\ At(t, "cancel") /\ mutex = None /\ ~cancelled
         /\ Goes(t, "locked", thread[t].h, thread[t].todo, thread[t].back)
         /\ source' = source
         /\ cancelled' = TRUE
         /\ cancelledRunning' = cancelledRunning + 1
         /\ mutex' = t
         /\ readable' = (fds > 0)
         /\ overtaken' = overtaken \cup {h \in User \cup Source : Amid(h)}
         /\ due' = {x \in Source : source[x].held /\ source[x].self}
         /\ UNCHANGED <<fds, handlers, connection, calls, resets>>
<1>1. /\ TypeOK /\ thread[t] \in ThreadRecord /\ ThreadInv(t)
  BY DEF Base, TypeOK
<1>2. At(t, "cancel") /\ mutex = None /\ ~cancelled
  BY DEF CancelLock, At, Step, flagVars
<1>t. thread' = [thread EXCEPT ![t].at = "locked"]
  BY <1>2 DEF CancelLock, At, Step, Goes, Rec
<1>3. Goes(t, "locked", thread[t].h, thread[t].todo, thread[t].back)
  BY <1>1, <1>2, <1>t, GoesAt DEF Places
<1>4. source' = source
  BY <1>2 DEF CancelLock, At, Step, Rec
<1>5. /\ cancelled' = TRUE
      /\ cancelledRunning' = cancelledRunning + 1
      /\ mutex' = t
      /\ readable' = (fds > 0)
      /\ overtaken' = overtaken \cup {h \in User \cup Source : Amid(h)}
      /\ due' = {x \in Source : source[x].held /\ source[x].self}
      /\ UNCHANGED <<fds, handlers, connection, calls, resets>>
  BY <1>2 DEF CancelLock, At, Step, flagVars, fdVars, userVars, metVars, otherVars
<1> QED
  BY <1>2, <1>3, <1>4, <1>5

LEMMA DidEmitStart ==
  ASSUME Base, NEW t \in Thread, EmitStart(t)
  PROVE  /\ At(t, "locked")
         /\ Goes(t, "emit", thread[t].h, handlers, thread[t].back)
         /\ source' = source
         /\ UNCHANGED <<cancelled, cancelledRunning, mutex, fds, readable, handlers,
                connection, calls, overtaken, due, resets>>
<1>1. /\ TypeOK /\ thread[t] \in ThreadRecord /\ ThreadInv(t)
  BY DEF Base, TypeOK
<1>2. At(t, "locked")
  BY DEF EmitStart, At, flagVars
<1>t. thread' = [thread EXCEPT ![t].at = "emit", ![t].todo = handlers]
  BY <1>2 DEF EmitStart, At, Goes, Rec
<1>3. Goes(t, "emit", thread[t].h, handlers, thread[t].back)
  BY <1>1, <1>2, <1>t DEF Goes, TypeOK, ThreadRecord, Places
<1>4. source' = source
  BY <1>2 DEF EmitStart, At, Rec
<1>5. UNCHANGED <<cancelled, cancelledRunning, mutex, fds, readable, handlers, connection,
             calls, overtaken, due, resets>>
  BY <1>2 DEF EmitStart, At, flagVars, fdVars, userVars, metVars, otherVars
<1> QED
  BY <1>2, <1>3, <1>4, <1>5

LEMMA DidEmitSkips ==
  ASSUME Base, NEW t \in Thread, EmitNext(t), ~Connected(Head(thread[t].todo))
  PROVE  /\ At(t, "emit") /\ thread[t].todo # <<>>
         /\ Goes(t, "emit", None, Tail(thread[t].todo), thread[t].back)
         /\ source' = source
         /\ UNCHANGED <<cancelled, cancelledRunning, mutex, fds, readable, handlers,
                connection, calls, overtaken, due, resets>>
<1>1. /\ TypeOK /\ thread[t] \in ThreadRecord /\ ThreadInv(t)
  BY DEF Base, TypeOK
<1>2. At(t, "emit") /\ thread[t].todo # <<>>
  BY DEF EmitNext, At, flagVars
<1>v. User \cap Source = {}
  BY CancellableAssumption
<1>q. Tail(thread[t].todo) \in Seq(User \cup Source) /\ Head(thread[t].todo) \in User \cup Source
  BY <1>1, <1>2 DEF ThreadRecord
<1>t. thread' = [thread EXCEPT ![t].at = "emit", ![t].todo = Tail(thread[t].todo), ![t].h = None]
  BY <1>2, <1>q, <1>v DEF EmitNext, At, Goes, Rec
<1>3. Goes(t, "emit", None, Tail(thread[t].todo), thread[t].back)
  BY <1>1, <1>2, <1>t, <1>q, <1>v DEF Goes, TypeOK, ThreadRecord, Places
<1>4. source' = source
  BY <1>2 DEF EmitNext, At, Rec
<1>5. UNCHANGED <<cancelled, cancelledRunning, mutex, fds, readable, handlers, connection,
             calls, overtaken, due, resets>>
  BY <1>2, <1>q, <1>v DEF EmitNext, At, flagVars, fdVars, userVars, metVars, otherVars
<1> QED
  BY <1>2, <1>3, <1>4, <1>5

LEMMA DidEmitCalls ==
  ASSUME Base, NEW t \in Thread, EmitNext(t), Connected(Head(thread[t].todo)), Head(thread[t].todo) \in User
  PROVE  /\ At(t, "emit") /\ thread[t].todo # <<>>
         /\ Head(thread[t].todo) \in User /\ Connected(Head(thread[t].todo))
         /\ Goes(t, "callback", Head(thread[t].todo),
             Tail(thread[t].todo),
                thread[t].back)
         /\ source' = source
         /\ calls' = [calls EXCEPT ![Head(thread[t].todo)] = @ + 1]
         /\ UNCHANGED <<cancelled, cancelledRunning, mutex, fds, readable, handlers,
                connection, overtaken, due, resets>>
<1>1. /\ TypeOK /\ thread[t] \in ThreadRecord /\ ThreadInv(t)
  BY DEF Base, TypeOK
<1>2. /\ At(t, "emit") /\ thread[t].todo # <<>>
      /\ Head(thread[t].todo) \in User /\ Connected(Head(thread[t].todo))
  BY DEF EmitNext, At, flagVars
<1>v. User \cap Source = {}
  BY CancellableAssumption
<1>q. Tail(thread[t].todo) \in Seq(User \cup Source) /\ Head(thread[t].todo) \in User \cup Source
  BY <1>1, <1>2 DEF ThreadRecord
<1>t. thread' = [thread EXCEPT ![t].at = "callback", ![t].todo = Tail(thread[t].todo), ![t].h = Head(thread[t].todo)]
  BY <1>2, <1>q, <1>v DEF EmitNext, At, Goes, Rec
<1>3. Goes(t, "callback", Head(thread[t].todo), Tail(thread[t].todo), thread[t].back)
  BY <1>1, <1>2, <1>t, <1>q, <1>v DEF Goes, TypeOK, ThreadRecord, Places
<1>4. source' = source
  BY <1>2 DEF EmitNext, At, Rec
<1>5. /\ calls' = [calls EXCEPT ![Head(thread[t].todo)] = @ + 1]
      /\ UNCHANGED <<cancelled, cancelledRunning, mutex, fds, readable, handlers, connection,
             overtaken, due, resets>>
  BY <1>2, <1>q, <1>v DEF EmitNext, At, flagVars, fdVars, userVars, metVars, otherVars
<1> QED
  BY <1>2, <1>3, <1>4, <1>5

LEMMA DidEmitExchanges ==
  ASSUME Base, NEW t \in Thread, EmitNext(t), Connected(Head(thread[t].todo)), Head(thread[t].todo) \in Source
  PROVE  /\ At(t, "emit") /\ thread[t].todo # <<>>
         /\ Head(thread[t].todo) \in Source /\ Connected(Head(thread[t].todo))
         /\ Goes(t, "exchange", Head(thread[t].todo),
             Tail(thread[t].todo),
                thread[t].back)
         /\ source' = source
         /\ UNCHANGED <<cancelled, cancelledRunning, mutex, fds, readable, handlers,
                connection, calls, overtaken, due, resets>>
<1>1. /\ TypeOK /\ thread[t] \in ThreadRecord /\ ThreadInv(t)
  BY DEF Base, TypeOK
<1>2. /\ At(t, "emit") /\ thread[t].todo # <<>>
      /\ Head(thread[t].todo) \in Source /\ Connected(Head(thread[t].todo))
  BY <1>1 DEF EmitNext, At, Rec, ThreadInv, Placed, SourcePlaces, HolderPlaces, Unreffing,
       Disposal, Preparation, SourceRecord, TypeOK
<1>v. User \cap Source = {}
  BY CancellableAssumption
<1>q. Tail(thread[t].todo) \in Seq(User \cup Source) /\ Head(thread[t].todo) \in User \cup Source
  BY <1>1, <1>2 DEF ThreadRecord
<1>t. thread' = [thread EXCEPT ![t].at = "exchange", ![t].todo = Tail(thread[t].todo), ![t].h = Head(thread[t].todo)]
  BY <1>2, <1>q, <1>v DEF EmitNext, At, Goes, Rec
<1>3. Goes(t, "exchange", Head(thread[t].todo), Tail(thread[t].todo), thread[t].back)
  BY <1>1, <1>2, <1>t, <1>q, <1>v DEF Goes, TypeOK, ThreadRecord, Places
<1>4. source' = source
  BY <1>2 DEF EmitNext, At, Rec
<1>5. UNCHANGED <<cancelled, cancelledRunning, mutex, fds, readable, handlers, connection,
             calls, overtaken, due, resets>>
  BY <1>2, <1>q, <1>v DEF EmitNext, At, flagVars, fdVars, userVars, metVars, otherVars
<1> QED
  BY <1>2, <1>3, <1>4, <1>5

LEMMA DidCallbackReturns ==
  ASSUME Base, NEW t \in Thread, CallbackReturns(t)
  PROVE  /\ At(t, "callback")
         /\ Goes(t, "emit", None, thread[t].todo, thread[t].back)
         /\ source' = source
         /\ UNCHANGED <<cancelled, cancelledRunning, mutex, fds, readable, handlers,
                connection, calls, overtaken, due, resets>>
<1>1. /\ TypeOK /\ thread[t] \in ThreadRecord /\ ThreadInv(t)
  BY DEF Base, TypeOK
<1>2. At(t, "callback")
  BY DEF CallbackReturns, At, flagVars
<1>t. thread' = [thread EXCEPT ![t].at = "emit", ![t].h = None]
  BY <1>2 DEF CallbackReturns, At, Goes, Rec
<1>3. Goes(t, "emit", None, thread[t].todo, thread[t].back)
  BY <1>1, <1>2, <1>t, GoesTo DEF Places
<1>4. source' = source
  BY <1>2 DEF CallbackReturns, At, Rec
<1>5. UNCHANGED <<cancelled, cancelledRunning, mutex, fds, readable, handlers, connection,
             calls, overtaken, due, resets>>
  BY <1>2 DEF CallbackReturns, At, flagVars, fdVars, userVars, metVars, otherVars
<1> QED
  BY <1>2, <1>3, <1>4, <1>5

LEMMA DidEmitEnd ==
  ASSUME Base, NEW t \in Thread, EmitEnd(t)
  PROVE  /\ At(t, "emit") /\ thread[t].todo = <<>>
         /\ Goes(t, "idle", None, <<>>, "idle")
         /\ source' = source
         /\ cancelledRunning' = cancelledRunning - 1
         /\ mutex' = None
         /\ UNCHANGED <<cancelled, fds, readable, handlers, connection, calls, overtaken, due,
                resets>>
<1>1. /\ TypeOK /\ thread[t] \in ThreadRecord /\ ThreadInv(t)
  BY DEF Base, TypeOK
<1>2. At(t, "emit") /\ thread[t].todo = <<>>
  BY DEF EmitEnd, At, flagVars
<1>t. thread' = [thread EXCEPT ![t] = Resting]
  BY <1>2 DEF EmitEnd, At, Goes, Rec
<1>3. Goes(t, "idle", None, <<>>, "idle")
  BY <1>1, <1>t, GoesIdle
<1>4. source' = source
  BY <1>2 DEF EmitEnd, At, Rec
<1>5. /\ cancelledRunning' = cancelledRunning - 1
      /\ mutex' = None
      /\ UNCHANGED <<cancelled, fds, readable, handlers, connection, calls, overtaken, due,
             resets>>
  BY <1>2 DEF EmitEnd, At, flagVars, fdVars, userVars, metVars, otherVars
<1> QED
  BY <1>2, <1>3, <1>4, <1>5

LEMMA DidConnectOn ==
  ASSUME Base, NEW t \in Thread, NEW u \in User, Connect(t, u), ~cancelled
  PROVE  /\ connection[u] = "none" /\ mutex = None /\ At(t, "idle") /\ ~cancelled
         /\ Goes(t, thread[t].at, thread[t].h, thread[t].todo, thread[t].back)
         /\ source' = source
         /\ handlers' = Append(handlers, u)
         /\ connection' = [connection EXCEPT ![u] = "on"]
         /\ UNCHANGED <<cancelled, cancelledRunning, mutex, fds, readable, calls, overtaken,
                due, resets>>
<1>1. /\ TypeOK /\ thread[t] \in ThreadRecord /\ ThreadInv(t)
  BY DEF Base, TypeOK
<1>2. connection[u] = "none" /\ mutex = None /\ At(t, "idle") /\ ~cancelled
  BY DEF Connect, At, flagVars, flagVars
<1>t. thread' = thread
  BY <1>2 DEF Connect, At, flagVars, Goes, Rec
<1>3. Goes(t, thread[t].at, thread[t].h, thread[t].todo, thread[t].back)
  BY <1>1, <1>t, GoesNot
<1>4. source' = source
  BY <1>2 DEF Connect, At, flagVars, Rec
<1>5. /\ handlers' = Append(handlers, u)
      /\ connection' = [connection EXCEPT ![u] = "on"]
      /\ UNCHANGED <<cancelled, cancelledRunning, mutex, fds, readable, calls, overtaken, due,
             resets>>
  BY <1>2 DEF Connect, At, flagVars, flagVars, fdVars, userVars, metVars, otherVars
<1> QED
  BY <1>2, <1>3, <1>4, <1>5

LEMMA DidConnectOff ==
  ASSUME Base, NEW t \in Thread, NEW u \in User, Connect(t, u), cancelled
  PROVE  /\ connection[u] = "none" /\ mutex = None /\ At(t, "idle") /\ cancelled
         /\ Goes(t, "direct", u, thread[t].todo, thread[t].back)
         /\ source' = source
         /\ mutex' = t
         /\ connection' = [connection EXCEPT ![u] = "off"]
         /\ calls' = [calls EXCEPT ![u] = @ + 1]
         /\ UNCHANGED <<cancelled, cancelledRunning, fds, readable, handlers, overtaken, due,
                resets>>
<1>1. /\ TypeOK /\ thread[t] \in ThreadRecord /\ ThreadInv(t)
  BY DEF Base, TypeOK
<1>2. connection[u] = "none" /\ mutex = None /\ At(t, "idle") /\ cancelled
  BY DEF Connect, At, Begin, flagVars
<1>t. thread' = [thread EXCEPT ![t].at = "direct", ![t].h = u]
  BY <1>2 DEF Connect, At, Begin, Goes, Rec
<1>3. Goes(t, "direct", u, thread[t].todo, thread[t].back)
  BY <1>1, <1>2, <1>t, GoesTo DEF Places
<1>4. source' = source
  BY <1>2 DEF Connect, At, Begin, Rec
<1>5. /\ mutex' = t
      /\ connection' = [connection EXCEPT ![u] = "off"]
      /\ calls' = [calls EXCEPT ![u] = @ + 1]
      /\ UNCHANGED <<cancelled, cancelledRunning, fds, readable, handlers, overtaken, due,
             resets>>
  BY <1>2 DEF Connect, At, Begin, flagVars, fdVars, userVars, metVars, otherVars
<1> QED
  BY <1>2, <1>3, <1>4, <1>5

LEMMA DidDirectReturns ==
  ASSUME Base, NEW t \in Thread, DirectReturns(t)
  PROVE  /\ At(t, "direct")
         /\ Goes(t, "idle", None, <<>>, "idle")
         /\ source' = source
         /\ mutex' = None
         /\ UNCHANGED <<cancelled, cancelledRunning, fds, readable, handlers, connection,
                calls, overtaken, due, resets>>
<1>1. /\ TypeOK /\ thread[t] \in ThreadRecord /\ ThreadInv(t)
  BY DEF Base, TypeOK
<1>2. At(t, "direct")
  BY DEF DirectReturns, At, flagVars
<1>t. thread' = [thread EXCEPT ![t] = Resting]
  BY <1>2 DEF DirectReturns, At, Goes, Rec
<1>3. Goes(t, "idle", None, <<>>, "idle")
  BY <1>1, <1>t, GoesIdle
<1>4. source' = source
  BY <1>2 DEF DirectReturns, At, Rec
<1>5. /\ mutex' = None
      /\ UNCHANGED <<cancelled, cancelledRunning, fds, readable, handlers, connection, calls,
             overtaken, due, resets>>
  BY <1>2 DEF DirectReturns, At, flagVars, fdVars, userVars, metVars, otherVars
<1> QED
  BY <1>2, <1>3, <1>4, <1>5

LEMMA DidDisconnect ==
  ASSUME Base, NEW t \in Thread, NEW u \in User, Disconnect(t, u)
  PROVE  /\ connection[u] = "on" /\ At(t, "idle")
         /\ Goes(t, "wait", u, thread[t].todo, thread[t].back)
         /\ source' = source
         /\ UNCHANGED <<cancelled, cancelledRunning, mutex, fds, readable, handlers,
                connection, calls, overtaken, due, resets>>
<1>1. /\ TypeOK /\ thread[t] \in ThreadRecord /\ ThreadInv(t)
  BY DEF Base, TypeOK
<1>2. connection[u] = "on" /\ At(t, "idle")
  BY DEF Disconnect, At, Begin, flagVars
<1>t. thread' = [thread EXCEPT ![t].at = "wait", ![t].h = u]
  BY <1>2 DEF Disconnect, At, Begin, Goes, Rec
<1>3. Goes(t, "wait", u, thread[t].todo, thread[t].back)
  BY <1>1, <1>2, <1>t, GoesTo DEF Places
<1>4. source' = source
  BY <1>2 DEF Disconnect, At, Begin, Rec
<1>5. UNCHANGED <<cancelled, cancelledRunning, mutex, fds, readable, handlers, connection,
             calls, overtaken, due, resets>>
  BY <1>2 DEF Disconnect, At, Begin, flagVars, fdVars, userVars, metVars, otherVars
<1> QED
  BY <1>2, <1>3, <1>4, <1>5

LEMMA DidDisconnectLock ==
  ASSUME Base, NEW t \in Thread, DisconnectLock(t)
  PROVE  /\ At(t, "wait") /\ mutex = None
         /\ Goes(t, "gap", thread[t].h, thread[t].todo, thread[t].back)
         /\ source' = source
         /\ UNCHANGED <<cancelled, cancelledRunning, mutex, fds, readable, handlers,
                connection, calls, overtaken, due, resets>>
<1>1. /\ TypeOK /\ thread[t] \in ThreadRecord /\ ThreadInv(t)
  BY DEF Base, TypeOK
<1>2. At(t, "wait") /\ mutex = None
  BY DEF DisconnectLock, At, Step, flagVars
<1>t. thread' = [thread EXCEPT ![t].at = "gap"]
  BY <1>2 DEF DisconnectLock, At, Step, Goes, Rec
<1>3. Goes(t, "gap", thread[t].h, thread[t].todo, thread[t].back)
  BY <1>1, <1>2, <1>t, GoesAt DEF Places
<1>4. source' = source
  BY <1>2 DEF DisconnectLock, At, Step, Rec
<1>5. UNCHANGED <<cancelled, cancelledRunning, mutex, fds, readable, handlers, connection,
             calls, overtaken, due, resets>>
  BY <1>2 DEF DisconnectLock, At, Step, flagVars, fdVars, userVars, metVars, otherVars
<1> QED
  BY <1>2, <1>3, <1>4, <1>5

LEMMA DidDisconnectEnds ==
  ASSUME Base, NEW t \in Thread, DisconnectEnds(t)
  PROVE  /\ At(t, "gap")
         /\ Goes(t, "idle", None, <<>>, "idle")
         /\ source' = source
         /\ handlers' = Without(handlers, thread[t].h)
         /\ connection' = [connection EXCEPT ![thread[t].h] = "gone"]
         /\ UNCHANGED <<cancelled, cancelledRunning, mutex, fds, readable, calls, overtaken,
                due, resets>>
<1>1. /\ TypeOK /\ thread[t] \in ThreadRecord /\ ThreadInv(t)
  BY DEF Base, TypeOK
<1>2. At(t, "gap")
  BY DEF DisconnectEnds, At, Here, flagVars
<1>t. thread' = [thread EXCEPT ![t] = Resting]
  BY <1>2 DEF DisconnectEnds, At, Here, Goes, Rec
<1>3. Goes(t, "idle", None, <<>>, "idle")
  BY <1>1, <1>t, GoesIdle
<1>4. source' = source
  BY <1>2 DEF DisconnectEnds, At, Here, Rec
<1>5. /\ handlers' = Without(handlers, thread[t].h)
      /\ connection' = [connection EXCEPT ![thread[t].h] = "gone"]
      /\ UNCHANGED <<cancelled, cancelledRunning, mutex, fds, readable, calls, overtaken, due,
             resets>>
  BY <1>2 DEF DisconnectEnds, At, Here, flagVars, fdVars, userVars, metVars, otherVars
<1> QED
  BY <1>2, <1>3, <1>4, <1>5

LEMMA DidReset ==
  ASSUME Base, NEW t \in Thread, Reset(t)
  PROVE  /\ At(t, "idle") /\ mutex = None /\ resets < MaxResets
         /\ Goes(t, thread[t].at, thread[t].h, thread[t].todo, thread[t].back)
         /\ source' = source
         /\ cancelled' = FALSE
         /\ readable' = (IF cancelled THEN FALSE ELSE readable)
         /\ calls' = [u \in User |-> IF connection[u] = "on" THEN 0 ELSE calls[u]]
         /\ resets' = resets + 1
         /\ UNCHANGED <<cancelledRunning, mutex, fds, handlers, connection, overtaken, due>>
<1>1. /\ TypeOK /\ thread[t] \in ThreadRecord /\ ThreadInv(t)
  BY DEF Base, TypeOK
<1>2. At(t, "idle") /\ mutex = None /\ resets < MaxResets
  BY DEF Reset, At, flagVars
<1>t. thread' = thread
  BY <1>2 DEF Reset, At, Goes, Rec
<1>3. Goes(t, thread[t].at, thread[t].h, thread[t].todo, thread[t].back)
  BY <1>1, <1>t, GoesNot
<1>4. source' = source
  BY <1>2 DEF Reset, At, Rec
<1>5. /\ cancelled' = FALSE
      /\ readable' = (IF cancelled THEN FALSE ELSE readable)
      /\ calls' = [u \in User |-> IF connection[u] = "on" THEN 0 ELSE calls[u]]
      /\ resets' = resets + 1
      /\ UNCHANGED <<cancelledRunning, mutex, fds, handlers, connection, overtaken, due>>
  BY <1>2 DEF Reset, At, flagVars, fdVars, userVars, metVars, otherVars
<1> QED
  BY <1>2, <1>3, <1>4, <1>5

LEMMA DidMakePollfd ==
  ASSUME Base, NEW t \in Thread, MakePollfd(t)
  PROVE  /\ At(t, "idle") /\ mutex = None /\ fds < MaxFds
         /\ Goes(t, thread[t].at, thread[t].h, thread[t].todo, thread[t].back)
         /\ source' = source
         /\ fds' = fds + 1
         /\ readable' = (IF fds = 0 THEN cancelled ELSE readable)
         /\ UNCHANGED <<cancelled, cancelledRunning, mutex, handlers, connection, calls,
                overtaken, due, resets>>
<1>1. /\ TypeOK /\ thread[t] \in ThreadRecord /\ ThreadInv(t)
  BY DEF Base, TypeOK
<1>2. At(t, "idle") /\ mutex = None /\ fds < MaxFds
  BY DEF MakePollfd, At, flagVars
<1>t. thread' = thread
  BY <1>2 DEF MakePollfd, At, Goes, Rec
<1>3. Goes(t, thread[t].at, thread[t].h, thread[t].todo, thread[t].back)
  BY <1>1, <1>t, GoesNot
<1>4. source' = source
  BY <1>2 DEF MakePollfd, At, Rec
<1>5. /\ fds' = fds + 1
      /\ readable' = (IF fds = 0 THEN cancelled ELSE readable)
      /\ UNCHANGED <<cancelled, cancelledRunning, mutex, handlers, connection, calls,
             overtaken, due, resets>>
  BY <1>2 DEF MakePollfd, At, flagVars, fdVars, userVars, metVars, otherVars
<1> QED
  BY <1>2, <1>3, <1>4, <1>5

LEMMA DidReleaseFd ==
  ASSUME Base, NEW t \in Thread, ReleaseFd(t)
  PROVE  /\ At(t, "idle") /\ mutex = None /\ fds > 0
         /\ Goes(t, thread[t].at, thread[t].h, thread[t].todo, thread[t].back)
         /\ source' = source
         /\ fds' = fds - 1
         /\ readable' = (readable /\ fds > 1)
         /\ UNCHANGED <<cancelled, cancelledRunning, mutex, handlers, connection, calls,
                overtaken, due, resets>>
<1>1. /\ TypeOK /\ thread[t] \in ThreadRecord /\ ThreadInv(t)
  BY DEF Base, TypeOK
<1>2. At(t, "idle") /\ mutex = None /\ fds > 0
  BY DEF ReleaseFd, At, flagVars
<1>t. thread' = thread
  BY <1>2 DEF ReleaseFd, At, Goes, Rec
<1>3. Goes(t, thread[t].at, thread[t].h, thread[t].todo, thread[t].back)
  BY <1>1, <1>t, GoesNot
<1>4. source' = source
  BY <1>2 DEF ReleaseFd, At, Rec
<1>5. /\ fds' = fds - 1
      /\ readable' = (readable /\ fds > 1)
      /\ UNCHANGED <<cancelled, cancelledRunning, mutex, handlers, connection, calls,
             overtaken, due, resets>>
  BY <1>2 DEF ReleaseFd, At, flagVars, fdVars, userVars, metVars, otherVars
<1> QED
  BY <1>2, <1>3, <1>4, <1>5

LEMMA DidSourceNew ==
  ASSUME Base, NEW t \in Thread, NEW s \in Source, SourceNew(t, s)
  PROVE  /\ At(t, "idle") /\ source[s].phase = "none"
         /\ Goes(t, "new", s, thread[t].todo, thread[t].back)
         /\ Sets(s, "live", 1, TRUE, TRUE, FALSE, TRUE, FALSE, FALSE)
         /\ handlers' = Append(handlers, s)
         /\ UNCHANGED <<cancelled, cancelledRunning, mutex, fds, readable, connection, calls,
                overtaken, due, resets>>
<1>1. /\ TypeOK /\ thread[t] \in ThreadRecord /\ ThreadInv(t) /\ source[s] \in SourceRecord
  BY DEF Base, TypeOK
<1>2. At(t, "idle") /\ source[s].phase = "none"
  BY DEF SourceNew, At, Begin, NoSource, Set, flagVars
<1>t. thread' = [thread EXCEPT ![t].at = "new", ![t].h = s]
  BY <1>2 DEF SourceNew, At, Begin, NoSource, Set, Goes, Rec
<1>3. Goes(t, "new", s, thread[t].todo, thread[t].back)
  BY <1>1, <1>2, <1>t, GoesTo DEF Places
<1>4. Sets(s, "live", 1, TRUE, TRUE, FALSE, TRUE, FALSE, FALSE)
  BY <1>1, <1>2 DEF SourceNew, At, Begin, NoSource, Set, Sets, TypeOK, SourceRecord
<1>5. /\ handlers' = Append(handlers, s)
      /\ UNCHANGED <<cancelled, cancelledRunning, mutex, fds, readable, connection, calls,
             overtaken, due, resets>>
  BY <1>2 DEF SourceNew, At, Begin, NoSource, Set, flagVars, fdVars, userVars, metVars,
       otherVars
<1> QED
  BY <1>2, <1>3, <1>4, <1>5

LEMMA DidSourceChecks ==
  ASSUME Base, NEW t \in Thread, SourceChecks(t)
  PROVE  /\ At(t, "new") /\ thread[t].h \in Source
         /\ Goes(t, "idle", None, <<>>, "idle")
         /\ Sets(thread[t].h, source[thread[t].h].phase, source[thread[t].h].refs,
                source[thread[t].h].held, source[thread[t].h].self,
                source[thread[t].h].called, source[thread[t].h].cancellable,
                (source[thread[t].h].ready \/ cancelled), source[thread[t].h].dispatched)
         /\ UNCHANGED <<cancelled, cancelledRunning, mutex, fds, readable, handlers,
                connection, calls, overtaken, due, resets>>
<1>1. /\ TypeOK /\ thread[t] \in ThreadRecord /\ ThreadInv(t)
  BY DEF Base, TypeOK
<1>2. At(t, "new") /\ thread[t].h \in Source
  BY <1>1 DEF SourceChecks, At, Here, Rec, Set, SetAndStep, Step, Return, Rec, ThreadInv,
       Placed, SourcePlaces, HolderPlaces, Unreffing, Disposal, Preparation, SourceRecord,
       TypeOK
<1>t. thread' = [thread EXCEPT ![t] = Resting]
  BY <1>2 DEF SourceChecks, At, Here, Rec, Set, SetAndStep, Step, Return, Goes, Rec
<1>3. Goes(t, "idle", None, <<>>, "idle")
  BY <1>1, <1>t, GoesIdle
<1>r. source' = [source EXCEPT ![thread[t].h] = [source[thread[t].h] EXCEPT !.ready =
                    (source[thread[t].h].ready \/ cancelled)]]
  BY <1>2 DEF SourceChecks, At, Here, Rec, Set, SetAndStep, Step, Return, Rec
<1>y. thread[t].h \in Source /\ (source[thread[t].h].ready \/ cancelled) \in BOOLEAN
  BY <1>1, <1>2 DEF TypeOK, SourceRecord
<1>4. Sets(thread[t].h, source[thread[t].h].phase, source[thread[t].h].refs,
          source[thread[t].h].held, source[thread[t].h].self, source[thread[t].h].called,
          source[thread[t].h].cancellable, (source[thread[t].h].ready \/ cancelled),
          source[thread[t].h].dispatched)
  BY <1>1, <1>r, <1>y, SetsReady
<1>5. UNCHANGED <<cancelled, cancelledRunning, mutex, fds, readable, handlers, connection,
             calls, overtaken, due, resets>>
  BY <1>2 DEF SourceChecks, At, Here, Rec, Set, SetAndStep, Step, Return, flagVars, fdVars,
       userVars, metVars, otherVars
<1> QED
  BY <1>2, <1>3, <1>4, <1>5

LEMMA DidExchangeTakes ==
  ASSUME Base, NEW t \in Thread, Exchange(t), Rec(t).self
  PROVE  /\ At(t, "exchange") /\ thread[t].h \in Source
         /\ source[thread[t].h].self
         /\ Goes(t, "ref", thread[t].h, thread[t].todo, thread[t].back)
         /\ Sets(thread[t].h, source[thread[t].h].phase, source[thread[t].h].refs,
                source[thread[t].h].held, FALSE, source[thread[t].h].called,
                source[thread[t].h].cancellable, source[thread[t].h].ready,
                source[thread[t].h].dispatched)
         /\ UNCHANGED <<cancelled, cancelledRunning, mutex, fds, readable, handlers,
                connection, calls, overtaken, due, resets>>
<1>1. /\ TypeOK /\ thread[t] \in ThreadRecord /\ ThreadInv(t)
  BY DEF Base, TypeOK
<1>2. /\ At(t, "exchange") /\ thread[t].h \in Source
      /\ source[thread[t].h].self
  BY <1>1 DEF Exchange, At, Here, Rec, Set, SetAndStep, Step, Return, Rec, ThreadInv,
       Placed, SourcePlaces, HolderPlaces, Unreffing, Disposal, Preparation, SourceRecord,
       TypeOK
<1>t. thread' = [thread EXCEPT ![t].at = "ref"]
  BY <1>2 DEF Exchange, At, Here, Rec, Set, SetAndStep, Step, Return, Goes, Rec
<1>3. Goes(t, "ref", thread[t].h, thread[t].todo, thread[t].back)
  BY <1>1, <1>2, <1>t, GoesAt DEF Places
<1>r. source' = [source EXCEPT ![thread[t].h] = [source[thread[t].h] EXCEPT !.self = FALSE]]
  BY <1>2 DEF Exchange, At, Here, Rec, Set, SetAndStep, Step, Return, Rec
<1>y. thread[t].h \in Source
  BY <1>1, <1>2 DEF TypeOK, SourceRecord
<1>4. Sets(thread[t].h, source[thread[t].h].phase, source[thread[t].h].refs,
          source[thread[t].h].held, FALSE, source[thread[t].h].called,
          source[thread[t].h].cancellable, source[thread[t].h].ready,
          source[thread[t].h].dispatched)
  BY <1>1, <1>r, <1>y, SetsSelf
<1>5. UNCHANGED <<cancelled, cancelledRunning, mutex, fds, readable, handlers, connection,
             calls, overtaken, due, resets>>
  BY <1>2 DEF Exchange, At, Here, Rec, Set, SetAndStep, Step, Return, flagVars, fdVars,
       userVars, metVars, otherVars
<1> QED
  BY <1>2, <1>3, <1>4, <1>5

LEMMA DidExchangeFails ==
  ASSUME Base, NEW t \in Thread, Exchange(t), ~Rec(t).self
  PROVE  /\ At(t, "exchange") /\ thread[t].h \in Source
         /\ ~source[thread[t].h].self
         /\ Goes(t, "emit", None, thread[t].todo, thread[t].back)
         /\ Sets(thread[t].h, source[thread[t].h].phase, source[thread[t].h].refs,
                source[thread[t].h].held, FALSE, source[thread[t].h].called,
                source[thread[t].h].cancellable, source[thread[t].h].ready,
                source[thread[t].h].dispatched)
         /\ UNCHANGED <<cancelled, cancelledRunning, mutex, fds, readable, handlers,
                connection, calls, overtaken, due, resets>>
<1>1. /\ TypeOK /\ thread[t] \in ThreadRecord /\ ThreadInv(t)
  BY DEF Base, TypeOK
<1>2. /\ At(t, "exchange") /\ thread[t].h \in Source
      /\ ~source[thread[t].h].self
  BY <1>1 DEF Exchange, At, Here, Rec, Set, SetAndStep, Step, Return, Rec, ThreadInv,
       Placed, SourcePlaces, HolderPlaces, Unreffing, Disposal, Preparation, SourceRecord,
       TypeOK
<1>t. thread' = [thread EXCEPT ![t].at = "emit", ![t].h = None]
  BY <1>2 DEF Exchange, At, Here, Rec, Set, SetAndStep, Step, Return, Goes, Rec
<1>3. Goes(t, "emit", None, thread[t].todo, thread[t].back)
  BY <1>1, <1>2, <1>t, GoesTo DEF Places
<1>r. source' = [source EXCEPT ![thread[t].h] = [source[thread[t].h] EXCEPT !.self = FALSE]]
  BY <1>2 DEF Exchange, At, Here, Rec, Set, SetAndStep, Step, Return, Rec
<1>y. thread[t].h \in Source
  BY <1>1, <1>2 DEF TypeOK, SourceRecord
<1>4. Sets(thread[t].h, source[thread[t].h].phase, source[thread[t].h].refs,
          source[thread[t].h].held, FALSE, source[thread[t].h].called,
          source[thread[t].h].cancellable, source[thread[t].h].ready,
          source[thread[t].h].dispatched)
  BY <1>1, <1>r, <1>y, SetsSelf
<1>5. UNCHANGED <<cancelled, cancelledRunning, mutex, fds, readable, handlers, connection,
             calls, overtaken, due, resets>>
  BY <1>2 DEF Exchange, At, Here, Rec, Set, SetAndStep, Step, Return, flagVars, fdVars,
       userVars, metVars, otherVars
<1> QED
  BY <1>2, <1>3, <1>4, <1>5

LEMMA DidHandlerRefs ==
  ASSUME Base, NEW t \in Thread, HandlerRefs(t), Sound
  PROVE  /\ At(t, "ref") /\ thread[t].h \in Source
         /\ source[thread[t].h].phase = "live"
         /\ Goes(t, "ready", thread[t].h, thread[t].todo, thread[t].back)
         /\ Sets(thread[t].h, source[thread[t].h].phase, source[thread[t].h].refs + 1,
                source[thread[t].h].held, source[thread[t].h].self,
                source[thread[t].h].called, source[thread[t].h].cancellable,
                source[thread[t].h].ready, source[thread[t].h].dispatched)
         /\ UNCHANGED <<cancelled, cancelledRunning, mutex, fds, readable, handlers,
                connection, calls, overtaken, due, resets>>
<1>1. /\ TypeOK /\ thread[t] \in ThreadRecord /\ ThreadInv(t)
  BY DEF Base, TypeOK
<1>2. /\ At(t, "ref") /\ thread[t].h \in Source
      /\ source[thread[t].h].phase = "live"
  BY <1>1 DEF HandlerRefs, At, Here, Rec, Set, SetAndStep, Step, Return, Sound, Freed, Rec,
       ThreadInv, Placed, SourcePlaces, HolderPlaces, Unreffing, Disposal, Preparation,
       SourceRecord, TypeOK
<1>t. thread' = [thread EXCEPT ![t].at = "ready"]
  BY <1>2 DEF HandlerRefs, At, Here, Rec, Set, SetAndStep, Step, Return, Sound, Freed, Goes,
       Rec
<1>3. Goes(t, "ready", thread[t].h, thread[t].todo, thread[t].back)
  BY <1>1, <1>2, <1>t, GoesAt DEF Places
<1>r. source' = [source EXCEPT ![thread[t].h] = [source[thread[t].h] EXCEPT !.refs =
                    source[thread[t].h].refs + 1]]
  BY <1>2 DEF HandlerRefs, At, Here, Rec, Set, SetAndStep, Step, Return, Sound, Freed, Rec
<1>y. thread[t].h \in Source /\ source[thread[t].h].refs + 1 \in Nat
  BY <1>1, <1>2 DEF TypeOK, SourceRecord
<1>4. Sets(thread[t].h, source[thread[t].h].phase, source[thread[t].h].refs + 1,
          source[thread[t].h].held, source[thread[t].h].self, source[thread[t].h].called,
          source[thread[t].h].cancellable, source[thread[t].h].ready,
          source[thread[t].h].dispatched)
  BY <1>1, <1>r, <1>y, SetsRefs
<1>5. UNCHANGED <<cancelled, cancelledRunning, mutex, fds, readable, handlers, connection,
             calls, overtaken, due, resets>>
  BY <1>2 DEF HandlerRefs, At, Here, Rec, Set, SetAndStep, Step, Return, Sound, Freed,
       flagVars, fdVars, userVars, metVars, otherVars
<1> QED
  BY <1>2, <1>3, <1>4, <1>5

LEMMA DidHandlerReadies ==
  ASSUME Base, NEW t \in Thread, HandlerReadies(t)
  PROVE  /\ At(t, "ready") /\ thread[t].h \in Source
         /\ Goes(t, "called", thread[t].h, thread[t].todo, thread[t].back)
         /\ Sets(thread[t].h, source[thread[t].h].phase, source[thread[t].h].refs,
                source[thread[t].h].held, source[thread[t].h].self,
                source[thread[t].h].called, source[thread[t].h].cancellable, TRUE,
                source[thread[t].h].dispatched)
         /\ UNCHANGED <<cancelled, cancelledRunning, mutex, fds, readable, handlers,
                connection, calls, overtaken, due, resets>>
<1>1. /\ TypeOK /\ thread[t] \in ThreadRecord /\ ThreadInv(t)
  BY DEF Base, TypeOK
<1>2. At(t, "ready") /\ thread[t].h \in Source
  BY <1>1 DEF HandlerReadies, At, Here, Rec, Set, SetAndStep, Step, Return, Rec, ThreadInv,
       Placed, SourcePlaces, HolderPlaces, Unreffing, Disposal, Preparation, SourceRecord,
       TypeOK
<1>t. thread' = [thread EXCEPT ![t].at = "called"]
  BY <1>2 DEF HandlerReadies, At, Here, Rec, Set, SetAndStep, Step, Return, Goes, Rec
<1>3. Goes(t, "called", thread[t].h, thread[t].todo, thread[t].back)
  BY <1>1, <1>2, <1>t, GoesAt DEF Places
<1>r. source' = [source EXCEPT ![thread[t].h] = [source[thread[t].h] EXCEPT !.ready = TRUE]]
  BY <1>2 DEF HandlerReadies, At, Here, Rec, Set, SetAndStep, Step, Return, Rec
<1>y. thread[t].h \in Source
  BY <1>1, <1>2 DEF TypeOK, SourceRecord
<1>4. Sets(thread[t].h, source[thread[t].h].phase, source[thread[t].h].refs,
          source[thread[t].h].held, source[thread[t].h].self, source[thread[t].h].called,
          source[thread[t].h].cancellable, TRUE, source[thread[t].h].dispatched)
  BY <1>1, <1>r, <1>y, SetsReady
<1>5. UNCHANGED <<cancelled, cancelledRunning, mutex, fds, readable, handlers, connection,
             calls, overtaken, due, resets>>
  BY <1>2 DEF HandlerReadies, At, Here, Rec, Set, SetAndStep, Step, Return, flagVars,
       fdVars, userVars, metVars, otherVars
<1> QED
  BY <1>2, <1>3, <1>4, <1>5

LEMMA DidHandlerCalled ==
  ASSUME Base, NEW t \in Thread, HandlerCalled(t)
  PROVE  /\ At(t, "called") /\ thread[t].h \in Source
         /\ Goes(t, "unref", thread[t].h, thread[t].todo, "emit")
         /\ Sets(thread[t].h, source[thread[t].h].phase, source[thread[t].h].refs,
                source[thread[t].h].held, source[thread[t].h].self, TRUE,
                source[thread[t].h].cancellable, source[thread[t].h].ready,
                source[thread[t].h].dispatched)
         /\ UNCHANGED <<cancelled, cancelledRunning, mutex, fds, readable, handlers,
                connection, calls, overtaken, due, resets>>
<1>1. /\ TypeOK /\ thread[t] \in ThreadRecord /\ ThreadInv(t)
  BY DEF Base, TypeOK
<1>2. At(t, "called") /\ thread[t].h \in Source
  BY <1>1 DEF HandlerCalled, At, Here, Rec, Set, SetAndStep, Step, Return, Rec, ThreadInv,
       Placed, SourcePlaces, HolderPlaces, Unreffing, Disposal, Preparation, SourceRecord,
       TypeOK
<1>t. thread' = [thread EXCEPT ![t].at = "unref", ![t].back = "emit"]
  BY <1>2 DEF HandlerCalled, At, Here, Rec, Set, SetAndStep, Step, Return, Goes, Rec
<1>3. Goes(t, "unref", thread[t].h, thread[t].todo, "emit")
  BY <1>1, <1>2, <1>t DEF Goes, TypeOK, ThreadRecord, Places
<1>r. source' = [source EXCEPT ![thread[t].h] = [source[thread[t].h] EXCEPT !.called = TRUE]]
  BY <1>2 DEF HandlerCalled, At, Here, Rec, Set, SetAndStep, Step, Return, Rec
<1>y. thread[t].h \in Source
  BY <1>1, <1>2 DEF TypeOK, SourceRecord
<1>4. Sets(thread[t].h, source[thread[t].h].phase, source[thread[t].h].refs,
          source[thread[t].h].held, source[thread[t].h].self, TRUE,
          source[thread[t].h].cancellable, source[thread[t].h].ready,
          source[thread[t].h].dispatched)
  BY <1>1, <1>r, <1>y, SetsCalled
<1>5. UNCHANGED <<cancelled, cancelledRunning, mutex, fds, readable, handlers, connection,
             calls, overtaken, due, resets>>
  BY <1>2 DEF HandlerCalled, At, Here, Rec, Set, SetAndStep, Step, Return, flagVars, fdVars,
       userVars, metVars, otherVars
<1> QED
  BY <1>2, <1>3, <1>4, <1>5

LEMMA DidPrepare ==
  ASSUME Base, NEW t \in Thread, NEW s \in Source, Prepare(t, s)
  PROVE  /\ At(t, "idle") /\ source[s].held /\ cancelledRunning = 0
         /\ \A o \in Thread : thread[o].h = s => thread[o].at \notin Preparation
         /\ Goes(t, "prepare", s, thread[t].todo, thread[t].back)
         /\ Sets(s, source[s].phase, source[s].refs + 1, source[s].held, source[s].self,
                source[s].called, source[s].cancellable, source[s].ready,
                source[s].dispatched)
         /\ overtaken' = overtaken \ {s}
         /\ UNCHANGED <<cancelled, cancelledRunning, mutex, fds, readable, handlers,
                connection, calls, due, resets>>
<1>1. /\ TypeOK /\ thread[t] \in ThreadRecord /\ ThreadInv(t) /\ source[s] \in SourceRecord
  BY DEF Base, TypeOK
<1>2. /\ At(t, "idle") /\ source[s].held /\ cancelledRunning = 0
      /\ \A o \in Thread : thread[o].h = s => thread[o].at \notin Preparation
  BY DEF Prepare, At, Begin, Set, Preparing, Preparation, flagVars
<1>t. thread' = [thread EXCEPT ![t].at = "prepare", ![t].h = s]
  BY <1>2 DEF Prepare, At, Begin, Set, Preparing, Preparation, Goes, Rec
<1>3. Goes(t, "prepare", s, thread[t].todo, thread[t].back)
  BY <1>1, <1>2, <1>t, GoesTo DEF Places
<1>r. source' = [source EXCEPT ![s] = [source[s] EXCEPT !.refs = source[s].refs + 1]]
  BY <1>2 DEF Prepare, At, Begin, Set, Preparing, Preparation, Rec
<1>y. s \in Source /\ source[s].refs + 1 \in Nat
  BY <1>1, <1>2 DEF TypeOK, SourceRecord
<1>4. Sets(s, source[s].phase, source[s].refs + 1, source[s].held, source[s].self,
          source[s].called, source[s].cancellable, source[s].ready, source[s].dispatched)
  BY <1>1, <1>r, <1>y, SetsRefs
<1>5. /\ overtaken' = overtaken \ {s}
      /\ UNCHANGED <<cancelled, cancelledRunning, mutex, fds, readable, handlers, connection,
             calls, due, resets>>
  BY <1>2 DEF Prepare, At, Begin, Set, Preparing, Preparation, flagVars, fdVars, userVars,
       metVars, otherVars
<1> QED
  BY <1>2, <1>3, <1>4, <1>5

LEMMA DidPrepareFlag ==
  ASSUME Base, NEW t \in Thread, PrepareFlag(t)
  PROVE  /\ At(t, "prepare") /\ thread[t].h \in Source
         /\ Goes(t, "prepare2", thread[t].h, thread[t].todo, thread[t].back)
         /\ Sets(thread[t].h, source[thread[t].h].phase, source[thread[t].h].refs,
                source[thread[t].h].held, source[thread[t].h].self, FALSE,
                source[thread[t].h].cancellable, source[thread[t].h].ready,
                source[thread[t].h].dispatched)
         /\ UNCHANGED <<cancelled, cancelledRunning, mutex, fds, readable, handlers,
                connection, calls, overtaken, due, resets>>
<1>1. /\ TypeOK /\ thread[t] \in ThreadRecord /\ ThreadInv(t)
  BY DEF Base, TypeOK
<1>2. At(t, "prepare") /\ thread[t].h \in Source
  BY <1>1 DEF PrepareFlag, At, Here, Rec, Set, SetAndStep, Step, Return, Rec, ThreadInv,
       Placed, SourcePlaces, HolderPlaces, Unreffing, Disposal, Preparation, SourceRecord,
       TypeOK
<1>t. thread' = [thread EXCEPT ![t].at = "prepare2"]
  BY <1>2 DEF PrepareFlag, At, Here, Rec, Set, SetAndStep, Step, Return, Goes, Rec
<1>3. Goes(t, "prepare2", thread[t].h, thread[t].todo, thread[t].back)
  BY <1>1, <1>2, <1>t, GoesAt DEF Places
<1>r. source' = [source EXCEPT ![thread[t].h] = [source[thread[t].h] EXCEPT !.called = FALSE]]
  BY <1>2 DEF PrepareFlag, At, Here, Rec, Set, SetAndStep, Step, Return, Rec
<1>y. thread[t].h \in Source
  BY <1>1, <1>2 DEF TypeOK, SourceRecord
<1>4. Sets(thread[t].h, source[thread[t].h].phase, source[thread[t].h].refs,
          source[thread[t].h].held, source[thread[t].h].self, FALSE,
          source[thread[t].h].cancellable, source[thread[t].h].ready,
          source[thread[t].h].dispatched)
  BY <1>1, <1>r, <1>y, SetsCalled
<1>5. UNCHANGED <<cancelled, cancelledRunning, mutex, fds, readable, handlers, connection,
             calls, overtaken, due, resets>>
  BY <1>2 DEF PrepareFlag, At, Here, Rec, Set, SetAndStep, Step, Return, flagVars, fdVars,
       userVars, metVars, otherVars
<1> QED
  BY <1>2, <1>3, <1>4, <1>5

LEMMA DidPrepareSelf ==
  ASSUME Base, NEW t \in Thread, PrepareSelf(t)
  PROVE  /\ At(t, "prepare2") /\ thread[t].h \in Source
         /\ Goes(t, "unref", thread[t].h, thread[t].todo, thread[t].back)
         /\ Sets(thread[t].h, source[thread[t].h].phase, source[thread[t].h].refs,
                source[thread[t].h].held, TRUE, source[thread[t].h].called,
                source[thread[t].h].cancellable, source[thread[t].h].ready,
                source[thread[t].h].dispatched)
         /\ UNCHANGED <<cancelled, cancelledRunning, mutex, fds, readable, handlers,
                connection, calls, overtaken, due, resets>>
<1>1. /\ TypeOK /\ thread[t] \in ThreadRecord /\ ThreadInv(t)
  BY DEF Base, TypeOK
<1>2. At(t, "prepare2") /\ thread[t].h \in Source
  BY <1>1 DEF PrepareSelf, At, Here, Rec, Set, SetAndStep, Step, Return, Rec, ThreadInv,
       Placed, SourcePlaces, HolderPlaces, Unreffing, Disposal, Preparation, SourceRecord,
       TypeOK
<1>t. thread' = [thread EXCEPT ![t].at = "unref"]
  BY <1>2 DEF PrepareSelf, At, Here, Rec, Set, SetAndStep, Step, Return, Goes, Rec
<1>3. Goes(t, "unref", thread[t].h, thread[t].todo, thread[t].back)
  BY <1>1, <1>2, <1>t, GoesAt DEF Places
<1>r. source' = [source EXCEPT ![thread[t].h] = [source[thread[t].h] EXCEPT !.self = TRUE]]
  BY <1>2 DEF PrepareSelf, At, Here, Rec, Set, SetAndStep, Step, Return, Rec
<1>y. thread[t].h \in Source
  BY <1>1, <1>2 DEF TypeOK, SourceRecord
<1>4. Sets(thread[t].h, source[thread[t].h].phase, source[thread[t].h].refs,
          source[thread[t].h].held, TRUE, source[thread[t].h].called,
          source[thread[t].h].cancellable, source[thread[t].h].ready,
          source[thread[t].h].dispatched)
  BY <1>1, <1>r, <1>y, SetsSelf
<1>5. UNCHANGED <<cancelled, cancelledRunning, mutex, fds, readable, handlers, connection,
             calls, overtaken, due, resets>>
  BY <1>2 DEF PrepareSelf, At, Here, Rec, Set, SetAndStep, Step, Return, flagVars, fdVars,
       userVars, metVars, otherVars
<1> QED
  BY <1>2, <1>3, <1>4, <1>5

LEMMA DidDispatch ==
  ASSUME Base, NEW t \in Thread, NEW s \in Source, Dispatch(t, s)
  PROVE  /\ At(t, "idle") /\ source[s].held /\ source[s].ready
         /\ Goes(t, thread[t].at, thread[t].h, thread[t].todo, thread[t].back)
         /\ Sets(s, source[s].phase, source[s].refs, source[s].held, source[s].self,
                source[s].called, source[s].cancellable, FALSE, TRUE)
         /\ due' = due \ {s}
         /\ UNCHANGED <<cancelled, cancelledRunning, mutex, fds, readable, handlers,
                connection, calls, overtaken, resets>>
<1>1. /\ TypeOK /\ thread[t] \in ThreadRecord /\ ThreadInv(t) /\ source[s] \in SourceRecord
  BY DEF Base, TypeOK
<1>2. At(t, "idle") /\ source[s].held /\ source[s].ready
  BY DEF Dispatch, At, Set, flagVars
<1>t. thread' = thread
  BY <1>2 DEF Dispatch, At, Set, Goes, Rec
<1>3. Goes(t, thread[t].at, thread[t].h, thread[t].todo, thread[t].back)
  BY <1>1, <1>t, GoesNot
<1>r. source' = [source EXCEPT ![s] = [source[s] EXCEPT !.ready = FALSE, !.dispatched = TRUE]]
  BY <1>2 DEF Dispatch, At, Set, Rec
<1>y. s \in Source
  BY <1>1, <1>2 DEF TypeOK, SourceRecord
<1>4. Sets(s, source[s].phase, source[s].refs, source[s].held, source[s].self,
          source[s].called, source[s].cancellable, FALSE, TRUE)
  BY <1>1, <1>r, <1>y DEF Sets, TypeOK, SourceRecord
<1>5. /\ due' = due \ {s}
      /\ UNCHANGED <<cancelled, cancelledRunning, mutex, fds, readable, handlers, connection,
             calls, overtaken, resets>>
  BY <1>2 DEF Dispatch, At, Set, flagVars, fdVars, userVars, metVars, otherVars
<1> QED
  BY <1>2, <1>3, <1>4, <1>5

LEMMA DidDrop ==
  ASSUME Base, NEW t \in Thread, NEW s \in Source, Drop(t, s)
  PROVE  /\ At(t, "idle") /\ source[s].held
         /\ \A o \in Thread : ~(At(o, "new") /\ thread[o].h = s)
         /\ Goes(t, "unref", s, thread[t].todo, thread[t].back)
         /\ Sets(s, source[s].phase, source[s].refs, FALSE, source[s].self, source[s].called,
                source[s].cancellable, source[s].ready, source[s].dispatched)
         /\ UNCHANGED <<cancelled, cancelledRunning, mutex, fds, readable, handlers,
                connection, calls, overtaken, due, resets>>
<1>1. /\ TypeOK /\ thread[t] \in ThreadRecord /\ ThreadInv(t) /\ source[s] \in SourceRecord
  BY DEF Base, TypeOK
<1>2. /\ At(t, "idle") /\ source[s].held
      /\ \A o \in Thread : ~(At(o, "new") /\ thread[o].h = s)
  BY DEF Drop, At, Begin, Set, Here, flagVars
<1>t. thread' = [thread EXCEPT ![t].at = "unref", ![t].h = s]
  BY <1>2 DEF Drop, At, Begin, Set, Here, Goes, Rec
<1>3. Goes(t, "unref", s, thread[t].todo, thread[t].back)
  BY <1>1, <1>2, <1>t, GoesTo DEF Places
<1>r. source' = [source EXCEPT ![s] = [source[s] EXCEPT !.held = FALSE]]
  BY <1>2 DEF Drop, At, Begin, Set, Here, Rec
<1>y. s \in Source
  BY <1>1, <1>2 DEF TypeOK, SourceRecord
<1>4. Sets(s, source[s].phase, source[s].refs, FALSE, source[s].self, source[s].called,
          source[s].cancellable, source[s].ready, source[s].dispatched)
  BY <1>1, <1>r, <1>y, SetsHeld
<1>5. UNCHANGED <<cancelled, cancelledRunning, mutex, fds, readable, handlers, connection,
             calls, overtaken, due, resets>>
  BY <1>2 DEF Drop, At, Begin, Set, Here, flagVars, fdVars, userVars, metVars, otherVars
<1> QED
  BY <1>2, <1>3, <1>4, <1>5

LEMMA DidUnrefDrops ==
  ASSUME Base, NEW t \in Thread, Unref(t), Rec(t).refs > 1
  PROVE  /\ At(t, "unref") /\ thread[t].h \in Source
         /\ source[thread[t].h].refs > 1
         /\ Goes(t, thread[t].back, None, thread[t].todo, "idle")
         /\ Sets(thread[t].h, source[thread[t].h].phase, source[thread[t].h].refs - 1,
                source[thread[t].h].held, source[thread[t].h].self,
                source[thread[t].h].called, source[thread[t].h].cancellable,
                source[thread[t].h].ready, source[thread[t].h].dispatched)
         /\ UNCHANGED <<cancelled, cancelledRunning, mutex, fds, readable, handlers,
                connection, calls, overtaken, due, resets>>
<1>1. /\ TypeOK /\ thread[t] \in ThreadRecord /\ ThreadInv(t)
  BY DEF Base, TypeOK
<1>2. /\ At(t, "unref") /\ thread[t].h \in Source
      /\ source[thread[t].h].refs > 1
  BY <1>1 DEF Unref, At, Here, Rec, Set, SetAndStep, Step, Return, Rec, ThreadInv, Placed,
       SourcePlaces, HolderPlaces, Unreffing, Disposal, Preparation, SourceRecord, TypeOK
<1>t. thread' = [thread EXCEPT ![t].at = thread[t].back, ![t].h = None, ![t].back = "idle"]
  BY <1>2 DEF Unref, At, Here, Rec, Set, SetAndStep, Step, Return, Goes, Rec
<1>3. Goes(t, thread[t].back, None, thread[t].todo, "idle")
  BY <1>1, <1>t, GoesBack
<1>r. source' = [source EXCEPT ![thread[t].h] = [source[thread[t].h] EXCEPT !.refs =
                    source[thread[t].h].refs - 1]]
  BY <1>2 DEF Unref, At, Here, Rec, Set, SetAndStep, Step, Return, Rec
<1>y. thread[t].h \in Source /\ source[thread[t].h].refs - 1 \in Nat
  BY <1>1, <1>2 DEF TypeOK, SourceRecord
<1>4. Sets(thread[t].h, source[thread[t].h].phase, source[thread[t].h].refs - 1,
          source[thread[t].h].held, source[thread[t].h].self, source[thread[t].h].called,
          source[thread[t].h].cancellable, source[thread[t].h].ready,
          source[thread[t].h].dispatched)
  BY <1>1, <1>r, <1>y, SetsRefs
<1>5. UNCHANGED <<cancelled, cancelledRunning, mutex, fds, readable, handlers, connection,
             calls, overtaken, due, resets>>
  BY <1>2 DEF Unref, At, Here, Rec, Set, SetAndStep, Step, Return, flagVars, fdVars,
       userVars, metVars, otherVars
<1> QED
  BY <1>2, <1>3, <1>4, <1>5

LEMMA DidUnrefDisposes ==
  ASSUME Base, NEW t \in Thread, Unref(t), ~(Rec(t).refs > 1)
  PROVE  /\ At(t, "unref") /\ thread[t].h \in Source
         /\ source[thread[t].h].refs = 1
         /\ Goes(t, "dispose", thread[t].h, thread[t].todo, thread[t].back)
         /\ source' = source
         /\ UNCHANGED <<cancelled, cancelledRunning, mutex, fds, readable, handlers,
                connection, calls, overtaken, due, resets>>
<1>1. /\ TypeOK /\ thread[t] \in ThreadRecord /\ ThreadInv(t)
  BY DEF Base, TypeOK
<1>2. /\ At(t, "unref") /\ thread[t].h \in Source
      /\ source[thread[t].h].refs = 1
  BY <1>1 DEF Unref, At, Here, Rec, Set, SetAndStep, Step, Return, Rec, ThreadInv, Placed,
       SourcePlaces, HolderPlaces, Unreffing, Disposal, Preparation, SourceRecord, TypeOK
<1>t. thread' = [thread EXCEPT ![t].at = "dispose"]
  BY <1>2 DEF Unref, At, Here, Rec, Set, SetAndStep, Step, Return, Goes, Rec
<1>3. Goes(t, "dispose", thread[t].h, thread[t].todo, thread[t].back)
  BY <1>1, <1>2, <1>t, GoesAt DEF Places
<1>4. source' = source
  BY <1>2 DEF Unref, At, Here, Rec, Set, SetAndStep, Step, Return, Rec
<1>5. UNCHANGED <<cancelled, cancelledRunning, mutex, fds, readable, handlers, connection,
             calls, overtaken, due, resets>>
  BY <1>2 DEF Unref, At, Here, Rec, Set, SetAndStep, Step, Return, flagVars, fdVars,
       userVars, metVars, otherVars
<1> QED
  BY <1>2, <1>3, <1>4, <1>5

LEMMA DidDisposeFirst ==
  ASSUME Base, NEW t \in Thread, Dispose(t), Rec(t).cancellable
  PROVE  /\ At(t, "dispose") /\ thread[t].h \in Source
         /\ source[thread[t].h].cancellable
         /\ Goes(t, "self", thread[t].h, thread[t].todo, thread[t].back)
         /\ Sets(thread[t].h, source[thread[t].h].phase, source[thread[t].h].refs,
                source[thread[t].h].held, source[thread[t].h].self,
                source[thread[t].h].called, FALSE, source[thread[t].h].ready,
                source[thread[t].h].dispatched)
         /\ UNCHANGED <<cancelled, cancelledRunning, mutex, fds, readable, handlers,
                connection, calls, overtaken, due, resets>>
<1>1. /\ TypeOK /\ thread[t] \in ThreadRecord /\ ThreadInv(t)
  BY DEF Base, TypeOK
<1>2. /\ At(t, "dispose") /\ thread[t].h \in Source
      /\ source[thread[t].h].cancellable
  BY <1>1 DEF Dispose, At, Here, Rec, Set, SetAndStep, Step, Return, Rec, ThreadInv, Placed,
       SourcePlaces, HolderPlaces, Unreffing, Disposal, Preparation, SourceRecord, TypeOK
<1>t. thread' = [thread EXCEPT ![t].at = "self"]
  BY <1>2 DEF Dispose, At, Here, Rec, Set, SetAndStep, Step, Return, Goes, Rec
<1>3. Goes(t, "self", thread[t].h, thread[t].todo, thread[t].back)
  BY <1>1, <1>2, <1>t, GoesAt DEF Places
<1>r. source' = [source EXCEPT ![thread[t].h] = [source[thread[t].h] EXCEPT !.cancellable =
                    FALSE]]
  BY <1>2 DEF Dispose, At, Here, Rec, Set, SetAndStep, Step, Return, Rec
<1>y. thread[t].h \in Source
  BY <1>1, <1>2 DEF TypeOK, SourceRecord
<1>4. Sets(thread[t].h, source[thread[t].h].phase, source[thread[t].h].refs,
          source[thread[t].h].held, source[thread[t].h].self, source[thread[t].h].called,
          FALSE, source[thread[t].h].ready, source[thread[t].h].dispatched)
  BY <1>1, <1>r, <1>y, SetsCancellable
<1>5. UNCHANGED <<cancelled, cancelledRunning, mutex, fds, readable, handlers, connection,
             calls, overtaken, due, resets>>
  BY <1>2 DEF Dispose, At, Here, Rec, Set, SetAndStep, Step, Return, flagVars, fdVars,
       userVars, metVars, otherVars
<1> QED
  BY <1>2, <1>3, <1>4, <1>5

LEMMA DidDisposeAgain ==
  ASSUME Base, NEW t \in Thread, Dispose(t), ~Rec(t).cancellable
  PROVE  /\ At(t, "dispose") /\ thread[t].h \in Source
         /\ ~source[thread[t].h].cancellable
         /\ Goes(t, "drop", thread[t].h, thread[t].todo, thread[t].back)
         /\ Sets(thread[t].h, source[thread[t].h].phase, source[thread[t].h].refs,
                source[thread[t].h].held, source[thread[t].h].self,
                source[thread[t].h].called, FALSE, source[thread[t].h].ready,
                source[thread[t].h].dispatched)
         /\ UNCHANGED <<cancelled, cancelledRunning, mutex, fds, readable, handlers,
                connection, calls, overtaken, due, resets>>
<1>1. /\ TypeOK /\ thread[t] \in ThreadRecord /\ ThreadInv(t)
  BY DEF Base, TypeOK
<1>2. /\ At(t, "dispose") /\ thread[t].h \in Source
      /\ ~source[thread[t].h].cancellable
  BY <1>1 DEF Dispose, At, Here, Rec, Set, SetAndStep, Step, Return, Rec, ThreadInv, Placed,
       SourcePlaces, HolderPlaces, Unreffing, Disposal, Preparation, SourceRecord, TypeOK
<1>t. thread' = [thread EXCEPT ![t].at = "drop"]
  BY <1>2 DEF Dispose, At, Here, Rec, Set, SetAndStep, Step, Return, Goes, Rec
<1>3. Goes(t, "drop", thread[t].h, thread[t].todo, thread[t].back)
  BY <1>1, <1>2, <1>t, GoesAt DEF Places
<1>r. source' = [source EXCEPT ![thread[t].h] = [source[thread[t].h] EXCEPT !.cancellable =
                    FALSE]]
  BY <1>2 DEF Dispose, At, Here, Rec, Set, SetAndStep, Step, Return, Rec
<1>y. thread[t].h \in Source
  BY <1>1, <1>2 DEF TypeOK, SourceRecord
<1>4. Sets(thread[t].h, source[thread[t].h].phase, source[thread[t].h].refs,
          source[thread[t].h].held, source[thread[t].h].self, source[thread[t].h].called,
          FALSE, source[thread[t].h].ready, source[thread[t].h].dispatched)
  BY <1>1, <1>r, <1>y, SetsCancellable
<1>5. UNCHANGED <<cancelled, cancelledRunning, mutex, fds, readable, handlers, connection,
             calls, overtaken, due, resets>>
  BY <1>2 DEF Dispose, At, Here, Rec, Set, SetAndStep, Step, Return, flagVars, fdVars,
       userVars, metVars, otherVars
<1> QED
  BY <1>2, <1>3, <1>4, <1>5

LEMMA DidDisposeTakes ==
  ASSUME Base, NEW t \in Thread, DisposeSelf(t), Rec(t).self
  PROVE  /\ At(t, "self") /\ thread[t].h \in Source
         /\ source[thread[t].h].self
         /\ Goes(t, "disconnect", thread[t].h, thread[t].todo, thread[t].back)
         /\ Sets(thread[t].h, source[thread[t].h].phase, source[thread[t].h].refs,
                source[thread[t].h].held, FALSE, source[thread[t].h].called,
                source[thread[t].h].cancellable, source[thread[t].h].ready,
                source[thread[t].h].dispatched)
         /\ UNCHANGED <<cancelled, cancelledRunning, mutex, fds, readable, handlers,
                connection, calls, overtaken, due, resets>>
<1>1. /\ TypeOK /\ thread[t] \in ThreadRecord /\ ThreadInv(t)
  BY DEF Base, TypeOK
<1>2. /\ At(t, "self") /\ thread[t].h \in Source
      /\ source[thread[t].h].self
  BY <1>1 DEF DisposeSelf, At, Here, Rec, Set, SetAndStep, Step, Return, Rec, ThreadInv,
       Placed, SourcePlaces, HolderPlaces, Unreffing, Disposal, Preparation, SourceRecord,
       TypeOK
<1>t. thread' = [thread EXCEPT ![t].at = "disconnect"]
  BY <1>2 DEF DisposeSelf, At, Here, Rec, Set, SetAndStep, Step, Return, Goes, Rec
<1>3. Goes(t, "disconnect", thread[t].h, thread[t].todo, thread[t].back)
  BY <1>1, <1>2, <1>t, GoesAt DEF Places
<1>r. source' = [source EXCEPT ![thread[t].h] = [source[thread[t].h] EXCEPT !.self = FALSE]]
  BY <1>2 DEF DisposeSelf, At, Here, Rec, Set, SetAndStep, Step, Return, Rec
<1>y. thread[t].h \in Source
  BY <1>1, <1>2 DEF TypeOK, SourceRecord
<1>4. Sets(thread[t].h, source[thread[t].h].phase, source[thread[t].h].refs,
          source[thread[t].h].held, FALSE, source[thread[t].h].called,
          source[thread[t].h].cancellable, source[thread[t].h].ready,
          source[thread[t].h].dispatched)
  BY <1>1, <1>r, <1>y, SetsSelf
<1>5. UNCHANGED <<cancelled, cancelledRunning, mutex, fds, readable, handlers, connection,
             calls, overtaken, due, resets>>
  BY <1>2 DEF DisposeSelf, At, Here, Rec, Set, SetAndStep, Step, Return, flagVars, fdVars,
       userVars, metVars, otherVars
<1> QED
  BY <1>2, <1>3, <1>4, <1>5

LEMMA DidDisposeWaits ==
  ASSUME Base, NEW t \in Thread, DisposeSelf(t), ~Rec(t).self
  PROVE  /\ At(t, "self") /\ thread[t].h \in Source
         /\ ~source[thread[t].h].self
         /\ Goes(t, "spin", thread[t].h, thread[t].todo, thread[t].back)
         /\ Sets(thread[t].h, source[thread[t].h].phase, source[thread[t].h].refs,
                source[thread[t].h].held, FALSE, source[thread[t].h].called,
                source[thread[t].h].cancellable, source[thread[t].h].ready,
                source[thread[t].h].dispatched)
         /\ UNCHANGED <<cancelled, cancelledRunning, mutex, fds, readable, handlers,
                connection, calls, overtaken, due, resets>>
<1>1. /\ TypeOK /\ thread[t] \in ThreadRecord /\ ThreadInv(t)
  BY DEF Base, TypeOK
<1>2. /\ At(t, "self") /\ thread[t].h \in Source
      /\ ~source[thread[t].h].self
  BY <1>1 DEF DisposeSelf, At, Here, Rec, Set, SetAndStep, Step, Return, Rec, ThreadInv,
       Placed, SourcePlaces, HolderPlaces, Unreffing, Disposal, Preparation, SourceRecord,
       TypeOK
<1>t. thread' = [thread EXCEPT ![t].at = "spin"]
  BY <1>2 DEF DisposeSelf, At, Here, Rec, Set, SetAndStep, Step, Return, Goes, Rec
<1>3. Goes(t, "spin", thread[t].h, thread[t].todo, thread[t].back)
  BY <1>1, <1>2, <1>t, GoesAt DEF Places
<1>r. source' = [source EXCEPT ![thread[t].h] = [source[thread[t].h] EXCEPT !.self = FALSE]]
  BY <1>2 DEF DisposeSelf, At, Here, Rec, Set, SetAndStep, Step, Return, Rec
<1>y. thread[t].h \in Source
  BY <1>1, <1>2 DEF TypeOK, SourceRecord
<1>4. Sets(thread[t].h, source[thread[t].h].phase, source[thread[t].h].refs,
          source[thread[t].h].held, FALSE, source[thread[t].h].called,
          source[thread[t].h].cancellable, source[thread[t].h].ready,
          source[thread[t].h].dispatched)
  BY <1>1, <1>r, <1>y, SetsSelf
<1>5. UNCHANGED <<cancelled, cancelledRunning, mutex, fds, readable, handlers, connection,
             calls, overtaken, due, resets>>
  BY <1>2 DEF DisposeSelf, At, Here, Rec, Set, SetAndStep, Step, Return, flagVars, fdVars,
       userVars, metVars, otherVars
<1> QED
  BY <1>2, <1>3, <1>4, <1>5

LEMMA DidDisposeSpin ==
  ASSUME Base, NEW t \in Thread, DisposeSpin(t)
  PROVE  /\ At(t, "spin") /\ thread[t].h \in Source
         /\ source[thread[t].h].called
         /\ Goes(t, "disconnect", thread[t].h, thread[t].todo, thread[t].back)
         /\ source' = source
         /\ UNCHANGED <<cancelled, cancelledRunning, mutex, fds, readable, handlers,
                connection, calls, overtaken, due, resets>>
<1>1. /\ TypeOK /\ thread[t] \in ThreadRecord /\ ThreadInv(t)
  BY DEF Base, TypeOK
<1>2. /\ At(t, "spin") /\ thread[t].h \in Source
      /\ source[thread[t].h].called
  BY <1>1 DEF DisposeSpin, At, Here, Rec, Set, SetAndStep, Step, Return, Rec, ThreadInv,
       Placed, SourcePlaces, HolderPlaces, Unreffing, Disposal, Preparation, SourceRecord,
       TypeOK
<1>t. thread' = [thread EXCEPT ![t].at = "disconnect"]
  BY <1>2 DEF DisposeSpin, At, Here, Rec, Set, SetAndStep, Step, Return, Goes, Rec
<1>3. Goes(t, "disconnect", thread[t].h, thread[t].todo, thread[t].back)
  BY <1>1, <1>2, <1>t, GoesAt DEF Places
<1>4. source' = source
  BY <1>2 DEF DisposeSpin, At, Here, Rec, Set, SetAndStep, Step, Return, Rec
<1>5. UNCHANGED <<cancelled, cancelledRunning, mutex, fds, readable, handlers, connection,
             calls, overtaken, due, resets>>
  BY <1>2 DEF DisposeSpin, At, Here, Rec, Set, SetAndStep, Step, Return, flagVars, fdVars,
       userVars, metVars, otherVars
<1> QED
  BY <1>2, <1>3, <1>4, <1>5

LEMMA DidDisposeDisconnect ==
  ASSUME Base, NEW t \in Thread, DisposeDisconnect(t)
  PROVE  /\ At(t, "disconnect") /\ thread[t].h \in Source
         /\ Goes(t, "drop", thread[t].h, thread[t].todo, thread[t].back)
         /\ source' = source
         /\ handlers' = Without(handlers, thread[t].h)
         /\ UNCHANGED <<cancelled, cancelledRunning, mutex, fds, readable, connection, calls,
                overtaken, due, resets>>
<1>1. /\ TypeOK /\ thread[t] \in ThreadRecord /\ ThreadInv(t)
  BY DEF Base, TypeOK
<1>2. At(t, "disconnect") /\ thread[t].h \in Source
  BY <1>1 DEF DisposeDisconnect, At, Here, Rec, Set, SetAndStep, Step, Return, Rec,
       ThreadInv, Placed, SourcePlaces, HolderPlaces, Unreffing, Disposal, Preparation,
       SourceRecord, TypeOK
<1>t. thread' = [thread EXCEPT ![t].at = "drop"]
  BY <1>2 DEF DisposeDisconnect, At, Here, Rec, Set, SetAndStep, Step, Return, Goes, Rec
<1>3. Goes(t, "drop", thread[t].h, thread[t].todo, thread[t].back)
  BY <1>1, <1>2, <1>t, GoesAt DEF Places
<1>4. source' = source
  BY <1>2 DEF DisposeDisconnect, At, Here, Rec, Set, SetAndStep, Step, Return, Rec
<1>5. /\ handlers' = Without(handlers, thread[t].h)
      /\ UNCHANGED <<cancelled, cancelledRunning, mutex, fds, readable, connection, calls,
             overtaken, due, resets>>
  BY <1>2 DEF DisposeDisconnect, At, Here, Rec, Set, SetAndStep, Step, Return, flagVars,
       fdVars, userVars, metVars, otherVars
<1> QED
  BY <1>2, <1>3, <1>4, <1>5

LEMMA DidDropFrees ==
  ASSUME Base, NEW t \in Thread, DropLast(t), Rec(t).refs = 1
  PROVE  /\ At(t, "drop") /\ thread[t].h \in Source
         /\ source[thread[t].h].refs = 1
         /\ Goes(t, thread[t].back, None, thread[t].todo, "idle")
         /\ Sets(thread[t].h, "freed", 0, source[thread[t].h].held, source[thread[t].h].self,
                source[thread[t].h].called, source[thread[t].h].cancellable,
                source[thread[t].h].ready, source[thread[t].h].dispatched)
         /\ UNCHANGED <<cancelled, cancelledRunning, mutex, fds, readable, handlers,
                connection, calls, overtaken, due, resets>>
<1>1. /\ TypeOK /\ thread[t] \in ThreadRecord /\ ThreadInv(t)
  BY DEF Base, TypeOK
<1>2. /\ At(t, "drop") /\ thread[t].h \in Source
      /\ source[thread[t].h].refs = 1
  BY <1>1 DEF DropLast, At, Here, Rec, Set, SetAndStep, Step, Return, Rec, ThreadInv,
       Placed, SourcePlaces, HolderPlaces, Unreffing, Disposal, Preparation, SourceRecord,
       TypeOK
<1>t. thread' = [thread EXCEPT ![t].at = thread[t].back, ![t].h = None, ![t].back = "idle"]
  BY <1>2 DEF DropLast, At, Here, Rec, Set, SetAndStep, Step, Return, Goes, Rec
<1>3. Goes(t, thread[t].back, None, thread[t].todo, "idle")
  BY <1>1, <1>t, GoesBack
<1>r. source' = [source EXCEPT ![thread[t].h] = [source[thread[t].h] EXCEPT !.refs = 0,
                    !.phase = "freed"]]
  BY <1>2 DEF DropLast, At, Here, Rec, Set, SetAndStep, Step, Return, Rec
<1>y. thread[t].h \in Source /\ 0 \in Nat
  BY <1>1, <1>2 DEF TypeOK, SourceRecord
<1>4. Sets(thread[t].h, "freed", 0, source[thread[t].h].held, source[thread[t].h].self,
          source[thread[t].h].called, source[thread[t].h].cancellable,
          source[thread[t].h].ready, source[thread[t].h].dispatched)
  BY <1>1, <1>r, <1>y DEF Sets, TypeOK, SourceRecord
<1>5. UNCHANGED <<cancelled, cancelledRunning, mutex, fds, readable, handlers, connection,
             calls, overtaken, due, resets>>
  BY <1>2 DEF DropLast, At, Here, Rec, Set, SetAndStep, Step, Return, flagVars, fdVars,
       userVars, metVars, otherVars
<1> QED
  BY <1>2, <1>3, <1>4, <1>5

LEMMA DidDropRetries ==
  ASSUME Base, NEW t \in Thread, DropLast(t), Rec(t).refs # 1
  PROVE  /\ At(t, "drop") /\ thread[t].h \in Source
         /\ Goes(t, "unref", thread[t].h, thread[t].todo, thread[t].back)
         /\ source' = source
         /\ UNCHANGED <<cancelled, cancelledRunning, mutex, fds, readable, handlers,
                connection, calls, overtaken, due, resets>>
<1>1. /\ TypeOK /\ thread[t] \in ThreadRecord /\ ThreadInv(t)
  BY DEF Base, TypeOK
<1>2. At(t, "drop") /\ thread[t].h \in Source
  BY <1>1 DEF DropLast, At, Here, Rec, Set, SetAndStep, Step, Return, Rec, ThreadInv,
       Placed, SourcePlaces, HolderPlaces, Unreffing, Disposal, Preparation, SourceRecord,
       TypeOK
<1>t. thread' = [thread EXCEPT ![t].at = "unref"]
  BY <1>2 DEF DropLast, At, Here, Rec, Set, SetAndStep, Step, Return, Goes, Rec
<1>3. Goes(t, "unref", thread[t].h, thread[t].todo, thread[t].back)
  BY <1>1, <1>2, <1>t, GoesAt DEF Places
<1>4. source' = source
  BY <1>2 DEF DropLast, At, Here, Rec, Set, SetAndStep, Step, Return, Rec
<1>5. UNCHANGED <<cancelled, cancelledRunning, mutex, fds, readable, handlers, connection,
             calls, overtaken, due, resets>>
  BY <1>2 DEF DropLast, At, Here, Rec, Set, SetAndStep, Step, Return, flagVars, fdVars,
       userVars, metVars, otherVars
<1> QED
  BY <1>2, <1>3, <1>4, <1>5

--------------------------------------------------------------------------------
(* The mutex. *)

\* The types of all variables but thread.
VarTypes == /\ cancelled \in BOOLEAN /\ cancelledRunning \in Nat
            /\ mutex \in Thread \cup {None}
            /\ fds \in 0 .. MaxFds /\ readable \in BOOLEAN
            /\ handlers \in Seq(User \cup Source)
            /\ source \in [Source -> SourceRecord]
            /\ connection \in [User -> {"none", "on", "off", "gone"}]
            /\ calls \in [User -> Nat] /\ resets \in 0 .. MaxResets
            /\ overtaken \subseteq User \cup Source /\ due \subseteq Source

LEMMA Types == ASSUME TypeOK PROVE VarTypes
  BY DEF TypeOK, VarTypes

\* The part of the base that a step of t keeps whatever it does to the mutex.
LEMMA GoesKeeps ==
  ASSUME Base, NEW t \in Thread, NEW a, NEW h, NEW q, NEW b, Goes(t, a, h, q, b), Placed(a, h, b),
         VarTypes'
  PROVE  /\ TypeOK' /\ \A o \in Thread : ThreadInv(o)'
         /\ \A o \in Thread \ {t} : /\ Emitting(o)' <=> Emitting(o)
                                    /\ thread'[o].at = thread[o].at
         /\ Emitting(t)' <=> Emits(a, b)
         /\ thread'[t].at = a
<1>1. TypeOK'
  BY DEF Goes, VarTypes, TypeOK
<1>2. \A o \in Thread : ThreadInv(o)'
  BY DEF Base, Goes, ThreadInv
<1>3. \A o \in Thread \ {t} : (Emitting(o)' <=> Emitting(o)) /\ thread'[o].at = thread[o].at
  BY DEF Goes, Emitting
<1>4. (Emitting(t)' <=> Emits(a, b)) /\ thread'[t].at = a
  BY DEF Goes, Emitting
<1> QED
  BY <1>1, <1>2, <1>3, <1>4

\* A step that leaves the mutex and the emission alone.
LEMMA BaseKept ==
  ASSUME Base, NEW t \in Thread, NEW a, NEW h, NEW q, NEW b, Goes(t, a, h, q, b), Placed(a, h, b),
         VarTypes', mutex' = mutex, cancelled' = cancelled, cancelledRunning' = cancelledRunning,
         Emits(a, b) <=> Emitting(t), a = "direct" <=> At(t, "direct"),
         a \in {"gap"} \cup Preparation => thread[t].at \in Preparation /\ h = thread[t].h,
         overtaken' = overtaken
  PROVE  Base'
<1>1. TypeOK' /\ \A o \in Thread : ThreadInv(o)'
  BY GoesKeeps
<1>2. \A o \in Thread : /\ Emitting(o)' <=> Emitting(o)
                        /\ At(o, "direct")' <=> At(o, "direct")
                        /\ thread'[o].at \in {"gap"} \cup Preparation =>
                             thread[o].at \in {"gap"} \cup Preparation /\ thread'[o].h = thread[o].h
  BY GoesKeeps DEF At, Goes
<1>3. MutexInv'
  BY <1>2 DEF Base, MutexInv
<1>4. BoundInv'
  BY <1>2 DEF Base, BoundInv
<1> QED
  BY <1>1, <1>3, <1>4 DEF Base

\* A step while there is no emission.
LEMMA BaseQuiet ==
  ASSUME Base, NEW t \in Thread, NEW a, NEW h, NEW q, NEW b, Goes(t, a, h, q, b), Placed(a, h, b),
         VarTypes', cancelledRunning' = cancelledRunning,
         \A o \in Thread : ~Emitting(o), ~Emits(a, b),
         \A o \in Thread : mutex' = o <=> (IF o = t THEN a = "direct" ELSE At(o, "direct"))
  PROVE  Base'
<1>1. TypeOK' /\ \A o \in Thread : ThreadInv(o)'
  BY GoesKeeps
<1>2. \A o \in Thread : ~Emitting(o)'
  BY GoesKeeps
<1>3. \A o \in Thread : At(o, "direct")' <=> (IF o = t THEN a = "direct" ELSE At(o, "direct"))
  BY GoesKeeps DEF At
<1>4. MutexInv'
  BY <1>2, <1>3 DEF Base, MutexInv
<1>5. BoundInv'
  BY <1>2 DEF BoundInv
<1> QED
  BY <1>1, <1>4, <1>5 DEF Base

LEMMA Free ==
  ASSUME Base, mutex = None \/ cancelledRunning = 0
  PROVE  \A o \in Thread : ~Emitting(o) /\ (mutex = None => ~At(o, "direct"))
  BY CancellableAssumption DEF Base, MutexInv

LEMMA WithoutType ==
  ASSUME NEW A, NEW s \in Seq(A), NEW h
  PROVE  Without(s, h) \in Seq(A)
<1>1. CASE ~In(s, h)
  BY <1>1 DEF Without
<1>2. CASE In(s, h)
  <2> DEFINE i == CHOOSE i \in DOMAIN s : s[i] = h
             w == [j \in 1 .. Len(s) - 1 |-> IF j < i THEN s[j] ELSE s[j + 1]]
  <2>1. i \in 1 .. Len(s)
    BY <1>2 DEF In
  <2>2. Without(s, h) = w
    BY <1>2 DEF Without
  <2> HIDE DEF i
  <2>3. \A j \in 1 .. Len(s) - 1 : w[j] \in A
    BY <2>1
  <2>4. Len(s) - 1 \in Nat
    BY <2>1
  <2>5. w \in [1 .. Len(s) - 1 -> A]
    BY <2>3
  <2> HIDE DEF w
  <2> QED
    BY <2>2, <2>4, <2>5
<1> QED
  BY <1>1, <1>2

LEMMA BaseCancel ==
  ASSUME Base, NEW t \in Thread, Cancel(t)
  PROVE  Base'
<1>1. TypeOK /\ VarTypes /\ ThreadInv(t) /\ thread[t] \in ThreadRecord
  BY Types DEF Base, TypeOK
<1>2. /\ At(t, "idle") /\ ~cancelled
      /\ Goes(t, "cancel", None, thread[t].todo, thread[t].back)
      /\ UNCHANGED <<cancelled, cancelledRunning, mutex, fds, readable, handlers, connection,
             calls, overtaken, due, resets>>
      /\ source' \in [Source -> SourceRecord]
  BY <1>1, DidCancel DEF Sets, VarTypes
<1>3. VarTypes'
  BY <1>1, <1>2, CancellableAssumption DEF VarTypes
<1>p. Placed("cancel", None, thread[t].back)
  BY <1>1, <1>2 DEF At, ThreadInv, Placed, SourcePlaces, HolderPlaces, Unreffing, Disposal,
       Preparation, ThreadRecord
<1>4. /\ Emits("cancel", thread[t].back) <=> Emitting(t)
      /\ "cancel" = "direct" <=> At(t, "direct")
      /\ "cancel" \in {"gap"} \cup Preparation => thread[t].at \in Preparation /\ None = thread[t].h
  BY <1>1, <1>2 DEF At, Emits, Emitting, ThreadInv, Placed, SourcePlaces, HolderPlaces, Unreffing, Disposal, Preparation, ThreadRecord
<1> QED
  BY <1>2, <1>3, <1>4, <1>p, BaseKept

LEMMA BaseCancelLost ==
  ASSUME Base, NEW t \in Thread, CancelLock(t), cancelled
  PROVE  Base'
<1>1. TypeOK /\ VarTypes /\ ThreadInv(t) /\ thread[t] \in ThreadRecord
  BY Types DEF Base, TypeOK
<1>2. /\ At(t, "cancel") /\ mutex = None
      /\ Goes(t, "idle", thread[t].h, thread[t].todo, thread[t].back)
      /\ UNCHANGED <<cancelled, cancelledRunning, mutex, fds, readable, handlers, connection,
             calls, overtaken, due, resets>>
      /\ source' \in [Source -> SourceRecord]
  BY <1>1, DidCancelLost DEF Sets, VarTypes
<1>3. VarTypes'
  BY <1>1, <1>2, CancellableAssumption DEF VarTypes
<1>p. Placed("idle", thread[t].h, thread[t].back)
  BY <1>1, <1>2 DEF At, ThreadInv, Placed, SourcePlaces, HolderPlaces, Unreffing, Disposal,
       Preparation, ThreadRecord
<1>4. /\ Emits("idle", thread[t].back) <=> Emitting(t)
      /\ "idle" = "direct" <=> At(t, "direct")
      /\ "idle" \in {"gap"} \cup Preparation => thread[t].at \in Preparation /\ thread[t].h = thread[t].h
  BY <1>1, <1>2 DEF At, Emits, Emitting, ThreadInv, Placed, SourcePlaces, HolderPlaces, Unreffing, Disposal, Preparation, ThreadRecord
<1> QED
  BY <1>2, <1>3, <1>4, <1>p, BaseKept

LEMMA BaseCancelWon ==
  ASSUME Base, NEW t \in Thread, CancelLock(t), ~cancelled
  PROVE  Base'
<1>1. TypeOK /\ VarTypes /\ ThreadInv(t) /\ thread[t] \in ThreadRecord
  BY Types DEF Base, TypeOK
<1>2. /\ At(t, "cancel") /\ mutex = None /\ ~cancelled
      /\ Goes(t, "locked", thread[t].h, thread[t].todo, thread[t].back)
      /\ cancelled' = TRUE
      /\ cancelledRunning' = cancelledRunning + 1
      /\ mutex' = t
      /\ readable' = (fds > 0)
      /\ overtaken' = overtaken \cup {h \in User \cup Source : Amid(h)}
      /\ due' = {x \in Source : source[x].held /\ source[x].self}
      /\ UNCHANGED <<fds, handlers, connection, calls, resets>>
      /\ source' \in [Source -> SourceRecord]
  BY <1>1, DidCancelWon DEF Sets, VarTypes
<1>3. VarTypes'
  BY <1>1, <1>2, CancellableAssumption DEF VarTypes
<1>p. Placed("locked", thread[t].h, thread[t].back)
  BY <1>1, <1>2 DEF At, ThreadInv, Placed, SourcePlaces, HolderPlaces, Unreffing, Disposal,
       Preparation, ThreadRecord
<1>4. ~Emitting(t)
  BY <1>2, Free
<1>5. \A o \in Thread : ~Emitting(o) /\ ~At(o, "direct")
  BY <1>2, Free
<1>6. cancelledRunning = 0
  BY <1>5 DEF Base, MutexInv
<1>7. \A o \in Thread : Emitting(o)' <=> o = t
  BY <1>2, <1>3, <1>5, <1>p, GoesKeeps DEF Emits
<1>8. \A o \in Thread : ~At(o, "direct")' /\ (o # t => thread'[o].at = thread[o].at) /\ thread'[t].at = "locked"
  BY <1>2, <1>3, <1>5, <1>p, GoesKeeps DEF At
<1>9. MutexInv'
  BY <1>2, <1>6, <1>7, <1>8 DEF MutexInv
<1>10. BoundInv'
  <2>1. \A o \in Thread : thread[o].at \in {"gap"} \cup Preparation =>
          thread[o].h \in User \cup Source /\ Amid(thread[o].h)
    BY DEF Base, ThreadInv, Placed, SourcePlaces, HolderPlaces, Preparation, Amid, Here
  <2>2. \A o \in Thread \ {t} : thread'[o] = thread[o]
    BY <1>2 DEF Goes
  <2> QED
    BY <1>2, <1>7, <1>8, <2>1, <2>2 DEF BoundInv, Preparation
<1> QED
  BY <1>2, <1>3, <1>9, <1>10, <1>p, GoesKeeps DEF Base

LEMMA BaseEmitStart ==
  ASSUME Base, NEW t \in Thread, EmitStart(t)
  PROVE  Base'
<1>1. TypeOK /\ VarTypes /\ ThreadInv(t) /\ thread[t] \in ThreadRecord
  BY Types DEF Base, TypeOK
<1>2. /\ At(t, "locked")
      /\ Goes(t, "emit", thread[t].h, handlers, thread[t].back)
      /\ UNCHANGED <<cancelled, cancelledRunning, mutex, fds, readable, handlers, connection,
             calls, overtaken, due, resets>>
      /\ source' \in [Source -> SourceRecord]
  BY <1>1, DidEmitStart DEF Sets, VarTypes
<1>3. VarTypes'
  BY <1>1, <1>2, CancellableAssumption DEF VarTypes
<1>p. Placed("emit", thread[t].h, thread[t].back)
  BY <1>1, <1>2 DEF At, ThreadInv, Placed, SourcePlaces, HolderPlaces, Unreffing, Disposal,
       Preparation, ThreadRecord
<1>4. /\ Emits("emit", thread[t].back) <=> Emitting(t)
      /\ "emit" = "direct" <=> At(t, "direct")
      /\ "emit" \in {"gap"} \cup Preparation => thread[t].at \in Preparation /\ thread[t].h = thread[t].h
  BY <1>1, <1>2 DEF At, Emits, Emitting, ThreadInv, Placed, SourcePlaces, HolderPlaces, Unreffing, Disposal, Preparation, ThreadRecord
<1> QED
  BY <1>2, <1>3, <1>4, <1>p, BaseKept

LEMMA BaseEmitSkips ==
  ASSUME Base, NEW t \in Thread, EmitNext(t), ~Connected(Head(thread[t].todo))
  PROVE  Base'
<1>1. TypeOK /\ VarTypes /\ ThreadInv(t) /\ thread[t] \in ThreadRecord
  BY Types DEF Base, TypeOK
<1>2. /\ At(t, "emit") /\ thread[t].todo # <<>>
      /\ Goes(t, "emit", None, Tail(thread[t].todo), thread[t].back)
      /\ UNCHANGED <<cancelled, cancelledRunning, mutex, fds, readable, handlers, connection,
             calls, overtaken, due, resets>>
      /\ source' \in [Source -> SourceRecord]
  BY <1>1, DidEmitSkips DEF Sets, VarTypes
<1>3. VarTypes'
  BY <1>1, <1>2, CancellableAssumption DEF VarTypes
<1>p. Placed("emit", None, thread[t].back)
  BY <1>1, <1>2 DEF At, ThreadInv, Placed, SourcePlaces, HolderPlaces, Unreffing, Disposal,
       Preparation, ThreadRecord
<1>4. /\ Emits("emit", thread[t].back) <=> Emitting(t)
      /\ "emit" = "direct" <=> At(t, "direct")
      /\ "emit" \in {"gap"} \cup Preparation => thread[t].at \in Preparation /\ None = thread[t].h
  BY <1>1, <1>2 DEF At, Emits, Emitting, ThreadInv, Placed, SourcePlaces, HolderPlaces, Unreffing, Disposal, Preparation, ThreadRecord
<1> QED
  BY <1>2, <1>3, <1>4, <1>p, BaseKept

LEMMA BaseEmitCalls ==
  ASSUME Base, NEW t \in Thread, EmitNext(t), Connected(Head(thread[t].todo)), Head(thread[t].todo) \in User
  PROVE  Base'
<1>1. TypeOK /\ VarTypes /\ ThreadInv(t) /\ thread[t] \in ThreadRecord
  BY Types DEF Base, TypeOK
<1>2. /\ At(t, "emit") /\ thread[t].todo # <<>>
      /\ Head(thread[t].todo) \in User /\ Connected(Head(thread[t].todo))
      /\ Goes(t, "callback", Head(thread[t].todo), Tail(thread[t].todo), thread[t].back)
      /\ calls' = [calls EXCEPT ![Head(thread[t].todo)] = @ + 1]
      /\ UNCHANGED <<cancelled, cancelledRunning, mutex, fds, readable, handlers, connection,
             overtaken, due, resets>>
      /\ source' \in [Source -> SourceRecord]
  BY <1>1, DidEmitCalls DEF Sets, VarTypes
<1>3. VarTypes'
  BY <1>1, <1>2, CancellableAssumption DEF VarTypes
<1>p. Placed("callback", Head(thread[t].todo), thread[t].back)
  BY <1>1, <1>2 DEF At, ThreadInv, Placed, SourcePlaces, HolderPlaces, Unreffing, Disposal,
       Preparation, ThreadRecord
<1>4. /\ Emits("callback", thread[t].back) <=> Emitting(t)
      /\ "callback" = "direct" <=> At(t, "direct")
      /\ "callback" \in {"gap"} \cup Preparation => thread[t].at \in Preparation /\ Head(thread[t].todo) = thread[t].h
  BY <1>1, <1>2 DEF At, Emits, Emitting, ThreadInv, Placed, SourcePlaces, HolderPlaces, Unreffing, Disposal, Preparation, ThreadRecord
<1> QED
  BY <1>2, <1>3, <1>4, <1>p, BaseKept

LEMMA BaseEmitExchanges ==
  ASSUME Base, NEW t \in Thread, EmitNext(t), Connected(Head(thread[t].todo)), Head(thread[t].todo) \in Source
  PROVE  Base'
<1>1. TypeOK /\ VarTypes /\ ThreadInv(t) /\ thread[t] \in ThreadRecord
  BY Types DEF Base, TypeOK
<1>2. /\ At(t, "emit") /\ thread[t].todo # <<>>
      /\ Head(thread[t].todo) \in Source /\ Connected(Head(thread[t].todo))
      /\ Goes(t, "exchange", Head(thread[t].todo), Tail(thread[t].todo), thread[t].back)
      /\ UNCHANGED <<cancelled, cancelledRunning, mutex, fds, readable, handlers, connection,
             calls, overtaken, due, resets>>
      /\ source' \in [Source -> SourceRecord]
  BY <1>1, DidEmitExchanges DEF Sets, VarTypes
<1>3. VarTypes'
  BY <1>1, <1>2, CancellableAssumption DEF VarTypes
<1>p. Placed("exchange", Head(thread[t].todo), thread[t].back)
  BY <1>1, <1>2 DEF At, ThreadInv, Placed, SourcePlaces, HolderPlaces, Unreffing, Disposal,
       Preparation, ThreadRecord
<1>4. /\ Emits("exchange", thread[t].back) <=> Emitting(t)
      /\ "exchange" = "direct" <=> At(t, "direct")
      /\ "exchange" \in {"gap"} \cup Preparation => thread[t].at \in Preparation /\ Head(thread[t].todo) = thread[t].h
  BY <1>1, <1>2 DEF At, Emits, Emitting, ThreadInv, Placed, SourcePlaces, HolderPlaces, Unreffing, Disposal, Preparation, ThreadRecord
<1> QED
  BY <1>2, <1>3, <1>4, <1>p, BaseKept

LEMMA BaseCallbackReturns ==
  ASSUME Base, NEW t \in Thread, CallbackReturns(t)
  PROVE  Base'
<1>1. TypeOK /\ VarTypes /\ ThreadInv(t) /\ thread[t] \in ThreadRecord
  BY Types DEF Base, TypeOK
<1>2. /\ At(t, "callback")
      /\ Goes(t, "emit", None, thread[t].todo, thread[t].back)
      /\ UNCHANGED <<cancelled, cancelledRunning, mutex, fds, readable, handlers, connection,
             calls, overtaken, due, resets>>
      /\ source' \in [Source -> SourceRecord]
  BY <1>1, DidCallbackReturns DEF Sets, VarTypes
<1>3. VarTypes'
  BY <1>1, <1>2, CancellableAssumption DEF VarTypes
<1>p. Placed("emit", None, thread[t].back)
  BY <1>1, <1>2 DEF At, ThreadInv, Placed, SourcePlaces, HolderPlaces, Unreffing, Disposal,
       Preparation, ThreadRecord
<1>4. /\ Emits("emit", thread[t].back) <=> Emitting(t)
      /\ "emit" = "direct" <=> At(t, "direct")
      /\ "emit" \in {"gap"} \cup Preparation => thread[t].at \in Preparation /\ None = thread[t].h
  BY <1>1, <1>2 DEF At, Emits, Emitting, ThreadInv, Placed, SourcePlaces, HolderPlaces, Unreffing, Disposal, Preparation, ThreadRecord
<1> QED
  BY <1>2, <1>3, <1>4, <1>p, BaseKept

LEMMA BaseEmitEnd ==
  ASSUME Base, NEW t \in Thread, EmitEnd(t)
  PROVE  Base'
<1>1. TypeOK /\ VarTypes /\ ThreadInv(t) /\ thread[t] \in ThreadRecord
  BY Types DEF Base, TypeOK
<1>2. /\ At(t, "emit") /\ thread[t].todo = <<>>
      /\ Goes(t, "idle", None, <<>>, "idle")
      /\ cancelledRunning' = cancelledRunning - 1
      /\ mutex' = None
      /\ UNCHANGED <<cancelled, fds, readable, handlers, connection, calls, overtaken, due,
             resets>>
      /\ source' \in [Source -> SourceRecord]
  BY <1>1, DidEmitEnd DEF Sets, VarTypes
<1>n. cancelledRunning - 1 \in Nat
  BY <1>2 DEF Base, MutexInv, Emitting, Emits, At
<1>3. VarTypes'
  BY <1>1, <1>2, <1>n, CancellableAssumption DEF VarTypes
<1>p. Placed("idle", None, "idle")
  BY <1>1, <1>2 DEF At, ThreadInv, Placed, SourcePlaces, HolderPlaces, Unreffing, Disposal,
       Preparation, ThreadRecord
<1>4. Emitting(t) /\ mutex = t /\ cancelledRunning = 1 /\ None \notin Thread
  BY <1>2, CancellableAssumption DEF Base, MutexInv, Emitting, Emits, At
<1>5. \A o \in Thread \ {t} : ~Emitting(o) /\ ~At(o, "direct")
  BY <1>4 DEF Base, MutexInv
<1>6. \A o \in Thread : ~Emitting(o)' /\ ~At(o, "direct")'
  BY <1>2, <1>3, <1>5, <1>p, GoesKeeps DEF Emits, At
<1>7. MutexInv'
  BY <1>2, <1>4, <1>6 DEF MutexInv
<1>8. BoundInv'
  BY <1>6 DEF BoundInv
<1> QED
  BY <1>2, <1>3, <1>7, <1>8, <1>p, GoesKeeps DEF Base

LEMMA BaseConnectOn ==
  ASSUME Base, NEW t \in Thread, NEW u \in User, Connect(t, u), ~cancelled
  PROVE  Base'
<1>1. TypeOK /\ VarTypes /\ ThreadInv(t) /\ thread[t] \in ThreadRecord
  BY Types DEF Base, TypeOK
<1>2. /\ connection[u] = "none" /\ mutex = None /\ At(t, "idle") /\ ~cancelled
      /\ Goes(t, thread[t].at, thread[t].h, thread[t].todo, thread[t].back)
      /\ handlers' = Append(handlers, u)
      /\ connection' = [connection EXCEPT ![u] = "on"]
      /\ UNCHANGED <<cancelled, cancelledRunning, mutex, fds, readable, calls, overtaken, due,
             resets>>
      /\ source' \in [Source -> SourceRecord]
  BY <1>1, DidConnectOn DEF Sets, VarTypes
<1>l. handlers' \in Seq(User \cup Source)
  BY <1>1, <1>2 DEF VarTypes
<1>3. VarTypes'
  BY <1>1, <1>2, <1>l, CancellableAssumption DEF VarTypes
<1>p. Placed(thread[t].at, thread[t].h, thread[t].back)
  BY <1>1, <1>2 DEF At, ThreadInv, Placed, SourcePlaces, HolderPlaces, Unreffing, Disposal,
       Preparation, ThreadRecord
<1>4. /\ Emits(thread[t].at, thread[t].back) <=> Emitting(t)
      /\ thread[t].at = "direct" <=> At(t, "direct")
      /\ thread[t].at \in {"gap"} \cup Preparation => thread[t].at \in Preparation /\ thread[t].h = thread[t].h
  BY <1>1, <1>2 DEF At, Emits, Emitting, ThreadInv, Placed, SourcePlaces, HolderPlaces, Unreffing, Disposal, Preparation, ThreadRecord
<1> QED
  BY <1>2, <1>3, <1>4, <1>p, BaseKept

LEMMA BaseConnectOff ==
  ASSUME Base, NEW t \in Thread, NEW u \in User, Connect(t, u), cancelled
  PROVE  Base'
<1>1. TypeOK /\ VarTypes /\ ThreadInv(t) /\ thread[t] \in ThreadRecord
  BY Types DEF Base, TypeOK
<1>2. /\ connection[u] = "none" /\ mutex = None /\ At(t, "idle") /\ cancelled
      /\ Goes(t, "direct", u, thread[t].todo, thread[t].back)
      /\ mutex' = t
      /\ connection' = [connection EXCEPT ![u] = "off"]
      /\ calls' = [calls EXCEPT ![u] = @ + 1]
      /\ UNCHANGED <<cancelled, cancelledRunning, fds, readable, handlers, overtaken, due,
             resets>>
      /\ source' \in [Source -> SourceRecord]
  BY <1>1, DidConnectOff DEF Sets, VarTypes
<1>3. VarTypes'
  BY <1>1, <1>2, CancellableAssumption DEF VarTypes
<1>p. Placed("direct", u, thread[t].back)
  BY <1>1, <1>2 DEF At, ThreadInv, Placed, SourcePlaces, HolderPlaces, Unreffing, Disposal,
       Preparation, ThreadRecord
<1>4. \A o \in Thread : ~Emitting(o) /\ (mutex = None => ~At(o, "direct"))
  BY <1>2, Free DEF Base, MutexInv, At
<1>5. ~Emits("direct", thread[t].back)
  BY <1>2, <1>4 DEF Emits, Emitting, At
<1>6. \A o \in Thread : mutex' = o <=> (IF o = t THEN "direct" = "direct" ELSE At(o, "direct"))
  BY <1>2, <1>4, CancellableAssumption DEF At, Base, MutexInv
<1> QED
  BY <1>2, <1>3, <1>4, <1>5, <1>6, <1>p, BaseQuiet

LEMMA BaseDirectReturns ==
  ASSUME Base, NEW t \in Thread, DirectReturns(t)
  PROVE  Base'
<1>1. TypeOK /\ VarTypes /\ ThreadInv(t) /\ thread[t] \in ThreadRecord
  BY Types DEF Base, TypeOK
<1>2. /\ At(t, "direct")
      /\ Goes(t, "idle", None, <<>>, "idle")
      /\ mutex' = None
      /\ UNCHANGED <<cancelled, cancelledRunning, fds, readable, handlers, connection, calls,
             overtaken, due, resets>>
      /\ source' \in [Source -> SourceRecord]
  BY <1>1, DidDirectReturns DEF Sets, VarTypes
<1>3. VarTypes'
  BY <1>1, <1>2, CancellableAssumption DEF VarTypes
<1>p. Placed("idle", None, "idle")
  BY <1>1, <1>2 DEF At, ThreadInv, Placed, SourcePlaces, HolderPlaces, Unreffing, Disposal,
       Preparation, ThreadRecord
<1>4. \A o \in Thread : ~Emitting(o) /\ (o # t => ~At(o, "direct"))
  <2>1. mutex = t /\ ~Emitting(t)
    BY <1>1, <1>2 DEF Base, MutexInv, Emitting, Emits, At, ThreadInv, Placed, Unreffing, Disposal
  <2> QED
    BY <2>1 DEF Base, MutexInv
<1>5. ~Emits("idle", "idle")
  BY <1>2, <1>4 DEF Emits, Emitting, At
<1>6. \A o \in Thread : mutex' = o <=> (IF o = t THEN "idle" = "direct" ELSE At(o, "direct"))
  BY <1>2, <1>4, CancellableAssumption DEF At, Base, MutexInv
<1> QED
  BY <1>2, <1>3, <1>4, <1>5, <1>6, <1>p, BaseQuiet

LEMMA BaseDisconnect ==
  ASSUME Base, NEW t \in Thread, NEW u \in User, Disconnect(t, u)
  PROVE  Base'
<1>1. TypeOK /\ VarTypes /\ ThreadInv(t) /\ thread[t] \in ThreadRecord
  BY Types DEF Base, TypeOK
<1>2. /\ connection[u] = "on" /\ At(t, "idle")
      /\ Goes(t, "wait", u, thread[t].todo, thread[t].back)
      /\ UNCHANGED <<cancelled, cancelledRunning, mutex, fds, readable, handlers, connection,
             calls, overtaken, due, resets>>
      /\ source' \in [Source -> SourceRecord]
  BY <1>1, DidDisconnect DEF Sets, VarTypes
<1>3. VarTypes'
  BY <1>1, <1>2, CancellableAssumption DEF VarTypes
<1>p. Placed("wait", u, thread[t].back)
  BY <1>1, <1>2 DEF At, ThreadInv, Placed, SourcePlaces, HolderPlaces, Unreffing, Disposal,
       Preparation, ThreadRecord
<1>4. /\ Emits("wait", thread[t].back) <=> Emitting(t)
      /\ "wait" = "direct" <=> At(t, "direct")
      /\ "wait" \in {"gap"} \cup Preparation => thread[t].at \in Preparation /\ u = thread[t].h
  BY <1>1, <1>2 DEF At, Emits, Emitting, ThreadInv, Placed, SourcePlaces, HolderPlaces, Unreffing, Disposal, Preparation, ThreadRecord
<1> QED
  BY <1>2, <1>3, <1>4, <1>p, BaseKept

LEMMA BaseDisconnectLock ==
  ASSUME Base, NEW t \in Thread, DisconnectLock(t)
  PROVE  Base'
<1>1. TypeOK /\ VarTypes /\ ThreadInv(t) /\ thread[t] \in ThreadRecord
  BY Types DEF Base, TypeOK
<1>2. /\ At(t, "wait") /\ mutex = None
      /\ Goes(t, "gap", thread[t].h, thread[t].todo, thread[t].back)
      /\ UNCHANGED <<cancelled, cancelledRunning, mutex, fds, readable, handlers, connection,
             calls, overtaken, due, resets>>
      /\ source' \in [Source -> SourceRecord]
  BY <1>1, DidDisconnectLock DEF Sets, VarTypes
<1>3. VarTypes'
  BY <1>1, <1>2, CancellableAssumption DEF VarTypes
<1>p. Placed("gap", thread[t].h, thread[t].back)
  BY <1>1, <1>2 DEF At, ThreadInv, Placed, SourcePlaces, HolderPlaces, Unreffing, Disposal,
       Preparation, ThreadRecord
<1>4. \A o \in Thread : ~Emitting(o) /\ (mutex = None => ~At(o, "direct"))
  BY <1>2, Free DEF Base, MutexInv, At
<1>5. ~Emits("gap", thread[t].back)
  BY <1>2, <1>4 DEF Emits, Emitting, At
<1>6. \A o \in Thread : mutex' = o <=> (IF o = t THEN "gap" = "direct" ELSE At(o, "direct"))
  BY <1>2, <1>4, CancellableAssumption DEF At, Base, MutexInv
<1> QED
  BY <1>2, <1>3, <1>4, <1>5, <1>6, <1>p, BaseQuiet

LEMMA BaseDisconnectEnds ==
  ASSUME Base, NEW t \in Thread, DisconnectEnds(t)
  PROVE  Base'
<1>1. TypeOK /\ VarTypes /\ ThreadInv(t) /\ thread[t] \in ThreadRecord
  BY Types DEF Base, TypeOK
<1>2. /\ At(t, "gap")
      /\ Goes(t, "idle", None, <<>>, "idle")
      /\ handlers' = Without(handlers, thread[t].h)
      /\ connection' = [connection EXCEPT ![thread[t].h] = "gone"]
      /\ UNCHANGED <<cancelled, cancelledRunning, mutex, fds, readable, calls, overtaken, due,
             resets>>
      /\ source' \in [Source -> SourceRecord]
  BY <1>1, DidDisconnectEnds DEF Sets, VarTypes
<1>l. handlers' \in Seq(User \cup Source)
  BY <1>1, <1>2, WithoutType DEF VarTypes
<1>k. connection' \in [User -> {"none", "on", "off", "gone"}]
  BY <1>1, <1>2 DEF VarTypes
<1>3. VarTypes'
  BY <1>1, <1>2, <1>l, <1>k, CancellableAssumption DEF VarTypes
<1>p. Placed("idle", None, "idle")
  BY <1>1, <1>2 DEF At, ThreadInv, Placed, SourcePlaces, HolderPlaces, Unreffing, Disposal,
       Preparation, ThreadRecord
<1>4. /\ Emits("idle", "idle") <=> Emitting(t)
      /\ "idle" = "direct" <=> At(t, "direct")
      /\ "idle" \in {"gap"} \cup Preparation => thread[t].at \in Preparation /\ None = thread[t].h
  BY <1>1, <1>2 DEF At, Emits, Emitting, ThreadInv, Placed, SourcePlaces, HolderPlaces, Unreffing, Disposal, Preparation, ThreadRecord
<1> QED
  BY <1>2, <1>3, <1>4, <1>p, BaseKept

LEMMA BaseReset ==
  ASSUME Base, NEW t \in Thread, Reset(t)
  PROVE  Base'
<1>1. TypeOK /\ VarTypes /\ ThreadInv(t) /\ thread[t] \in ThreadRecord
  BY Types DEF Base, TypeOK
<1>2. /\ At(t, "idle") /\ mutex = None /\ resets < MaxResets
      /\ Goes(t, thread[t].at, thread[t].h, thread[t].todo, thread[t].back)
      /\ cancelled' = FALSE
      /\ readable' = (IF cancelled THEN FALSE ELSE readable)
      /\ calls' = [u \in User |-> IF connection[u] = "on" THEN 0 ELSE calls[u]]
      /\ resets' = resets + 1
      /\ UNCHANGED <<cancelledRunning, mutex, fds, handlers, connection, overtaken, due>>
      /\ source' \in [Source -> SourceRecord]
  BY <1>1, DidReset DEF Sets, VarTypes
<1>l. calls' \in [User -> Nat]
  BY <1>1, <1>2 DEF VarTypes
<1>k. resets' \in 0 .. MaxResets
  BY <1>1, <1>2, CancellableAssumption DEF VarTypes
<1>j. readable' \in BOOLEAN
  BY <1>1, <1>2 DEF VarTypes
<1>3. VarTypes'
  BY <1>1, <1>2, <1>j, <1>k, <1>l, CancellableAssumption DEF VarTypes
<1>p. Placed(thread[t].at, thread[t].h, thread[t].back)
  BY <1>1, <1>2 DEF At, ThreadInv, Placed, SourcePlaces, HolderPlaces, Unreffing, Disposal,
       Preparation, ThreadRecord
<1>4. \A o \in Thread : ~Emitting(o) /\ (mutex = None => ~At(o, "direct"))
  BY <1>2, Free DEF Base, MutexInv, At
<1>5. ~Emits(thread[t].at, thread[t].back)
  BY <1>2, <1>4 DEF Emits, Emitting, At
<1>6. \A o \in Thread : mutex' = o <=> (IF o = t THEN thread[t].at = "direct" ELSE At(o, "direct"))
  BY <1>2, <1>4, CancellableAssumption DEF At, Base, MutexInv
<1> QED
  BY <1>2, <1>3, <1>4, <1>5, <1>6, <1>p, BaseQuiet

LEMMA BaseMakePollfd ==
  ASSUME Base, NEW t \in Thread, MakePollfd(t)
  PROVE  Base'
<1>1. TypeOK /\ VarTypes /\ ThreadInv(t) /\ thread[t] \in ThreadRecord
  BY Types DEF Base, TypeOK
<1>2. /\ At(t, "idle") /\ mutex = None /\ fds < MaxFds
      /\ Goes(t, thread[t].at, thread[t].h, thread[t].todo, thread[t].back)
      /\ fds' = fds + 1
      /\ readable' = (IF fds = 0 THEN cancelled ELSE readable)
      /\ UNCHANGED <<cancelled, cancelledRunning, mutex, handlers, connection, calls,
             overtaken, due, resets>>
      /\ source' \in [Source -> SourceRecord]
  BY <1>1, DidMakePollfd DEF Sets, VarTypes
<1>3. VarTypes'
  BY <1>1, <1>2, CancellableAssumption DEF VarTypes
<1>p. Placed(thread[t].at, thread[t].h, thread[t].back)
  BY <1>1, <1>2 DEF At, ThreadInv, Placed, SourcePlaces, HolderPlaces, Unreffing, Disposal,
       Preparation, ThreadRecord
<1>4. /\ Emits(thread[t].at, thread[t].back) <=> Emitting(t)
      /\ thread[t].at = "direct" <=> At(t, "direct")
      /\ thread[t].at \in {"gap"} \cup Preparation => thread[t].at \in Preparation /\ thread[t].h = thread[t].h
  BY <1>1, <1>2 DEF At, Emits, Emitting, ThreadInv, Placed, SourcePlaces, HolderPlaces, Unreffing, Disposal, Preparation, ThreadRecord
<1> QED
  BY <1>2, <1>3, <1>4, <1>p, BaseKept

LEMMA BaseReleaseFd ==
  ASSUME Base, NEW t \in Thread, ReleaseFd(t)
  PROVE  Base'
<1>1. TypeOK /\ VarTypes /\ ThreadInv(t) /\ thread[t] \in ThreadRecord
  BY Types DEF Base, TypeOK
<1>2. /\ At(t, "idle") /\ mutex = None /\ fds > 0
      /\ Goes(t, thread[t].at, thread[t].h, thread[t].todo, thread[t].back)
      /\ fds' = fds - 1
      /\ readable' = (readable /\ fds > 1)
      /\ UNCHANGED <<cancelled, cancelledRunning, mutex, handlers, connection, calls,
             overtaken, due, resets>>
      /\ source' \in [Source -> SourceRecord]
  BY <1>1, DidReleaseFd DEF Sets, VarTypes
<1>3. VarTypes'
  BY <1>1, <1>2, CancellableAssumption DEF VarTypes
<1>p. Placed(thread[t].at, thread[t].h, thread[t].back)
  BY <1>1, <1>2 DEF At, ThreadInv, Placed, SourcePlaces, HolderPlaces, Unreffing, Disposal,
       Preparation, ThreadRecord
<1>4. /\ Emits(thread[t].at, thread[t].back) <=> Emitting(t)
      /\ thread[t].at = "direct" <=> At(t, "direct")
      /\ thread[t].at \in {"gap"} \cup Preparation => thread[t].at \in Preparation /\ thread[t].h = thread[t].h
  BY <1>1, <1>2 DEF At, Emits, Emitting, ThreadInv, Placed, SourcePlaces, HolderPlaces, Unreffing, Disposal, Preparation, ThreadRecord
<1> QED
  BY <1>2, <1>3, <1>4, <1>p, BaseKept

LEMMA BaseSourceNew ==
  ASSUME Base, NEW t \in Thread, NEW s \in Source, SourceNew(t, s)
  PROVE  Base'
<1>1. TypeOK /\ VarTypes /\ ThreadInv(t) /\ thread[t] \in ThreadRecord
  BY Types DEF Base, TypeOK
<1>2. /\ At(t, "idle") /\ source[s].phase = "none"
      /\ Goes(t, "new", s, thread[t].todo, thread[t].back)
      /\ handlers' = Append(handlers, s)
      /\ UNCHANGED <<cancelled, cancelledRunning, mutex, fds, readable, connection, calls,
             overtaken, due, resets>>
      /\ source' \in [Source -> SourceRecord]
  BY <1>1, DidSourceNew DEF Sets, VarTypes
<1>l. handlers' \in Seq(User \cup Source)
  BY <1>1, <1>2 DEF VarTypes
<1>3. VarTypes'
  BY <1>1, <1>2, <1>l, CancellableAssumption DEF VarTypes
<1>p. Placed("new", s, thread[t].back)
  BY <1>1, <1>2 DEF At, ThreadInv, Placed, SourcePlaces, HolderPlaces, Unreffing, Disposal,
       Preparation, ThreadRecord
<1>4. /\ Emits("new", thread[t].back) <=> Emitting(t)
      /\ "new" = "direct" <=> At(t, "direct")
      /\ "new" \in {"gap"} \cup Preparation => thread[t].at \in Preparation /\ s = thread[t].h
  BY <1>1, <1>2 DEF At, Emits, Emitting, ThreadInv, Placed, SourcePlaces, HolderPlaces, Unreffing, Disposal, Preparation, ThreadRecord
<1> QED
  BY <1>2, <1>3, <1>4, <1>p, BaseKept

LEMMA BaseSourceChecks ==
  ASSUME Base, NEW t \in Thread, SourceChecks(t)
  PROVE  Base'
<1>1. TypeOK /\ VarTypes /\ ThreadInv(t) /\ thread[t] \in ThreadRecord
  BY Types DEF Base, TypeOK
<1>2. /\ At(t, "new") /\ thread[t].h \in Source
      /\ Goes(t, "idle", None, <<>>, "idle")
      /\ UNCHANGED <<cancelled, cancelledRunning, mutex, fds, readable, handlers, connection,
             calls, overtaken, due, resets>>
      /\ source' \in [Source -> SourceRecord]
  BY <1>1, DidSourceChecks DEF Sets, VarTypes
<1>3. VarTypes'
  BY <1>1, <1>2, CancellableAssumption DEF VarTypes
<1>p. Placed("idle", None, "idle")
  BY <1>1, <1>2 DEF At, ThreadInv, Placed, SourcePlaces, HolderPlaces, Unreffing, Disposal,
       Preparation, ThreadRecord
<1>4. /\ Emits("idle", "idle") <=> Emitting(t)
      /\ "idle" = "direct" <=> At(t, "direct")
      /\ "idle" \in {"gap"} \cup Preparation => thread[t].at \in Preparation /\ None = thread[t].h
  BY <1>1, <1>2 DEF At, Emits, Emitting, ThreadInv, Placed, SourcePlaces, HolderPlaces, Unreffing, Disposal, Preparation, ThreadRecord
<1> QED
  BY <1>2, <1>3, <1>4, <1>p, BaseKept

LEMMA BaseExchangeTakes ==
  ASSUME Base, NEW t \in Thread, Exchange(t), Rec(t).self
  PROVE  Base'
<1>1. TypeOK /\ VarTypes /\ ThreadInv(t) /\ thread[t] \in ThreadRecord
  BY Types DEF Base, TypeOK
<1>2. /\ At(t, "exchange") /\ thread[t].h \in Source
      /\ source[thread[t].h].self
      /\ Goes(t, "ref", thread[t].h, thread[t].todo, thread[t].back)
      /\ UNCHANGED <<cancelled, cancelledRunning, mutex, fds, readable, handlers, connection,
             calls, overtaken, due, resets>>
      /\ source' \in [Source -> SourceRecord]
  BY <1>1, DidExchangeTakes DEF Sets, VarTypes
<1>3. VarTypes'
  BY <1>1, <1>2, CancellableAssumption DEF VarTypes
<1>p. Placed("ref", thread[t].h, thread[t].back)
  BY <1>1, <1>2 DEF At, ThreadInv, Placed, SourcePlaces, HolderPlaces, Unreffing, Disposal,
       Preparation, ThreadRecord
<1>4. /\ Emits("ref", thread[t].back) <=> Emitting(t)
      /\ "ref" = "direct" <=> At(t, "direct")
      /\ "ref" \in {"gap"} \cup Preparation => thread[t].at \in Preparation /\ thread[t].h = thread[t].h
  BY <1>1, <1>2 DEF At, Emits, Emitting, ThreadInv, Placed, SourcePlaces, HolderPlaces, Unreffing, Disposal, Preparation, ThreadRecord
<1> QED
  BY <1>2, <1>3, <1>4, <1>p, BaseKept

LEMMA BaseExchangeFails ==
  ASSUME Base, NEW t \in Thread, Exchange(t), ~Rec(t).self
  PROVE  Base'
<1>1. TypeOK /\ VarTypes /\ ThreadInv(t) /\ thread[t] \in ThreadRecord
  BY Types DEF Base, TypeOK
<1>2. /\ At(t, "exchange") /\ thread[t].h \in Source
      /\ ~source[thread[t].h].self
      /\ Goes(t, "emit", None, thread[t].todo, thread[t].back)
      /\ UNCHANGED <<cancelled, cancelledRunning, mutex, fds, readable, handlers, connection,
             calls, overtaken, due, resets>>
      /\ source' \in [Source -> SourceRecord]
  BY <1>1, DidExchangeFails DEF Sets, VarTypes
<1>3. VarTypes'
  BY <1>1, <1>2, CancellableAssumption DEF VarTypes
<1>p. Placed("emit", None, thread[t].back)
  BY <1>1, <1>2 DEF At, ThreadInv, Placed, SourcePlaces, HolderPlaces, Unreffing, Disposal,
       Preparation, ThreadRecord
<1>4. /\ Emits("emit", thread[t].back) <=> Emitting(t)
      /\ "emit" = "direct" <=> At(t, "direct")
      /\ "emit" \in {"gap"} \cup Preparation => thread[t].at \in Preparation /\ None = thread[t].h
  BY <1>1, <1>2 DEF At, Emits, Emitting, ThreadInv, Placed, SourcePlaces, HolderPlaces, Unreffing, Disposal, Preparation, ThreadRecord
<1> QED
  BY <1>2, <1>3, <1>4, <1>p, BaseKept

LEMMA BaseHandlerRefs ==
  ASSUME Base, NEW t \in Thread, HandlerRefs(t), Sound
  PROVE  Base'
<1>1. TypeOK /\ VarTypes /\ ThreadInv(t) /\ thread[t] \in ThreadRecord
  BY Types DEF Base, TypeOK
<1>2. /\ At(t, "ref") /\ thread[t].h \in Source
      /\ source[thread[t].h].phase = "live"
      /\ Goes(t, "ready", thread[t].h, thread[t].todo, thread[t].back)
      /\ UNCHANGED <<cancelled, cancelledRunning, mutex, fds, readable, handlers, connection,
             calls, overtaken, due, resets>>
      /\ source' \in [Source -> SourceRecord]
  BY <1>1, DidHandlerRefs DEF Sets, VarTypes
<1>3. VarTypes'
  BY <1>1, <1>2, CancellableAssumption DEF VarTypes
<1>p. Placed("ready", thread[t].h, thread[t].back)
  BY <1>1, <1>2 DEF At, ThreadInv, Placed, SourcePlaces, HolderPlaces, Unreffing, Disposal,
       Preparation, ThreadRecord
<1>4. /\ Emits("ready", thread[t].back) <=> Emitting(t)
      /\ "ready" = "direct" <=> At(t, "direct")
      /\ "ready" \in {"gap"} \cup Preparation => thread[t].at \in Preparation /\ thread[t].h = thread[t].h
  BY <1>1, <1>2 DEF At, Emits, Emitting, ThreadInv, Placed, SourcePlaces, HolderPlaces, Unreffing, Disposal, Preparation, ThreadRecord
<1> QED
  BY <1>2, <1>3, <1>4, <1>p, BaseKept

LEMMA BaseHandlerReadies ==
  ASSUME Base, NEW t \in Thread, HandlerReadies(t)
  PROVE  Base'
<1>1. TypeOK /\ VarTypes /\ ThreadInv(t) /\ thread[t] \in ThreadRecord
  BY Types DEF Base, TypeOK
<1>2. /\ At(t, "ready") /\ thread[t].h \in Source
      /\ Goes(t, "called", thread[t].h, thread[t].todo, thread[t].back)
      /\ UNCHANGED <<cancelled, cancelledRunning, mutex, fds, readable, handlers, connection,
             calls, overtaken, due, resets>>
      /\ source' \in [Source -> SourceRecord]
  BY <1>1, DidHandlerReadies DEF Sets, VarTypes
<1>3. VarTypes'
  BY <1>1, <1>2, CancellableAssumption DEF VarTypes
<1>p. Placed("called", thread[t].h, thread[t].back)
  BY <1>1, <1>2 DEF At, ThreadInv, Placed, SourcePlaces, HolderPlaces, Unreffing, Disposal,
       Preparation, ThreadRecord
<1>4. /\ Emits("called", thread[t].back) <=> Emitting(t)
      /\ "called" = "direct" <=> At(t, "direct")
      /\ "called" \in {"gap"} \cup Preparation => thread[t].at \in Preparation /\ thread[t].h = thread[t].h
  BY <1>1, <1>2 DEF At, Emits, Emitting, ThreadInv, Placed, SourcePlaces, HolderPlaces, Unreffing, Disposal, Preparation, ThreadRecord
<1> QED
  BY <1>2, <1>3, <1>4, <1>p, BaseKept

LEMMA BaseHandlerCalled ==
  ASSUME Base, NEW t \in Thread, HandlerCalled(t)
  PROVE  Base'
<1>1. TypeOK /\ VarTypes /\ ThreadInv(t) /\ thread[t] \in ThreadRecord
  BY Types DEF Base, TypeOK
<1>2. /\ At(t, "called") /\ thread[t].h \in Source
      /\ Goes(t, "unref", thread[t].h, thread[t].todo, "emit")
      /\ UNCHANGED <<cancelled, cancelledRunning, mutex, fds, readable, handlers, connection,
             calls, overtaken, due, resets>>
      /\ source' \in [Source -> SourceRecord]
  BY <1>1, DidHandlerCalled DEF Sets, VarTypes
<1>3. VarTypes'
  BY <1>1, <1>2, CancellableAssumption DEF VarTypes
<1>p. Placed("unref", thread[t].h, "emit")
  BY <1>1, <1>2 DEF At, ThreadInv, Placed, SourcePlaces, HolderPlaces, Unreffing, Disposal,
       Preparation, ThreadRecord
<1>4. /\ Emits("unref", "emit") <=> Emitting(t)
      /\ "unref" = "direct" <=> At(t, "direct")
      /\ "unref" \in {"gap"} \cup Preparation => thread[t].at \in Preparation /\ thread[t].h = thread[t].h
  BY <1>1, <1>2 DEF At, Emits, Emitting, ThreadInv, Placed, SourcePlaces, HolderPlaces, Unreffing, Disposal, Preparation, ThreadRecord
<1> QED
  BY <1>2, <1>3, <1>4, <1>p, BaseKept

LEMMA BasePrepare ==
  ASSUME Base, NEW t \in Thread, NEW s \in Source, Prepare(t, s)
  PROVE  Base'
<1>1. TypeOK /\ VarTypes /\ ThreadInv(t) /\ thread[t] \in ThreadRecord
  BY Types DEF Base, TypeOK
<1>2. /\ At(t, "idle") /\ source[s].held /\ cancelledRunning = 0
      /\ \A o \in Thread : thread[o].h = s => thread[o].at \notin Preparation
      /\ Goes(t, "prepare", s, thread[t].todo, thread[t].back)
      /\ overtaken' = overtaken \ {s}
      /\ UNCHANGED <<cancelled, cancelledRunning, mutex, fds, readable, handlers, connection,
             calls, due, resets>>
      /\ source' \in [Source -> SourceRecord]
  BY <1>1, DidPrepare DEF Sets, VarTypes
<1>3. VarTypes'
  BY <1>1, <1>2, CancellableAssumption DEF VarTypes
<1>p. Placed("prepare", s, thread[t].back)
  BY <1>1, <1>2 DEF At, ThreadInv, Placed, SourcePlaces, HolderPlaces, Unreffing, Disposal,
       Preparation, ThreadRecord
<1>4. \A o \in Thread : ~Emitting(o) /\ (mutex = None => ~At(o, "direct"))
  BY <1>2, Free DEF Base, MutexInv, At
<1>5. ~Emits("prepare", thread[t].back)
  BY <1>2, <1>4 DEF Emits, Emitting, At
<1>6. \A o \in Thread : mutex' = o <=> (IF o = t THEN "prepare" = "direct" ELSE At(o, "direct"))
  BY <1>2, <1>4, CancellableAssumption DEF At, Base, MutexInv
<1> QED
  BY <1>2, <1>3, <1>4, <1>5, <1>6, <1>p, BaseQuiet

LEMMA BasePrepareFlag ==
  ASSUME Base, NEW t \in Thread, PrepareFlag(t)
  PROVE  Base'
<1>1. TypeOK /\ VarTypes /\ ThreadInv(t) /\ thread[t] \in ThreadRecord
  BY Types DEF Base, TypeOK
<1>2. /\ At(t, "prepare") /\ thread[t].h \in Source
      /\ Goes(t, "prepare2", thread[t].h, thread[t].todo, thread[t].back)
      /\ UNCHANGED <<cancelled, cancelledRunning, mutex, fds, readable, handlers, connection,
             calls, overtaken, due, resets>>
      /\ source' \in [Source -> SourceRecord]
  BY <1>1, DidPrepareFlag DEF Sets, VarTypes
<1>3. VarTypes'
  BY <1>1, <1>2, CancellableAssumption DEF VarTypes
<1>p. Placed("prepare2", thread[t].h, thread[t].back)
  BY <1>1, <1>2 DEF At, ThreadInv, Placed, SourcePlaces, HolderPlaces, Unreffing, Disposal,
       Preparation, ThreadRecord
<1>4. /\ Emits("prepare2", thread[t].back) <=> Emitting(t)
      /\ "prepare2" = "direct" <=> At(t, "direct")
      /\ "prepare2" \in {"gap"} \cup Preparation => thread[t].at \in Preparation /\ thread[t].h = thread[t].h
  BY <1>1, <1>2 DEF At, Emits, Emitting, ThreadInv, Placed, SourcePlaces, HolderPlaces, Unreffing, Disposal, Preparation, ThreadRecord
<1> QED
  BY <1>2, <1>3, <1>4, <1>p, BaseKept

LEMMA BasePrepareSelf ==
  ASSUME Base, NEW t \in Thread, PrepareSelf(t)
  PROVE  Base'
<1>1. TypeOK /\ VarTypes /\ ThreadInv(t) /\ thread[t] \in ThreadRecord
  BY Types DEF Base, TypeOK
<1>2. /\ At(t, "prepare2") /\ thread[t].h \in Source
      /\ Goes(t, "unref", thread[t].h, thread[t].todo, thread[t].back)
      /\ UNCHANGED <<cancelled, cancelledRunning, mutex, fds, readable, handlers, connection,
             calls, overtaken, due, resets>>
      /\ source' \in [Source -> SourceRecord]
  BY <1>1, DidPrepareSelf DEF Sets, VarTypes
<1>3. VarTypes'
  BY <1>1, <1>2, CancellableAssumption DEF VarTypes
<1>p. Placed("unref", thread[t].h, thread[t].back)
  BY <1>1, <1>2 DEF At, ThreadInv, Placed, SourcePlaces, HolderPlaces, Unreffing, Disposal,
       Preparation, ThreadRecord
<1>4. /\ Emits("unref", thread[t].back) <=> Emitting(t)
      /\ "unref" = "direct" <=> At(t, "direct")
      /\ "unref" \in {"gap"} \cup Preparation => thread[t].at \in Preparation /\ thread[t].h = thread[t].h
  BY <1>1, <1>2 DEF At, Emits, Emitting, ThreadInv, Placed, SourcePlaces, HolderPlaces, Unreffing, Disposal, Preparation, ThreadRecord
<1> QED
  BY <1>2, <1>3, <1>4, <1>p, BaseKept

LEMMA BaseDispatch ==
  ASSUME Base, NEW t \in Thread, NEW s \in Source, Dispatch(t, s)
  PROVE  Base'
<1>1. TypeOK /\ VarTypes /\ ThreadInv(t) /\ thread[t] \in ThreadRecord
  BY Types DEF Base, TypeOK
<1>2. /\ At(t, "idle") /\ source[s].held /\ source[s].ready
      /\ Goes(t, thread[t].at, thread[t].h, thread[t].todo, thread[t].back)
      /\ due' = due \ {s}
      /\ UNCHANGED <<cancelled, cancelledRunning, mutex, fds, readable, handlers, connection,
             calls, overtaken, resets>>
      /\ source' \in [Source -> SourceRecord]
  BY <1>1, DidDispatch DEF Sets, VarTypes
<1>3. VarTypes'
  BY <1>1, <1>2, CancellableAssumption DEF VarTypes
<1>p. Placed(thread[t].at, thread[t].h, thread[t].back)
  BY <1>1, <1>2 DEF At, ThreadInv, Placed, SourcePlaces, HolderPlaces, Unreffing, Disposal,
       Preparation, ThreadRecord
<1>4. /\ Emits(thread[t].at, thread[t].back) <=> Emitting(t)
      /\ thread[t].at = "direct" <=> At(t, "direct")
      /\ thread[t].at \in {"gap"} \cup Preparation => thread[t].at \in Preparation /\ thread[t].h = thread[t].h
  BY <1>1, <1>2 DEF At, Emits, Emitting, ThreadInv, Placed, SourcePlaces, HolderPlaces, Unreffing, Disposal, Preparation, ThreadRecord
<1> QED
  BY <1>2, <1>3, <1>4, <1>p, BaseKept

LEMMA BaseDrop ==
  ASSUME Base, NEW t \in Thread, NEW s \in Source, Drop(t, s)
  PROVE  Base'
<1>1. TypeOK /\ VarTypes /\ ThreadInv(t) /\ thread[t] \in ThreadRecord
  BY Types DEF Base, TypeOK
<1>2. /\ At(t, "idle") /\ source[s].held
      /\ \A o \in Thread : ~(At(o, "new") /\ thread[o].h = s)
      /\ Goes(t, "unref", s, thread[t].todo, thread[t].back)
      /\ UNCHANGED <<cancelled, cancelledRunning, mutex, fds, readable, handlers, connection,
             calls, overtaken, due, resets>>
      /\ source' \in [Source -> SourceRecord]
  BY <1>1, DidDrop DEF Sets, VarTypes
<1>3. VarTypes'
  BY <1>1, <1>2, CancellableAssumption DEF VarTypes
<1>p. Placed("unref", s, thread[t].back)
  BY <1>1, <1>2 DEF At, ThreadInv, Placed, SourcePlaces, HolderPlaces, Unreffing, Disposal,
       Preparation, ThreadRecord
<1>4. /\ Emits("unref", thread[t].back) <=> Emitting(t)
      /\ "unref" = "direct" <=> At(t, "direct")
      /\ "unref" \in {"gap"} \cup Preparation => thread[t].at \in Preparation /\ s = thread[t].h
  BY <1>1, <1>2 DEF At, Emits, Emitting, ThreadInv, Placed, SourcePlaces, HolderPlaces, Unreffing, Disposal, Preparation, ThreadRecord
<1> QED
  BY <1>2, <1>3, <1>4, <1>p, BaseKept

LEMMA BaseUnrefDrops ==
  ASSUME Base, NEW t \in Thread, Unref(t), Rec(t).refs > 1
  PROVE  Base'
<1>1. TypeOK /\ VarTypes /\ ThreadInv(t) /\ thread[t] \in ThreadRecord
  BY Types DEF Base, TypeOK
<1>2. /\ At(t, "unref") /\ thread[t].h \in Source
      /\ source[thread[t].h].refs > 1
      /\ Goes(t, thread[t].back, None, thread[t].todo, "idle")
      /\ UNCHANGED <<cancelled, cancelledRunning, mutex, fds, readable, handlers, connection,
             calls, overtaken, due, resets>>
      /\ source' \in [Source -> SourceRecord]
  BY <1>1, DidUnrefDrops DEF Sets, VarTypes
<1>3. VarTypes'
  BY <1>1, <1>2, CancellableAssumption DEF VarTypes
<1>p. Placed(thread[t].back, None, "idle")
  BY <1>1, <1>2 DEF At, ThreadInv, Placed, SourcePlaces, HolderPlaces, Unreffing, Disposal,
       Preparation, ThreadRecord
<1>4. /\ Emits(thread[t].back, "idle") <=> Emitting(t)
      /\ thread[t].back = "direct" <=> At(t, "direct")
      /\ thread[t].back \in {"gap"} \cup Preparation => thread[t].at \in Preparation /\ None = thread[t].h
  BY <1>1, <1>2 DEF At, Emits, Emitting, ThreadInv, Placed, SourcePlaces, HolderPlaces, Unreffing, Disposal, Preparation, ThreadRecord
<1> QED
  BY <1>2, <1>3, <1>4, <1>p, BaseKept

LEMMA BaseUnrefDisposes ==
  ASSUME Base, NEW t \in Thread, Unref(t), ~(Rec(t).refs > 1)
  PROVE  Base'
<1>1. TypeOK /\ VarTypes /\ ThreadInv(t) /\ thread[t] \in ThreadRecord
  BY Types DEF Base, TypeOK
<1>2. /\ At(t, "unref") /\ thread[t].h \in Source
      /\ source[thread[t].h].refs = 1
      /\ Goes(t, "dispose", thread[t].h, thread[t].todo, thread[t].back)
      /\ UNCHANGED <<cancelled, cancelledRunning, mutex, fds, readable, handlers, connection,
             calls, overtaken, due, resets>>
      /\ source' \in [Source -> SourceRecord]
  BY <1>1, DidUnrefDisposes DEF Sets, VarTypes
<1>3. VarTypes'
  BY <1>1, <1>2, CancellableAssumption DEF VarTypes
<1>p. Placed("dispose", thread[t].h, thread[t].back)
  BY <1>1, <1>2 DEF At, ThreadInv, Placed, SourcePlaces, HolderPlaces, Unreffing, Disposal,
       Preparation, ThreadRecord
<1>4. /\ Emits("dispose", thread[t].back) <=> Emitting(t)
      /\ "dispose" = "direct" <=> At(t, "direct")
      /\ "dispose" \in {"gap"} \cup Preparation => thread[t].at \in Preparation /\ thread[t].h = thread[t].h
  BY <1>1, <1>2 DEF At, Emits, Emitting, ThreadInv, Placed, SourcePlaces, HolderPlaces, Unreffing, Disposal, Preparation, ThreadRecord
<1> QED
  BY <1>2, <1>3, <1>4, <1>p, BaseKept

LEMMA BaseDisposeFirst ==
  ASSUME Base, NEW t \in Thread, Dispose(t), Rec(t).cancellable
  PROVE  Base'
<1>1. TypeOK /\ VarTypes /\ ThreadInv(t) /\ thread[t] \in ThreadRecord
  BY Types DEF Base, TypeOK
<1>2. /\ At(t, "dispose") /\ thread[t].h \in Source
      /\ source[thread[t].h].cancellable
      /\ Goes(t, "self", thread[t].h, thread[t].todo, thread[t].back)
      /\ UNCHANGED <<cancelled, cancelledRunning, mutex, fds, readable, handlers, connection,
             calls, overtaken, due, resets>>
      /\ source' \in [Source -> SourceRecord]
  BY <1>1, DidDisposeFirst DEF Sets, VarTypes
<1>3. VarTypes'
  BY <1>1, <1>2, CancellableAssumption DEF VarTypes
<1>p. Placed("self", thread[t].h, thread[t].back)
  BY <1>1, <1>2 DEF At, ThreadInv, Placed, SourcePlaces, HolderPlaces, Unreffing, Disposal,
       Preparation, ThreadRecord
<1>4. /\ Emits("self", thread[t].back) <=> Emitting(t)
      /\ "self" = "direct" <=> At(t, "direct")
      /\ "self" \in {"gap"} \cup Preparation => thread[t].at \in Preparation /\ thread[t].h = thread[t].h
  BY <1>1, <1>2 DEF At, Emits, Emitting, ThreadInv, Placed, SourcePlaces, HolderPlaces, Unreffing, Disposal, Preparation, ThreadRecord
<1> QED
  BY <1>2, <1>3, <1>4, <1>p, BaseKept

LEMMA BaseDisposeAgain ==
  ASSUME Base, NEW t \in Thread, Dispose(t), ~Rec(t).cancellable
  PROVE  Base'
<1>1. TypeOK /\ VarTypes /\ ThreadInv(t) /\ thread[t] \in ThreadRecord
  BY Types DEF Base, TypeOK
<1>2. /\ At(t, "dispose") /\ thread[t].h \in Source
      /\ ~source[thread[t].h].cancellable
      /\ Goes(t, "drop", thread[t].h, thread[t].todo, thread[t].back)
      /\ UNCHANGED <<cancelled, cancelledRunning, mutex, fds, readable, handlers, connection,
             calls, overtaken, due, resets>>
      /\ source' \in [Source -> SourceRecord]
  BY <1>1, DidDisposeAgain DEF Sets, VarTypes
<1>3. VarTypes'
  BY <1>1, <1>2, CancellableAssumption DEF VarTypes
<1>p. Placed("drop", thread[t].h, thread[t].back)
  BY <1>1, <1>2 DEF At, ThreadInv, Placed, SourcePlaces, HolderPlaces, Unreffing, Disposal,
       Preparation, ThreadRecord
<1>4. /\ Emits("drop", thread[t].back) <=> Emitting(t)
      /\ "drop" = "direct" <=> At(t, "direct")
      /\ "drop" \in {"gap"} \cup Preparation => thread[t].at \in Preparation /\ thread[t].h = thread[t].h
  BY <1>1, <1>2 DEF At, Emits, Emitting, ThreadInv, Placed, SourcePlaces, HolderPlaces, Unreffing, Disposal, Preparation, ThreadRecord
<1> QED
  BY <1>2, <1>3, <1>4, <1>p, BaseKept

LEMMA BaseDisposeTakes ==
  ASSUME Base, NEW t \in Thread, DisposeSelf(t), Rec(t).self
  PROVE  Base'
<1>1. TypeOK /\ VarTypes /\ ThreadInv(t) /\ thread[t] \in ThreadRecord
  BY Types DEF Base, TypeOK
<1>2. /\ At(t, "self") /\ thread[t].h \in Source
      /\ source[thread[t].h].self
      /\ Goes(t, "disconnect", thread[t].h, thread[t].todo, thread[t].back)
      /\ UNCHANGED <<cancelled, cancelledRunning, mutex, fds, readable, handlers, connection,
             calls, overtaken, due, resets>>
      /\ source' \in [Source -> SourceRecord]
  BY <1>1, DidDisposeTakes DEF Sets, VarTypes
<1>3. VarTypes'
  BY <1>1, <1>2, CancellableAssumption DEF VarTypes
<1>p. Placed("disconnect", thread[t].h, thread[t].back)
  BY <1>1, <1>2 DEF At, ThreadInv, Placed, SourcePlaces, HolderPlaces, Unreffing, Disposal,
       Preparation, ThreadRecord
<1>4. /\ Emits("disconnect", thread[t].back) <=> Emitting(t)
      /\ "disconnect" = "direct" <=> At(t, "direct")
      /\ "disconnect" \in {"gap"} \cup Preparation => thread[t].at \in Preparation /\ thread[t].h = thread[t].h
  BY <1>1, <1>2 DEF At, Emits, Emitting, ThreadInv, Placed, SourcePlaces, HolderPlaces, Unreffing, Disposal, Preparation, ThreadRecord
<1> QED
  BY <1>2, <1>3, <1>4, <1>p, BaseKept

LEMMA BaseDisposeWaits ==
  ASSUME Base, NEW t \in Thread, DisposeSelf(t), ~Rec(t).self
  PROVE  Base'
<1>1. TypeOK /\ VarTypes /\ ThreadInv(t) /\ thread[t] \in ThreadRecord
  BY Types DEF Base, TypeOK
<1>2. /\ At(t, "self") /\ thread[t].h \in Source
      /\ ~source[thread[t].h].self
      /\ Goes(t, "spin", thread[t].h, thread[t].todo, thread[t].back)
      /\ UNCHANGED <<cancelled, cancelledRunning, mutex, fds, readable, handlers, connection,
             calls, overtaken, due, resets>>
      /\ source' \in [Source -> SourceRecord]
  BY <1>1, DidDisposeWaits DEF Sets, VarTypes
<1>3. VarTypes'
  BY <1>1, <1>2, CancellableAssumption DEF VarTypes
<1>p. Placed("spin", thread[t].h, thread[t].back)
  BY <1>1, <1>2 DEF At, ThreadInv, Placed, SourcePlaces, HolderPlaces, Unreffing, Disposal,
       Preparation, ThreadRecord
<1>4. /\ Emits("spin", thread[t].back) <=> Emitting(t)
      /\ "spin" = "direct" <=> At(t, "direct")
      /\ "spin" \in {"gap"} \cup Preparation => thread[t].at \in Preparation /\ thread[t].h = thread[t].h
  BY <1>1, <1>2 DEF At, Emits, Emitting, ThreadInv, Placed, SourcePlaces, HolderPlaces, Unreffing, Disposal, Preparation, ThreadRecord
<1> QED
  BY <1>2, <1>3, <1>4, <1>p, BaseKept

LEMMA BaseDisposeSpin ==
  ASSUME Base, NEW t \in Thread, DisposeSpin(t)
  PROVE  Base'
<1>1. TypeOK /\ VarTypes /\ ThreadInv(t) /\ thread[t] \in ThreadRecord
  BY Types DEF Base, TypeOK
<1>2. /\ At(t, "spin") /\ thread[t].h \in Source
      /\ source[thread[t].h].called
      /\ Goes(t, "disconnect", thread[t].h, thread[t].todo, thread[t].back)
      /\ UNCHANGED <<cancelled, cancelledRunning, mutex, fds, readable, handlers, connection,
             calls, overtaken, due, resets>>
      /\ source' \in [Source -> SourceRecord]
  BY <1>1, DidDisposeSpin DEF Sets, VarTypes
<1>3. VarTypes'
  BY <1>1, <1>2, CancellableAssumption DEF VarTypes
<1>p. Placed("disconnect", thread[t].h, thread[t].back)
  BY <1>1, <1>2 DEF At, ThreadInv, Placed, SourcePlaces, HolderPlaces, Unreffing, Disposal,
       Preparation, ThreadRecord
<1>4. /\ Emits("disconnect", thread[t].back) <=> Emitting(t)
      /\ "disconnect" = "direct" <=> At(t, "direct")
      /\ "disconnect" \in {"gap"} \cup Preparation => thread[t].at \in Preparation /\ thread[t].h = thread[t].h
  BY <1>1, <1>2 DEF At, Emits, Emitting, ThreadInv, Placed, SourcePlaces, HolderPlaces, Unreffing, Disposal, Preparation, ThreadRecord
<1> QED
  BY <1>2, <1>3, <1>4, <1>p, BaseKept

LEMMA BaseDisposeDisconnect ==
  ASSUME Base, NEW t \in Thread, DisposeDisconnect(t)
  PROVE  Base'
<1>1. TypeOK /\ VarTypes /\ ThreadInv(t) /\ thread[t] \in ThreadRecord
  BY Types DEF Base, TypeOK
<1>2. /\ At(t, "disconnect") /\ thread[t].h \in Source
      /\ Goes(t, "drop", thread[t].h, thread[t].todo, thread[t].back)
      /\ handlers' = Without(handlers, thread[t].h)
      /\ UNCHANGED <<cancelled, cancelledRunning, mutex, fds, readable, connection, calls,
             overtaken, due, resets>>
      /\ source' \in [Source -> SourceRecord]
  BY <1>1, DidDisposeDisconnect DEF Sets, VarTypes
<1>l. handlers' \in Seq(User \cup Source)
  BY <1>1, <1>2, WithoutType DEF VarTypes
<1>3. VarTypes'
  BY <1>1, <1>2, <1>l, CancellableAssumption DEF VarTypes
<1>p. Placed("drop", thread[t].h, thread[t].back)
  BY <1>1, <1>2 DEF At, ThreadInv, Placed, SourcePlaces, HolderPlaces, Unreffing, Disposal,
       Preparation, ThreadRecord
<1>4. /\ Emits("drop", thread[t].back) <=> Emitting(t)
      /\ "drop" = "direct" <=> At(t, "direct")
      /\ "drop" \in {"gap"} \cup Preparation => thread[t].at \in Preparation /\ thread[t].h = thread[t].h
  BY <1>1, <1>2 DEF At, Emits, Emitting, ThreadInv, Placed, SourcePlaces, HolderPlaces, Unreffing, Disposal, Preparation, ThreadRecord
<1> QED
  BY <1>2, <1>3, <1>4, <1>p, BaseKept

LEMMA BaseDropFrees ==
  ASSUME Base, NEW t \in Thread, DropLast(t), Rec(t).refs = 1
  PROVE  Base'
<1>1. TypeOK /\ VarTypes /\ ThreadInv(t) /\ thread[t] \in ThreadRecord
  BY Types DEF Base, TypeOK
<1>2. /\ At(t, "drop") /\ thread[t].h \in Source
      /\ source[thread[t].h].refs = 1
      /\ Goes(t, thread[t].back, None, thread[t].todo, "idle")
      /\ UNCHANGED <<cancelled, cancelledRunning, mutex, fds, readable, handlers, connection,
             calls, overtaken, due, resets>>
      /\ source' \in [Source -> SourceRecord]
  BY <1>1, DidDropFrees DEF Sets, VarTypes
<1>3. VarTypes'
  BY <1>1, <1>2, CancellableAssumption DEF VarTypes
<1>p. Placed(thread[t].back, None, "idle")
  BY <1>1, <1>2 DEF At, ThreadInv, Placed, SourcePlaces, HolderPlaces, Unreffing, Disposal,
       Preparation, ThreadRecord
<1>4. /\ Emits(thread[t].back, "idle") <=> Emitting(t)
      /\ thread[t].back = "direct" <=> At(t, "direct")
      /\ thread[t].back \in {"gap"} \cup Preparation => thread[t].at \in Preparation /\ None = thread[t].h
  BY <1>1, <1>2 DEF At, Emits, Emitting, ThreadInv, Placed, SourcePlaces, HolderPlaces, Unreffing, Disposal, Preparation, ThreadRecord
<1> QED
  BY <1>2, <1>3, <1>4, <1>p, BaseKept

LEMMA BaseDropRetries ==
  ASSUME Base, NEW t \in Thread, DropLast(t), Rec(t).refs # 1
  PROVE  Base'
<1>1. TypeOK /\ VarTypes /\ ThreadInv(t) /\ thread[t] \in ThreadRecord
  BY Types DEF Base, TypeOK
<1>2. /\ At(t, "drop") /\ thread[t].h \in Source
      /\ Goes(t, "unref", thread[t].h, thread[t].todo, thread[t].back)
      /\ UNCHANGED <<cancelled, cancelledRunning, mutex, fds, readable, handlers, connection,
             calls, overtaken, due, resets>>
      /\ source' \in [Source -> SourceRecord]
  BY <1>1, DidDropRetries DEF Sets, VarTypes
<1>3. VarTypes'
  BY <1>1, <1>2, CancellableAssumption DEF VarTypes
<1>p. Placed("unref", thread[t].h, thread[t].back)
  BY <1>1, <1>2 DEF At, ThreadInv, Placed, SourcePlaces, HolderPlaces, Unreffing, Disposal,
       Preparation, ThreadRecord
<1>4. /\ Emits("unref", thread[t].back) <=> Emitting(t)
      /\ "unref" = "direct" <=> At(t, "direct")
      /\ "unref" \in {"gap"} \cup Preparation => thread[t].at \in Preparation /\ thread[t].h = thread[t].h
  BY <1>1, <1>2 DEF At, Emits, Emitting, ThreadInv, Placed, SourcePlaces, HolderPlaces, Unreffing, Disposal, Preparation, ThreadRecord
<1> QED
  BY <1>2, <1>3, <1>4, <1>p, BaseKept

LEMMA BaseInit == ASSUME Init PROVE Base
<1>1. TypeOK
  <2>1. NoSource \in SourceRecord /\ Resting \in ThreadRecord
    BY DEF NoSource, SourceRecord, Resting, ThreadRecord, Places
  <2>2. /\ handlers \in Seq(User \cup Source) /\ source \in [Source -> SourceRecord]
        /\ thread \in [Thread -> ThreadRecord]
    BY <2>1 DEF Init
  <2>3. fds \in 0 .. MaxFds /\ resets \in 0 .. MaxResets /\ cancelledRunning \in Nat
    BY CancellableAssumption DEF Init
  <2>4. /\ cancelled \in BOOLEAN /\ readable \in BOOLEAN /\ mutex \in Thread \cup {None}
        /\ connection \in [User -> {"none", "on", "off", "gone"}] /\ calls \in [User -> Nat]
        /\ overtaken \subseteq User \cup Source /\ due \subseteq Source
    BY DEF Init
  <2> QED
    BY <2>2, <2>3, <2>4 DEF TypeOK
<1>2. \A t \in Thread : thread[t].at = "idle" /\ thread[t].h = None /\ thread[t].back = "idle"
  BY DEF Init, Resting
<1>3. \A t \in Thread : ThreadInv(t)
  BY <1>2 DEF ThreadInv, Placed, SourcePlaces, HolderPlaces, Unreffing, Disposal,
     Preparation
<1>4. \A t \in Thread : ~Emitting(t) /\ ~At(t, "direct")
  BY <1>2 DEF Emitting, Emits, At
<1>5. MutexInv /\ BoundInv
  BY <1>4, CancellableAssumption DEF Init, MutexInv, BoundInv
<1> QED
  BY <1>1, <1>3, <1>5 DEF Base

LEMMA BaseNext ==
  ASSUME Base, [Next]_vars
  PROVE  Base'
<1>1. CASE UNCHANGED vars
  BY <1>1 DEF vars, Base, TypeOK, ThreadInv, MutexInv, BoundInv, Emitting, At
<1>2. ASSUME NEW t \in Thread, Sound, Start(t) \/ GoOn(t) PROVE Base'
  <2>1. CASE Cancel(t)
    BY <2>1, BaseCancel
  <2>2. CASE CancelLock(t)
    BY <2>2, BaseCancelLost, BaseCancelWon
  <2>3. CASE EmitStart(t)
    BY <2>3, BaseEmitStart
  <2>4. CASE EmitNext(t)
    <3>1. Head(thread[t].todo) \in User \cup Source
      BY <2>4 DEF EmitNext, Base, TypeOK, ThreadRecord
    <3> QED
      BY <2>4, <3>1, BaseEmitSkips, BaseEmitCalls, BaseEmitExchanges
  <2>5. CASE CallbackReturns(t)
    BY <2>5, BaseCallbackReturns
  <2>6. CASE EmitEnd(t)
    BY <2>6, BaseEmitEnd
  <2>7. ASSUME NEW u \in User, Connect(t, u) PROVE Base'
    BY <2>7, BaseConnectOn, BaseConnectOff
  <2>8. CASE DirectReturns(t)
    BY <2>8, BaseDirectReturns
  <2>9. ASSUME NEW u \in User, Disconnect(t, u) PROVE Base'
    BY <2>9, BaseDisconnect
  <2>10. CASE DisconnectLock(t)
    BY <2>10, BaseDisconnectLock
  <2>11. CASE DisconnectEnds(t)
    BY <2>11, BaseDisconnectEnds
  <2>12. CASE Reset(t)
    BY <2>12, BaseReset
  <2>13. CASE MakePollfd(t)
    BY <2>13, BaseMakePollfd
  <2>14. CASE ReleaseFd(t)
    BY <2>14, BaseReleaseFd
  <2>15. ASSUME NEW s \in Source, SourceNew(t, s) PROVE Base'
    BY <2>15, BaseSourceNew
  <2>16. CASE SourceChecks(t)
    BY <2>16, BaseSourceChecks
  <2>17. CASE Exchange(t)
    BY <2>17, BaseExchangeTakes, BaseExchangeFails
  <2>18. CASE HandlerRefs(t)
    BY <1>2, <2>18, BaseHandlerRefs
  <2>19. CASE HandlerReadies(t)
    BY <2>19, BaseHandlerReadies
  <2>20. CASE HandlerCalled(t)
    BY <2>20, BaseHandlerCalled
  <2>21. ASSUME NEW s \in Source, Prepare(t, s) PROVE Base'
    BY <2>21, BasePrepare
  <2>22. CASE PrepareFlag(t)
    BY <2>22, BasePrepareFlag
  <2>23. CASE PrepareSelf(t)
    BY <2>23, BasePrepareSelf
  <2>24. ASSUME NEW s \in Source, Dispatch(t, s) PROVE Base'
    BY <2>24, BaseDispatch
  <2>25. ASSUME NEW s \in Source, Drop(t, s) PROVE Base'
    BY <2>25, BaseDrop
  <2>26. CASE Unref(t)
    BY <2>26, BaseUnrefDrops, BaseUnrefDisposes
  <2>27. CASE Dispose(t)
    BY <2>27, BaseDisposeFirst, BaseDisposeAgain
  <2>28. CASE DisposeSelf(t)
    BY <2>28, BaseDisposeTakes, BaseDisposeWaits
  <2>29. CASE DisposeSpin(t)
    BY <2>29, BaseDisposeSpin
  <2>30. CASE DisposeDisconnect(t)
    BY <2>30, BaseDisposeDisconnect
  <2>31. CASE DropLast(t)
    BY <2>31, BaseDropFrees, BaseDropRetries
  <2> QED
    BY <1>2, <2>1, <2>2, <2>3, <2>4, <2>5, <2>6, <2>7, <2>8, <2>9, <2>10, <2>11, <2>12,
       <2>13, <2>14, <2>15, <2>16, <2>17, <2>18, <2>19, <2>20, <2>21, <2>22, <2>23, <2>24,
       <2>25, <2>26, <2>27, <2>28, <2>29, <2>30, <2>31 DEF Start, GoOn
<1> QED
  BY <1>1, <1>2 DEF Next

\* Whoever emits "cancelled" has the mutex, and whatever is half way through a
\* disconnect or a preparation while it does so was there when it began.
THEOREM BaseHolds == Spec => []Base
<1>1. Init => Base
  BY BaseInit
<1>2. Base /\ [Next]_vars => Base'
  BY BaseNext
<1> QED
  BY <1>1, <1>2, PTL DEF Spec

--------------------------------------------------------------------------------
(* The calls of the handlers. *)

LEMMA TailIn ==
  ASSUME NEW A, NEW s \in Seq(A), s # <<>>
  PROVE  /\ \A x : In(s, x) <=> x = Head(s) \/ In(Tail(s), x)
         /\ NoDup(s) => NoDup(Tail(s)) /\ ~In(Tail(s), Head(s))
<1>1. /\ Len(s) \in Nat \ {0} /\ DOMAIN s = 1 .. Len(s) /\ DOMAIN Tail(s) = 1 .. Len(s) - 1
      /\ Head(s) = s[1] /\ \A i \in 1 .. Len(s) - 1 : Tail(s)[i] = s[i + 1]
  OBVIOUS
<1>2. \A i \in 1 .. Len(s) : i = 1 \/ (i - 1 \in 1 .. Len(s) - 1 /\ (i - 1) + 1 = i)
  BY <1>1
<1>3. \A i \in 1 .. Len(s) - 1 : i + 1 \in 1 .. Len(s) /\ i + 1 # 1
  BY <1>1
<1>4. 1 \in 1 .. Len(s)
  BY <1>1
<1>5. \A x : In(s, x) <=> x = Head(s) \/ In(Tail(s), x)
  <2> TAKE x
  <2>1. ASSUME In(s, x), x # Head(s) PROVE In(Tail(s), x)
    <3>1. PICK i \in 1 .. Len(s) : s[i] = x
      BY <1>1, <2>1 DEF In
    <3>2. i - 1 \in 1 .. Len(s) - 1 /\ (i - 1) + 1 = i
      BY <1>1, <1>2, <2>1, <3>1
    <3>3. Tail(s)[i - 1] = x
      BY <1>1, <3>1, <3>2
    <3> QED
      BY <1>1, <3>2, <3>3 DEF In
  <2>2. ASSUME In(Tail(s), x) PROVE In(s, x)
    <3>1. PICK i \in 1 .. Len(s) - 1 : Tail(s)[i] = x
      BY <1>1, <2>2 DEF In
    <3> QED
      BY <1>1, <1>3, <3>1 DEF In
  <2>3. In(s, Head(s))
    BY <1>1, <1>4 DEF In
  <2> QED
    BY <2>1, <2>2, <2>3
<1>6. ASSUME NoDup(s) PROVE NoDup(Tail(s)) /\ ~In(Tail(s), Head(s))
  BY <1>1, <1>3, <1>4, <1>6 DEF In, NoDup
<1> QED
  BY <1>5, <1>6

LEMMA AppendIn ==
  ASSUME NEW A, NEW s \in Seq(A), NEW e \in A
  PROVE  /\ \A x : In(Append(s, e), x) <=> In(s, x) \/ x = e
         /\ NoDup(s) /\ ~In(s, e) => NoDup(Append(s, e))
<1>1. /\ Len(s) \in Nat /\ DOMAIN s = 1 .. Len(s) /\ DOMAIN Append(s, e) = 1 .. Len(s) + 1
      /\ Append(s, e)[Len(s) + 1] = e /\ \A i \in 1 .. Len(s) : Append(s, e)[i] = s[i]
  OBVIOUS
<1>2. \A i \in 1 .. Len(s) + 1 : i \in 1 .. Len(s) \/ i = Len(s) + 1
  BY <1>1
<1>3. Len(s) + 1 \in 1 .. Len(s) + 1 /\ \A i \in 1 .. Len(s) : i \in 1 .. Len(s) + 1
  BY <1>1
<1> QED
  BY <1>1, <1>2, <1>3 DEF In, NoDup

LEMMA WithoutIn ==
  ASSUME NEW A, NEW s \in Seq(A), NEW h, NoDup(s)
  PROVE  /\ \A x : In(Without(s, h), x) <=> In(s, x) /\ x # h
         /\ NoDup(Without(s, h))
<1>1. CASE ~In(s, h)
  BY <1>1 DEF Without, In
<1>2. CASE In(s, h)
  <2> DEFINE i == CHOOSE i \in DOMAIN s : s[i] = h
             w == [j \in 1 .. Len(s) - 1 |-> IF j < i THEN s[j] ELSE s[j + 1]]
             up(j) == IF j < i THEN j ELSE j + 1
  <2>1. i \in 1 .. Len(s) /\ s[i] = h /\ Len(s) \in Nat /\ DOMAIN s = 1 .. Len(s)
    BY <1>2 DEF In
  <2>2. Without(s, h) = w
    BY <1>2 DEF Without
  <2> HIDE DEF i
  <2>3. \A j \in 1 .. Len(s) - 1 : up(j) \in 1 .. Len(s) /\ up(j) # i
    BY <2>1
  <2>4. \A j, k \in 1 .. Len(s) - 1 : up(j) = up(k) => j = k
    BY <2>1
  <2>5. \A k \in 1 .. Len(s) : k # i => \E j \in 1 .. Len(s) - 1 : up(j) = k
    <3> TAKE k \in 1 .. Len(s)
    <3>1. CASE k < i
      <4>1. k \in 1 .. Len(s) - 1 /\ up(k) = k
        BY <2>1, <3>1
      <4> QED
        BY <4>1
    <3>2. CASE k > i
      <4>1. k - 1 \in 1 .. Len(s) - 1 /\ up(k - 1) = k
        BY <2>1, <3>2
      <4> QED
        BY <4>1
    <3> QED
      BY <2>1, <3>1, <3>2
  <2>6. DOMAIN w = 1 .. Len(s) - 1 /\ \A j \in 1 .. Len(s) - 1 : w[j] = s[up(j)]
    OBVIOUS
  <2> HIDE DEF w, up
  <2>7. \A x : In(w, x) <=> In(s, x) /\ x # h
    <3> TAKE x
    <3>1. ASSUME In(w, x) PROVE In(s, x) /\ x # h
      <4>1. PICK j \in 1 .. Len(s) - 1 : w[j] = x
        BY <2>6, <3>1 DEF In
      <4> QED
        BY <2>1, <2>3, <2>6, <4>1 DEF In, NoDup
    <3>2. ASSUME In(s, x), x # h PROVE In(w, x)
      <4>1. PICK k \in 1 .. Len(s) : s[k] = x
        BY <2>1, <3>2 DEF In
      <4>2. PICK j \in 1 .. Len(s) - 1 : up(j) = k
        BY <2>1, <2>5, <3>2, <4>1
      <4> QED
        BY <2>6, <4>1, <4>2 DEF In
    <3> QED
      BY <3>1, <3>2
  <2>8. NoDup(w)
    <3> SUFFICES ASSUME NEW j \in 1 .. Len(s) - 1, NEW k \in 1 .. Len(s) - 1, w[j] = w[k] PROVE j = k
      BY <2>6 DEF NoDup
    <3>1. up(j) = up(k)
      BY <2>1, <2>3, <2>6 DEF NoDup
    <3> QED
      BY <2>4, <3>1
  <2> QED
    BY <2>2, <2>7, <2>8
<1> QED
  BY <1>1, <1>2

\* The list stays as it is.
LEMMA ListKept ==
  ASSUME ListInv, handlers' = handlers, connection' = connection,
         \A s \in Source : source[s].phase # "none" => source'[s].phase # "none"
  PROVE  ListInv'
  BY DEF ListInv

\* A step that is none of a cancel, a connect, a disconnect or a reset.
LEMMA CallsKept ==
  ASSUME CallsInv, NEW t \in Thread, NEW a, NEW h, NEW q, NEW b, Goes(t, a, h, q, b), ListInv',
         connection' = connection, calls' = calls, cancelled' = cancelled,
         Emits(a, b) <=> Emitting(t), a = "locked" <=> At(t, "locked"),
         Emitting(t) => q = thread[t].todo, a # "callback",
         a \in {"wait", "gap"} => At(t, "wait") /\ h = thread[t].h,
         \A u \in User : u \in overtaken => u \in overtaken'
  PROVE  CallsInv'
<1>1. \A o \in Thread : /\ Emitting(o)' <=> Emitting(o)
                        /\ At(o, "locked")' <=> At(o, "locked")
                        /\ Emitting(o) => thread'[o].todo = thread[o].todo
  BY DEF Goes, At, Emitting
<1>2. \A o \in Thread : /\ At(o, "callback")' => At(o, "callback") /\ Here(o)' = Here(o)
                        /\ \A u \in User : Leaves(o, u)' => Leaves(o, u)
  BY DEF Goes, At, Here, Leaves
<1>3. \A u \in User : UserInv(u)'
  <2> TAKE u \in User
  <2>1. \A o \in Thread : Emitting(o) => (Owed(o, u)' <=> Owed(o, u))
    BY <1>1 DEF Owed
  <2>2. UserInv(u)
    BY DEF CallsInv
  <2> QED
    BY <1>1, <1>2, <2>1, <2>2 DEF UserInv
<1> QED
  BY <1>1, <1>3 DEF CallsInv

LEMMA CallsCancel ==
  ASSUME Base, CallsInv, NEW t \in Thread, Cancel(t)
  PROVE  CallsInv'
<1>1. ThreadInv(t) /\ thread[t] \in ThreadRecord
  BY DEF Base, TypeOK
<1>2. /\ At(t, "idle") /\ ~cancelled
      /\ Goes(t, "cancel", None, thread[t].todo, thread[t].back)
      /\ UNCHANGED <<cancelled, handlers, connection, calls, overtaken>>
      /\ \A p \in Source : source[p].phase # "none" => source'[p].phase # "none"
  BY DidCancel DEF Sets
<1>3. UNCHANGED <<connection, calls, cancelled>>
  BY <1>2
<1>l. ListInv'
  BY <1>2, ListKept DEF CallsInv
<1>4. /\ Emits("cancel", thread[t].back) <=> Emitting(t)
      /\ "cancel" = "locked" <=> At(t, "locked")
      /\ Emitting(t) => thread[t].todo = thread[t].todo
      /\ "cancel" # "callback" /\ ("cancel" \in {"wait", "gap"} => At(t, "wait") /\ None = thread[t].h)
  BY <1>1, <1>2 DEF At, Emits, Emitting, ThreadInv, Placed, SourcePlaces, HolderPlaces,
       Unreffing, Disposal, Preparation, ThreadRecord
<1>5. \A x \in User : x \in overtaken => x \in overtaken'
  BY <1>2
<1> QED
  BY <1>2, <1>3, <1>4, <1>5, <1>l, CallsKept

LEMMA CallsCancelLost ==
  ASSUME Base, CallsInv, NEW t \in Thread, CancelLock(t), cancelled
  PROVE  CallsInv'
<1>1. ThreadInv(t) /\ thread[t] \in ThreadRecord
  BY DEF Base, TypeOK
<1>2. /\ At(t, "cancel") /\ mutex = None
      /\ Goes(t, "idle", thread[t].h, thread[t].todo, thread[t].back)
      /\ UNCHANGED <<cancelled, handlers, connection, calls, overtaken>>
      /\ \A p \in Source : source[p].phase # "none" => source'[p].phase # "none"
  BY DidCancelLost DEF Sets
<1>3. UNCHANGED <<connection, calls, cancelled>>
  BY <1>2
<1>l. ListInv'
  BY <1>2, ListKept DEF CallsInv
<1>4. /\ Emits("idle", thread[t].back) <=> Emitting(t)
      /\ "idle" = "locked" <=> At(t, "locked")
      /\ Emitting(t) => thread[t].todo = thread[t].todo
      /\ "idle" # "callback" /\ ("idle" \in {"wait", "gap"} => At(t, "wait") /\ thread[t].h = thread[t].h)
  BY <1>1, <1>2 DEF At, Emits, Emitting, ThreadInv, Placed, SourcePlaces, HolderPlaces,
       Unreffing, Disposal, Preparation, ThreadRecord
<1>5. \A x \in User : x \in overtaken => x \in overtaken'
  BY <1>2
<1> QED
  BY <1>2, <1>3, <1>4, <1>5, <1>l, CallsKept

LEMMA CallsCancelWon ==
  ASSUME Base, CallsInv, NEW t \in Thread, CancelLock(t), ~cancelled
  PROVE  CallsInv'
<1>1. ThreadInv(t) /\ thread[t] \in ThreadRecord
  BY DEF Base, TypeOK
<1>2. /\ At(t, "cancel") /\ mutex = None /\ ~cancelled
      /\ Goes(t, "locked", thread[t].h, thread[t].todo, thread[t].back)
      /\ cancelled' = TRUE
      /\ mutex' = t
      /\ overtaken' = overtaken \cup {h \in User \cup Source : Amid(h)}
      /\ UNCHANGED <<handlers, connection, calls>>
      /\ \A p \in Source : source[p].phase # "none" => source'[p].phase # "none"
  BY DidCancelWon DEF Sets
<1>o. \A o \in Thread \ {t} : /\ Emitting(o)' <=> Emitting(o)
                              /\ thread'[o] = thread[o]
  BY <1>2 DEF Goes, Emitting
<1>m. Emitting(t)' <=> Emits("locked", thread[t].back)
  BY <1>2 DEF Goes, Emitting, Emits
<1>h. thread'[t].at = "locked" /\ thread'[t].h = thread[t].h /\ thread'[t].todo = thread[t].todo
  BY <1>2 DEF Goes
<1>w. \A x \in User : x \in overtaken => x \in overtaken'
  BY <1>2
<1>x. \A o \in Thread : ~Emitting(o)
  BY <1>2, Free
<1>l. ListInv'
  BY <1>2, ListKept DEF CallsInv
<1>7. \A v \in User : UserInv(v)'
  <2> TAKE u \in User
  <2>1. UserInv(u)
    BY DEF CallsInv
  <2>2. connection'[u] = connection[u] /\ calls'[u] = calls[u] /\ cancelled' /\ ~cancelled
    BY <1>2
  <2>3. \A o \in Thread : (Emitting(o)' <=> o = t) /\ Owed(t, u)'
    BY <1>o, <1>m, <1>h, <1>x DEF Owed, At, Emits
  <2>4. \A o \in Thread : /\ Leaves(o, u)' => Leaves(o, u)
                          /\ At(o, "callback")' => At(o, "callback") /\ Here(o)' = Here(o)
    BY <1>o, <1>h DEF At, Here, Leaves
  <2> QED
    BY <1>w, <2>1, <2>2, <2>3, <2>4 DEF UserInv
<1>d. \A o \in Thread : Emitting(o)' /\ ~At(o, "locked")' => NoDup(thread'[o].todo)
  BY <1>2, <1>o, <1>m, <1>h, <1>x DEF CallsInv, ListInv, At, Emits, Emitting
<1> QED
  BY <1>l, <1>7, <1>d DEF CallsInv

LEMMA CallsEmitStart ==
  ASSUME Base, CallsInv, NEW t \in Thread, EmitStart(t)
  PROVE  CallsInv'
<1>1. ThreadInv(t) /\ thread[t] \in ThreadRecord
  BY DEF Base, TypeOK
<1>2. /\ At(t, "locked")
      /\ Goes(t, "emit", thread[t].h, handlers, thread[t].back)
      /\ UNCHANGED <<cancelled, handlers, connection, calls, overtaken>>
      /\ \A p \in Source : source[p].phase # "none" => source'[p].phase # "none"
  BY DidEmitStart DEF Sets
<1>o. \A o \in Thread \ {t} : /\ Emitting(o)' <=> Emitting(o)
                              /\ thread'[o] = thread[o]
  BY <1>2 DEF Goes, Emitting
<1>m. Emitting(t)' <=> Emits("emit", thread[t].back)
  BY <1>2 DEF Goes, Emitting, Emits
<1>h. thread'[t].at = "emit" /\ thread'[t].h = thread[t].h /\ thread'[t].todo = handlers
  BY <1>2 DEF Goes
<1>w. \A x \in User : x \in overtaken => x \in overtaken'
  BY <1>2
<1>x. \A o \in Thread \ {t} : ~Emitting(o)
  BY <1>2 DEF Base, MutexInv, Emitting, Emits, At
<1>l. ListInv'
  BY <1>2, ListKept DEF CallsInv
<1>7. \A v \in User : UserInv(v)'
  <2> TAKE u \in User
  <2>1. UserInv(u)
    BY DEF CallsInv
  <2>2. connection'[u] = connection[u] /\ calls'[u] = calls[u] /\ cancelled' = cancelled
    BY <1>2
  <2>3. \A o \in Thread : (Emitting(o)' <=> o = t) /\ (Emitting(o) <=> o = t)
    BY <1>2, <1>o, <1>m, <1>x DEF Emitting, Emits, At
  <2>4. \A o \in Thread : /\ Leaves(o, u)' => Leaves(o, u)
                          /\ At(o, "callback")' => At(o, "callback") /\ Here(o)' = Here(o)
    BY <1>o, <1>h DEF At, Here, Leaves
  <2>5. connection[u] = "on" => Owed(t, u) /\ Owed(t, u)'
    BY <1>2, <1>h DEF Owed, CallsInv, ListInv
  <2> QED
    BY <1>w, <2>1, <2>2, <2>3, <2>4, <2>5 DEF UserInv
<1>d. \A o \in Thread : Emitting(o)' /\ ~At(o, "locked")' => NoDup(thread'[o].todo)
  BY <1>2, <1>o, <1>m, <1>h, <1>x DEF CallsInv, ListInv, At, Emits, Emitting
<1> QED
  BY <1>l, <1>7, <1>d DEF CallsInv

LEMMA CallsEmitSkips ==
  ASSUME Base, CallsInv, NEW t \in Thread, EmitNext(t), ~Connected(Head(thread[t].todo))
  PROVE  CallsInv'
<1>1. ThreadInv(t) /\ thread[t] \in ThreadRecord
  BY DEF Base, TypeOK
<1>2. /\ At(t, "emit") /\ thread[t].todo # <<>>
      /\ Goes(t, "emit", None, Tail(thread[t].todo), thread[t].back)
      /\ UNCHANGED <<cancelled, handlers, connection, calls, overtaken>>
      /\ \A p \in Source : source[p].phase # "none" => source'[p].phase # "none"
  BY DidEmitSkips DEF Sets
<1>o. \A o \in Thread \ {t} : /\ Emitting(o)' <=> Emitting(o)
                              /\ thread'[o] = thread[o]
  BY <1>2 DEF Goes, Emitting
<1>m. Emitting(t)' <=> Emits("emit", thread[t].back)
  BY <1>2 DEF Goes, Emitting, Emits
<1>h. thread'[t].at = "emit" /\ thread'[t].h = None /\ thread'[t].todo = Tail(thread[t].todo)
  BY <1>2 DEF Goes
<1>w. \A x \in User : x \in overtaken => x \in overtaken'
  BY <1>2
<1>x. \A o \in Thread \ {t} : ~Emitting(o)
  BY <1>2 DEF Base, MutexInv, Emitting, Emits, At
<1>l. ListInv'
  BY <1>2, ListKept DEF CallsInv
<1>q. thread[t].todo \in Seq(User \cup Source) /\ thread[t].todo # <<>> /\ NoDup(thread[t].todo)
  BY <1>2 DEF Base, TypeOK, ThreadRecord, CallsInv, Emitting, Emits, At
<1>r. /\ \A x : In(thread[t].todo, x) <=> x = Head(thread[t].todo) \/ In(Tail(thread[t].todo), x)
      /\ NoDup(Tail(thread[t].todo)) /\ ~In(Tail(thread[t].todo), Head(thread[t].todo))
  BY <1>q, TailIn
<1>7. \A v \in User : UserInv(v)'
  <2> TAKE u \in User
  <2>1. UserInv(u)
    BY DEF CallsInv
  <2>2. connection'[u] = connection[u] /\ calls'[u] = calls[u] /\ cancelled' = cancelled
    BY <1>2
  <2>3. \A o \in Thread : (Emitting(o)' <=> o = t) /\ (Emitting(o) <=> o = t)
    BY <1>2, <1>o, <1>m, <1>x DEF Emitting, Emits, At
  <2>4. \A o \in Thread : /\ Leaves(o, u)' => Leaves(o, u)
                          /\ At(o, "callback")' => At(o, "callback") /\ Here(o)' = Here(o)
    BY <1>o, <1>h DEF At, Here, Leaves
  <2>5. connection[u] = "on" => (Owed(t, u)' <=> Owed(t, u))
    <3>1. connection[u] = "on" => u # Head(thread[t].todo)
      BY DEF CallsInv, ListInv, Connected
    <3> QED
      BY <1>2, <1>h, <1>r, <3>1 DEF Owed, At
  <2> QED
    BY <1>w, <2>1, <2>2, <2>3, <2>4, <2>5 DEF UserInv
<1>d. \A o \in Thread : Emitting(o)' /\ ~At(o, "locked")' => NoDup(thread'[o].todo)
  BY <1>2, <1>o, <1>m, <1>h, <1>x, <1>r DEF CallsInv, ListInv, At, Emits, Emitting
<1> QED
  BY <1>l, <1>7, <1>d DEF CallsInv

LEMMA CallsEmitCalls ==
  ASSUME Base, CallsInv, NEW t \in Thread, EmitNext(t), Connected(Head(thread[t].todo)), Head(thread[t].todo) \in User
  PROVE  CallsInv'
<1>1. ThreadInv(t) /\ thread[t] \in ThreadRecord
  BY DEF Base, TypeOK
<1>2. /\ At(t, "emit") /\ thread[t].todo # <<>>
      /\ Head(thread[t].todo) \in User /\ Connected(Head(thread[t].todo))
      /\ Goes(t, "callback", Head(thread[t].todo), Tail(thread[t].todo), thread[t].back)
      /\ calls' = [calls EXCEPT ![Head(thread[t].todo)] = @ + 1]
      /\ UNCHANGED <<cancelled, handlers, connection, overtaken>>
      /\ \A p \in Source : source[p].phase # "none" => source'[p].phase # "none"
  BY DidEmitCalls DEF Sets
<1>o. \A o \in Thread \ {t} : /\ Emitting(o)' <=> Emitting(o)
                              /\ thread'[o] = thread[o]
  BY <1>2 DEF Goes, Emitting
<1>m. Emitting(t)' <=> Emits("callback", thread[t].back)
  BY <1>2 DEF Goes, Emitting, Emits
<1>h. thread'[t].at = "callback" /\ thread'[t].h = Head(thread[t].todo) /\ thread'[t].todo = Tail(thread[t].todo)
  BY <1>2 DEF Goes
<1>w. \A x \in User : x \in overtaken => x \in overtaken'
  BY <1>2
<1>x. \A o \in Thread \ {t} : ~Emitting(o)
  BY <1>2 DEF Base, MutexInv, Emitting, Emits, At
<1>l. ListInv'
  BY <1>2, ListKept DEF CallsInv
<1>q. thread[t].todo \in Seq(User \cup Source) /\ thread[t].todo # <<>> /\ NoDup(thread[t].todo)
  BY <1>2 DEF Base, TypeOK, ThreadRecord, CallsInv, Emitting, Emits, At
<1>r. /\ \A x : In(thread[t].todo, x) <=> x = Head(thread[t].todo) \/ In(Tail(thread[t].todo), x)
      /\ NoDup(Tail(thread[t].todo)) /\ ~In(Tail(thread[t].todo), Head(thread[t].todo))
  BY <1>q, TailIn
<1>7. \A v \in User : UserInv(v)'
  <2> TAKE u \in User
  <2>1. UserInv(u)
    BY DEF CallsInv
  <2>2. connection'[u] = connection[u] /\ cancelled' = cancelled /\ cancelled
    BY <1>2 DEF Base, MutexInv, Emitting, Emits, At
  <2>3. \A o \in Thread : (Emitting(o)' <=> o = t) /\ (Emitting(o) <=> o = t)
    BY <1>2, <1>o, <1>m, <1>x DEF Emitting, Emits, At
  <2>4. \A o \in Thread : Leaves(o, u)' => Leaves(o, u)
    BY <1>o, <1>h DEF Leaves
  <2>5. CASE u = Head(thread[t].todo)
    <3>1. connection[u] = "on" /\ Owed(t, u) /\ ~Owed(t, u)'
      BY <1>2, <1>h, <1>r, <2>5 DEF CallsInv, ListInv, Connected, Owed, At
    <3>2. calls[u] = 0
      BY <1>w, <2>1, <2>3, <3>1 DEF UserInv
    <3>3. calls'[u] = 1
      BY <1>2, <2>5, <3>2 DEF Base, TypeOK
    <3> QED
      BY <1>w, <2>1, <2>2, <2>3, <2>4, <3>1, <3>3 DEF UserInv
  <2>6. CASE u # Head(thread[t].todo)
    <3>1. calls'[u] = calls[u]
      BY <1>2, <2>6 DEF Base, TypeOK
    <3>2. Owed(t, u)' <=> Owed(t, u)
      BY <1>2, <1>h, <1>r, <2>6 DEF Owed, At
    <3>3. \A o \in Thread : At(o, "callback")' /\ Here(o)' = u => At(o, "callback") /\ Here(o) = u
      BY <1>o, <1>h, <2>6 DEF At, Here
    <3> QED
      BY <1>w, <2>1, <2>2, <2>3, <2>4, <3>1, <3>2, <3>3 DEF UserInv
  <2> QED
    BY <2>5, <2>6
<1>d. \A o \in Thread : Emitting(o)' /\ ~At(o, "locked")' => NoDup(thread'[o].todo)
  BY <1>2, <1>o, <1>m, <1>h, <1>x, <1>r DEF CallsInv, ListInv, At, Emits, Emitting
<1> QED
  BY <1>l, <1>7, <1>d DEF CallsInv

LEMMA CallsEmitExchanges ==
  ASSUME Base, CallsInv, NEW t \in Thread, EmitNext(t), Connected(Head(thread[t].todo)), Head(thread[t].todo) \in Source
  PROVE  CallsInv'
<1>1. ThreadInv(t) /\ thread[t] \in ThreadRecord
  BY DEF Base, TypeOK
<1>2. /\ At(t, "emit") /\ thread[t].todo # <<>>
      /\ Head(thread[t].todo) \in Source /\ Connected(Head(thread[t].todo))
      /\ Goes(t, "exchange", Head(thread[t].todo), Tail(thread[t].todo), thread[t].back)
      /\ UNCHANGED <<cancelled, handlers, connection, calls, overtaken>>
      /\ \A p \in Source : source[p].phase # "none" => source'[p].phase # "none"
  BY DidEmitExchanges DEF Sets
<1>o. \A o \in Thread \ {t} : /\ Emitting(o)' <=> Emitting(o)
                              /\ thread'[o] = thread[o]
  BY <1>2 DEF Goes, Emitting
<1>m. Emitting(t)' <=> Emits("exchange", thread[t].back)
  BY <1>2 DEF Goes, Emitting, Emits
<1>h. thread'[t].at = "exchange" /\ thread'[t].h = Head(thread[t].todo) /\ thread'[t].todo = Tail(thread[t].todo)
  BY <1>2 DEF Goes
<1>w. \A x \in User : x \in overtaken => x \in overtaken'
  BY <1>2
<1>x. \A o \in Thread \ {t} : ~Emitting(o)
  BY <1>2 DEF Base, MutexInv, Emitting, Emits, At
<1>l. ListInv'
  BY <1>2, ListKept DEF CallsInv
<1>q. thread[t].todo \in Seq(User \cup Source) /\ thread[t].todo # <<>> /\ NoDup(thread[t].todo)
  BY <1>2 DEF Base, TypeOK, ThreadRecord, CallsInv, Emitting, Emits, At
<1>r. /\ \A x : In(thread[t].todo, x) <=> x = Head(thread[t].todo) \/ In(Tail(thread[t].todo), x)
      /\ NoDup(Tail(thread[t].todo)) /\ ~In(Tail(thread[t].todo), Head(thread[t].todo))
  BY <1>q, TailIn
<1>7. \A v \in User : UserInv(v)'
  <2> TAKE u \in User
  <2>1. UserInv(u)
    BY DEF CallsInv
  <2>2. connection'[u] = connection[u] /\ calls'[u] = calls[u] /\ cancelled' = cancelled
    BY <1>2
  <2>3. \A o \in Thread : (Emitting(o)' <=> o = t) /\ (Emitting(o) <=> o = t)
    BY <1>2, <1>o, <1>m, <1>x DEF Emitting, Emits, At
  <2>4. \A o \in Thread : /\ Leaves(o, u)' => Leaves(o, u)
                          /\ At(o, "callback")' => At(o, "callback") /\ Here(o)' = Here(o)
    BY <1>o, <1>h DEF At, Here, Leaves
  <2>5. connection[u] = "on" => (Owed(t, u)' <=> Owed(t, u))
    <3>1. connection[u] = "on" => u # Head(thread[t].todo)
      BY <1>2, CancellableAssumption
    <3> QED
      BY <1>2, <1>h, <1>r, <3>1 DEF Owed, At
  <2> QED
    BY <1>w, <2>1, <2>2, <2>3, <2>4, <2>5 DEF UserInv
<1>d. \A o \in Thread : Emitting(o)' /\ ~At(o, "locked")' => NoDup(thread'[o].todo)
  BY <1>2, <1>o, <1>m, <1>h, <1>x, <1>r DEF CallsInv, ListInv, At, Emits, Emitting
<1> QED
  BY <1>l, <1>7, <1>d DEF CallsInv

LEMMA CallsCallbackReturns ==
  ASSUME Base, CallsInv, NEW t \in Thread, CallbackReturns(t)
  PROVE  CallsInv'
<1>1. ThreadInv(t) /\ thread[t] \in ThreadRecord
  BY DEF Base, TypeOK
<1>2. /\ At(t, "callback")
      /\ Goes(t, "emit", None, thread[t].todo, thread[t].back)
      /\ UNCHANGED <<cancelled, handlers, connection, calls, overtaken>>
      /\ \A p \in Source : source[p].phase # "none" => source'[p].phase # "none"
  BY DidCallbackReturns DEF Sets
<1>3. UNCHANGED <<connection, calls, cancelled>>
  BY <1>2
<1>l. ListInv'
  BY <1>2, ListKept DEF CallsInv
<1>4. /\ Emits("emit", thread[t].back) <=> Emitting(t)
      /\ "emit" = "locked" <=> At(t, "locked")
      /\ Emitting(t) => thread[t].todo = thread[t].todo
      /\ "emit" # "callback" /\ ("emit" \in {"wait", "gap"} => At(t, "wait") /\ None = thread[t].h)
  BY <1>1, <1>2 DEF At, Emits, Emitting, ThreadInv, Placed, SourcePlaces, HolderPlaces,
       Unreffing, Disposal, Preparation, ThreadRecord
<1>5. \A x \in User : x \in overtaken => x \in overtaken'
  BY <1>2
<1> QED
  BY <1>2, <1>3, <1>4, <1>5, <1>l, CallsKept

LEMMA CallsEmitEnd ==
  ASSUME Base, CallsInv, NEW t \in Thread, EmitEnd(t)
  PROVE  CallsInv'
<1>1. ThreadInv(t) /\ thread[t] \in ThreadRecord
  BY DEF Base, TypeOK
<1>2. /\ At(t, "emit") /\ thread[t].todo = <<>>
      /\ Goes(t, "idle", None, <<>>, "idle")
      /\ mutex' = None
      /\ UNCHANGED <<cancelled, handlers, connection, calls, overtaken>>
      /\ \A p \in Source : source[p].phase # "none" => source'[p].phase # "none"
  BY DidEmitEnd DEF Sets
<1>o. \A o \in Thread \ {t} : /\ Emitting(o)' <=> Emitting(o)
                              /\ thread'[o] = thread[o]
  BY <1>2 DEF Goes, Emitting
<1>m. Emitting(t)' <=> Emits("idle", "idle")
  BY <1>2 DEF Goes, Emitting, Emits
<1>h. thread'[t].at = "idle" /\ thread'[t].h = None /\ thread'[t].todo = <<>>
  BY <1>2 DEF Goes
<1>w. \A x \in User : x \in overtaken => x \in overtaken'
  BY <1>2
<1>x. \A o \in Thread \ {t} : ~Emitting(o)
  BY <1>2 DEF Base, MutexInv, Emitting, Emits, At
<1>l. ListInv'
  BY <1>2, ListKept DEF CallsInv
<1>7. \A v \in User : UserInv(v)'
  <2> TAKE u \in User
  <2>1. UserInv(u)
    BY DEF CallsInv
  <2>2. connection'[u] = connection[u] /\ calls'[u] = calls[u] /\ cancelled' = cancelled
    BY <1>2
  <2>3. \A o \in Thread : ~Emitting(o)' /\ (Emitting(o) <=> o = t)
    BY <1>2, <1>o, <1>m, <1>x DEF Emitting, Emits, At
  <2>4. \A o \in Thread : /\ Leaves(o, u)' => Leaves(o, u)
                          /\ At(o, "callback")' => At(o, "callback") /\ Here(o)' = Here(o)
    BY <1>o, <1>h DEF At, Here, Leaves
  <2>5. ~Owed(t, u)
    BY <1>2 DEF Owed, At, In
  <2> QED
    BY <1>w, <2>1, <2>2, <2>3, <2>4, <2>5 DEF UserInv
<1>d. \A o \in Thread : Emitting(o)' /\ ~At(o, "locked")' => NoDup(thread'[o].todo)
  BY <1>2, <1>o, <1>m, <1>h, <1>x DEF CallsInv, ListInv, At, Emits, Emitting
<1> QED
  BY <1>l, <1>7, <1>d DEF CallsInv

LEMMA CallsConnectOn ==
  ASSUME Base, CallsInv, NEW t \in Thread, NEW u \in User, Connect(t, u), ~cancelled
  PROVE  CallsInv'
<1>1. ThreadInv(t) /\ thread[t] \in ThreadRecord
  BY DEF Base, TypeOK
<1>2. /\ connection[u] = "none" /\ mutex = None /\ At(t, "idle") /\ ~cancelled
      /\ Goes(t, thread[t].at, thread[t].h, thread[t].todo, thread[t].back)
      /\ handlers' = Append(handlers, u)
      /\ connection' = [connection EXCEPT ![u] = "on"]
      /\ UNCHANGED <<cancelled, calls, overtaken>>
      /\ \A p \in Source : source[p].phase # "none" => source'[p].phase # "none"
  BY DidConnectOn DEF Sets
<1>o. \A o \in Thread \ {t} : /\ Emitting(o)' <=> Emitting(o)
                              /\ thread'[o] = thread[o]
  BY <1>2 DEF Goes, Emitting
<1>m. Emitting(t)' <=> Emits(thread[t].at, thread[t].back)
  BY <1>2 DEF Goes, Emitting, Emits
<1>h. thread'[t].at = thread[t].at /\ thread'[t].h = thread[t].h /\ thread'[t].todo = thread[t].todo
  BY <1>2 DEF Goes
<1>w. \A x \in User : x \in overtaken => x \in overtaken'
  BY <1>2
<1>x. \A o \in Thread : ~Emitting(o)
  BY <1>2, Free
<1>l. ListInv'
  <2>1. handlers \in Seq(User \cup Source) /\ u \in User \cup Source /\ ~In(handlers, u) /\ NoDup(handlers)
    BY <1>2 DEF Base, TypeOK, CallsInv, ListInv
  <2>2. NoDup(handlers') /\ \A x : In(handlers', x) <=> In(handlers, x) \/ x = u
    BY <1>2, <2>1, AppendIn
  <2>3. \A v \in User : connection'[v] = IF v = u THEN "on" ELSE connection[v]
    BY <1>2 DEF Base, TypeOK
  <2>4. \A s \in Source : s # u
    BY CancellableAssumption
  <2> QED
    BY <1>2, <2>2, <2>3, <2>4 DEF CallsInv, ListInv
<1>7. \A v \in User : UserInv(v)'
  <2> TAKE v \in User
  <2>1. UserInv(v)
    BY DEF CallsInv
  <2>3. \A o \in Thread : ~Emitting(o)' /\ ~Emitting(o) /\ ~At(o, "callback")'
    BY <1>2, <1>o, <1>m, <1>h, <1>x DEF Emitting, Emits, At
  <2>4. \A o \in Thread : Leaves(o, v)' => Leaves(o, v)
    BY <1>o, <1>h DEF Leaves
  <2>5. connection'[v] = (IF v = u THEN "on" ELSE connection[v]) /\ calls'[v] = calls[v] /\ cancelled' = cancelled
    BY <1>2 DEF Base, TypeOK
  <2> QED
    BY <1>w, <1>2, <2>1, <2>3, <2>4, <2>5 DEF UserInv
<1>d. \A o \in Thread : Emitting(o)' /\ ~At(o, "locked")' => NoDup(thread'[o].todo)
  BY <1>2, <1>o, <1>m, <1>h, <1>x DEF CallsInv, ListInv, At, Emits, Emitting
<1> QED
  BY <1>l, <1>7, <1>d DEF CallsInv

LEMMA CallsConnectOff ==
  ASSUME Base, CallsInv, NEW t \in Thread, NEW u \in User, Connect(t, u), cancelled
  PROVE  CallsInv'
<1>1. ThreadInv(t) /\ thread[t] \in ThreadRecord
  BY DEF Base, TypeOK
<1>2. /\ connection[u] = "none" /\ mutex = None /\ At(t, "idle") /\ cancelled
      /\ Goes(t, "direct", u, thread[t].todo, thread[t].back)
      /\ mutex' = t
      /\ connection' = [connection EXCEPT ![u] = "off"]
      /\ calls' = [calls EXCEPT ![u] = @ + 1]
      /\ UNCHANGED <<cancelled, handlers, overtaken>>
      /\ \A p \in Source : source[p].phase # "none" => source'[p].phase # "none"
  BY DidConnectOff DEF Sets
<1>o. \A o \in Thread \ {t} : /\ Emitting(o)' <=> Emitting(o)
                              /\ thread'[o] = thread[o]
  BY <1>2 DEF Goes, Emitting
<1>m. Emitting(t)' <=> Emits("direct", thread[t].back)
  BY <1>2 DEF Goes, Emitting, Emits
<1>h. thread'[t].at = "direct" /\ thread'[t].h = u /\ thread'[t].todo = thread[t].todo
  BY <1>2 DEF Goes
<1>w. \A x \in User : x \in overtaken => x \in overtaken'
  BY <1>2
<1>x. \A o \in Thread : ~Emitting(o)
  BY <1>2, Free
<1>l. ListInv'
  <2>1. \A v \in User : connection'[v] = IF v = u THEN "off" ELSE connection[v]
    BY <1>2 DEF Base, TypeOK
  <2> QED
    BY <1>2, <2>1 DEF CallsInv, ListInv
<1>7. \A v \in User : UserInv(v)'
  <2> TAKE v \in User
  <2>1. UserInv(v)
    BY DEF CallsInv
  <2>3. \A o \in Thread : ~Emitting(o)' /\ ~Emitting(o) /\ ~At(o, "callback")'
    BY <1>2, <1>o, <1>m, <1>h, <1>x DEF Emitting, Emits, At
  <2>4. \A o \in Thread : Leaves(o, v)' => Leaves(o, v)
    BY <1>o, <1>h DEF Leaves
  <2>5. connection'[v] = (IF v = u THEN "off" ELSE connection[v]) /\ cancelled' = cancelled
    BY <1>2 DEF Base, TypeOK
  <2>6. CASE v = u
    <3>1. calls[u] = 0
      BY <1>w, <1>2, <2>1, <2>6 DEF UserInv
    <3>2. calls'[v] = 1
      BY <1>2, <2>6, <3>1 DEF Base, TypeOK
    <3>3. \A o \in Thread : ~Leaves(o, v)
      BY <1>w, <1>2, <2>1, <2>6 DEF UserInv
    <3> QED
      BY <1>w, <2>3, <2>4, <2>5, <2>6, <3>2, <3>3 DEF UserInv
  <2>7. CASE v # u
    <3>1. calls'[v] = calls[v]
      BY <1>2, <2>7 DEF Base, TypeOK
    <3> QED
      BY <1>w, <2>1, <2>3, <2>4, <2>5, <2>7, <3>1 DEF UserInv
  <2> QED
    BY <2>6, <2>7
<1>d. \A o \in Thread : Emitting(o)' /\ ~At(o, "locked")' => NoDup(thread'[o].todo)
  BY <1>2, <1>o, <1>m, <1>h, <1>x DEF CallsInv, ListInv, At, Emits, Emitting
<1> QED
  BY <1>l, <1>7, <1>d DEF CallsInv

LEMMA CallsDirectReturns ==
  ASSUME Base, CallsInv, NEW t \in Thread, DirectReturns(t)
  PROVE  CallsInv'
<1>1. ThreadInv(t) /\ thread[t] \in ThreadRecord
  BY DEF Base, TypeOK
<1>2. /\ At(t, "direct")
      /\ Goes(t, "idle", None, <<>>, "idle")
      /\ mutex' = None
      /\ UNCHANGED <<cancelled, handlers, connection, calls, overtaken>>
      /\ \A p \in Source : source[p].phase # "none" => source'[p].phase # "none"
  BY DidDirectReturns DEF Sets
<1>3. UNCHANGED <<connection, calls, cancelled>>
  BY <1>2
<1>l. ListInv'
  BY <1>2, ListKept DEF CallsInv
<1>4. /\ Emits("idle", "idle") <=> Emitting(t)
      /\ "idle" = "locked" <=> At(t, "locked")
      /\ Emitting(t) => <<>> = thread[t].todo
      /\ "idle" # "callback" /\ ("idle" \in {"wait", "gap"} => At(t, "wait") /\ None = thread[t].h)
  BY <1>1, <1>2 DEF At, Emits, Emitting, ThreadInv, Placed, SourcePlaces, HolderPlaces,
       Unreffing, Disposal, Preparation, ThreadRecord
<1>5. \A x \in User : x \in overtaken => x \in overtaken'
  BY <1>2
<1> QED
  BY <1>2, <1>3, <1>4, <1>5, <1>l, CallsKept

LEMMA CallsDisconnect ==
  ASSUME Base, CallsInv, NEW t \in Thread, NEW u \in User, Disconnect(t, u)
  PROVE  CallsInv'
<1>1. ThreadInv(t) /\ thread[t] \in ThreadRecord
  BY DEF Base, TypeOK
<1>2. /\ connection[u] = "on" /\ At(t, "idle")
      /\ Goes(t, "wait", u, thread[t].todo, thread[t].back)
      /\ UNCHANGED <<cancelled, handlers, connection, calls, overtaken>>
      /\ \A p \in Source : source[p].phase # "none" => source'[p].phase # "none"
  BY DidDisconnect DEF Sets
<1>o. \A o \in Thread \ {t} : /\ Emitting(o)' <=> Emitting(o)
                              /\ thread'[o] = thread[o]
  BY <1>2 DEF Goes, Emitting
<1>m. Emitting(t)' <=> Emits("wait", thread[t].back)
  BY <1>2 DEF Goes, Emitting, Emits
<1>h. thread'[t].at = "wait" /\ thread'[t].h = u /\ thread'[t].todo = thread[t].todo
  BY <1>2 DEF Goes
<1>w. \A x \in User : x \in overtaken => x \in overtaken'
  BY <1>2
<1>u. ~Emitting(t) /\ ~Emits("wait", thread[t].back)
  BY <1>1, <1>2 DEF ThreadInv, Placed, At, Emitting, Emits, Unreffing, Disposal
<1>l. ListInv'
  BY <1>2, ListKept DEF CallsInv
<1>7. \A v \in User : UserInv(v)'
  <2> TAKE v \in User
  <2>1. UserInv(v)
    BY DEF CallsInv
  <2>2. connection'[v] = connection[v] /\ calls'[v] = calls[v] /\ cancelled' = cancelled
    BY <1>2
  <2>3. \A o \in Thread : /\ Emitting(o)' <=> Emitting(o)
                          /\ Emitting(o) => (Owed(o, v)' <=> Owed(o, v))
    BY <1>2, <1>o, <1>m, <1>u DEF Owed, At
  <2>4. \A o \in Thread : /\ Leaves(o, v)' => Leaves(o, v) \/ connection[v] = "on"
                          /\ At(o, "callback")' => At(o, "callback") /\ Here(o)' = Here(o)
    BY <1>2, <1>o, <1>h DEF At, Here, Leaves
  <2> QED
    BY <1>w, <2>1, <2>2, <2>3, <2>4 DEF UserInv
<1>d. \A o \in Thread : Emitting(o)' /\ ~At(o, "locked")' => NoDup(thread'[o].todo)
  BY <1>2, <1>o, <1>m, <1>h, <1>u DEF CallsInv, At
<1> QED
  BY <1>l, <1>7, <1>d DEF CallsInv

LEMMA CallsDisconnectLock ==
  ASSUME Base, CallsInv, NEW t \in Thread, DisconnectLock(t)
  PROVE  CallsInv'
<1>1. ThreadInv(t) /\ thread[t] \in ThreadRecord
  BY DEF Base, TypeOK
<1>2. /\ At(t, "wait") /\ mutex = None
      /\ Goes(t, "gap", thread[t].h, thread[t].todo, thread[t].back)
      /\ UNCHANGED <<cancelled, handlers, connection, calls, overtaken>>
      /\ \A p \in Source : source[p].phase # "none" => source'[p].phase # "none"
  BY DidDisconnectLock DEF Sets
<1>3. UNCHANGED <<connection, calls, cancelled>>
  BY <1>2
<1>l. ListInv'
  BY <1>2, ListKept DEF CallsInv
<1>4. /\ Emits("gap", thread[t].back) <=> Emitting(t)
      /\ "gap" = "locked" <=> At(t, "locked")
      /\ Emitting(t) => thread[t].todo = thread[t].todo
      /\ "gap" # "callback" /\ ("gap" \in {"wait", "gap"} => At(t, "wait") /\ thread[t].h = thread[t].h)
  BY <1>1, <1>2 DEF At, Emits, Emitting, ThreadInv, Placed, SourcePlaces, HolderPlaces,
       Unreffing, Disposal, Preparation, ThreadRecord
<1>5. \A x \in User : x \in overtaken => x \in overtaken'
  BY <1>2
<1> QED
  BY <1>2, <1>3, <1>4, <1>5, <1>l, CallsKept

LEMMA CallsDisconnectEnds ==
  ASSUME Base, CallsInv, NEW t \in Thread, DisconnectEnds(t)
  PROVE  CallsInv'
<1>1. ThreadInv(t) /\ thread[t] \in ThreadRecord
  BY DEF Base, TypeOK
<1>2. /\ At(t, "gap")
      /\ Goes(t, "idle", None, <<>>, "idle")
      /\ handlers' = Without(handlers, thread[t].h)
      /\ connection' = [connection EXCEPT ![thread[t].h] = "gone"]
      /\ UNCHANGED <<cancelled, calls, overtaken>>
      /\ \A p \in Source : source[p].phase # "none" => source'[p].phase # "none"
  BY DidDisconnectEnds DEF Sets
<1>o. \A o \in Thread \ {t} : /\ Emitting(o)' <=> Emitting(o)
                              /\ thread'[o] = thread[o]
  BY <1>2 DEF Goes, Emitting
<1>m. Emitting(t)' <=> Emits("idle", "idle")
  BY <1>2 DEF Goes, Emitting, Emits
<1>h. thread'[t].at = "idle" /\ thread'[t].h = None /\ thread'[t].todo = <<>>
  BY <1>2 DEF Goes
<1>w. \A x \in User : x \in overtaken => x \in overtaken'
  BY <1>2
<1>u. thread[t].h \in User /\ ~Emitting(t) /\ Here(t) = thread[t].h
  BY <1>2 DEF Base, ThreadInv, Placed, At, Emitting, Emits, Unreffing, Disposal, Here
<1>k. \A v \in User : connection'[v] = IF v = thread[t].h THEN "gone" ELSE connection[v]
  BY <1>2, <1>u DEF Base, TypeOK
<1>l. ListInv'
  <2>1. handlers \in Seq(User \cup Source) /\ NoDup(handlers)
    BY DEF Base, TypeOK, CallsInv, ListInv
  <2>2. NoDup(handlers') /\ \A x : In(handlers', x) <=> In(handlers, x) /\ x # thread[t].h
    BY <1>2, <2>1, WithoutIn
  <2> QED
    BY <1>2, <1>k, <2>2 DEF CallsInv, ListInv
<1>7. \A u \in User : UserInv(u)'
  <2> TAKE u \in User
  <2>1. UserInv(u)
    BY DEF CallsInv
  <2>2. connection'[u] = (IF u = thread[t].h THEN "gone" ELSE connection[u]) /\ calls'[u] = calls[u] /\ cancelled' = cancelled
    BY <1>2, <1>k
  <2>3. \A o \in Thread : /\ Emitting(o)' <=> Emitting(o)
                          /\ Emitting(o) => (Owed(o, u)' <=> Owed(o, u))
    BY <1>2, <1>o, <1>m, <1>u DEF Owed, At, Emits
  <2>4. \A o \in Thread : /\ Leaves(o, u)' => Leaves(o, u)
                          /\ At(o, "callback")' => At(o, "callback") /\ Here(o)' = Here(o)
    BY <1>o, <1>h DEF At, Here, Leaves
  <2>5. \A o \in Thread : At(o, "callback") => thread[t].h \in overtaken
    BY <1>2 DEF Base, BoundInv, Emitting, Emits, At
  <2> QED
    BY <1>w, <2>1, <2>2, <2>3, <2>4, <2>5 DEF UserInv
<1>d. \A o \in Thread : Emitting(o)' /\ ~At(o, "locked")' => NoDup(thread'[o].todo)
  BY <1>2, <1>o, <1>m, <1>h, <1>u DEF CallsInv, At, Emits, Emitting
<1> QED
  BY <1>l, <1>7, <1>d DEF CallsInv

LEMMA CallsReset ==
  ASSUME Base, CallsInv, NEW t \in Thread, Reset(t)
  PROVE  CallsInv'
<1>1. ThreadInv(t) /\ thread[t] \in ThreadRecord
  BY DEF Base, TypeOK
<1>2. /\ At(t, "idle") /\ mutex = None /\ resets < MaxResets
      /\ Goes(t, thread[t].at, thread[t].h, thread[t].todo, thread[t].back)
      /\ cancelled' = FALSE
      /\ calls' = [u \in User |-> IF connection[u] = "on" THEN 0 ELSE calls[u]]
      /\ UNCHANGED <<handlers, connection, overtaken>>
      /\ \A p \in Source : source[p].phase # "none" => source'[p].phase # "none"
  BY DidReset DEF Sets
<1>o. \A o \in Thread \ {t} : /\ Emitting(o)' <=> Emitting(o)
                              /\ thread'[o] = thread[o]
  BY <1>2 DEF Goes, Emitting
<1>m. Emitting(t)' <=> Emits(thread[t].at, thread[t].back)
  BY <1>2 DEF Goes, Emitting, Emits
<1>h. thread'[t].at = thread[t].at /\ thread'[t].h = thread[t].h /\ thread'[t].todo = thread[t].todo
  BY <1>2 DEF Goes
<1>w. \A x \in User : x \in overtaken => x \in overtaken'
  BY <1>2
<1>x. \A o \in Thread : ~Emitting(o)
  BY <1>2, Free
<1>l. ListInv'
  BY <1>2, ListKept DEF CallsInv
<1>7. \A v \in User : UserInv(v)'
  <2> TAKE v \in User
  <2>1. UserInv(v)
    BY DEF CallsInv
  <2>3. \A o \in Thread : ~Emitting(o)' /\ ~Emitting(o) /\ ~At(o, "callback")'
    BY <1>2, <1>o, <1>m, <1>h, <1>x DEF Emitting, Emits, At
  <2>2. connection'[v] = connection[v] /\ ~cancelled'
    BY <1>2
  <2>4. \A o \in Thread : Leaves(o, v)' => Leaves(o, v)
    BY <1>o, <1>h DEF Leaves
  <2>5. calls'[v] = IF connection[v] = "on" THEN 0 ELSE calls[v]
    BY <1>2
  <2> QED
    BY <1>w, <2>1, <2>2, <2>3, <2>4, <2>5 DEF UserInv
<1>d. \A o \in Thread : Emitting(o)' /\ ~At(o, "locked")' => NoDup(thread'[o].todo)
  BY <1>2, <1>o, <1>m, <1>h, <1>x DEF CallsInv, ListInv, At, Emits, Emitting
<1> QED
  BY <1>l, <1>7, <1>d DEF CallsInv

LEMMA CallsMakePollfd ==
  ASSUME Base, CallsInv, NEW t \in Thread, MakePollfd(t)
  PROVE  CallsInv'
<1>1. ThreadInv(t) /\ thread[t] \in ThreadRecord
  BY DEF Base, TypeOK
<1>2. /\ At(t, "idle") /\ mutex = None /\ fds < MaxFds
      /\ Goes(t, thread[t].at, thread[t].h, thread[t].todo, thread[t].back)
      /\ UNCHANGED <<cancelled, handlers, connection, calls, overtaken>>
      /\ \A p \in Source : source[p].phase # "none" => source'[p].phase # "none"
  BY DidMakePollfd DEF Sets
<1>3. UNCHANGED <<connection, calls, cancelled>>
  BY <1>2
<1>l. ListInv'
  BY <1>2, ListKept DEF CallsInv
<1>4. /\ Emits(thread[t].at, thread[t].back) <=> Emitting(t)
      /\ thread[t].at = "locked" <=> At(t, "locked")
      /\ Emitting(t) => thread[t].todo = thread[t].todo
      /\ thread[t].at # "callback" /\ (thread[t].at \in {"wait", "gap"} => At(t, "wait") /\ thread[t].h = thread[t].h)
  BY <1>1, <1>2 DEF At, Emits, Emitting, ThreadInv, Placed, SourcePlaces, HolderPlaces,
       Unreffing, Disposal, Preparation, ThreadRecord
<1>5. \A x \in User : x \in overtaken => x \in overtaken'
  BY <1>2
<1> QED
  BY <1>2, <1>3, <1>4, <1>5, <1>l, CallsKept

LEMMA CallsReleaseFd ==
  ASSUME Base, CallsInv, NEW t \in Thread, ReleaseFd(t)
  PROVE  CallsInv'
<1>1. ThreadInv(t) /\ thread[t] \in ThreadRecord
  BY DEF Base, TypeOK
<1>2. /\ At(t, "idle") /\ mutex = None /\ fds > 0
      /\ Goes(t, thread[t].at, thread[t].h, thread[t].todo, thread[t].back)
      /\ UNCHANGED <<cancelled, handlers, connection, calls, overtaken>>
      /\ \A p \in Source : source[p].phase # "none" => source'[p].phase # "none"
  BY DidReleaseFd DEF Sets
<1>3. UNCHANGED <<connection, calls, cancelled>>
  BY <1>2
<1>l. ListInv'
  BY <1>2, ListKept DEF CallsInv
<1>4. /\ Emits(thread[t].at, thread[t].back) <=> Emitting(t)
      /\ thread[t].at = "locked" <=> At(t, "locked")
      /\ Emitting(t) => thread[t].todo = thread[t].todo
      /\ thread[t].at # "callback" /\ (thread[t].at \in {"wait", "gap"} => At(t, "wait") /\ thread[t].h = thread[t].h)
  BY <1>1, <1>2 DEF At, Emits, Emitting, ThreadInv, Placed, SourcePlaces, HolderPlaces,
       Unreffing, Disposal, Preparation, ThreadRecord
<1>5. \A x \in User : x \in overtaken => x \in overtaken'
  BY <1>2
<1> QED
  BY <1>2, <1>3, <1>4, <1>5, <1>l, CallsKept

LEMMA CallsSourceNew ==
  ASSUME Base, CallsInv, NEW t \in Thread, NEW s \in Source, SourceNew(t, s)
  PROVE  CallsInv'
<1>1. ThreadInv(t) /\ thread[t] \in ThreadRecord
  BY DEF Base, TypeOK
<1>2. /\ At(t, "idle") /\ source[s].phase = "none"
      /\ Goes(t, "new", s, thread[t].todo, thread[t].back)
      /\ handlers' = Append(handlers, s)
      /\ UNCHANGED <<cancelled, connection, calls, overtaken>>
      /\ source'[s].phase = "live" /\ \A p \in Source \ {s} : source'[p].phase = source[p].phase
  BY DidSourceNew DEF Sets
<1>3. UNCHANGED <<connection, calls, cancelled>>
  BY <1>2
<1>l. ListInv'
  <2>1. handlers \in Seq(User \cup Source) /\ s \in User \cup Source /\ ~In(handlers, s) /\ NoDup(handlers)
    BY <1>2 DEF Base, TypeOK, CallsInv, ListInv
  <2>2. NoDup(handlers') /\ \A x : In(handlers', x) <=> In(handlers, x) \/ x = s
    BY <1>2, <2>1, AppendIn
  <2>3. \A v \in User : v # s
    BY CancellableAssumption
  <2> QED
    BY <1>2, <1>3, <2>2, <2>3 DEF CallsInv, ListInv
<1>4. /\ Emits("new", thread[t].back) <=> Emitting(t)
      /\ "new" = "locked" <=> At(t, "locked")
      /\ Emitting(t) => thread[t].todo = thread[t].todo
      /\ "new" # "callback" /\ ("new" \in {"wait", "gap"} => At(t, "wait") /\ s = thread[t].h)
  BY <1>1, <1>2 DEF At, Emits, Emitting, ThreadInv, Placed, SourcePlaces, HolderPlaces,
       Unreffing, Disposal, Preparation, ThreadRecord
<1>5. \A x \in User : x \in overtaken => x \in overtaken'
  BY <1>2
<1> QED
  BY <1>2, <1>3, <1>4, <1>5, <1>l, CallsKept

LEMMA CallsSourceChecks ==
  ASSUME Base, CallsInv, NEW t \in Thread, SourceChecks(t)
  PROVE  CallsInv'
<1>1. ThreadInv(t) /\ thread[t] \in ThreadRecord
  BY DEF Base, TypeOK
<1>2. /\ At(t, "new") /\ thread[t].h \in Source
      /\ Goes(t, "idle", None, <<>>, "idle")
      /\ UNCHANGED <<cancelled, handlers, connection, calls, overtaken>>
      /\ \A p \in Source : source[p].phase # "none" => source'[p].phase # "none"
  BY DidSourceChecks DEF Sets
<1>3. UNCHANGED <<connection, calls, cancelled>>
  BY <1>2
<1>l. ListInv'
  BY <1>2, ListKept DEF CallsInv
<1>4. /\ Emits("idle", "idle") <=> Emitting(t)
      /\ "idle" = "locked" <=> At(t, "locked")
      /\ Emitting(t) => <<>> = thread[t].todo
      /\ "idle" # "callback" /\ ("idle" \in {"wait", "gap"} => At(t, "wait") /\ None = thread[t].h)
  BY <1>1, <1>2 DEF At, Emits, Emitting, ThreadInv, Placed, SourcePlaces, HolderPlaces,
       Unreffing, Disposal, Preparation, ThreadRecord
<1>5. \A x \in User : x \in overtaken => x \in overtaken'
  BY <1>2
<1> QED
  BY <1>2, <1>3, <1>4, <1>5, <1>l, CallsKept

LEMMA CallsExchangeTakes ==
  ASSUME Base, CallsInv, NEW t \in Thread, Exchange(t), Rec(t).self
  PROVE  CallsInv'
<1>1. ThreadInv(t) /\ thread[t] \in ThreadRecord
  BY DEF Base, TypeOK
<1>2. /\ At(t, "exchange") /\ thread[t].h \in Source
      /\ source[thread[t].h].self
      /\ Goes(t, "ref", thread[t].h, thread[t].todo, thread[t].back)
      /\ UNCHANGED <<cancelled, handlers, connection, calls, overtaken>>
      /\ \A p \in Source : source[p].phase # "none" => source'[p].phase # "none"
  BY DidExchangeTakes DEF Sets
<1>3. UNCHANGED <<connection, calls, cancelled>>
  BY <1>2
<1>l. ListInv'
  BY <1>2, ListKept DEF CallsInv
<1>4. /\ Emits("ref", thread[t].back) <=> Emitting(t)
      /\ "ref" = "locked" <=> At(t, "locked")
      /\ Emitting(t) => thread[t].todo = thread[t].todo
      /\ "ref" # "callback" /\ ("ref" \in {"wait", "gap"} => At(t, "wait") /\ thread[t].h = thread[t].h)
  BY <1>1, <1>2 DEF At, Emits, Emitting, ThreadInv, Placed, SourcePlaces, HolderPlaces,
       Unreffing, Disposal, Preparation, ThreadRecord
<1>5. \A x \in User : x \in overtaken => x \in overtaken'
  BY <1>2
<1> QED
  BY <1>2, <1>3, <1>4, <1>5, <1>l, CallsKept

LEMMA CallsExchangeFails ==
  ASSUME Base, CallsInv, NEW t \in Thread, Exchange(t), ~Rec(t).self
  PROVE  CallsInv'
<1>1. ThreadInv(t) /\ thread[t] \in ThreadRecord
  BY DEF Base, TypeOK
<1>2. /\ At(t, "exchange") /\ thread[t].h \in Source
      /\ ~source[thread[t].h].self
      /\ Goes(t, "emit", None, thread[t].todo, thread[t].back)
      /\ UNCHANGED <<cancelled, handlers, connection, calls, overtaken>>
      /\ \A p \in Source : source[p].phase # "none" => source'[p].phase # "none"
  BY DidExchangeFails DEF Sets
<1>3. UNCHANGED <<connection, calls, cancelled>>
  BY <1>2
<1>l. ListInv'
  BY <1>2, ListKept DEF CallsInv
<1>4. /\ Emits("emit", thread[t].back) <=> Emitting(t)
      /\ "emit" = "locked" <=> At(t, "locked")
      /\ Emitting(t) => thread[t].todo = thread[t].todo
      /\ "emit" # "callback" /\ ("emit" \in {"wait", "gap"} => At(t, "wait") /\ None = thread[t].h)
  BY <1>1, <1>2 DEF At, Emits, Emitting, ThreadInv, Placed, SourcePlaces, HolderPlaces,
       Unreffing, Disposal, Preparation, ThreadRecord
<1>5. \A x \in User : x \in overtaken => x \in overtaken'
  BY <1>2
<1> QED
  BY <1>2, <1>3, <1>4, <1>5, <1>l, CallsKept

LEMMA CallsHandlerRefs ==
  ASSUME Base, CallsInv, NEW t \in Thread, HandlerRefs(t), Sound
  PROVE  CallsInv'
<1>1. ThreadInv(t) /\ thread[t] \in ThreadRecord
  BY DEF Base, TypeOK
<1>2. /\ At(t, "ref") /\ thread[t].h \in Source
      /\ source[thread[t].h].phase = "live"
      /\ Goes(t, "ready", thread[t].h, thread[t].todo, thread[t].back)
      /\ UNCHANGED <<cancelled, handlers, connection, calls, overtaken>>
      /\ \A p \in Source : source[p].phase # "none" => source'[p].phase # "none"
  BY DidHandlerRefs DEF Sets
<1>3. UNCHANGED <<connection, calls, cancelled>>
  BY <1>2
<1>l. ListInv'
  BY <1>2, ListKept DEF CallsInv
<1>4. /\ Emits("ready", thread[t].back) <=> Emitting(t)
      /\ "ready" = "locked" <=> At(t, "locked")
      /\ Emitting(t) => thread[t].todo = thread[t].todo
      /\ "ready" # "callback" /\ ("ready" \in {"wait", "gap"} => At(t, "wait") /\ thread[t].h = thread[t].h)
  BY <1>1, <1>2 DEF At, Emits, Emitting, ThreadInv, Placed, SourcePlaces, HolderPlaces,
       Unreffing, Disposal, Preparation, ThreadRecord
<1>5. \A x \in User : x \in overtaken => x \in overtaken'
  BY <1>2
<1> QED
  BY <1>2, <1>3, <1>4, <1>5, <1>l, CallsKept

LEMMA CallsHandlerReadies ==
  ASSUME Base, CallsInv, NEW t \in Thread, HandlerReadies(t)
  PROVE  CallsInv'
<1>1. ThreadInv(t) /\ thread[t] \in ThreadRecord
  BY DEF Base, TypeOK
<1>2. /\ At(t, "ready") /\ thread[t].h \in Source
      /\ Goes(t, "called", thread[t].h, thread[t].todo, thread[t].back)
      /\ UNCHANGED <<cancelled, handlers, connection, calls, overtaken>>
      /\ \A p \in Source : source[p].phase # "none" => source'[p].phase # "none"
  BY DidHandlerReadies DEF Sets
<1>3. UNCHANGED <<connection, calls, cancelled>>
  BY <1>2
<1>l. ListInv'
  BY <1>2, ListKept DEF CallsInv
<1>4. /\ Emits("called", thread[t].back) <=> Emitting(t)
      /\ "called" = "locked" <=> At(t, "locked")
      /\ Emitting(t) => thread[t].todo = thread[t].todo
      /\ "called" # "callback" /\ ("called" \in {"wait", "gap"} => At(t, "wait") /\ thread[t].h = thread[t].h)
  BY <1>1, <1>2 DEF At, Emits, Emitting, ThreadInv, Placed, SourcePlaces, HolderPlaces,
       Unreffing, Disposal, Preparation, ThreadRecord
<1>5. \A x \in User : x \in overtaken => x \in overtaken'
  BY <1>2
<1> QED
  BY <1>2, <1>3, <1>4, <1>5, <1>l, CallsKept

LEMMA CallsHandlerCalled ==
  ASSUME Base, CallsInv, NEW t \in Thread, HandlerCalled(t)
  PROVE  CallsInv'
<1>1. ThreadInv(t) /\ thread[t] \in ThreadRecord
  BY DEF Base, TypeOK
<1>2. /\ At(t, "called") /\ thread[t].h \in Source
      /\ Goes(t, "unref", thread[t].h, thread[t].todo, "emit")
      /\ UNCHANGED <<cancelled, handlers, connection, calls, overtaken>>
      /\ \A p \in Source : source[p].phase # "none" => source'[p].phase # "none"
  BY DidHandlerCalled DEF Sets
<1>3. UNCHANGED <<connection, calls, cancelled>>
  BY <1>2
<1>l. ListInv'
  BY <1>2, ListKept DEF CallsInv
<1>4. /\ Emits("unref", "emit") <=> Emitting(t)
      /\ "unref" = "locked" <=> At(t, "locked")
      /\ Emitting(t) => thread[t].todo = thread[t].todo
      /\ "unref" # "callback" /\ ("unref" \in {"wait", "gap"} => At(t, "wait") /\ thread[t].h = thread[t].h)
  BY <1>1, <1>2 DEF At, Emits, Emitting, ThreadInv, Placed, SourcePlaces, HolderPlaces,
       Unreffing, Disposal, Preparation, ThreadRecord
<1>5. \A x \in User : x \in overtaken => x \in overtaken'
  BY <1>2
<1> QED
  BY <1>2, <1>3, <1>4, <1>5, <1>l, CallsKept

LEMMA CallsPrepare ==
  ASSUME Base, CallsInv, NEW t \in Thread, NEW s \in Source, Prepare(t, s)
  PROVE  CallsInv'
<1>1. ThreadInv(t) /\ thread[t] \in ThreadRecord
  BY DEF Base, TypeOK
<1>2. /\ At(t, "idle") /\ source[s].held /\ cancelledRunning = 0
      /\ \A o \in Thread : thread[o].h = s => thread[o].at \notin Preparation
      /\ Goes(t, "prepare", s, thread[t].todo, thread[t].back)
      /\ overtaken' = overtaken \ {s}
      /\ UNCHANGED <<cancelled, handlers, connection, calls>>
      /\ \A p \in Source : source[p].phase # "none" => source'[p].phase # "none"
  BY DidPrepare DEF Sets
<1>3. UNCHANGED <<connection, calls, cancelled>>
  BY <1>2
<1>l. ListInv'
  BY <1>2, ListKept DEF CallsInv
<1>4. /\ Emits("prepare", thread[t].back) <=> Emitting(t)
      /\ "prepare" = "locked" <=> At(t, "locked")
      /\ Emitting(t) => thread[t].todo = thread[t].todo
      /\ "prepare" # "callback" /\ ("prepare" \in {"wait", "gap"} => At(t, "wait") /\ s = thread[t].h)
  BY <1>1, <1>2 DEF At, Emits, Emitting, ThreadInv, Placed, SourcePlaces, HolderPlaces,
       Unreffing, Disposal, Preparation, ThreadRecord
<1>5. \A x \in User : x \in overtaken => x \in overtaken'
  BY <1>2, CancellableAssumption
<1> QED
  BY <1>2, <1>3, <1>4, <1>5, <1>l, CallsKept

LEMMA CallsPrepareFlag ==
  ASSUME Base, CallsInv, NEW t \in Thread, PrepareFlag(t)
  PROVE  CallsInv'
<1>1. ThreadInv(t) /\ thread[t] \in ThreadRecord
  BY DEF Base, TypeOK
<1>2. /\ At(t, "prepare") /\ thread[t].h \in Source
      /\ Goes(t, "prepare2", thread[t].h, thread[t].todo, thread[t].back)
      /\ UNCHANGED <<cancelled, handlers, connection, calls, overtaken>>
      /\ \A p \in Source : source[p].phase # "none" => source'[p].phase # "none"
  BY DidPrepareFlag DEF Sets
<1>3. UNCHANGED <<connection, calls, cancelled>>
  BY <1>2
<1>l. ListInv'
  BY <1>2, ListKept DEF CallsInv
<1>4. /\ Emits("prepare2", thread[t].back) <=> Emitting(t)
      /\ "prepare2" = "locked" <=> At(t, "locked")
      /\ Emitting(t) => thread[t].todo = thread[t].todo
      /\ "prepare2" # "callback" /\ ("prepare2" \in {"wait", "gap"} => At(t, "wait") /\ thread[t].h = thread[t].h)
  BY <1>1, <1>2 DEF At, Emits, Emitting, ThreadInv, Placed, SourcePlaces, HolderPlaces,
       Unreffing, Disposal, Preparation, ThreadRecord
<1>5. \A x \in User : x \in overtaken => x \in overtaken'
  BY <1>2
<1> QED
  BY <1>2, <1>3, <1>4, <1>5, <1>l, CallsKept

LEMMA CallsPrepareSelf ==
  ASSUME Base, CallsInv, NEW t \in Thread, PrepareSelf(t)
  PROVE  CallsInv'
<1>1. ThreadInv(t) /\ thread[t] \in ThreadRecord
  BY DEF Base, TypeOK
<1>2. /\ At(t, "prepare2") /\ thread[t].h \in Source
      /\ Goes(t, "unref", thread[t].h, thread[t].todo, thread[t].back)
      /\ UNCHANGED <<cancelled, handlers, connection, calls, overtaken>>
      /\ \A p \in Source : source[p].phase # "none" => source'[p].phase # "none"
  BY DidPrepareSelf DEF Sets
<1>3. UNCHANGED <<connection, calls, cancelled>>
  BY <1>2
<1>l. ListInv'
  BY <1>2, ListKept DEF CallsInv
<1>4. /\ Emits("unref", thread[t].back) <=> Emitting(t)
      /\ "unref" = "locked" <=> At(t, "locked")
      /\ Emitting(t) => thread[t].todo = thread[t].todo
      /\ "unref" # "callback" /\ ("unref" \in {"wait", "gap"} => At(t, "wait") /\ thread[t].h = thread[t].h)
  BY <1>1, <1>2 DEF At, Emits, Emitting, ThreadInv, Placed, SourcePlaces, HolderPlaces,
       Unreffing, Disposal, Preparation, ThreadRecord
<1>5. \A x \in User : x \in overtaken => x \in overtaken'
  BY <1>2
<1> QED
  BY <1>2, <1>3, <1>4, <1>5, <1>l, CallsKept

LEMMA CallsDispatch ==
  ASSUME Base, CallsInv, NEW t \in Thread, NEW s \in Source, Dispatch(t, s)
  PROVE  CallsInv'
<1>1. ThreadInv(t) /\ thread[t] \in ThreadRecord
  BY DEF Base, TypeOK
<1>2. /\ At(t, "idle") /\ source[s].held /\ source[s].ready
      /\ Goes(t, thread[t].at, thread[t].h, thread[t].todo, thread[t].back)
      /\ UNCHANGED <<cancelled, handlers, connection, calls, overtaken>>
      /\ \A p \in Source : source[p].phase # "none" => source'[p].phase # "none"
  BY DidDispatch DEF Sets
<1>3. UNCHANGED <<connection, calls, cancelled>>
  BY <1>2
<1>l. ListInv'
  BY <1>2, ListKept DEF CallsInv
<1>4. /\ Emits(thread[t].at, thread[t].back) <=> Emitting(t)
      /\ thread[t].at = "locked" <=> At(t, "locked")
      /\ Emitting(t) => thread[t].todo = thread[t].todo
      /\ thread[t].at # "callback" /\ (thread[t].at \in {"wait", "gap"} => At(t, "wait") /\ thread[t].h = thread[t].h)
  BY <1>1, <1>2 DEF At, Emits, Emitting, ThreadInv, Placed, SourcePlaces, HolderPlaces,
       Unreffing, Disposal, Preparation, ThreadRecord
<1>5. \A x \in User : x \in overtaken => x \in overtaken'
  BY <1>2
<1> QED
  BY <1>2, <1>3, <1>4, <1>5, <1>l, CallsKept

LEMMA CallsDrop ==
  ASSUME Base, CallsInv, NEW t \in Thread, NEW s \in Source, Drop(t, s)
  PROVE  CallsInv'
<1>1. ThreadInv(t) /\ thread[t] \in ThreadRecord
  BY DEF Base, TypeOK
<1>2. /\ At(t, "idle") /\ source[s].held
      /\ \A o \in Thread : ~(At(o, "new") /\ thread[o].h = s)
      /\ Goes(t, "unref", s, thread[t].todo, thread[t].back)
      /\ UNCHANGED <<cancelled, handlers, connection, calls, overtaken>>
      /\ \A p \in Source : source[p].phase # "none" => source'[p].phase # "none"
  BY DidDrop DEF Sets
<1>3. UNCHANGED <<connection, calls, cancelled>>
  BY <1>2
<1>l. ListInv'
  BY <1>2, ListKept DEF CallsInv
<1>4. /\ Emits("unref", thread[t].back) <=> Emitting(t)
      /\ "unref" = "locked" <=> At(t, "locked")
      /\ Emitting(t) => thread[t].todo = thread[t].todo
      /\ "unref" # "callback" /\ ("unref" \in {"wait", "gap"} => At(t, "wait") /\ s = thread[t].h)
  BY <1>1, <1>2 DEF At, Emits, Emitting, ThreadInv, Placed, SourcePlaces, HolderPlaces,
       Unreffing, Disposal, Preparation, ThreadRecord
<1>5. \A x \in User : x \in overtaken => x \in overtaken'
  BY <1>2
<1> QED
  BY <1>2, <1>3, <1>4, <1>5, <1>l, CallsKept

LEMMA CallsUnrefDrops ==
  ASSUME Base, CallsInv, NEW t \in Thread, Unref(t), Rec(t).refs > 1
  PROVE  CallsInv'
<1>1. ThreadInv(t) /\ thread[t] \in ThreadRecord
  BY DEF Base, TypeOK
<1>2. /\ At(t, "unref") /\ thread[t].h \in Source
      /\ source[thread[t].h].refs > 1
      /\ Goes(t, thread[t].back, None, thread[t].todo, "idle")
      /\ UNCHANGED <<cancelled, handlers, connection, calls, overtaken>>
      /\ \A p \in Source : source[p].phase # "none" => source'[p].phase # "none"
  BY DidUnrefDrops DEF Sets
<1>3. UNCHANGED <<connection, calls, cancelled>>
  BY <1>2
<1>l. ListInv'
  BY <1>2, ListKept DEF CallsInv
<1>4. /\ Emits(thread[t].back, "idle") <=> Emitting(t)
      /\ thread[t].back = "locked" <=> At(t, "locked")
      /\ Emitting(t) => thread[t].todo = thread[t].todo
      /\ thread[t].back # "callback" /\ (thread[t].back \in {"wait", "gap"} => At(t, "wait") /\ None = thread[t].h)
  BY <1>1, <1>2 DEF At, Emits, Emitting, ThreadInv, Placed, SourcePlaces, HolderPlaces,
       Unreffing, Disposal, Preparation, ThreadRecord
<1>5. \A x \in User : x \in overtaken => x \in overtaken'
  BY <1>2
<1> QED
  BY <1>2, <1>3, <1>4, <1>5, <1>l, CallsKept

LEMMA CallsUnrefDisposes ==
  ASSUME Base, CallsInv, NEW t \in Thread, Unref(t), ~(Rec(t).refs > 1)
  PROVE  CallsInv'
<1>1. ThreadInv(t) /\ thread[t] \in ThreadRecord
  BY DEF Base, TypeOK
<1>2. /\ At(t, "unref") /\ thread[t].h \in Source
      /\ source[thread[t].h].refs = 1
      /\ Goes(t, "dispose", thread[t].h, thread[t].todo, thread[t].back)
      /\ UNCHANGED <<cancelled, handlers, connection, calls, overtaken>>
      /\ \A p \in Source : source[p].phase # "none" => source'[p].phase # "none"
  BY DidUnrefDisposes DEF Sets
<1>3. UNCHANGED <<connection, calls, cancelled>>
  BY <1>2
<1>l. ListInv'
  BY <1>2, ListKept DEF CallsInv
<1>4. /\ Emits("dispose", thread[t].back) <=> Emitting(t)
      /\ "dispose" = "locked" <=> At(t, "locked")
      /\ Emitting(t) => thread[t].todo = thread[t].todo
      /\ "dispose" # "callback" /\ ("dispose" \in {"wait", "gap"} => At(t, "wait") /\ thread[t].h = thread[t].h)
  BY <1>1, <1>2 DEF At, Emits, Emitting, ThreadInv, Placed, SourcePlaces, HolderPlaces,
       Unreffing, Disposal, Preparation, ThreadRecord
<1>5. \A x \in User : x \in overtaken => x \in overtaken'
  BY <1>2
<1> QED
  BY <1>2, <1>3, <1>4, <1>5, <1>l, CallsKept

LEMMA CallsDisposeFirst ==
  ASSUME Base, CallsInv, NEW t \in Thread, Dispose(t), Rec(t).cancellable
  PROVE  CallsInv'
<1>1. ThreadInv(t) /\ thread[t] \in ThreadRecord
  BY DEF Base, TypeOK
<1>2. /\ At(t, "dispose") /\ thread[t].h \in Source
      /\ source[thread[t].h].cancellable
      /\ Goes(t, "self", thread[t].h, thread[t].todo, thread[t].back)
      /\ UNCHANGED <<cancelled, handlers, connection, calls, overtaken>>
      /\ \A p \in Source : source[p].phase # "none" => source'[p].phase # "none"
  BY DidDisposeFirst DEF Sets
<1>3. UNCHANGED <<connection, calls, cancelled>>
  BY <1>2
<1>l. ListInv'
  BY <1>2, ListKept DEF CallsInv
<1>4. /\ Emits("self", thread[t].back) <=> Emitting(t)
      /\ "self" = "locked" <=> At(t, "locked")
      /\ Emitting(t) => thread[t].todo = thread[t].todo
      /\ "self" # "callback" /\ ("self" \in {"wait", "gap"} => At(t, "wait") /\ thread[t].h = thread[t].h)
  BY <1>1, <1>2 DEF At, Emits, Emitting, ThreadInv, Placed, SourcePlaces, HolderPlaces,
       Unreffing, Disposal, Preparation, ThreadRecord
<1>5. \A x \in User : x \in overtaken => x \in overtaken'
  BY <1>2
<1> QED
  BY <1>2, <1>3, <1>4, <1>5, <1>l, CallsKept

LEMMA CallsDisposeAgain ==
  ASSUME Base, CallsInv, NEW t \in Thread, Dispose(t), ~Rec(t).cancellable
  PROVE  CallsInv'
<1>1. ThreadInv(t) /\ thread[t] \in ThreadRecord
  BY DEF Base, TypeOK
<1>2. /\ At(t, "dispose") /\ thread[t].h \in Source
      /\ ~source[thread[t].h].cancellable
      /\ Goes(t, "drop", thread[t].h, thread[t].todo, thread[t].back)
      /\ UNCHANGED <<cancelled, handlers, connection, calls, overtaken>>
      /\ \A p \in Source : source[p].phase # "none" => source'[p].phase # "none"
  BY DidDisposeAgain DEF Sets
<1>3. UNCHANGED <<connection, calls, cancelled>>
  BY <1>2
<1>l. ListInv'
  BY <1>2, ListKept DEF CallsInv
<1>4. /\ Emits("drop", thread[t].back) <=> Emitting(t)
      /\ "drop" = "locked" <=> At(t, "locked")
      /\ Emitting(t) => thread[t].todo = thread[t].todo
      /\ "drop" # "callback" /\ ("drop" \in {"wait", "gap"} => At(t, "wait") /\ thread[t].h = thread[t].h)
  BY <1>1, <1>2 DEF At, Emits, Emitting, ThreadInv, Placed, SourcePlaces, HolderPlaces,
       Unreffing, Disposal, Preparation, ThreadRecord
<1>5. \A x \in User : x \in overtaken => x \in overtaken'
  BY <1>2
<1> QED
  BY <1>2, <1>3, <1>4, <1>5, <1>l, CallsKept

LEMMA CallsDisposeTakes ==
  ASSUME Base, CallsInv, NEW t \in Thread, DisposeSelf(t), Rec(t).self
  PROVE  CallsInv'
<1>1. ThreadInv(t) /\ thread[t] \in ThreadRecord
  BY DEF Base, TypeOK
<1>2. /\ At(t, "self") /\ thread[t].h \in Source
      /\ source[thread[t].h].self
      /\ Goes(t, "disconnect", thread[t].h, thread[t].todo, thread[t].back)
      /\ UNCHANGED <<cancelled, handlers, connection, calls, overtaken>>
      /\ \A p \in Source : source[p].phase # "none" => source'[p].phase # "none"
  BY DidDisposeTakes DEF Sets
<1>3. UNCHANGED <<connection, calls, cancelled>>
  BY <1>2
<1>l. ListInv'
  BY <1>2, ListKept DEF CallsInv
<1>4. /\ Emits("disconnect", thread[t].back) <=> Emitting(t)
      /\ "disconnect" = "locked" <=> At(t, "locked")
      /\ Emitting(t) => thread[t].todo = thread[t].todo
      /\ "disconnect" # "callback" /\ ("disconnect" \in {"wait", "gap"} => At(t, "wait") /\ thread[t].h = thread[t].h)
  BY <1>1, <1>2 DEF At, Emits, Emitting, ThreadInv, Placed, SourcePlaces, HolderPlaces,
       Unreffing, Disposal, Preparation, ThreadRecord
<1>5. \A x \in User : x \in overtaken => x \in overtaken'
  BY <1>2
<1> QED
  BY <1>2, <1>3, <1>4, <1>5, <1>l, CallsKept

LEMMA CallsDisposeWaits ==
  ASSUME Base, CallsInv, NEW t \in Thread, DisposeSelf(t), ~Rec(t).self
  PROVE  CallsInv'
<1>1. ThreadInv(t) /\ thread[t] \in ThreadRecord
  BY DEF Base, TypeOK
<1>2. /\ At(t, "self") /\ thread[t].h \in Source
      /\ ~source[thread[t].h].self
      /\ Goes(t, "spin", thread[t].h, thread[t].todo, thread[t].back)
      /\ UNCHANGED <<cancelled, handlers, connection, calls, overtaken>>
      /\ \A p \in Source : source[p].phase # "none" => source'[p].phase # "none"
  BY DidDisposeWaits DEF Sets
<1>3. UNCHANGED <<connection, calls, cancelled>>
  BY <1>2
<1>l. ListInv'
  BY <1>2, ListKept DEF CallsInv
<1>4. /\ Emits("spin", thread[t].back) <=> Emitting(t)
      /\ "spin" = "locked" <=> At(t, "locked")
      /\ Emitting(t) => thread[t].todo = thread[t].todo
      /\ "spin" # "callback" /\ ("spin" \in {"wait", "gap"} => At(t, "wait") /\ thread[t].h = thread[t].h)
  BY <1>1, <1>2 DEF At, Emits, Emitting, ThreadInv, Placed, SourcePlaces, HolderPlaces,
       Unreffing, Disposal, Preparation, ThreadRecord
<1>5. \A x \in User : x \in overtaken => x \in overtaken'
  BY <1>2
<1> QED
  BY <1>2, <1>3, <1>4, <1>5, <1>l, CallsKept

LEMMA CallsDisposeSpin ==
  ASSUME Base, CallsInv, NEW t \in Thread, DisposeSpin(t)
  PROVE  CallsInv'
<1>1. ThreadInv(t) /\ thread[t] \in ThreadRecord
  BY DEF Base, TypeOK
<1>2. /\ At(t, "spin") /\ thread[t].h \in Source
      /\ source[thread[t].h].called
      /\ Goes(t, "disconnect", thread[t].h, thread[t].todo, thread[t].back)
      /\ UNCHANGED <<cancelled, handlers, connection, calls, overtaken>>
      /\ \A p \in Source : source[p].phase # "none" => source'[p].phase # "none"
  BY DidDisposeSpin DEF Sets
<1>3. UNCHANGED <<connection, calls, cancelled>>
  BY <1>2
<1>l. ListInv'
  BY <1>2, ListKept DEF CallsInv
<1>4. /\ Emits("disconnect", thread[t].back) <=> Emitting(t)
      /\ "disconnect" = "locked" <=> At(t, "locked")
      /\ Emitting(t) => thread[t].todo = thread[t].todo
      /\ "disconnect" # "callback" /\ ("disconnect" \in {"wait", "gap"} => At(t, "wait") /\ thread[t].h = thread[t].h)
  BY <1>1, <1>2 DEF At, Emits, Emitting, ThreadInv, Placed, SourcePlaces, HolderPlaces,
       Unreffing, Disposal, Preparation, ThreadRecord
<1>5. \A x \in User : x \in overtaken => x \in overtaken'
  BY <1>2
<1> QED
  BY <1>2, <1>3, <1>4, <1>5, <1>l, CallsKept

LEMMA CallsDisposeDisconnect ==
  ASSUME Base, CallsInv, NEW t \in Thread, DisposeDisconnect(t)
  PROVE  CallsInv'
<1>1. ThreadInv(t) /\ thread[t] \in ThreadRecord
  BY DEF Base, TypeOK
<1>2. /\ At(t, "disconnect") /\ thread[t].h \in Source
      /\ Goes(t, "drop", thread[t].h, thread[t].todo, thread[t].back)
      /\ handlers' = Without(handlers, thread[t].h)
      /\ UNCHANGED <<cancelled, connection, calls, overtaken>>
      /\ \A p \in Source : source[p].phase # "none" => source'[p].phase # "none"
  BY DidDisposeDisconnect DEF Sets
<1>3. UNCHANGED <<connection, calls, cancelled>>
  BY <1>2
<1>l. ListInv'
  <2>1. handlers \in Seq(User \cup Source) /\ NoDup(handlers)
    BY DEF Base, TypeOK, CallsInv, ListInv
  <2>2. NoDup(handlers') /\ \A x : In(handlers', x) <=> In(handlers, x) /\ x # thread[t].h
    BY <1>2, <2>1, WithoutIn
  <2>3. \A v \in User : v # thread[t].h
    BY <1>2, CancellableAssumption
  <2> QED
    BY <1>2, <1>3, <2>2, <2>3 DEF CallsInv, ListInv
<1>4. /\ Emits("drop", thread[t].back) <=> Emitting(t)
      /\ "drop" = "locked" <=> At(t, "locked")
      /\ Emitting(t) => thread[t].todo = thread[t].todo
      /\ "drop" # "callback" /\ ("drop" \in {"wait", "gap"} => At(t, "wait") /\ thread[t].h = thread[t].h)
  BY <1>1, <1>2 DEF At, Emits, Emitting, ThreadInv, Placed, SourcePlaces, HolderPlaces,
       Unreffing, Disposal, Preparation, ThreadRecord
<1>5. \A x \in User : x \in overtaken => x \in overtaken'
  BY <1>2
<1> QED
  BY <1>2, <1>3, <1>4, <1>5, <1>l, CallsKept

LEMMA CallsDropFrees ==
  ASSUME Base, CallsInv, NEW t \in Thread, DropLast(t), Rec(t).refs = 1
  PROVE  CallsInv'
<1>1. ThreadInv(t) /\ thread[t] \in ThreadRecord
  BY DEF Base, TypeOK
<1>2. /\ At(t, "drop") /\ thread[t].h \in Source
      /\ source[thread[t].h].refs = 1
      /\ Goes(t, thread[t].back, None, thread[t].todo, "idle")
      /\ UNCHANGED <<cancelled, handlers, connection, calls, overtaken>>
      /\ \A p \in Source : source[p].phase # "none" => source'[p].phase # "none"
  BY DidDropFrees DEF Sets
<1>3. UNCHANGED <<connection, calls, cancelled>>
  BY <1>2
<1>l. ListInv'
  BY <1>2, ListKept DEF CallsInv
<1>4. /\ Emits(thread[t].back, "idle") <=> Emitting(t)
      /\ thread[t].back = "locked" <=> At(t, "locked")
      /\ Emitting(t) => thread[t].todo = thread[t].todo
      /\ thread[t].back # "callback" /\ (thread[t].back \in {"wait", "gap"} => At(t, "wait") /\ None = thread[t].h)
  BY <1>1, <1>2 DEF At, Emits, Emitting, ThreadInv, Placed, SourcePlaces, HolderPlaces,
       Unreffing, Disposal, Preparation, ThreadRecord
<1>5. \A x \in User : x \in overtaken => x \in overtaken'
  BY <1>2
<1> QED
  BY <1>2, <1>3, <1>4, <1>5, <1>l, CallsKept

LEMMA CallsDropRetries ==
  ASSUME Base, CallsInv, NEW t \in Thread, DropLast(t), Rec(t).refs # 1
  PROVE  CallsInv'
<1>1. ThreadInv(t) /\ thread[t] \in ThreadRecord
  BY DEF Base, TypeOK
<1>2. /\ At(t, "drop") /\ thread[t].h \in Source
      /\ Goes(t, "unref", thread[t].h, thread[t].todo, thread[t].back)
      /\ UNCHANGED <<cancelled, handlers, connection, calls, overtaken>>
      /\ \A p \in Source : source[p].phase # "none" => source'[p].phase # "none"
  BY DidDropRetries DEF Sets
<1>3. UNCHANGED <<connection, calls, cancelled>>
  BY <1>2
<1>l. ListInv'
  BY <1>2, ListKept DEF CallsInv
<1>4. /\ Emits("unref", thread[t].back) <=> Emitting(t)
      /\ "unref" = "locked" <=> At(t, "locked")
      /\ Emitting(t) => thread[t].todo = thread[t].todo
      /\ "unref" # "callback" /\ ("unref" \in {"wait", "gap"} => At(t, "wait") /\ thread[t].h = thread[t].h)
  BY <1>1, <1>2 DEF At, Emits, Emitting, ThreadInv, Placed, SourcePlaces, HolderPlaces,
       Unreffing, Disposal, Preparation, ThreadRecord
<1>5. \A x \in User : x \in overtaken => x \in overtaken'
  BY <1>2
<1> QED
  BY <1>2, <1>3, <1>4, <1>5, <1>l, CallsKept

LEMMA CallsNext ==
  ASSUME Base, CallsInv, [Next]_vars
  PROVE  CallsInv'
<1>1. CASE UNCHANGED vars
  BY <1>1 DEF vars, CallsInv, ListInv, UserInv, Owed, Emitting, At, Here, Leaves
<1>2. ASSUME NEW t \in Thread, Sound, Start(t) \/ GoOn(t) PROVE CallsInv'
  <2>1. CASE Cancel(t)
    BY <2>1, CallsCancel
  <2>2. CASE CancelLock(t)
    BY <2>2, CallsCancelLost, CallsCancelWon
  <2>3. CASE EmitStart(t)
    BY <2>3, CallsEmitStart
  <2>4. CASE EmitNext(t)
    <3>1. Head(thread[t].todo) \in User \cup Source
      BY <2>4 DEF EmitNext, Base, TypeOK, ThreadRecord
    <3> QED
      BY <2>4, <3>1, CallsEmitSkips, CallsEmitCalls, CallsEmitExchanges
  <2>5. CASE CallbackReturns(t)
    BY <2>5, CallsCallbackReturns
  <2>6. CASE EmitEnd(t)
    BY <2>6, CallsEmitEnd
  <2>7. ASSUME NEW u \in User, Connect(t, u) PROVE CallsInv'
    BY <2>7, CallsConnectOn, CallsConnectOff
  <2>8. CASE DirectReturns(t)
    BY <2>8, CallsDirectReturns
  <2>9. ASSUME NEW u \in User, Disconnect(t, u) PROVE CallsInv'
    BY <2>9, CallsDisconnect
  <2>10. CASE DisconnectLock(t)
    BY <2>10, CallsDisconnectLock
  <2>11. CASE DisconnectEnds(t)
    BY <2>11, CallsDisconnectEnds
  <2>12. CASE Reset(t)
    BY <2>12, CallsReset
  <2>13. CASE MakePollfd(t)
    BY <2>13, CallsMakePollfd
  <2>14. CASE ReleaseFd(t)
    BY <2>14, CallsReleaseFd
  <2>15. ASSUME NEW s \in Source, SourceNew(t, s) PROVE CallsInv'
    BY <2>15, CallsSourceNew
  <2>16. CASE SourceChecks(t)
    BY <2>16, CallsSourceChecks
  <2>17. CASE Exchange(t)
    BY <2>17, CallsExchangeTakes, CallsExchangeFails
  <2>18. CASE HandlerRefs(t)
    BY <1>2, <2>18, CallsHandlerRefs
  <2>19. CASE HandlerReadies(t)
    BY <2>19, CallsHandlerReadies
  <2>20. CASE HandlerCalled(t)
    BY <2>20, CallsHandlerCalled
  <2>21. ASSUME NEW s \in Source, Prepare(t, s) PROVE CallsInv'
    BY <2>21, CallsPrepare
  <2>22. CASE PrepareFlag(t)
    BY <2>22, CallsPrepareFlag
  <2>23. CASE PrepareSelf(t)
    BY <2>23, CallsPrepareSelf
  <2>24. ASSUME NEW s \in Source, Dispatch(t, s) PROVE CallsInv'
    BY <2>24, CallsDispatch
  <2>25. ASSUME NEW s \in Source, Drop(t, s) PROVE CallsInv'
    BY <2>25, CallsDrop
  <2>26. CASE Unref(t)
    BY <2>26, CallsUnrefDrops, CallsUnrefDisposes
  <2>27. CASE Dispose(t)
    BY <2>27, CallsDisposeFirst, CallsDisposeAgain
  <2>28. CASE DisposeSelf(t)
    BY <2>28, CallsDisposeTakes, CallsDisposeWaits
  <2>29. CASE DisposeSpin(t)
    BY <2>29, CallsDisposeSpin
  <2>30. CASE DisposeDisconnect(t)
    BY <2>30, CallsDisposeDisconnect
  <2>31. CASE DropLast(t)
    BY <2>31, CallsDropFrees, CallsDropRetries
  <2> QED
    BY <1>2, <2>1, <2>2, <2>3, <2>4, <2>5, <2>6, <2>7, <2>8, <2>9, <2>10, <2>11, <2>12,
       <2>13, <2>14, <2>15, <2>16, <2>17, <2>18, <2>19, <2>20, <2>21, <2>22, <2>23, <2>24,
       <2>25, <2>26, <2>27, <2>28, <2>29, <2>30, <2>31 DEF Start, GoOn
<1> QED
  BY <1>1, <1>2 DEF Next

LEMMA CallsInit == ASSUME Init PROVE CallsInv
<1>1. \A t \in Thread : thread[t].at = "idle" /\ thread[t].back = "idle"
  BY DEF Init, Resting
<1>2. \A t \in Thread : ~Emitting(t) /\ ~At(t, "callback") /\ \A u \in User : ~Leaves(t, u)
  BY <1>1 DEF Emitting, Emits, At, Leaves
<1>3. ListInv
  BY DEF Init, ListInv, NoDup, In
<1>4. \A u \in User : UserInv(u)
  BY <1>2 DEF Init, UserInv
<1> QED
  BY <1>2, <1>3, <1>4 DEF CallsInv

\* However connect, cancel, reset and disconnect meet, a callback is called exactly once for
\* a cancellation and is not running when its disconnect has returned, but for a cancel that
\* has begun between the disconnect's unlock and the removal of the handler.
THEOREM HandlersSafe == Spec => []HandlerCalls
<1>1. Init => CallsInv
  BY CallsInit
<1>2. Base /\ CallsInv /\ [Next]_vars => CallsInv'
  BY CallsNext
<1>3. Base /\ CallsInv => HandlerCalls
  <2> SUFFICES ASSUME Base, CallsInv, NEW u \in User PROVE
        /\ calls[u] <= 1 /\ (connection[u] = "off" => calls[u] = 1)
        /\ connection[u] = "on" /\ cancelled /\ mutex = None => calls[u] = 1
        /\ u \notin overtaken /\ connection[u] = "gone" => ~\E t \in Thread : At(t, "callback") /\ Here(t) = u
    BY DEF HandlerCalls, ExactlyOnce, NotCalledAfterDisconnect
  <2>1. UserInv(u)
    BY DEF CallsInv
  <2>2. calls[u] <= 1
    BY <2>1 DEF UserInv
  <2>3. connection[u] = "on" /\ cancelled /\ mutex = None => calls[u] = 1
    BY <2>1, Free DEF UserInv
  <2> QED
    BY <2>1, <2>2, <2>3 DEF UserInv
<1> QED
  BY <1>1, <1>2, <1>3, BaseHolds, PTL DEF Spec

--------------------------------------------------------------------------------
(* The memory of the sources. *)

LEMMA CardFacts ==
  ASSUME NEW H \in SUBSET Thread, NEW t \in Thread
  PROVE  /\ Cardinality(H) \in Nat
         /\ Cardinality(H) = 0 => t \notin H
         /\ t \notin H => Cardinality(H \cup {t}) = Cardinality(H) + 1
         /\ t \in H => Cardinality(H \ {t}) = Cardinality(H) - 1
<1>1. IsFiniteSet(H)
  BY CancellableAssumption, FS_Subset
<1>2. Cardinality(H) \in Nat /\ (Cardinality(H) = 0 <=> H = {})
  BY <1>1, FS_CardinalityType, FS_EmptySet
<1>3. t \notin H => Cardinality(H \cup {t}) = Cardinality(H) + 1
  BY <1>1, FS_AddElement
<1>4. t \in H => Cardinality(H \ {t}) = Cardinality(H) - 1
  BY <1>1, FS_RemoveElement
<1> QED
  BY <1>2, <1>3, <1>4

\* Who has the only reference of a thread is the only one.
LEMMA HoldersOf ==
  ASSUME NEW s \in Source
  PROVE  /\ Cardinality(Holders(s)) \in Nat
         /\ \A t \in Thread : Holds(t, s) => Cardinality(Holders(s)) # 0
         /\ \A t, o \in Thread : Holds(t, s) /\ Cardinality(Holders(s)) = 1 /\ Holds(o, s) => o = t
<1>1. \A t \in Thread : t \in Holders(s) <=> Holds(t, s)
  BY DEF Holders, Holds
<1>2. Cardinality(Holders(s)) \in Nat
  BY CancellableAssumption, FS_Subset, FS_CardinalityType DEF Holders
<1>3. ASSUME NEW t \in Thread, Holds(t, s) PROVE Cardinality(Holders(s)) # 0
  BY <1>1, <1>3, CardFacts DEF Holders
<1>4. ASSUME NEW t \in Thread, NEW o \in Thread, Holds(t, s), Holds(o, s), o # t,
             Cardinality(Holders(s)) = 1
      PROVE  FALSE
  <2>1. t \in Holders(s) /\ Holders(s) \in SUBSET Thread
    BY <1>1, <1>4 DEF Holders
  <2>2. Cardinality(Holders(s) \ {t}) = 0 /\ Holders(s) \ {t} \in SUBSET Thread
    BY <1>4, <2>1, CardFacts
  <2>3. o \in Holders(s) \ {t}
    BY <1>1, <1>4
  <2> QED
    BY <2>2, <2>3, CardFacts
<1> QED
  BY <1>2, <1>3, <1>4

LEMMA HoldersStay ==
  ASSUME NEW s \in Source, \A o \in Thread : Holds(o, s)' <=> Holds(o, s)
  PROVE  Cardinality(Holders(s))' = Cardinality(Holders(s))
<1>1. Holders(s)' = Holders(s)
  BY DEF Holders, Holds
<1> QED
  BY <1>1

LEMMA HoldersJoin ==
  ASSUME NEW s \in Source, NEW t \in Thread, ~Holds(t, s), Holds(t, s)',
         \A o \in Thread \ {t} : Holds(o, s)' <=> Holds(o, s)
  PROVE  Cardinality(Holders(s))' = Cardinality(Holders(s)) + 1
<1>1. Holders(s)' = Holders(s) \cup {t} /\ t \notin Holders(s) /\ Holders(s) \in SUBSET Thread
  BY DEF Holders, Holds
<1> QED
  BY <1>1, CardFacts

LEMMA HoldersLeave ==
  ASSUME NEW s \in Source, NEW t \in Thread, Holds(t, s), ~Holds(t, s)',
         \A o \in Thread \ {t} : Holds(o, s)' <=> Holds(o, s)
  PROVE  Cardinality(Holders(s))' = Cardinality(Holders(s)) - 1
<1>1. Holders(s)' = Holders(s) \ {t} /\ t \in Holders(s) /\ Holders(s) \in SUBSET Thread
  BY DEF Holders, Holds
<1> QED
  BY <1>1, CardFacts

\* A step that has nothing to do with a source.
SameSource(s) ==
  /\ source'[s].phase = source[s].phase /\ source'[s].refs = source[s].refs
  /\ source'[s].held = source[s].held /\ source'[s].self = source[s].self
  /\ source'[s].called = source[s].called /\ source'[s].cancellable = source[s].cancellable

\* What a thread does to a source that it has looked into.
Works(t, s) == thread[t].h = s /\ thread[t].at \in HolderPlaces \cup {"new", "ref"}

LEMMA SourceKept ==
  ASSUME NEW s \in Source, SourceInv(s), NEW t \in Thread, SameSource(s),
         \A o \in Thread \ {t} : thread'[o] = thread[o],
         ~Works(t, s), ~Works(t, s)', s \in overtaken => s \in overtaken'
  PROVE  SourceInv(s)'
<1>1. \A o \in Thread : /\ Works(o, s)' <=> Works(o, s)
                        /\ Works(o, s) => thread'[o] = thread[o]
  BY DEF Works
<1>2. \A o \in Thread : /\ Holds(o, s)' <=> Holds(o, s)
                        /\ Handles(o, s)' <=> Handles(o, s)
                        /\ Disposes(o, s)' <=> Disposes(o, s)
                        /\ Detaches(o, s)' <=> Detaches(o, s)
                        /\ Holds(o, s) \/ Handles(o, s) \/ Disposes(o, s) => thread'[o] = thread[o]
  BY <1>1 DEF Works, Holds, Handles, Disposes, Detaches, Handling, HolderPlaces, Unreffing,
     Disposal, Preparation
<1>3. \A o \in Thread : /\ thread'[o].h = s /\ At(o, "prepare2")' => thread[o].h = s /\ At(o, "prepare2")
                        /\ thread'[o].h = s /\ At(o, "new")' => thread[o].h = s /\ At(o, "new")
                        /\ thread'[o].h = s /\ thread'[o].at \in Preparation =>
                             thread[o].h = s /\ thread[o].at \in Preparation
                        /\ thread[o].h = s /\ At(o, "prepare") => thread'[o].h = s /\ At(o, "prepare")'
  BY <1>1 DEF Works, At, HolderPlaces, Unreffing, Disposal, Preparation
<1>4. CountInv(s)'
  <2>1. Cardinality(Holders(s))' = Cardinality(Holders(s))
    BY <1>2, HoldersStay
  <2> QED
    BY <1>3, <2>1 DEF SourceInv, CountInv, SameSource
<1>5. s \notin overtaken' => HandlerInv(s)'
  BY <1>2, <1>3 DEF SourceInv, HandlerInv, SameSource
<1>6. DisposeInv(s)'
  <2>1. ASSUME NEW o \in Thread, Disposes(o, s)'
        PROVE  Disposer(o, s)'
    <3>1. Disposes(o, s) /\ thread'[o] = thread[o]
      BY <1>2, <2>1
    <3>2. \A p \in Thread : Holds(p, s)' => Holds(p, s) /\ thread'[p] = thread[p]
      BY <1>2
    <3> QED
      BY <3>1, <3>2 DEF SourceInv, DisposeInv, Disposer, Detached, SameSource, At
  <2> QED
    BY <1>2, <1>3, <2>1 DEF SourceInv, DisposeInv, Detached, SameSource
<1> QED
  BY <1>4, <1>5, <1>6 DEF SourceInv

\* A step that works on no source.
LEMMA SourceOther ==
  ASSUME NEW s \in Source, SourceInv(s), NEW t \in Thread, NEW a, NEW h, NEW q, NEW b,
         Goes(t, a, h, q, b), a \notin SourcePlaces \/ a = "exchange", source' = source,
         thread[t].at \notin SourcePlaces, s \in overtaken => s \in overtaken'
  PROVE  SourceInv(s)'
<1>1. ~Works(t, s) /\ ~Works(t, s)'
  BY DEF Works, Goes, SourcePlaces, HolderPlaces, Unreffing, Disposal, Preparation
<1> QED
  BY <1>1, SourceKept DEF SameSource, Goes

\* The counts, of a source that a step works on.
LEMMA Counted ==
  ASSUME NEW s \in Source, Base, SourceInv(s)
  PROVE  /\ source[s].refs \in Nat /\ Cardinality(Holders(s)) \in Nat
         /\ source[s].held => source[s].refs # 0 /\ source[s].phase = "live"
         /\ \A t \in Thread : Holds(t, s) => source[s].refs # 0 /\ source[s].phase = "live"
         /\ \A t \in Thread : Holds(t, s) /\ source[s].refs = 1 =>
              ~source[s].held /\ (\A o \in Thread \ {t} : ~Holds(o, s)) /\ Cardinality(Holders(s)) = 1
         /\ source[s].phase # "live" =>
              ~source[s].held /\ (\A t \in Thread : ~Holds(t, s)) /\ Cardinality(Holders(s)) = 0
<1>1. source[s].refs \in Nat /\ source[s].held \in BOOLEAN /\ Cardinality(Holders(s)) \in Nat
  BY HoldersOf DEF Base, TypeOK, SourceRecord
<1>2. source[s].refs = Bit(source[s].held) + Cardinality(Holders(s))
  BY DEF SourceInv, CountInv
<1>3. source[s].phase = "live" <=> source[s].refs # 0
  BY DEF SourceInv, CountInv
<1>4. source[s].held => source[s].refs # 0
  BY <1>1, <1>2 DEF Bit
<1>5. Cardinality(Holders(s)) # 0 => source[s].refs # 0
  BY <1>1, <1>2 DEF Bit
<1>6. Cardinality(Holders(s)) # 0 /\ source[s].refs = 1 => ~source[s].held /\ Cardinality(Holders(s)) = 1
  BY <1>1, <1>2 DEF Bit
<1>7. source[s].refs = 0 => ~source[s].held /\ Cardinality(Holders(s)) = 0
  BY <1>1, <1>2 DEF Bit
<1>8. \A t \in Thread : Holds(t, s) => Cardinality(Holders(s)) # 0
  BY HoldersOf
<1>9. \A t, o \in Thread : Holds(t, s) /\ Cardinality(Holders(s)) = 1 /\ Holds(o, s) => o = t
  BY HoldersOf
<1> QED
  BY <1>1, <1>3, <1>4, <1>5, <1>6, <1>7, <1>8, <1>9

LEMMA SourceCancel ==
  ASSUME Base, NEW t \in Thread, Cancel(t), NEW p \in Source, SourceInv(p)
  PROVE  SourceInv(p)'
<1>1. /\ thread[t].at = "idle"
      /\ Goes(t, "cancel", None, thread[t].todo, thread[t].back)
      /\ source' = source
      /\ overtaken' = overtaken
  BY DidCancel DEF At
<1> QED
  BY <1>1, SourceOther DEF SourcePlaces, HolderPlaces, Unreffing, Disposal, Preparation

LEMMA SourceCancelLost ==
  ASSUME Base, NEW t \in Thread, CancelLock(t), cancelled, NEW p \in Source, SourceInv(p)
  PROVE  SourceInv(p)'
<1>1. /\ thread[t].at = "cancel"
      /\ Goes(t, "idle", thread[t].h, thread[t].todo, thread[t].back)
      /\ source' = source
      /\ overtaken' = overtaken
  BY DidCancelLost DEF At
<1> QED
  BY <1>1, SourceOther DEF SourcePlaces, HolderPlaces, Unreffing, Disposal, Preparation

LEMMA SourceCancelWon ==
  ASSUME Base, NEW t \in Thread, CancelLock(t), ~cancelled, NEW p \in Source, SourceInv(p)
  PROVE  SourceInv(p)'
<1>1. /\ thread[t].at = "cancel"
      /\ Goes(t, "locked", thread[t].h, thread[t].todo, thread[t].back)
      /\ source' = source
      /\ overtaken' = overtaken \cup {h \in User \cup Source : Amid(h)}
  BY DidCancelWon DEF At
<1> QED
  BY <1>1, SourceOther DEF SourcePlaces, HolderPlaces, Unreffing, Disposal, Preparation

LEMMA SourceEmitStart ==
  ASSUME Base, NEW t \in Thread, EmitStart(t), NEW p \in Source, SourceInv(p)
  PROVE  SourceInv(p)'
<1>1. /\ thread[t].at = "locked"
      /\ Goes(t, "emit", thread[t].h, handlers, thread[t].back)
      /\ source' = source
      /\ overtaken' = overtaken
  BY DidEmitStart DEF At
<1> QED
  BY <1>1, SourceOther DEF SourcePlaces, HolderPlaces, Unreffing, Disposal, Preparation

LEMMA SourceEmitSkips ==
  ASSUME Base, NEW t \in Thread, EmitNext(t), ~Connected(Head(thread[t].todo)),
         NEW p \in Source, SourceInv(p)
  PROVE  SourceInv(p)'
<1>1. /\ thread[t].at = "emit"
      /\ Goes(t, "emit", None, Tail(thread[t].todo), thread[t].back)
      /\ source' = source
      /\ overtaken' = overtaken
  BY DidEmitSkips DEF At
<1> QED
  BY <1>1, SourceOther DEF SourcePlaces, HolderPlaces, Unreffing, Disposal, Preparation

LEMMA SourceEmitCalls ==
  ASSUME Base, NEW t \in Thread, EmitNext(t), Connected(Head(thread[t].todo)), Head(thread[t].todo) \in User,
         NEW p \in Source, SourceInv(p)
  PROVE  SourceInv(p)'
<1>1. /\ thread[t].at = "emit"
      /\ Goes(t, "callback", Head(thread[t].todo), Tail(thread[t].todo), thread[t].back)
      /\ source' = source
      /\ overtaken' = overtaken
  BY DidEmitCalls DEF At
<1> QED
  BY <1>1, SourceOther DEF SourcePlaces, HolderPlaces, Unreffing, Disposal, Preparation

LEMMA SourceEmitExchanges ==
  ASSUME Base, NEW t \in Thread, EmitNext(t), Connected(Head(thread[t].todo)), Head(thread[t].todo) \in Source,
         NEW p \in Source, SourceInv(p)
  PROVE  SourceInv(p)'
<1>1. /\ thread[t].at = "emit"
      /\ Goes(t, "exchange", Head(thread[t].todo), Tail(thread[t].todo), thread[t].back)
      /\ source' = source
      /\ overtaken' = overtaken
  BY DidEmitExchanges DEF At
<1> QED
  BY <1>1, SourceOther DEF SourcePlaces, HolderPlaces, Unreffing, Disposal, Preparation

LEMMA SourceCallbackReturns ==
  ASSUME Base, NEW t \in Thread, CallbackReturns(t), NEW p \in Source, SourceInv(p)
  PROVE  SourceInv(p)'
<1>1. /\ thread[t].at = "callback"
      /\ Goes(t, "emit", None, thread[t].todo, thread[t].back)
      /\ source' = source
      /\ overtaken' = overtaken
  BY DidCallbackReturns DEF At
<1> QED
  BY <1>1, SourceOther DEF SourcePlaces, HolderPlaces, Unreffing, Disposal, Preparation

LEMMA SourceEmitEnd ==
  ASSUME Base, NEW t \in Thread, EmitEnd(t), NEW p \in Source, SourceInv(p)
  PROVE  SourceInv(p)'
<1>1. /\ thread[t].at = "emit"
      /\ Goes(t, "idle", None, <<>>, "idle")
      /\ source' = source
      /\ overtaken' = overtaken
  BY DidEmitEnd DEF At
<1> QED
  BY <1>1, SourceOther DEF SourcePlaces, HolderPlaces, Unreffing, Disposal, Preparation

LEMMA SourceConnectOn ==
  ASSUME Base, NEW t \in Thread, NEW u \in User, Connect(t, u), ~cancelled,
         NEW p \in Source, SourceInv(p)
  PROVE  SourceInv(p)'
<1>1. /\ thread[t].at = "idle"
      /\ Goes(t, thread[t].at, thread[t].h, thread[t].todo, thread[t].back)
      /\ source' = source
      /\ overtaken' = overtaken
  BY DidConnectOn DEF At
<1> QED
  BY <1>1, SourceOther DEF SourcePlaces, HolderPlaces, Unreffing, Disposal, Preparation

LEMMA SourceConnectOff ==
  ASSUME Base, NEW t \in Thread, NEW u \in User, Connect(t, u), cancelled,
         NEW p \in Source, SourceInv(p)
  PROVE  SourceInv(p)'
<1>1. /\ thread[t].at = "idle"
      /\ Goes(t, "direct", u, thread[t].todo, thread[t].back)
      /\ source' = source
      /\ overtaken' = overtaken
  BY DidConnectOff DEF At
<1> QED
  BY <1>1, SourceOther DEF SourcePlaces, HolderPlaces, Unreffing, Disposal, Preparation

LEMMA SourceDirectReturns ==
  ASSUME Base, NEW t \in Thread, DirectReturns(t), NEW p \in Source, SourceInv(p)
  PROVE  SourceInv(p)'
<1>1. /\ thread[t].at = "direct"
      /\ Goes(t, "idle", None, <<>>, "idle")
      /\ source' = source
      /\ overtaken' = overtaken
  BY DidDirectReturns DEF At
<1> QED
  BY <1>1, SourceOther DEF SourcePlaces, HolderPlaces, Unreffing, Disposal, Preparation

LEMMA SourceDisconnect ==
  ASSUME Base, NEW t \in Thread, NEW u \in User, Disconnect(t, u),
         NEW p \in Source, SourceInv(p)
  PROVE  SourceInv(p)'
<1>1. /\ thread[t].at = "idle"
      /\ Goes(t, "wait", u, thread[t].todo, thread[t].back)
      /\ source' = source
      /\ overtaken' = overtaken
  BY DidDisconnect DEF At
<1> QED
  BY <1>1, SourceOther DEF SourcePlaces, HolderPlaces, Unreffing, Disposal, Preparation

LEMMA SourceDisconnectLock ==
  ASSUME Base, NEW t \in Thread, DisconnectLock(t), NEW p \in Source, SourceInv(p)
  PROVE  SourceInv(p)'
<1>1. /\ thread[t].at = "wait"
      /\ Goes(t, "gap", thread[t].h, thread[t].todo, thread[t].back)
      /\ source' = source
      /\ overtaken' = overtaken
  BY DidDisconnectLock DEF At
<1> QED
  BY <1>1, SourceOther DEF SourcePlaces, HolderPlaces, Unreffing, Disposal, Preparation

LEMMA SourceDisconnectEnds ==
  ASSUME Base, NEW t \in Thread, DisconnectEnds(t), NEW p \in Source, SourceInv(p)
  PROVE  SourceInv(p)'
<1>1. /\ thread[t].at = "gap"
      /\ Goes(t, "idle", None, <<>>, "idle")
      /\ source' = source
      /\ overtaken' = overtaken
  BY DidDisconnectEnds DEF At
<1> QED
  BY <1>1, SourceOther DEF SourcePlaces, HolderPlaces, Unreffing, Disposal, Preparation

LEMMA SourceReset ==
  ASSUME Base, NEW t \in Thread, Reset(t), NEW p \in Source, SourceInv(p)
  PROVE  SourceInv(p)'
<1>1. /\ thread[t].at = "idle"
      /\ Goes(t, thread[t].at, thread[t].h, thread[t].todo, thread[t].back)
      /\ source' = source
      /\ overtaken' = overtaken
  BY DidReset DEF At
<1> QED
  BY <1>1, SourceOther DEF SourcePlaces, HolderPlaces, Unreffing, Disposal, Preparation

LEMMA SourceMakePollfd ==
  ASSUME Base, NEW t \in Thread, MakePollfd(t), NEW p \in Source, SourceInv(p)
  PROVE  SourceInv(p)'
<1>1. /\ thread[t].at = "idle"
      /\ Goes(t, thread[t].at, thread[t].h, thread[t].todo, thread[t].back)
      /\ source' = source
      /\ overtaken' = overtaken
  BY DidMakePollfd DEF At
<1> QED
  BY <1>1, SourceOther DEF SourcePlaces, HolderPlaces, Unreffing, Disposal, Preparation

LEMMA SourceReleaseFd ==
  ASSUME Base, NEW t \in Thread, ReleaseFd(t), NEW p \in Source, SourceInv(p)
  PROVE  SourceInv(p)'
<1>1. /\ thread[t].at = "idle"
      /\ Goes(t, thread[t].at, thread[t].h, thread[t].todo, thread[t].back)
      /\ source' = source
      /\ overtaken' = overtaken
  BY DidReleaseFd DEF At
<1> QED
  BY <1>1, SourceOther DEF SourcePlaces, HolderPlaces, Unreffing, Disposal, Preparation

LEMMA SourceSourceNew ==
  ASSUME Base, NEW t \in Thread, NEW s \in Source, SourceNew(t, s),
         NEW p \in Source, SourceInv(p)
  PROVE  SourceInv(p)'
<1>1. ThreadInv(t) /\ thread[t] \in ThreadRecord /\ None \notin Source /\ User \cap Source = {}
  BY CancellableAssumption DEF Base, TypeOK
<1>2. /\ At(t, "idle") /\ source[s].phase = "none"
      /\ Goes(t, "new", s, thread[t].todo, thread[t].back)
      /\ Sets(s, "live", 1, TRUE, TRUE, FALSE, TRUE, FALSE, FALSE)
      /\ overtaken' = overtaken
  BY DidSourceNew
<1>3. /\ \A o \in Thread \ {t} : thread'[o] = thread[o]
      /\ thread'[t].at = "new" /\ thread'[t].h = s /\ thread'[t].back = thread[t].back
  BY <1>2 DEF Goes
<1>4. CASE p # s
  <2>1. SameSource(p)
    BY <1>2, <1>4 DEF SameSource, Sets
  <2>2. ~Works(t, p) /\ ~Works(t, p)'
    BY <1>1, <1>2, <1>3, <1>4 DEF Works, At, ThreadInv, Placed, SourcePlaces, HolderPlaces,
       Unreffing, Disposal, Preparation
  <2> QED
    BY <1>2, <1>3, <2>1, <2>2, <1>4, SourceKept
<1>e. CASE p = s
  <2>i. SourceInv(p) /\ Base
    OBVIOUS
  <2>s. /\ source'[p].phase = "live" /\ source'[p].refs = 1
        /\ source'[p].held = TRUE /\ source'[p].self = TRUE
        /\ source'[p].called = FALSE /\ source'[p].cancellable = TRUE
    BY <1>2, <1>e DEF Sets
  <2>t. /\ ~Holds(t, p) /\ ~Holds(t, p)'
        /\ ~Handles(t, p) /\ ~Handles(t, p)'
        /\ ~Disposes(t, p) /\ ~Disposes(t, p)'
        /\ ~Detaches(t, p) /\ ~Detaches(t, p)'
    BY <1>1, <1>2, <1>3, <1>e DEF Works, Holds, Handles, Disposes, Detaches, Handling,
       HolderPlaces, Unreffing, Disposal, Preparation, At, ThreadInv, Placed
  <2>o. \A o \in Thread \ {t} : /\ thread'[o] = thread[o] /\ (Holds(o, p)' <=> Holds(o, p))
                                /\ Handles(o, p)' <=> Handles(o, p)
                                /\ Disposes(o, p)' <=> Disposes(o, p)
                                /\ Detaches(o, p)' <=> Detaches(o, p)
    BY <1>3 DEF Holds, Handles, Disposes, Detaches
  <2>n. \A o \in Thread : ~Holds(o, p) /\ ~Disposes(o, p)
    <3>1. \A o \in Thread : ~Holds(o, p)
      BY <1>2, <1>e, <2>i, Counted
    <3> QED
      BY <3>1 DEF Holds, Disposes, HolderPlaces, Unreffing
  <2>u. Cardinality(Holders(p)) = 0 /\ ~source[p].held
    BY <1>2, <1>e, <2>i, Counted
  <2>3. Cardinality(Holders(p))' = Cardinality(Holders(p))
    BY <2>t, <2>o, HoldersStay
  <2>4. CountInv(p)'
    <3>1. source[p].refs \in Nat /\ Cardinality(Holders(p)) \in Nat /\ source[p].refs = Bit(source[p].held) + Cardinality(Holders(p))
      BY <2>i, Counted DEF SourceInv, CountInv
    <3>2. source'[p].refs = Bit(source'[p].held) + Cardinality(Holders(p))'
      BY <1>2, <1>e, <2>s, <2>3, <3>1, <2>n, <2>u DEF Bit
    <3>3. source'[p].phase = "live" <=> source'[p].refs # 0
      <4>1. source[p].phase = "live" <=> source[p].refs # 0
        BY <2>i DEF SourceInv, CountInv
      <4> QED
        BY <2>s, <4>1
    <3>4. source'[p].phase # "live" => ~source'[p].self
      BY <2>i, <2>s, <2>t, <2>n, <2>u DEF SourceInv, CountInv
    <3>5. \A o \in Thread : thread'[o].h = p /\ At(o, "new")' => source'[p].held
      BY <1>2, <1>3, <1>e, <2>i, <2>s, <2>o DEF SourceInv, CountInv, At
    <3> QED
      BY <3>2, <3>3, <3>4, <3>5 DEF CountInv
  <2>5. ASSUME p \notin overtaken' PROVE HandlerInv(p)'
    <3>h. HandlerInv(p)
      BY <1>2, <2>5, <2>i DEF SourceInv
    <3>v. \A o \in Thread : ~Handles(o, p)
      BY <1>2, <1>e, <3>h DEF HandlerInv
    <3>1. \A o \in Thread : Handles(o, p)' => ~source'[p].self /\ ~source'[p].called /\ source'[p].phase = "live"
      BY <3>h, <2>s, <2>t, <2>o, <2>n, <3>v DEF HandlerInv
    <3>2. source'[p].self /\ source'[p].called => \E o \in Thread : thread'[o].h = p /\ At(o, "prepare")'
      BY <1>2, <3>h, <2>s, <2>t, <2>o, <2>n, <3>v DEF HandlerInv, At
    <3>3. \A o \in Thread : thread'[o].h = p /\ At(o, "prepare2")' => ~source'[p].called
      BY <1>2, <1>3, <1>e, <3>h, <2>s, <2>o, <2>n, <3>v DEF HandlerInv, At, Preparation
    <3>4. ~source'[p].cancellable =>
            (\E o \in Thread : Detaches(o, p)') \/ (\A o \in Thread : ~Handles(o, p)')
      BY <1>2, <1>e, <3>h, <2>s, <2>t, <2>o, <2>n, <3>v DEF HandlerInv
    <3> QED
      BY <3>1, <3>2, <3>3, <3>4 DEF HandlerInv
  <2>6. DisposeInv(p)'
    <3>1. ASSUME NEW o \in Thread, Disposes(o, p)' PROVE Disposer(o, p)'
      BY <1>2, <1>3, <1>e, <2>i, <2>s, <2>t, <2>o, <3>1, <2>n DEF SourceInv, DisposeInv, Disposer, Detached, At
    <3>2. ASSUME ~source'[p].cancellable PROVE Detached(p)'
      BY <1>1, <1>2, <1>3, <1>e, <2>i, <2>s, <2>t, <2>o, <3>2, <2>n DEF SourceInv, DisposeInv, Disposer, Detached, At, Preparation
    <3> QED
      BY <3>1, <3>2 DEF DisposeInv
  <2> QED
    BY <2>4, <2>5, <2>6 DEF SourceInv
<1> QED
  BY <1>4, <1>e

LEMMA SourceSourceChecks ==
  ASSUME Base, NEW t \in Thread, SourceChecks(t), NEW p \in Source, SourceInv(p)
  PROVE  SourceInv(p)'
<1>1. ThreadInv(t) /\ thread[t] \in ThreadRecord /\ None \notin Source /\ User \cap Source = {}
  BY CancellableAssumption DEF Base, TypeOK
<1>2. /\ At(t, "new") /\ thread[t].h \in Source
      /\ Goes(t, "idle", None, <<>>, "idle")
      /\ Sets(thread[t].h, source[thread[t].h].phase, source[thread[t].h].refs,
             source[thread[t].h].held, source[thread[t].h].self, source[thread[t].h].called,
             source[thread[t].h].cancellable, (source[thread[t].h].ready \/ cancelled),
             source[thread[t].h].dispatched)
      /\ overtaken' = overtaken
  BY DidSourceChecks
<1>3. /\ \A o \in Thread \ {t} : thread'[o] = thread[o]
      /\ thread'[t].at = "idle" /\ thread'[t].h = None /\ thread'[t].back = "idle"
  BY <1>2 DEF Goes
<1>4. CASE p # thread[t].h
  <2>1. SameSource(p)
    BY <1>2, <1>4 DEF SameSource, Sets
  <2>2. ~Works(t, p) /\ ~Works(t, p)'
    BY <1>1, <1>2, <1>3, <1>4 DEF Works, At, ThreadInv, Placed, SourcePlaces, HolderPlaces,
       Unreffing, Disposal, Preparation
  <2> QED
    BY <1>2, <1>3, <2>1, <2>2, <1>4, SourceKept
<1>e. CASE p = thread[t].h
  <2>i. SourceInv(p) /\ Base
    OBVIOUS
  <2>s. /\ source'[p].phase = source[p].phase /\ source'[p].refs = source[p].refs
        /\ source'[p].held = source[p].held /\ source'[p].self = source[p].self
        /\ source'[p].called = source[p].called /\ source'[p].cancellable = source[p].cancellable
    BY <1>2, <1>e DEF Sets
  <2>t. /\ ~Holds(t, p) /\ ~Holds(t, p)'
        /\ ~Handles(t, p) /\ ~Handles(t, p)'
        /\ ~Disposes(t, p) /\ ~Disposes(t, p)'
        /\ ~Detaches(t, p) /\ ~Detaches(t, p)'
    BY <1>1, <1>2, <1>3, <1>e DEF Works, Holds, Handles, Disposes, Detaches, Handling,
       HolderPlaces, Unreffing, Disposal, Preparation, At, ThreadInv, Placed
  <2>o. \A o \in Thread \ {t} : /\ thread'[o] = thread[o] /\ (Holds(o, p)' <=> Holds(o, p))
                                /\ Handles(o, p)' <=> Handles(o, p)
                                /\ Disposes(o, p)' <=> Disposes(o, p)
                                /\ Detaches(o, p)' <=> Detaches(o, p)
    BY <1>3 DEF Holds, Handles, Disposes, Detaches
  <2>3. Cardinality(Holders(p))' = Cardinality(Holders(p))
    BY <2>t, <2>o, HoldersStay
  <2>4. CountInv(p)'
    <3>1. source[p].refs \in Nat /\ Cardinality(Holders(p)) \in Nat /\ source[p].refs = Bit(source[p].held) + Cardinality(Holders(p))
      BY <2>i, Counted DEF SourceInv, CountInv
    <3>2. source'[p].refs = Bit(source'[p].held) + Cardinality(Holders(p))'
      BY <1>2, <1>e, <2>s, <2>3, <3>1 DEF Bit
    <3>3. source'[p].phase = "live" <=> source'[p].refs # 0
      <4>1. source[p].phase = "live" <=> source[p].refs # 0
        BY <2>i DEF SourceInv, CountInv
      <4> QED
        BY <2>s, <4>1
    <3>4. source'[p].phase # "live" => ~source'[p].self
      BY <2>i, <2>s, <2>t DEF SourceInv, CountInv
    <3>5. \A o \in Thread : thread'[o].h = p /\ At(o, "new")' => source'[p].held
      BY <1>1, <1>2, <1>3, <1>e, <2>i, <2>s, <2>o DEF SourceInv, CountInv, At
    <3> QED
      BY <3>2, <3>3, <3>4, <3>5 DEF CountInv
  <2>5. ASSUME p \notin overtaken' PROVE HandlerInv(p)'
    <3>h. HandlerInv(p)
      BY <1>2, <2>5, <2>i DEF SourceInv
    <3>1. \A o \in Thread : Handles(o, p)' => ~source'[p].self /\ ~source'[p].called /\ source'[p].phase = "live"
      BY <3>h, <2>s, <2>t, <2>o DEF HandlerInv
    <3>2. source'[p].self /\ source'[p].called => \E o \in Thread : thread'[o].h = p /\ At(o, "prepare")'
      BY <1>2, <3>h, <2>s, <2>t, <2>o DEF HandlerInv, At
    <3>3. \A o \in Thread : thread'[o].h = p /\ At(o, "prepare2")' => ~source'[p].called
      BY <1>1, <1>2, <1>3, <1>e, <3>h, <2>s, <2>o DEF HandlerInv, At, Preparation
    <3>4. ~source'[p].cancellable =>
            (\E o \in Thread : Detaches(o, p)') \/ (\A o \in Thread : ~Handles(o, p)')
      BY <1>2, <1>e, <3>h, <2>s, <2>t, <2>o DEF HandlerInv
    <3> QED
      BY <3>1, <3>2, <3>3, <3>4 DEF HandlerInv
  <2>6. DisposeInv(p)'
    <3>1. ASSUME NEW o \in Thread, Disposes(o, p)' PROVE Disposer(o, p)'
      BY <1>2, <1>3, <1>e, <2>i, <2>s, <2>t, <2>o, <3>1 DEF SourceInv, DisposeInv, Disposer, Detached, At
    <3>2. ASSUME ~source'[p].cancellable PROVE Detached(p)'
      BY <1>1, <1>2, <1>3, <1>e, <2>i, <2>s, <2>t, <2>o, <3>2 DEF SourceInv, DisposeInv, Disposer, Detached, At, Preparation
    <3> QED
      BY <3>1, <3>2 DEF DisposeInv
  <2> QED
    BY <2>4, <2>5, <2>6 DEF SourceInv
<1> QED
  BY <1>4, <1>e

LEMMA SourceExchangeTakes ==
  ASSUME Base, NEW t \in Thread, Exchange(t), Rec(t).self, NEW p \in Source, SourceInv(p)
  PROVE  SourceInv(p)'
<1>1. ThreadInv(t) /\ thread[t] \in ThreadRecord /\ None \notin Source /\ User \cap Source = {}
  BY CancellableAssumption DEF Base, TypeOK
<1>2. /\ At(t, "exchange") /\ thread[t].h \in Source
      /\ source[thread[t].h].self
      /\ Goes(t, "ref", thread[t].h, thread[t].todo, thread[t].back)
      /\ Sets(thread[t].h, source[thread[t].h].phase, source[thread[t].h].refs,
             source[thread[t].h].held, FALSE, source[thread[t].h].called,
             source[thread[t].h].cancellable, source[thread[t].h].ready,
             source[thread[t].h].dispatched)
      /\ overtaken' = overtaken
  BY DidExchangeTakes
<1>3. /\ \A o \in Thread \ {t} : thread'[o] = thread[o]
      /\ thread'[t].at = "ref" /\ thread'[t].h = thread[t].h /\ thread'[t].back = thread[t].back
  BY <1>2 DEF Goes
<1>4. CASE p # thread[t].h
  <2>1. SameSource(p)
    BY <1>2, <1>4 DEF SameSource, Sets
  <2>2. ~Works(t, p) /\ ~Works(t, p)'
    BY <1>1, <1>2, <1>3, <1>4 DEF Works, At, ThreadInv, Placed, SourcePlaces, HolderPlaces,
       Unreffing, Disposal, Preparation
  <2> QED
    BY <1>2, <1>3, <2>1, <2>2, <1>4, SourceKept
<1>e. CASE p = thread[t].h
  <2>i. SourceInv(p) /\ Base
    OBVIOUS
  <2>s. /\ source'[p].phase = source[p].phase /\ source'[p].refs = source[p].refs
        /\ source'[p].held = source[p].held /\ source'[p].self = FALSE
        /\ source'[p].called = source[p].called /\ source'[p].cancellable = source[p].cancellable
    BY <1>2, <1>e DEF Sets
  <2>t. /\ ~Holds(t, p) /\ ~Holds(t, p)'
        /\ ~Handles(t, p) /\ Handles(t, p)'
        /\ ~Disposes(t, p) /\ ~Disposes(t, p)'
        /\ ~Detaches(t, p) /\ ~Detaches(t, p)'
    BY <1>1, <1>2, <1>3, <1>e DEF Works, Holds, Handles, Disposes, Detaches, Handling,
       HolderPlaces, Unreffing, Disposal, Preparation, At, ThreadInv, Placed
  <2>o. \A o \in Thread \ {t} : /\ thread'[o] = thread[o] /\ (Holds(o, p)' <=> Holds(o, p))
                                /\ Handles(o, p)' <=> Handles(o, p)
                                /\ Disposes(o, p)' <=> Disposes(o, p)
                                /\ Detaches(o, p)' <=> Detaches(o, p)
    BY <1>3 DEF Holds, Handles, Disposes, Detaches
  <2>n. source[p].phase = "live"
    BY <1>2, <1>e, <2>i DEF SourceInv, CountInv
  <2>3. Cardinality(Holders(p))' = Cardinality(Holders(p))
    BY <2>t, <2>o, HoldersStay
  <2>4. CountInv(p)'
    <3>1. source[p].refs \in Nat /\ Cardinality(Holders(p)) \in Nat /\ source[p].refs = Bit(source[p].held) + Cardinality(Holders(p))
      BY <2>i, Counted DEF SourceInv, CountInv
    <3>2. source'[p].refs = Bit(source'[p].held) + Cardinality(Holders(p))'
      BY <1>2, <1>e, <2>s, <2>3, <3>1, <2>n DEF Bit
    <3>3. source'[p].phase = "live" <=> source'[p].refs # 0
      <4>1. source[p].phase = "live" <=> source[p].refs # 0
        BY <2>i DEF SourceInv, CountInv
      <4> QED
        BY <2>s, <4>1
    <3>4. source'[p].phase # "live" => ~source'[p].self
      BY <2>i, <2>s, <2>t, <2>n DEF SourceInv, CountInv
    <3>5. \A o \in Thread : thread'[o].h = p /\ At(o, "new")' => source'[p].held
      BY <1>2, <1>3, <1>e, <2>i, <2>s, <2>o DEF SourceInv, CountInv, At
    <3> QED
      BY <3>2, <3>3, <3>4, <3>5 DEF CountInv
  <2>5. ASSUME p \notin overtaken' PROVE HandlerInv(p)'
    <3>h. HandlerInv(p)
      BY <1>2, <2>5, <2>i DEF SourceInv
    <3>v. \A o \in Thread : ~Handles(o, p)
      BY <1>2, <1>e, <3>h DEF HandlerInv
    <3>w. \A o \in Thread : thread[o].h = p => thread[o].at # "prepare"
      BY <1>2, <2>5 DEF Base, BoundInv, Emitting, Emits, At, Handles, Handling, Preparation
    <3>x. ~source[p].called
      BY <1>2, <1>e, <3>h, <3>w DEF HandlerInv, At
    <3>y. ~source[p].cancellable => \E o \in Thread : Detaches(o, p)
      BY <1>2, <1>e, <2>i DEF SourceInv, DisposeInv, Disposer, Detached
    <3>1. \A o \in Thread : Handles(o, p)' => ~source'[p].self /\ ~source'[p].called /\ source'[p].phase = "live"
      BY <3>h, <2>s, <2>t, <2>o, <2>n, <3>v, <3>x, <3>y DEF HandlerInv
    <3>2. source'[p].self /\ source'[p].called => \E o \in Thread : thread'[o].h = p /\ At(o, "prepare")'
      BY <1>2, <3>h, <2>s, <2>t, <2>o, <2>n, <3>v, <3>x, <3>y DEF HandlerInv, At
    <3>3. \A o \in Thread : thread'[o].h = p /\ At(o, "prepare2")' => ~source'[p].called
      BY <1>2, <1>3, <1>e, <3>h, <2>s, <2>o, <2>n, <3>v, <3>x, <3>y DEF HandlerInv, At, Preparation
    <3>4. ~source'[p].cancellable =>
            (\E o \in Thread : Detaches(o, p)') \/ (\A o \in Thread : ~Handles(o, p)')
      BY <1>2, <1>e, <3>h, <2>s, <2>t, <2>o, <2>n, <3>v, <3>x, <3>y DEF HandlerInv
    <3> QED
      BY <3>1, <3>2, <3>3, <3>4 DEF HandlerInv
  <2>6. DisposeInv(p)'
    <3>1. ASSUME NEW o \in Thread, Disposes(o, p)' PROVE Disposer(o, p)'
      BY <1>2, <1>3, <1>e, <2>i, <2>s, <2>t, <2>o, <3>1 DEF SourceInv, DisposeInv, Disposer, Detached, At
    <3>2. ASSUME ~source'[p].cancellable PROVE Detached(p)'
      BY <1>1, <1>2, <1>3, <1>e, <2>i, <2>s, <2>t, <2>o, <3>2 DEF SourceInv, DisposeInv, Disposer, Detached, At, Preparation
    <3> QED
      BY <3>1, <3>2 DEF DisposeInv
  <2> QED
    BY <2>4, <2>5, <2>6 DEF SourceInv
<1> QED
  BY <1>4, <1>e

LEMMA SourceExchangeFails ==
  ASSUME Base, NEW t \in Thread, Exchange(t), ~Rec(t).self, NEW p \in Source, SourceInv(p)
  PROVE  SourceInv(p)'
<1>1. ThreadInv(t) /\ thread[t] \in ThreadRecord /\ None \notin Source /\ User \cap Source = {}
  BY CancellableAssumption DEF Base, TypeOK
<1>2. /\ At(t, "exchange") /\ thread[t].h \in Source
      /\ ~source[thread[t].h].self
      /\ Goes(t, "emit", None, thread[t].todo, thread[t].back)
      /\ Sets(thread[t].h, source[thread[t].h].phase, source[thread[t].h].refs,
             source[thread[t].h].held, FALSE, source[thread[t].h].called,
             source[thread[t].h].cancellable, source[thread[t].h].ready,
             source[thread[t].h].dispatched)
      /\ overtaken' = overtaken
  BY DidExchangeFails
<1>3. /\ \A o \in Thread \ {t} : thread'[o] = thread[o]
      /\ thread'[t].at = "emit" /\ thread'[t].h = None /\ thread'[t].back = thread[t].back
  BY <1>2 DEF Goes
<1>b. source[thread[t].h].self = FALSE
  BY <1>2 DEF Base, TypeOK, SourceRecord
<1>4. SameSource(p)
  BY <1>2, <1>b DEF SameSource, Sets
<1>5. ~Works(t, p) /\ ~Works(t, p)'
  BY <1>1, <1>2, <1>3 DEF Works, At, ThreadInv, Placed, SourcePlaces, HolderPlaces,
     Unreffing, Disposal, Preparation
<1> QED
  BY <1>2, <1>3, <1>4, <1>5, SourceKept

LEMMA SourceHandlerRefs ==
  ASSUME Base, NEW t \in Thread, HandlerRefs(t), Sound, NEW p \in Source, SourceInv(p)
  PROVE  SourceInv(p)'
<1>1. ThreadInv(t) /\ thread[t] \in ThreadRecord /\ None \notin Source /\ User \cap Source = {}
  BY CancellableAssumption DEF Base, TypeOK
<1>2. /\ At(t, "ref") /\ thread[t].h \in Source
      /\ source[thread[t].h].phase = "live"
      /\ Goes(t, "ready", thread[t].h, thread[t].todo, thread[t].back)
      /\ Sets(thread[t].h, source[thread[t].h].phase, source[thread[t].h].refs + 1,
             source[thread[t].h].held, source[thread[t].h].self, source[thread[t].h].called,
             source[thread[t].h].cancellable, source[thread[t].h].ready,
             source[thread[t].h].dispatched)
      /\ overtaken' = overtaken
  BY DidHandlerRefs
<1>3. /\ \A o \in Thread \ {t} : thread'[o] = thread[o]
      /\ thread'[t].at = "ready" /\ thread'[t].h = thread[t].h /\ thread'[t].back = thread[t].back
  BY <1>2 DEF Goes
<1>4. CASE p # thread[t].h
  <2>1. SameSource(p)
    BY <1>2, <1>4 DEF SameSource, Sets
  <2>2. ~Works(t, p) /\ ~Works(t, p)'
    BY <1>1, <1>2, <1>3, <1>4 DEF Works, At, ThreadInv, Placed, SourcePlaces, HolderPlaces,
       Unreffing, Disposal, Preparation
  <2> QED
    BY <1>2, <1>3, <2>1, <2>2, <1>4, SourceKept
<1>e. CASE p = thread[t].h
  <2>i. SourceInv(p) /\ Base
    OBVIOUS
  <2>s. /\ source'[p].phase = source[p].phase /\ source'[p].refs = source[p].refs + 1
        /\ source'[p].held = source[p].held /\ source'[p].self = source[p].self
        /\ source'[p].called = source[p].called /\ source'[p].cancellable = source[p].cancellable
    BY <1>2, <1>e DEF Sets
  <2>t. /\ ~Holds(t, p) /\ Holds(t, p)'
        /\ Handles(t, p) /\ Handles(t, p)'
        /\ ~Disposes(t, p) /\ ~Disposes(t, p)'
        /\ ~Detaches(t, p) /\ ~Detaches(t, p)'
    BY <1>1, <1>2, <1>3, <1>e DEF Works, Holds, Handles, Disposes, Detaches, Handling,
       HolderPlaces, Unreffing, Disposal, Preparation, At, ThreadInv, Placed
  <2>o. \A o \in Thread \ {t} : /\ thread'[o] = thread[o] /\ (Holds(o, p)' <=> Holds(o, p))
                                /\ Handles(o, p)' <=> Handles(o, p)
                                /\ Disposes(o, p)' <=> Disposes(o, p)
                                /\ Detaches(o, p)' <=> Detaches(o, p)
    BY <1>3 DEF Holds, Handles, Disposes, Detaches
  <2>n. source[p].phase = "live"
    BY <1>2, <1>e
  <2>3. Cardinality(Holders(p))' = Cardinality(Holders(p)) + 1
    BY <2>t, <2>o, HoldersJoin
  <2>4. CountInv(p)'
    <3>1. source[p].refs \in Nat /\ Cardinality(Holders(p)) \in Nat /\ source[p].refs = Bit(source[p].held) + Cardinality(Holders(p))
      BY <2>i, Counted DEF SourceInv, CountInv
    <3>2. source'[p].refs = Bit(source'[p].held) + Cardinality(Holders(p))'
      BY <1>2, <1>e, <2>s, <2>3, <3>1, <2>n DEF Bit
    <3>3. source'[p].phase = "live" <=> source'[p].refs # 0
      <4>1. source[p].phase = "live" <=> source[p].refs # 0
        BY <2>i DEF SourceInv, CountInv
      <4>2. source[p].refs # 0 /\ source'[p].refs # 0
        BY <1>2, <1>e, <2>i, <2>s, <2>t, <3>1, <4>1, Counted, <2>n
      <4> QED
        BY <2>s, <4>1, <4>2
    <3>4. source'[p].phase # "live" => ~source'[p].self
      BY <2>i, <2>s, <2>t, <2>n DEF SourceInv, CountInv
    <3>5. \A o \in Thread : thread'[o].h = p /\ At(o, "new")' => source'[p].held
      BY <1>2, <1>3, <1>e, <2>i, <2>s, <2>o DEF SourceInv, CountInv, At
    <3> QED
      BY <3>2, <3>3, <3>4, <3>5 DEF CountInv
  <2>5. ASSUME p \notin overtaken' PROVE HandlerInv(p)'
    <3>h. HandlerInv(p)
      BY <1>2, <2>5, <2>i DEF SourceInv
    <3>v. ~source[p].self /\ ~source[p].called
      BY <2>t, <3>h DEF HandlerInv
    <3>1. \A o \in Thread : Handles(o, p)' => ~source'[p].self /\ ~source'[p].called /\ source'[p].phase = "live"
      BY <3>h, <2>s, <2>t, <2>o, <2>n, <3>v DEF HandlerInv
    <3>2. source'[p].self /\ source'[p].called => \E o \in Thread : thread'[o].h = p /\ At(o, "prepare")'
      BY <1>2, <3>h, <2>s, <2>t, <2>o, <2>n, <3>v DEF HandlerInv, At
    <3>3. \A o \in Thread : thread'[o].h = p /\ At(o, "prepare2")' => ~source'[p].called
      BY <1>2, <1>3, <1>e, <3>h, <2>s, <2>o, <2>n, <3>v DEF HandlerInv, At, Preparation
    <3>4. ~source'[p].cancellable =>
            (\E o \in Thread : Detaches(o, p)') \/ (\A o \in Thread : ~Handles(o, p)')
      BY <1>2, <1>e, <3>h, <2>s, <2>t, <2>o, <2>n, <3>v DEF HandlerInv
    <3> QED
      BY <3>1, <3>2, <3>3, <3>4 DEF HandlerInv
  <2>6. DisposeInv(p)'
    <3>1. ASSUME NEW o \in Thread, Disposes(o, p)' PROVE Disposer(o, p)'
      BY <1>2, <1>3, <1>e, <2>i, <2>s, <2>t, <2>o, <3>1 DEF SourceInv, DisposeInv, Disposer, Detached, At
    <3>2. ASSUME ~source'[p].cancellable PROVE Detached(p)'
      BY <1>1, <1>2, <1>3, <1>e, <2>i, <2>s, <2>t, <2>o, <3>2 DEF SourceInv, DisposeInv, Disposer, Detached, At, Preparation
    <3> QED
      BY <3>1, <3>2 DEF DisposeInv
  <2> QED
    BY <2>4, <2>5, <2>6 DEF SourceInv
<1> QED
  BY <1>4, <1>e

LEMMA SourceHandlerReadies ==
  ASSUME Base, NEW t \in Thread, HandlerReadies(t), NEW p \in Source, SourceInv(p)
  PROVE  SourceInv(p)'
<1>1. ThreadInv(t) /\ thread[t] \in ThreadRecord /\ None \notin Source /\ User \cap Source = {}
  BY CancellableAssumption DEF Base, TypeOK
<1>2. /\ At(t, "ready") /\ thread[t].h \in Source
      /\ Goes(t, "called", thread[t].h, thread[t].todo, thread[t].back)
      /\ Sets(thread[t].h, source[thread[t].h].phase, source[thread[t].h].refs,
             source[thread[t].h].held, source[thread[t].h].self, source[thread[t].h].called,
             source[thread[t].h].cancellable, TRUE, source[thread[t].h].dispatched)
      /\ overtaken' = overtaken
  BY DidHandlerReadies
<1>3. /\ \A o \in Thread \ {t} : thread'[o] = thread[o]
      /\ thread'[t].at = "called" /\ thread'[t].h = thread[t].h /\ thread'[t].back = thread[t].back
  BY <1>2 DEF Goes
<1>4. CASE p # thread[t].h
  <2>1. SameSource(p)
    BY <1>2, <1>4 DEF SameSource, Sets
  <2>2. ~Works(t, p) /\ ~Works(t, p)'
    BY <1>1, <1>2, <1>3, <1>4 DEF Works, At, ThreadInv, Placed, SourcePlaces, HolderPlaces,
       Unreffing, Disposal, Preparation
  <2> QED
    BY <1>2, <1>3, <2>1, <2>2, <1>4, SourceKept
<1>e. CASE p = thread[t].h
  <2>i. SourceInv(p) /\ Base
    OBVIOUS
  <2>s. /\ source'[p].phase = source[p].phase /\ source'[p].refs = source[p].refs
        /\ source'[p].held = source[p].held /\ source'[p].self = source[p].self
        /\ source'[p].called = source[p].called /\ source'[p].cancellable = source[p].cancellable
    BY <1>2, <1>e DEF Sets
  <2>t. /\ Holds(t, p) /\ Holds(t, p)'
        /\ Handles(t, p) /\ Handles(t, p)'
        /\ ~Disposes(t, p) /\ ~Disposes(t, p)'
        /\ ~Detaches(t, p) /\ ~Detaches(t, p)'
    BY <1>1, <1>2, <1>3, <1>e DEF Works, Holds, Handles, Disposes, Detaches, Handling,
       HolderPlaces, Unreffing, Disposal, Preparation, At, ThreadInv, Placed
  <2>o. \A o \in Thread \ {t} : /\ thread'[o] = thread[o] /\ (Holds(o, p)' <=> Holds(o, p))
                                /\ Handles(o, p)' <=> Handles(o, p)
                                /\ Disposes(o, p)' <=> Disposes(o, p)
                                /\ Detaches(o, p)' <=> Detaches(o, p)
    BY <1>3 DEF Holds, Handles, Disposes, Detaches
  <2>n. source[p].phase = "live"
    BY <2>i, <2>t, Counted
  <2>3. Cardinality(Holders(p))' = Cardinality(Holders(p))
    BY <2>t, <2>o, HoldersStay
  <2>4. CountInv(p)'
    <3>1. source[p].refs \in Nat /\ Cardinality(Holders(p)) \in Nat /\ source[p].refs = Bit(source[p].held) + Cardinality(Holders(p))
      BY <2>i, Counted DEF SourceInv, CountInv
    <3>2. source'[p].refs = Bit(source'[p].held) + Cardinality(Holders(p))'
      BY <1>2, <1>e, <2>s, <2>3, <3>1, <2>n DEF Bit
    <3>3. source'[p].phase = "live" <=> source'[p].refs # 0
      <4>1. source[p].phase = "live" <=> source[p].refs # 0
        BY <2>i DEF SourceInv, CountInv
      <4> QED
        BY <2>s, <4>1
    <3>4. source'[p].phase # "live" => ~source'[p].self
      BY <2>i, <2>s, <2>t, <2>n DEF SourceInv, CountInv
    <3>5. \A o \in Thread : thread'[o].h = p /\ At(o, "new")' => source'[p].held
      BY <1>2, <1>3, <1>e, <2>i, <2>s, <2>o DEF SourceInv, CountInv, At
    <3> QED
      BY <3>2, <3>3, <3>4, <3>5 DEF CountInv
  <2>5. ASSUME p \notin overtaken' PROVE HandlerInv(p)'
    <3>h. HandlerInv(p)
      BY <1>2, <2>5, <2>i DEF SourceInv
    <3>v. ~source[p].self /\ ~source[p].called
      BY <2>t, <3>h DEF HandlerInv
    <3>1. \A o \in Thread : Handles(o, p)' => ~source'[p].self /\ ~source'[p].called /\ source'[p].phase = "live"
      BY <3>h, <2>s, <2>t, <2>o, <2>n, <3>v DEF HandlerInv
    <3>2. source'[p].self /\ source'[p].called => \E o \in Thread : thread'[o].h = p /\ At(o, "prepare")'
      BY <1>2, <3>h, <2>s, <2>t, <2>o, <2>n, <3>v DEF HandlerInv, At
    <3>3. \A o \in Thread : thread'[o].h = p /\ At(o, "prepare2")' => ~source'[p].called
      BY <1>2, <1>3, <1>e, <3>h, <2>s, <2>o, <2>n, <3>v DEF HandlerInv, At, Preparation
    <3>4. ~source'[p].cancellable =>
            (\E o \in Thread : Detaches(o, p)') \/ (\A o \in Thread : ~Handles(o, p)')
      BY <1>2, <1>e, <3>h, <2>s, <2>t, <2>o, <2>n, <3>v DEF HandlerInv
    <3> QED
      BY <3>1, <3>2, <3>3, <3>4 DEF HandlerInv
  <2>6. DisposeInv(p)'
    <3>1. ASSUME NEW o \in Thread, Disposes(o, p)' PROVE Disposer(o, p)'
      BY <1>2, <1>3, <1>e, <2>i, <2>s, <2>t, <2>o, <3>1 DEF SourceInv, DisposeInv, Disposer, Detached, At
    <3>2. ASSUME ~source'[p].cancellable PROVE Detached(p)'
      BY <1>1, <1>2, <1>3, <1>e, <2>i, <2>s, <2>t, <2>o, <3>2 DEF SourceInv, DisposeInv, Disposer, Detached, At, Preparation
    <3> QED
      BY <3>1, <3>2 DEF DisposeInv
  <2> QED
    BY <2>4, <2>5, <2>6 DEF SourceInv
<1> QED
  BY <1>4, <1>e

LEMMA SourceHandlerCalled ==
  ASSUME Base, NEW t \in Thread, HandlerCalled(t), NEW p \in Source, SourceInv(p)
  PROVE  SourceInv(p)'
<1>1. ThreadInv(t) /\ thread[t] \in ThreadRecord /\ None \notin Source /\ User \cap Source = {}
  BY CancellableAssumption DEF Base, TypeOK
<1>2. /\ At(t, "called") /\ thread[t].h \in Source
      /\ Goes(t, "unref", thread[t].h, thread[t].todo, "emit")
      /\ Sets(thread[t].h, source[thread[t].h].phase, source[thread[t].h].refs,
             source[thread[t].h].held, source[thread[t].h].self, TRUE,
             source[thread[t].h].cancellable, source[thread[t].h].ready,
             source[thread[t].h].dispatched)
      /\ overtaken' = overtaken
  BY DidHandlerCalled
<1>3. /\ \A o \in Thread \ {t} : thread'[o] = thread[o]
      /\ thread'[t].at = "unref" /\ thread'[t].h = thread[t].h /\ thread'[t].back = "emit"
  BY <1>2 DEF Goes
<1>4. CASE p # thread[t].h
  <2>1. SameSource(p)
    BY <1>2, <1>4 DEF SameSource, Sets
  <2>2. ~Works(t, p) /\ ~Works(t, p)'
    BY <1>1, <1>2, <1>3, <1>4 DEF Works, At, ThreadInv, Placed, SourcePlaces, HolderPlaces,
       Unreffing, Disposal, Preparation
  <2> QED
    BY <1>2, <1>3, <2>1, <2>2, <1>4, SourceKept
<1>e. CASE p = thread[t].h
  <2>i. SourceInv(p) /\ Base
    OBVIOUS
  <2>s. /\ source'[p].phase = source[p].phase /\ source'[p].refs = source[p].refs
        /\ source'[p].held = source[p].held /\ source'[p].self = source[p].self
        /\ source'[p].called = TRUE /\ source'[p].cancellable = source[p].cancellable
    BY <1>2, <1>e DEF Sets
  <2>t. /\ Holds(t, p) /\ Holds(t, p)'
        /\ Handles(t, p) /\ ~Handles(t, p)'
        /\ ~Disposes(t, p) /\ ~Disposes(t, p)'
        /\ ~Detaches(t, p) /\ ~Detaches(t, p)'
    BY <1>1, <1>2, <1>3, <1>e DEF Works, Holds, Handles, Disposes, Detaches, Handling,
       HolderPlaces, Unreffing, Disposal, Preparation, At, ThreadInv, Placed
  <2>o. \A o \in Thread \ {t} : /\ thread'[o] = thread[o] /\ (Holds(o, p)' <=> Holds(o, p))
                                /\ Handles(o, p)' <=> Handles(o, p)
                                /\ Disposes(o, p)' <=> Disposes(o, p)
                                /\ Detaches(o, p)' <=> Detaches(o, p)
    BY <1>3 DEF Holds, Handles, Disposes, Detaches
  <2>n. source[p].phase = "live"
    BY <2>i, <2>t, Counted
  <2>3. Cardinality(Holders(p))' = Cardinality(Holders(p))
    BY <2>t, <2>o, HoldersStay
  <2>4. CountInv(p)'
    <3>1. source[p].refs \in Nat /\ Cardinality(Holders(p)) \in Nat /\ source[p].refs = Bit(source[p].held) + Cardinality(Holders(p))
      BY <2>i, Counted DEF SourceInv, CountInv
    <3>2. source'[p].refs = Bit(source'[p].held) + Cardinality(Holders(p))'
      BY <1>2, <1>e, <2>s, <2>3, <3>1, <2>n DEF Bit
    <3>3. source'[p].phase = "live" <=> source'[p].refs # 0
      <4>1. source[p].phase = "live" <=> source[p].refs # 0
        BY <2>i DEF SourceInv, CountInv
      <4> QED
        BY <2>s, <4>1
    <3>4. source'[p].phase # "live" => ~source'[p].self
      BY <2>i, <2>s, <2>t, <2>n DEF SourceInv, CountInv
    <3>5. \A o \in Thread : thread'[o].h = p /\ At(o, "new")' => source'[p].held
      BY <1>2, <1>3, <1>e, <2>i, <2>s, <2>o DEF SourceInv, CountInv, At
    <3> QED
      BY <3>2, <3>3, <3>4, <3>5 DEF CountInv
  <2>5. ASSUME p \notin overtaken' PROVE HandlerInv(p)'
    <3>h. HandlerInv(p)
      BY <1>2, <2>5, <2>i DEF SourceInv
    <3>v. ~source[p].self /\ ~source[p].called
      BY <2>t, <3>h DEF HandlerInv
    <3>u. \A o \in Thread \ {t} : ~Handles(o, p)
      BY <1>2 DEF Base, MutexInv, Emitting, Emits, At, Handles, Handling
    <3>w. \A o \in Thread : thread[o].h = p => thread[o].at # "prepare2"
      BY <1>2, <2>5 DEF Base, BoundInv, Emitting, Emits, At, Handles, Handling, Preparation
    <3>1. \A o \in Thread : Handles(o, p)' => ~source'[p].self /\ ~source'[p].called /\ source'[p].phase = "live"
      BY <3>h, <2>s, <2>t, <2>o, <2>n, <3>u, <3>v, <3>w DEF HandlerInv
    <3>2. source'[p].self /\ source'[p].called => \E o \in Thread : thread'[o].h = p /\ At(o, "prepare")'
      BY <1>2, <3>h, <2>s, <2>t, <2>o, <2>n, <3>u, <3>v, <3>w DEF HandlerInv, At
    <3>3. \A o \in Thread : thread'[o].h = p /\ At(o, "prepare2")' => ~source'[p].called
      BY <1>2, <1>3, <1>e, <3>h, <2>s, <2>o, <2>n, <3>u, <3>v, <3>w DEF HandlerInv, At, Preparation
    <3>4. ~source'[p].cancellable =>
            (\E o \in Thread : Detaches(o, p)') \/ (\A o \in Thread : ~Handles(o, p)')
      BY <1>2, <1>e, <3>h, <2>s, <2>t, <2>o, <2>n, <3>u, <3>v, <3>w DEF HandlerInv
    <3> QED
      BY <3>1, <3>2, <3>3, <3>4 DEF HandlerInv
  <2>6. DisposeInv(p)'
    <3>1. ASSUME NEW o \in Thread, Disposes(o, p)' PROVE Disposer(o, p)'
      BY <1>2, <1>3, <1>e, <2>i, <2>s, <2>t, <2>o, <3>1 DEF SourceInv, DisposeInv, Disposer, Detached, At
    <3>2. ASSUME ~source'[p].cancellable PROVE Detached(p)'
      BY <1>1, <1>2, <1>3, <1>e, <2>i, <2>s, <2>t, <2>o, <3>2 DEF SourceInv, DisposeInv, Disposer, Detached, At, Preparation
    <3> QED
      BY <3>1, <3>2 DEF DisposeInv
  <2> QED
    BY <2>4, <2>5, <2>6 DEF SourceInv
<1> QED
  BY <1>4, <1>e

LEMMA SourcePrepare ==
  ASSUME Base, NEW t \in Thread, NEW s \in Source, Prepare(t, s), NEW p \in Source, SourceInv(p)
  PROVE  SourceInv(p)'
<1>1. ThreadInv(t) /\ thread[t] \in ThreadRecord /\ None \notin Source /\ User \cap Source = {}
  BY CancellableAssumption DEF Base, TypeOK
<1>2. /\ At(t, "idle") /\ source[s].held /\ cancelledRunning = 0
      /\ \A o \in Thread : thread[o].h = s => thread[o].at \notin Preparation
      /\ Goes(t, "prepare", s, thread[t].todo, thread[t].back)
      /\ Sets(s, source[s].phase, source[s].refs + 1, source[s].held, source[s].self,
             source[s].called, source[s].cancellable, source[s].ready, source[s].dispatched)
      /\ overtaken' = overtaken \ {s}
  BY DidPrepare
<1>3. /\ \A o \in Thread \ {t} : thread'[o] = thread[o]
      /\ thread'[t].at = "prepare" /\ thread'[t].h = s /\ thread'[t].back = thread[t].back
  BY <1>2 DEF Goes
<1>4. CASE p # s
  <2>1. SameSource(p)
    BY <1>2, <1>4 DEF SameSource, Sets
  <2>2. ~Works(t, p) /\ ~Works(t, p)'
    BY <1>1, <1>2, <1>3, <1>4 DEF Works, At, ThreadInv, Placed, SourcePlaces, HolderPlaces,
       Unreffing, Disposal, Preparation
  <2> QED
    BY <1>2, <1>3, <2>1, <2>2, <1>4, SourceKept
<1>e. CASE p = s
  <2>i. SourceInv(p) /\ Base
    OBVIOUS
  <2>s. /\ source'[p].phase = source[p].phase /\ source'[p].refs = source[p].refs + 1
        /\ source'[p].held = source[p].held /\ source'[p].self = source[p].self
        /\ source'[p].called = source[p].called /\ source'[p].cancellable = source[p].cancellable
    BY <1>2, <1>e DEF Sets
  <2>t. /\ ~Holds(t, p) /\ Holds(t, p)'
        /\ ~Handles(t, p) /\ ~Handles(t, p)'
        /\ ~Disposes(t, p) /\ ~Disposes(t, p)'
        /\ ~Detaches(t, p) /\ ~Detaches(t, p)'
    BY <1>1, <1>2, <1>3, <1>e DEF Works, Holds, Handles, Disposes, Detaches, Handling,
       HolderPlaces, Unreffing, Disposal, Preparation, At, ThreadInv, Placed
  <2>o. \A o \in Thread \ {t} : /\ thread'[o] = thread[o] /\ (Holds(o, p)' <=> Holds(o, p))
                                /\ Handles(o, p)' <=> Handles(o, p)
                                /\ Disposes(o, p)' <=> Disposes(o, p)
                                /\ Detaches(o, p)' <=> Detaches(o, p)
    BY <1>3 DEF Holds, Handles, Disposes, Detaches
  <2>n. source[p].held /\ source[p].cancellable
    BY <1>2, <1>e, <2>i DEF SourceInv, DisposeInv, Disposer, Detached
  <2>u. \A o \in Thread : ~Disposes(o, p)
    BY <2>n, <2>i DEF SourceInv, DisposeInv, Disposer, Detached
  <2>3. Cardinality(Holders(p))' = Cardinality(Holders(p)) + 1
    BY <2>t, <2>o, HoldersJoin
  <2>4. CountInv(p)'
    <3>1. source[p].refs \in Nat /\ Cardinality(Holders(p)) \in Nat /\ source[p].refs = Bit(source[p].held) + Cardinality(Holders(p))
      BY <2>i, Counted DEF SourceInv, CountInv
    <3>2. source'[p].refs = Bit(source'[p].held) + Cardinality(Holders(p))'
      BY <1>2, <1>e, <2>s, <2>3, <3>1, <2>n DEF Bit
    <3>3. source'[p].phase = "live" <=> source'[p].refs # 0
      <4>1. source[p].phase = "live" <=> source[p].refs # 0
        BY <2>i DEF SourceInv, CountInv
      <4>2. source[p].refs # 0
        BY <2>i, <2>n, Counted
      <4>3. source'[p].refs # 0
        BY <2>s, <3>1
      <4> QED
        BY <2>s, <4>1, <4>2, <4>3
    <3>4. source'[p].phase # "live" => ~source'[p].self
      BY <2>i, <2>s, <2>t, <2>n DEF SourceInv, CountInv
    <3>5. \A o \in Thread : thread'[o].h = p /\ At(o, "new")' => source'[p].held
      BY <1>2, <1>3, <1>e, <2>i, <2>s, <2>o DEF SourceInv, CountInv, At
    <3> QED
      BY <3>2, <3>3, <3>4, <3>5 DEF CountInv
  <2>5. ASSUME p \notin overtaken' PROVE HandlerInv(p)'
    <3>1. \A o \in Thread : ~Emitting(o) /\ ~Handles(o, p)'
      <4>1. \A o \in Thread : ~Emitting(o)
        BY <1>2, Free
      <4> QED
        BY <2>o, <2>t, <4>1 DEF Handles, Handling, Emitting, Emits
    <3>2. thread'[t].h = p /\ At(t, "prepare")'
      BY <1>3, <1>e DEF At
    <3>3. \A o \in Thread : thread'[o].h = p => ~At(o, "prepare2")'
      BY <1>2, <1>3, <1>e DEF At, Preparation
    <3> QED
      BY <2>n, <2>s, <3>1, <3>2, <3>3 DEF HandlerInv
  <2>6. DisposeInv(p)'
    <3>1. ASSUME NEW o \in Thread, Disposes(o, p)' PROVE Disposer(o, p)'
      BY <1>2, <1>3, <1>e, <2>i, <2>s, <2>t, <2>o, <3>1, <2>n, <2>u DEF SourceInv, DisposeInv, Disposer, Detached, At
    <3>2. ASSUME ~source'[p].cancellable PROVE Detached(p)'
      BY <1>1, <1>2, <1>3, <1>e, <2>i, <2>s, <2>t, <2>o, <3>2, <2>n, <2>u DEF SourceInv, DisposeInv, Disposer, Detached, At, Preparation
    <3> QED
      BY <3>1, <3>2 DEF DisposeInv
  <2> QED
    BY <2>4, <2>5, <2>6 DEF SourceInv
<1> QED
  BY <1>4, <1>e

LEMMA SourcePrepareFlag ==
  ASSUME Base, NEW t \in Thread, PrepareFlag(t), NEW p \in Source, SourceInv(p)
  PROVE  SourceInv(p)'
<1>1. ThreadInv(t) /\ thread[t] \in ThreadRecord /\ None \notin Source /\ User \cap Source = {}
  BY CancellableAssumption DEF Base, TypeOK
<1>2. /\ At(t, "prepare") /\ thread[t].h \in Source
      /\ Goes(t, "prepare2", thread[t].h, thread[t].todo, thread[t].back)
      /\ Sets(thread[t].h, source[thread[t].h].phase, source[thread[t].h].refs,
             source[thread[t].h].held, source[thread[t].h].self, FALSE,
             source[thread[t].h].cancellable, source[thread[t].h].ready,
             source[thread[t].h].dispatched)
      /\ overtaken' = overtaken
  BY DidPrepareFlag
<1>3. /\ \A o \in Thread \ {t} : thread'[o] = thread[o]
      /\ thread'[t].at = "prepare2" /\ thread'[t].h = thread[t].h /\ thread'[t].back = thread[t].back
  BY <1>2 DEF Goes
<1>4. CASE p # thread[t].h
  <2>1. SameSource(p)
    BY <1>2, <1>4 DEF SameSource, Sets
  <2>2. ~Works(t, p) /\ ~Works(t, p)'
    BY <1>1, <1>2, <1>3, <1>4 DEF Works, At, ThreadInv, Placed, SourcePlaces, HolderPlaces,
       Unreffing, Disposal, Preparation
  <2> QED
    BY <1>2, <1>3, <2>1, <2>2, <1>4, SourceKept
<1>e. CASE p = thread[t].h
  <2>i. SourceInv(p) /\ Base
    OBVIOUS
  <2>s. /\ source'[p].phase = source[p].phase /\ source'[p].refs = source[p].refs
        /\ source'[p].held = source[p].held /\ source'[p].self = source[p].self
        /\ source'[p].called = FALSE /\ source'[p].cancellable = source[p].cancellable
    BY <1>2, <1>e DEF Sets
  <2>t. /\ Holds(t, p) /\ Holds(t, p)'
        /\ ~Handles(t, p) /\ ~Handles(t, p)'
        /\ ~Disposes(t, p) /\ ~Disposes(t, p)'
        /\ ~Detaches(t, p) /\ ~Detaches(t, p)'
    BY <1>1, <1>2, <1>3, <1>e DEF Works, Holds, Handles, Disposes, Detaches, Handling,
       HolderPlaces, Unreffing, Disposal, Preparation, At, ThreadInv, Placed
  <2>o. \A o \in Thread \ {t} : /\ thread'[o] = thread[o] /\ (Holds(o, p)' <=> Holds(o, p))
                                /\ Handles(o, p)' <=> Handles(o, p)
                                /\ Disposes(o, p)' <=> Disposes(o, p)
                                /\ Detaches(o, p)' <=> Detaches(o, p)
    BY <1>3 DEF Holds, Handles, Disposes, Detaches
  <2>n. source[p].cancellable
    BY <1>2, <1>e, <2>i DEF SourceInv, DisposeInv, Disposer, Detached, At, Preparation
  <2>u. \A o \in Thread : ~Disposes(o, p)
    BY <1>2, <2>i, <2>t DEF SourceInv, DisposeInv, Disposer, Detached, At
  <2>3. Cardinality(Holders(p))' = Cardinality(Holders(p))
    BY <2>t, <2>o, HoldersStay
  <2>4. CountInv(p)'
    <3>1. source[p].refs \in Nat /\ Cardinality(Holders(p)) \in Nat /\ source[p].refs = Bit(source[p].held) + Cardinality(Holders(p))
      BY <2>i, Counted DEF SourceInv, CountInv
    <3>2. source'[p].refs = Bit(source'[p].held) + Cardinality(Holders(p))'
      BY <1>2, <1>e, <2>s, <2>3, <3>1, <2>n DEF Bit
    <3>3. source'[p].phase = "live" <=> source'[p].refs # 0
      <4>1. source[p].phase = "live" <=> source[p].refs # 0
        BY <2>i DEF SourceInv, CountInv
      <4> QED
        BY <2>s, <4>1
    <3>4. source'[p].phase # "live" => ~source'[p].self
      BY <2>i, <2>s, <2>t, <2>n DEF SourceInv, CountInv
    <3>5. \A o \in Thread : thread'[o].h = p /\ At(o, "new")' => source'[p].held
      BY <1>2, <1>3, <1>e, <2>i, <2>s, <2>o DEF SourceInv, CountInv, At
    <3> QED
      BY <3>2, <3>3, <3>4, <3>5 DEF CountInv
  <2>5. ASSUME p \notin overtaken' PROVE HandlerInv(p)'
    <3>h. HandlerInv(p)
      BY <1>2, <2>5, <2>i DEF SourceInv
    <3>1. \A o \in Thread : Handles(o, p)' => ~source'[p].self /\ ~source'[p].called /\ source'[p].phase = "live"
      BY <3>h, <2>s, <2>t, <2>o, <2>n DEF HandlerInv
    <3>2. source'[p].self /\ source'[p].called => \E o \in Thread : thread'[o].h = p /\ At(o, "prepare")'
      BY <1>2, <3>h, <2>s, <2>t, <2>o, <2>n DEF HandlerInv, At
    <3>3. \A o \in Thread : thread'[o].h = p /\ At(o, "prepare2")' => ~source'[p].called
      BY <1>2, <1>3, <1>e, <3>h, <2>s, <2>o, <2>n DEF HandlerInv, At, Preparation
    <3>4. ~source'[p].cancellable =>
            (\E o \in Thread : Detaches(o, p)') \/ (\A o \in Thread : ~Handles(o, p)')
      BY <1>2, <1>e, <3>h, <2>s, <2>t, <2>o, <2>n DEF HandlerInv
    <3> QED
      BY <3>1, <3>2, <3>3, <3>4 DEF HandlerInv
  <2>6. DisposeInv(p)'
    <3>1. ASSUME NEW o \in Thread, Disposes(o, p)' PROVE Disposer(o, p)'
      BY <1>2, <1>3, <1>e, <2>i, <2>s, <2>t, <2>o, <3>1, <2>n, <2>u DEF SourceInv, DisposeInv, Disposer, Detached, At
    <3>2. ASSUME ~source'[p].cancellable PROVE Detached(p)'
      BY <1>1, <1>2, <1>3, <1>e, <2>i, <2>s, <2>t, <2>o, <3>2, <2>n, <2>u DEF SourceInv, DisposeInv, Disposer, Detached, At, Preparation
    <3> QED
      BY <3>1, <3>2 DEF DisposeInv
  <2> QED
    BY <2>4, <2>5, <2>6 DEF SourceInv
<1> QED
  BY <1>4, <1>e

LEMMA SourcePrepareSelf ==
  ASSUME Base, NEW t \in Thread, PrepareSelf(t), NEW p \in Source, SourceInv(p)
  PROVE  SourceInv(p)'
<1>1. ThreadInv(t) /\ thread[t] \in ThreadRecord /\ None \notin Source /\ User \cap Source = {}
  BY CancellableAssumption DEF Base, TypeOK
<1>2. /\ At(t, "prepare2") /\ thread[t].h \in Source
      /\ Goes(t, "unref", thread[t].h, thread[t].todo, thread[t].back)
      /\ Sets(thread[t].h, source[thread[t].h].phase, source[thread[t].h].refs,
             source[thread[t].h].held, TRUE, source[thread[t].h].called,
             source[thread[t].h].cancellable, source[thread[t].h].ready,
             source[thread[t].h].dispatched)
      /\ overtaken' = overtaken
  BY DidPrepareSelf
<1>3. /\ \A o \in Thread \ {t} : thread'[o] = thread[o]
      /\ thread'[t].at = "unref" /\ thread'[t].h = thread[t].h /\ thread'[t].back = thread[t].back
  BY <1>2 DEF Goes
<1>4. CASE p # thread[t].h
  <2>1. SameSource(p)
    BY <1>2, <1>4 DEF SameSource, Sets
  <2>2. ~Works(t, p) /\ ~Works(t, p)'
    BY <1>1, <1>2, <1>3, <1>4 DEF Works, At, ThreadInv, Placed, SourcePlaces, HolderPlaces,
       Unreffing, Disposal, Preparation
  <2> QED
    BY <1>2, <1>3, <2>1, <2>2, <1>4, SourceKept
<1>e. CASE p = thread[t].h
  <2>i. SourceInv(p) /\ Base
    OBVIOUS
  <2>s. /\ source'[p].phase = source[p].phase /\ source'[p].refs = source[p].refs
        /\ source'[p].held = source[p].held /\ source'[p].self = TRUE
        /\ source'[p].called = source[p].called /\ source'[p].cancellable = source[p].cancellable
    BY <1>2, <1>e DEF Sets
  <2>t. /\ Holds(t, p) /\ Holds(t, p)'
        /\ ~Handles(t, p) /\ ~Handles(t, p)'
        /\ ~Disposes(t, p) /\ ~Disposes(t, p)'
        /\ ~Detaches(t, p) /\ ~Detaches(t, p)'
    BY <1>1, <1>2, <1>3, <1>e DEF Works, Holds, Handles, Disposes, Detaches, Handling,
       HolderPlaces, Unreffing, Disposal, Preparation, At, ThreadInv, Placed
  <2>o. \A o \in Thread \ {t} : /\ thread'[o] = thread[o] /\ (Holds(o, p)' <=> Holds(o, p))
                                /\ Handles(o, p)' <=> Handles(o, p)
                                /\ Disposes(o, p)' <=> Disposes(o, p)
                                /\ Detaches(o, p)' <=> Detaches(o, p)
    BY <1>3 DEF Holds, Handles, Disposes, Detaches
  <2>n. source[p].cancellable
    BY <1>2, <1>e, <2>i DEF SourceInv, DisposeInv, Disposer, Detached, At, Preparation
  <2>u. \A o \in Thread : ~Disposes(o, p)
    BY <1>2, <2>i, <2>t DEF SourceInv, DisposeInv, Disposer, Detached, At
  <2>3. Cardinality(Holders(p))' = Cardinality(Holders(p))
    BY <2>t, <2>o, HoldersStay
  <2>4. CountInv(p)'
    <3>1. source[p].refs \in Nat /\ Cardinality(Holders(p)) \in Nat /\ source[p].refs = Bit(source[p].held) + Cardinality(Holders(p))
      BY <2>i, Counted DEF SourceInv, CountInv
    <3>2. source'[p].refs = Bit(source'[p].held) + Cardinality(Holders(p))'
      BY <1>2, <1>e, <2>s, <2>3, <3>1, <2>n DEF Bit
    <3>3. source'[p].phase = "live" <=> source'[p].refs # 0
      <4>1. source[p].phase = "live" <=> source[p].refs # 0
        BY <2>i DEF SourceInv, CountInv
      <4> QED
        BY <2>s, <4>1
    <3>4. source'[p].phase # "live" => ~source'[p].self
      BY <2>i, <2>s, <2>t, <2>n, Counted DEF SourceInv, CountInv
    <3>5. \A o \in Thread : thread'[o].h = p /\ At(o, "new")' => source'[p].held
      BY <1>2, <1>3, <1>e, <2>i, <2>s, <2>o DEF SourceInv, CountInv, At
    <3> QED
      BY <3>2, <3>3, <3>4, <3>5 DEF CountInv
  <2>5. ASSUME p \notin overtaken' PROVE HandlerInv(p)'
    <3>h. HandlerInv(p)
      BY <1>2, <2>5, <2>i DEF SourceInv
    <3>v. \A o \in Thread : ~Handles(o, p)
      BY <1>2, <1>e, <2>5 DEF Base, BoundInv, Emitting, Emits, At, Handles, Handling, Preparation
    <3>w. ~source[p].called
      BY <1>2, <1>e, <3>h DEF HandlerInv
    <3>1. \A o \in Thread : Handles(o, p)' => ~source'[p].self /\ ~source'[p].called /\ source'[p].phase = "live"
      BY <3>h, <2>s, <2>t, <2>o, <2>n, <3>v, <3>w DEF HandlerInv
    <3>2. source'[p].self /\ source'[p].called => \E o \in Thread : thread'[o].h = p /\ At(o, "prepare")'
      BY <1>2, <3>h, <2>s, <2>t, <2>o, <2>n, <3>v, <3>w DEF HandlerInv, At
    <3>3. \A o \in Thread : thread'[o].h = p /\ At(o, "prepare2")' => ~source'[p].called
      BY <1>2, <1>3, <1>e, <3>h, <2>s, <2>o, <2>n, <3>v, <3>w DEF HandlerInv, At, Preparation
    <3>4. ~source'[p].cancellable =>
            (\E o \in Thread : Detaches(o, p)') \/ (\A o \in Thread : ~Handles(o, p)')
      BY <1>2, <1>e, <3>h, <2>s, <2>t, <2>o, <2>n, <3>v, <3>w DEF HandlerInv
    <3> QED
      BY <3>1, <3>2, <3>3, <3>4 DEF HandlerInv
  <2>6. DisposeInv(p)'
    <3>1. ASSUME NEW o \in Thread, Disposes(o, p)' PROVE Disposer(o, p)'
      BY <1>2, <1>3, <1>e, <2>i, <2>s, <2>t, <2>o, <3>1, <2>n, <2>u DEF SourceInv, DisposeInv, Disposer, Detached, At
    <3>2. ASSUME ~source'[p].cancellable PROVE Detached(p)'
      BY <1>1, <1>2, <1>3, <1>e, <2>i, <2>s, <2>t, <2>o, <3>2, <2>n, <2>u DEF SourceInv, DisposeInv, Disposer, Detached, At, Preparation
    <3> QED
      BY <3>1, <3>2 DEF DisposeInv
  <2> QED
    BY <2>4, <2>5, <2>6 DEF SourceInv
<1> QED
  BY <1>4, <1>e

LEMMA SourceDispatch ==
  ASSUME Base, NEW t \in Thread, NEW s \in Source, Dispatch(t, s),
         NEW p \in Source, SourceInv(p)
  PROVE  SourceInv(p)'
<1>1. ThreadInv(t) /\ thread[t] \in ThreadRecord /\ None \notin Source /\ User \cap Source = {}
  BY CancellableAssumption DEF Base, TypeOK
<1>2. /\ At(t, "idle") /\ source[s].held /\ source[s].ready
      /\ Goes(t, thread[t].at, thread[t].h, thread[t].todo, thread[t].back)
      /\ Sets(s, source[s].phase, source[s].refs, source[s].held, source[s].self,
             source[s].called, source[s].cancellable, FALSE, TRUE)
      /\ overtaken' = overtaken
  BY DidDispatch
<1>3. /\ \A o \in Thread \ {t} : thread'[o] = thread[o]
      /\ thread'[t].at = thread[t].at /\ thread'[t].h = thread[t].h /\ thread'[t].back = thread[t].back
  BY <1>2 DEF Goes
<1>4. SameSource(p)
  BY <1>2 DEF SameSource, Sets
<1>5. ~Works(t, p) /\ ~Works(t, p)'
  BY <1>1, <1>2, <1>3 DEF Works, At, ThreadInv, Placed, SourcePlaces, HolderPlaces,
     Unreffing, Disposal, Preparation
<1> QED
  BY <1>2, <1>3, <1>4, <1>5, SourceKept

LEMMA SourceDrop ==
  ASSUME Base, NEW t \in Thread, NEW s \in Source, Drop(t, s), NEW p \in Source, SourceInv(p)
  PROVE  SourceInv(p)'
<1>1. ThreadInv(t) /\ thread[t] \in ThreadRecord /\ None \notin Source /\ User \cap Source = {}
  BY CancellableAssumption DEF Base, TypeOK
<1>2. /\ At(t, "idle") /\ source[s].held
      /\ \A o \in Thread : ~(At(o, "new") /\ thread[o].h = s)
      /\ Goes(t, "unref", s, thread[t].todo, thread[t].back)
      /\ Sets(s, source[s].phase, source[s].refs, FALSE, source[s].self, source[s].called,
             source[s].cancellable, source[s].ready, source[s].dispatched)
      /\ overtaken' = overtaken
  BY DidDrop
<1>3. /\ \A o \in Thread \ {t} : thread'[o] = thread[o]
      /\ thread'[t].at = "unref" /\ thread'[t].h = s /\ thread'[t].back = thread[t].back
  BY <1>2 DEF Goes
<1>4. CASE p # s
  <2>1. SameSource(p)
    BY <1>2, <1>4 DEF SameSource, Sets
  <2>2. ~Works(t, p) /\ ~Works(t, p)'
    BY <1>1, <1>2, <1>3, <1>4 DEF Works, At, ThreadInv, Placed, SourcePlaces, HolderPlaces,
       Unreffing, Disposal, Preparation
  <2> QED
    BY <1>2, <1>3, <2>1, <2>2, <1>4, SourceKept
<1>e. CASE p = s
  <2>i. SourceInv(p) /\ Base
    OBVIOUS
  <2>s. /\ source'[p].phase = source[p].phase /\ source'[p].refs = source[p].refs
        /\ source'[p].held = FALSE /\ source'[p].self = source[p].self
        /\ source'[p].called = source[p].called /\ source'[p].cancellable = source[p].cancellable
    BY <1>2, <1>e DEF Sets
  <2>t. /\ ~Holds(t, p) /\ Holds(t, p)'
        /\ ~Handles(t, p) /\ ~Handles(t, p)'
        /\ ~Disposes(t, p) /\ ~Disposes(t, p)'
        /\ ~Detaches(t, p) /\ ~Detaches(t, p)'
    BY <1>1, <1>2, <1>3, <1>e DEF Works, Holds, Handles, Disposes, Detaches, Handling,
       HolderPlaces, Unreffing, Disposal, Preparation, At, ThreadInv, Placed
  <2>o. \A o \in Thread \ {t} : /\ thread'[o] = thread[o] /\ (Holds(o, p)' <=> Holds(o, p))
                                /\ Handles(o, p)' <=> Handles(o, p)
                                /\ Disposes(o, p)' <=> Disposes(o, p)
                                /\ Detaches(o, p)' <=> Detaches(o, p)
    BY <1>3 DEF Holds, Handles, Disposes, Detaches
  <2>n. source[p].held /\ source[p].cancellable
    BY <1>2, <1>e, <2>i DEF SourceInv, DisposeInv, Disposer, Detached
  <2>u. \A o \in Thread : ~Disposes(o, p)
    BY <2>n, <2>i DEF SourceInv, DisposeInv, Disposer, Detached
  <2>3. Cardinality(Holders(p))' = Cardinality(Holders(p)) + 1
    BY <2>t, <2>o, HoldersJoin
  <2>4. CountInv(p)'
    <3>1. source[p].refs \in Nat /\ Cardinality(Holders(p)) \in Nat /\ source[p].refs = Bit(source[p].held) + Cardinality(Holders(p))
      BY <2>i, Counted DEF SourceInv, CountInv
    <3>2. source'[p].refs = Bit(source'[p].held) + Cardinality(Holders(p))'
      BY <1>2, <1>e, <2>s, <2>3, <3>1, <2>n DEF Bit
    <3>3. source'[p].phase = "live" <=> source'[p].refs # 0
      <4>1. source[p].phase = "live" <=> source[p].refs # 0
        BY <2>i DEF SourceInv, CountInv
      <4> QED
        BY <2>s, <4>1
    <3>4. source'[p].phase # "live" => ~source'[p].self
      BY <2>i, <2>s, <2>t, <2>n DEF SourceInv, CountInv
    <3>5. \A o \in Thread : thread'[o].h = p /\ At(o, "new")' => source'[p].held
      BY <1>2, <1>3, <1>e, <2>i, <2>s, <2>o DEF SourceInv, CountInv, At
    <3> QED
      BY <3>2, <3>3, <3>4, <3>5 DEF CountInv
  <2>5. ASSUME p \notin overtaken' PROVE HandlerInv(p)'
    <3>h. HandlerInv(p)
      BY <1>2, <2>5, <2>i DEF SourceInv
    <3>1. \A o \in Thread : Handles(o, p)' => ~source'[p].self /\ ~source'[p].called /\ source'[p].phase = "live"
      BY <3>h, <2>s, <2>t, <2>o, <2>n DEF HandlerInv
    <3>2. source'[p].self /\ source'[p].called => \E o \in Thread : thread'[o].h = p /\ At(o, "prepare")'
      BY <1>2, <3>h, <2>s, <2>t, <2>o, <2>n DEF HandlerInv, At
    <3>3. \A o \in Thread : thread'[o].h = p /\ At(o, "prepare2")' => ~source'[p].called
      BY <1>2, <1>3, <1>e, <3>h, <2>s, <2>o, <2>n DEF HandlerInv, At, Preparation
    <3>4. ~source'[p].cancellable =>
            (\E o \in Thread : Detaches(o, p)') \/ (\A o \in Thread : ~Handles(o, p)')
      BY <1>2, <1>e, <3>h, <2>s, <2>t, <2>o, <2>n DEF HandlerInv
    <3> QED
      BY <3>1, <3>2, <3>3, <3>4 DEF HandlerInv
  <2>6. DisposeInv(p)'
    <3>1. ASSUME NEW o \in Thread, Disposes(o, p)' PROVE Disposer(o, p)'
      BY <1>2, <1>3, <1>e, <2>i, <2>s, <2>t, <2>o, <3>1, <2>n, <2>u DEF SourceInv, DisposeInv, Disposer, Detached, At
    <3>2. ASSUME ~source'[p].cancellable PROVE Detached(p)'
      BY <1>1, <1>2, <1>3, <1>e, <2>i, <2>s, <2>t, <2>o, <3>2, <2>n, <2>u DEF SourceInv, DisposeInv, Disposer, Detached, At, Preparation
    <3> QED
      BY <3>1, <3>2 DEF DisposeInv
  <2> QED
    BY <2>4, <2>5, <2>6 DEF SourceInv
<1> QED
  BY <1>4, <1>e

LEMMA SourceUnrefDrops ==
  ASSUME Base, NEW t \in Thread, Unref(t), Rec(t).refs > 1, NEW p \in Source, SourceInv(p)
  PROVE  SourceInv(p)'
<1>1. ThreadInv(t) /\ thread[t] \in ThreadRecord /\ None \notin Source /\ User \cap Source = {}
  BY CancellableAssumption DEF Base, TypeOK
<1>2. /\ At(t, "unref") /\ thread[t].h \in Source
      /\ source[thread[t].h].refs > 1
      /\ Goes(t, thread[t].back, None, thread[t].todo, "idle")
      /\ Sets(thread[t].h, source[thread[t].h].phase, source[thread[t].h].refs - 1,
             source[thread[t].h].held, source[thread[t].h].self, source[thread[t].h].called,
             source[thread[t].h].cancellable, source[thread[t].h].ready,
             source[thread[t].h].dispatched)
      /\ overtaken' = overtaken
  BY DidUnrefDrops
<1>3. /\ \A o \in Thread \ {t} : thread'[o] = thread[o]
      /\ thread'[t].at = thread[t].back /\ thread'[t].h = None /\ thread'[t].back = "idle"
  BY <1>2 DEF Goes
<1>4. CASE p # thread[t].h
  <2>1. SameSource(p)
    BY <1>2, <1>4 DEF SameSource, Sets
  <2>2. ~Works(t, p) /\ ~Works(t, p)'
    BY <1>1, <1>2, <1>3, <1>4 DEF Works, At, ThreadInv, Placed, SourcePlaces, HolderPlaces,
       Unreffing, Disposal, Preparation
  <2> QED
    BY <1>2, <1>3, <2>1, <2>2, <1>4, SourceKept
<1>e. CASE p = thread[t].h
  <2>i. SourceInv(p) /\ Base
    OBVIOUS
  <2>s. /\ source'[p].phase = source[p].phase /\ source'[p].refs = source[p].refs - 1
        /\ source'[p].held = source[p].held /\ source'[p].self = source[p].self
        /\ source'[p].called = source[p].called /\ source'[p].cancellable = source[p].cancellable
    BY <1>2, <1>e DEF Sets
  <2>t. /\ Holds(t, p) /\ ~Holds(t, p)'
        /\ ~Handles(t, p) /\ ~Handles(t, p)'
        /\ ~Disposes(t, p) /\ ~Disposes(t, p)'
        /\ ~Detaches(t, p) /\ ~Detaches(t, p)'
    BY <1>1, <1>2, <1>3, <1>e DEF Works, Holds, Handles, Disposes, Detaches, Handling,
       HolderPlaces, Unreffing, Disposal, Preparation, At, ThreadInv, Placed
  <2>o. \A o \in Thread \ {t} : /\ thread'[o] = thread[o] /\ (Holds(o, p)' <=> Holds(o, p))
                                /\ Handles(o, p)' <=> Handles(o, p)
                                /\ Disposes(o, p)' <=> Disposes(o, p)
                                /\ Detaches(o, p)' <=> Detaches(o, p)
    BY <1>3 DEF Holds, Handles, Disposes, Detaches
  <2>3. Cardinality(Holders(p))' = Cardinality(Holders(p)) - 1
    BY <2>t, <2>o, HoldersLeave
  <2>4. CountInv(p)'
    <3>1. source[p].refs \in Nat /\ Cardinality(Holders(p)) \in Nat /\ source[p].refs = Bit(source[p].held) + Cardinality(Holders(p))
      BY <2>i, Counted DEF SourceInv, CountInv
    <3>2. source'[p].refs = Bit(source'[p].held) + Cardinality(Holders(p))'
      BY <1>2, <1>e, <2>s, <2>3, <3>1 DEF Bit
    <3>3. source'[p].phase = "live" <=> source'[p].refs # 0
      <4>1. source[p].phase = "live" <=> source[p].refs # 0
        BY <2>i DEF SourceInv, CountInv
      <4>2. source[p].refs # 0 /\ source'[p].refs # 0
        BY <1>2, <1>e, <2>i, <2>s, <2>t, <3>1, <4>1, Counted
      <4> QED
        BY <2>s, <4>1, <4>2
    <3>4. source'[p].phase # "live" => ~source'[p].self
      BY <2>i, <2>s, <2>t DEF SourceInv, CountInv
    <3>5. \A o \in Thread : thread'[o].h = p /\ At(o, "new")' => source'[p].held
      BY <1>1, <1>2, <1>3, <1>e, <2>i, <2>s, <2>o DEF SourceInv, CountInv, At
    <3> QED
      BY <3>2, <3>3, <3>4, <3>5 DEF CountInv
  <2>5. ASSUME p \notin overtaken' PROVE HandlerInv(p)'
    <3>h. HandlerInv(p)
      BY <1>2, <2>5, <2>i DEF SourceInv
    <3>1. \A o \in Thread : Handles(o, p)' => ~source'[p].self /\ ~source'[p].called /\ source'[p].phase = "live"
      BY <3>h, <2>s, <2>t, <2>o DEF HandlerInv
    <3>2. source'[p].self /\ source'[p].called => \E o \in Thread : thread'[o].h = p /\ At(o, "prepare")'
      BY <1>2, <3>h, <2>s, <2>t, <2>o DEF HandlerInv, At
    <3>3. \A o \in Thread : thread'[o].h = p /\ At(o, "prepare2")' => ~source'[p].called
      BY <1>1, <1>2, <1>3, <1>e, <3>h, <2>s, <2>o DEF HandlerInv, At, Preparation
    <3>4. ~source'[p].cancellable =>
            (\E o \in Thread : Detaches(o, p)') \/ (\A o \in Thread : ~Handles(o, p)')
      BY <1>2, <1>e, <3>h, <2>s, <2>t, <2>o DEF HandlerInv
    <3> QED
      BY <3>1, <3>2, <3>3, <3>4 DEF HandlerInv
  <2>6. DisposeInv(p)'
    <3>1. ASSUME NEW o \in Thread, Disposes(o, p)' PROVE Disposer(o, p)'
      BY <1>2, <1>3, <1>e, <2>i, <2>s, <2>t, <2>o, <3>1 DEF SourceInv, DisposeInv, Disposer, Detached, At
    <3>2. ASSUME ~source'[p].cancellable PROVE Detached(p)'
      BY <1>1, <1>2, <1>3, <1>e, <2>i, <2>s, <2>t, <2>o, <3>2 DEF SourceInv, DisposeInv, Disposer, Detached, At, Preparation
    <3> QED
      BY <3>1, <3>2 DEF DisposeInv
  <2> QED
    BY <2>4, <2>5, <2>6 DEF SourceInv
<1> QED
  BY <1>4, <1>e

LEMMA SourceUnrefDisposes ==
  ASSUME Base, NEW t \in Thread, Unref(t), ~(Rec(t).refs > 1), NEW p \in Source, SourceInv(p)
  PROVE  SourceInv(p)'
<1>1. ThreadInv(t) /\ thread[t] \in ThreadRecord /\ None \notin Source /\ User \cap Source = {}
  BY CancellableAssumption DEF Base, TypeOK
<1>2. /\ At(t, "unref") /\ thread[t].h \in Source
      /\ source[thread[t].h].refs = 1
      /\ Goes(t, "dispose", thread[t].h, thread[t].todo, thread[t].back)
      /\ source' = source
      /\ overtaken' = overtaken
  BY DidUnrefDisposes
<1>3. /\ \A o \in Thread \ {t} : thread'[o] = thread[o]
      /\ thread'[t].at = "dispose" /\ thread'[t].h = thread[t].h /\ thread'[t].back = thread[t].back
  BY <1>2 DEF Goes
<1>4. CASE p # thread[t].h
  <2>1. SameSource(p)
    BY <1>2, <1>4 DEF SameSource, Sets
  <2>2. ~Works(t, p) /\ ~Works(t, p)'
    BY <1>1, <1>2, <1>3, <1>4 DEF Works, At, ThreadInv, Placed, SourcePlaces, HolderPlaces,
       Unreffing, Disposal, Preparation
  <2> QED
    BY <1>2, <1>3, <2>1, <2>2, <1>4, SourceKept
<1>e. CASE p = thread[t].h
  <2>i. SourceInv(p) /\ Base
    OBVIOUS
  <2>s. /\ source'[p].phase = source[p].phase /\ source'[p].refs = source[p].refs
        /\ source'[p].held = source[p].held /\ source'[p].self = source[p].self
        /\ source'[p].called = source[p].called /\ source'[p].cancellable = source[p].cancellable
    BY <1>2, <1>e DEF Sets
  <2>t. /\ Holds(t, p) /\ Holds(t, p)'
        /\ ~Handles(t, p) /\ ~Handles(t, p)'
        /\ ~Disposes(t, p) /\ Disposes(t, p)'
        /\ ~Detaches(t, p) /\ ~Detaches(t, p)'
    BY <1>1, <1>2, <1>3, <1>e DEF Works, Holds, Handles, Disposes, Detaches, Handling,
       HolderPlaces, Unreffing, Disposal, Preparation, At, ThreadInv, Placed
  <2>o. \A o \in Thread \ {t} : /\ thread'[o] = thread[o] /\ (Holds(o, p)' <=> Holds(o, p))
                                /\ Handles(o, p)' <=> Handles(o, p)
                                /\ Disposes(o, p)' <=> Disposes(o, p)
                                /\ Detaches(o, p)' <=> Detaches(o, p)
    BY <1>3 DEF Holds, Handles, Disposes, Detaches
  <2>n. ~source[p].held /\ (\A o \in Thread \ {t} : ~Holds(o, p)) /\ Cardinality(Holders(p)) = 1
    BY <1>2, <1>e, <2>i, <2>t, Counted
  <2>u. \A o \in Thread \ {t} : ~Disposes(o, p)
    BY <2>n DEF Holds, Disposes, HolderPlaces, Unreffing
  <2>3. Cardinality(Holders(p))' = Cardinality(Holders(p))
    BY <2>t, <2>o, HoldersStay
  <2>4. CountInv(p)'
    <3>1. source[p].refs \in Nat /\ Cardinality(Holders(p)) \in Nat /\ source[p].refs = Bit(source[p].held) + Cardinality(Holders(p))
      BY <2>i, Counted DEF SourceInv, CountInv
    <3>2. source'[p].refs = Bit(source'[p].held) + Cardinality(Holders(p))'
      BY <1>2, <1>e, <2>s, <2>3, <3>1, <2>n DEF Bit
    <3>3. source'[p].phase = "live" <=> source'[p].refs # 0
      <4>1. source[p].phase = "live" <=> source[p].refs # 0
        BY <2>i DEF SourceInv, CountInv
      <4> QED
        BY <2>s, <4>1
    <3>4. source'[p].phase # "live" => ~source'[p].self
      BY <2>i, <2>s, <2>t, <2>n DEF SourceInv, CountInv
    <3>5. \A o \in Thread : thread'[o].h = p /\ At(o, "new")' => source'[p].held
      BY <1>2, <1>3, <1>e, <2>i, <2>s, <2>o DEF SourceInv, CountInv, At
    <3> QED
      BY <3>2, <3>3, <3>4, <3>5 DEF CountInv
  <2>5. ASSUME p \notin overtaken' PROVE HandlerInv(p)'
    <3>h. HandlerInv(p)
      BY <1>2, <2>5, <2>i DEF SourceInv
    <3>1. \A o \in Thread : Handles(o, p)' => ~source'[p].self /\ ~source'[p].called /\ source'[p].phase = "live"
      BY <3>h, <2>s, <2>t, <2>o DEF HandlerInv
    <3>2. source'[p].self /\ source'[p].called => \E o \in Thread : thread'[o].h = p /\ At(o, "prepare")'
      BY <1>2, <3>h, <2>s, <2>t, <2>o DEF HandlerInv, At
    <3>3. \A o \in Thread : thread'[o].h = p /\ At(o, "prepare2")' => ~source'[p].called
      BY <1>2, <1>3, <1>e, <3>h, <2>s, <2>o DEF HandlerInv, At, Preparation
    <3>4. ~source'[p].cancellable =>
            (\E o \in Thread : Detaches(o, p)') \/ (\A o \in Thread : ~Handles(o, p)')
      BY <1>2, <1>e, <3>h, <2>s, <2>t, <2>o DEF HandlerInv
    <3> QED
      BY <3>1, <3>2, <3>3, <3>4 DEF HandlerInv
  <2>6. DisposeInv(p)'
    <3>1. ASSUME NEW o \in Thread, Disposes(o, p)' PROVE Disposer(o, p)'
      BY <1>2, <1>3, <1>e, <2>i, <2>s, <2>t, <2>o, <3>1, <2>n, <2>u DEF SourceInv, DisposeInv, Disposer, Detached, At
    <3>2. ASSUME ~source'[p].cancellable PROVE Detached(p)'
      BY <1>1, <1>2, <1>3, <1>e, <2>i, <2>s, <2>t, <2>o, <3>2, <2>n, <2>u DEF SourceInv, DisposeInv, Disposer, Detached, At, Preparation
    <3> QED
      BY <3>1, <3>2 DEF DisposeInv
  <2> QED
    BY <2>4, <2>5, <2>6 DEF SourceInv
<1> QED
  BY <1>4, <1>e

LEMMA SourceDisposeFirst ==
  ASSUME Base, NEW t \in Thread, Dispose(t), Rec(t).cancellable, NEW p \in Source, SourceInv(p)
  PROVE  SourceInv(p)'
<1>1. ThreadInv(t) /\ thread[t] \in ThreadRecord /\ None \notin Source /\ User \cap Source = {}
  BY CancellableAssumption DEF Base, TypeOK
<1>2. /\ At(t, "dispose") /\ thread[t].h \in Source
      /\ source[thread[t].h].cancellable
      /\ Goes(t, "self", thread[t].h, thread[t].todo, thread[t].back)
      /\ Sets(thread[t].h, source[thread[t].h].phase, source[thread[t].h].refs,
             source[thread[t].h].held, source[thread[t].h].self, source[thread[t].h].called,
             FALSE, source[thread[t].h].ready, source[thread[t].h].dispatched)
      /\ overtaken' = overtaken
  BY DidDisposeFirst
<1>3. /\ \A o \in Thread \ {t} : thread'[o] = thread[o]
      /\ thread'[t].at = "self" /\ thread'[t].h = thread[t].h /\ thread'[t].back = thread[t].back
  BY <1>2 DEF Goes
<1>4. CASE p # thread[t].h
  <2>1. SameSource(p)
    BY <1>2, <1>4 DEF SameSource, Sets
  <2>2. ~Works(t, p) /\ ~Works(t, p)'
    BY <1>1, <1>2, <1>3, <1>4 DEF Works, At, ThreadInv, Placed, SourcePlaces, HolderPlaces,
       Unreffing, Disposal, Preparation
  <2> QED
    BY <1>2, <1>3, <2>1, <2>2, <1>4, SourceKept
<1>e. CASE p = thread[t].h
  <2>i. SourceInv(p) /\ Base
    OBVIOUS
  <2>s. /\ source'[p].phase = source[p].phase /\ source'[p].refs = source[p].refs
        /\ source'[p].held = source[p].held /\ source'[p].self = source[p].self
        /\ source'[p].called = source[p].called /\ source'[p].cancellable = FALSE
    BY <1>2, <1>e DEF Sets
  <2>t. /\ Holds(t, p) /\ Holds(t, p)'
        /\ ~Handles(t, p) /\ ~Handles(t, p)'
        /\ Disposes(t, p) /\ Disposes(t, p)'
        /\ ~Detaches(t, p) /\ Detaches(t, p)'
    BY <1>1, <1>2, <1>3, <1>e DEF Works, Holds, Handles, Disposes, Detaches, Handling,
       HolderPlaces, Unreffing, Disposal, Preparation, At, ThreadInv, Placed
  <2>o. \A o \in Thread \ {t} : /\ thread'[o] = thread[o] /\ (Holds(o, p)' <=> Holds(o, p))
                                /\ Handles(o, p)' <=> Handles(o, p)
                                /\ Disposes(o, p)' <=> Disposes(o, p)
                                /\ Detaches(o, p)' <=> Detaches(o, p)
    BY <1>3 DEF Holds, Handles, Disposes, Detaches
  <2>n. /\ ~source[p].held
        /\ \A o \in Thread \ {t} : Holds(o, p) =>
             thread[o].at \in {"ready", "called"} \/ (At(o, "unref") /\ thread[o].back = "emit")
    BY <2>i, <2>t DEF SourceInv, DisposeInv, Disposer, Detached
  <2>w. \A o \in Thread \ {t} : thread[o].h = p => thread[o].at \notin Preparation
    BY <2>n DEF Holds, HolderPlaces, Preparation, At
  <2>u. \A o \in Thread \ {t} : ~Disposes(o, p)
    BY <1>2, <2>i, <2>t DEF SourceInv, DisposeInv, Disposer, Detached, At
  <2>3. Cardinality(Holders(p))' = Cardinality(Holders(p))
    BY <2>t, <2>o, HoldersStay
  <2>4. CountInv(p)'
    <3>1. source[p].refs \in Nat /\ Cardinality(Holders(p)) \in Nat /\ source[p].refs = Bit(source[p].held) + Cardinality(Holders(p))
      BY <2>i, Counted DEF SourceInv, CountInv
    <3>2. source'[p].refs = Bit(source'[p].held) + Cardinality(Holders(p))'
      BY <1>2, <1>e, <2>s, <2>3, <3>1, <2>n DEF Bit
    <3>3. source'[p].phase = "live" <=> source'[p].refs # 0
      <4>1. source[p].phase = "live" <=> source[p].refs # 0
        BY <2>i DEF SourceInv, CountInv
      <4> QED
        BY <2>s, <4>1
    <3>4. source'[p].phase # "live" => ~source'[p].self
      BY <2>i, <2>s, <2>t, <2>n DEF SourceInv, CountInv
    <3>5. \A o \in Thread : thread'[o].h = p /\ At(o, "new")' => source'[p].held
      BY <1>2, <1>3, <1>e, <2>i, <2>s, <2>o DEF SourceInv, CountInv, At
    <3> QED
      BY <3>2, <3>3, <3>4, <3>5 DEF CountInv
  <2>5. ASSUME p \notin overtaken' PROVE HandlerInv(p)'
    <3>h. HandlerInv(p)
      BY <1>2, <2>5, <2>i DEF SourceInv
    <3>1. \A o \in Thread : Handles(o, p)' => ~source'[p].self /\ ~source'[p].called /\ source'[p].phase = "live"
      BY <3>h, <2>s, <2>t, <2>o DEF HandlerInv
    <3>2. source'[p].self /\ source'[p].called => \E o \in Thread : thread'[o].h = p /\ At(o, "prepare")'
      BY <1>2, <3>h, <2>s, <2>t, <2>o DEF HandlerInv, At
    <3>3. \A o \in Thread : thread'[o].h = p /\ At(o, "prepare2")' => ~source'[p].called
      BY <1>2, <1>3, <1>e, <3>h, <2>s, <2>o DEF HandlerInv, At, Preparation
    <3>4. ~source'[p].cancellable =>
            (\E o \in Thread : Detaches(o, p)') \/ (\A o \in Thread : ~Handles(o, p)')
      BY <1>2, <1>e, <3>h, <2>s, <2>t, <2>o DEF HandlerInv
    <3> QED
      BY <3>1, <3>2, <3>3, <3>4 DEF HandlerInv
  <2>6. DisposeInv(p)'
    <3>1. ASSUME NEW o \in Thread, Disposes(o, p)' PROVE Disposer(o, p)'
      BY <1>2, <1>3, <1>e, <2>i, <2>s, <2>t, <2>o, <3>1, <2>n, <2>u, <2>w DEF SourceInv, DisposeInv, Disposer, Detached, At
    <3>2. ASSUME ~source'[p].cancellable PROVE Detached(p)'
      BY <1>1, <1>2, <1>3, <1>e, <2>i, <2>s, <2>t, <2>o, <3>2, <2>n, <2>u, <2>w DEF SourceInv, DisposeInv, Disposer, Detached, At, Preparation
    <3> QED
      BY <3>1, <3>2 DEF DisposeInv
  <2> QED
    BY <2>4, <2>5, <2>6 DEF SourceInv
<1> QED
  BY <1>4, <1>e

LEMMA SourceDisposeAgain ==
  ASSUME Base, NEW t \in Thread, Dispose(t), ~Rec(t).cancellable, NEW p \in Source, SourceInv(p)
  PROVE  SourceInv(p)'
<1>1. ThreadInv(t) /\ thread[t] \in ThreadRecord /\ None \notin Source /\ User \cap Source = {}
  BY CancellableAssumption DEF Base, TypeOK
<1>2. /\ At(t, "dispose") /\ thread[t].h \in Source
      /\ ~source[thread[t].h].cancellable
      /\ Goes(t, "drop", thread[t].h, thread[t].todo, thread[t].back)
      /\ Sets(thread[t].h, source[thread[t].h].phase, source[thread[t].h].refs,
             source[thread[t].h].held, source[thread[t].h].self, source[thread[t].h].called,
             FALSE, source[thread[t].h].ready, source[thread[t].h].dispatched)
      /\ overtaken' = overtaken
  BY DidDisposeAgain
<1>3. /\ \A o \in Thread \ {t} : thread'[o] = thread[o]
      /\ thread'[t].at = "drop" /\ thread'[t].h = thread[t].h /\ thread'[t].back = thread[t].back
  BY <1>2 DEF Goes
<1>4. CASE p # thread[t].h
  <2>1. SameSource(p)
    BY <1>2, <1>4 DEF SameSource, Sets
  <2>2. ~Works(t, p) /\ ~Works(t, p)'
    BY <1>1, <1>2, <1>3, <1>4 DEF Works, At, ThreadInv, Placed, SourcePlaces, HolderPlaces,
       Unreffing, Disposal, Preparation
  <2> QED
    BY <1>2, <1>3, <2>1, <2>2, <1>4, SourceKept
<1>e. CASE p = thread[t].h
  <2>i. SourceInv(p) /\ Base
    OBVIOUS
  <2>s. /\ source'[p].phase = source[p].phase /\ source'[p].refs = source[p].refs
        /\ source'[p].held = source[p].held /\ source'[p].self = source[p].self
        /\ source'[p].called = source[p].called /\ source'[p].cancellable = FALSE
    BY <1>2, <1>e DEF Sets
  <2>t. /\ Holds(t, p) /\ Holds(t, p)'
        /\ ~Handles(t, p) /\ ~Handles(t, p)'
        /\ Disposes(t, p) /\ Disposes(t, p)'
        /\ ~Detaches(t, p) /\ ~Detaches(t, p)'
    BY <1>1, <1>2, <1>3, <1>e DEF Works, Holds, Handles, Disposes, Detaches, Handling,
       HolderPlaces, Unreffing, Disposal, Preparation, At, ThreadInv, Placed
  <2>o. \A o \in Thread \ {t} : /\ thread'[o] = thread[o] /\ (Holds(o, p)' <=> Holds(o, p))
                                /\ Handles(o, p)' <=> Handles(o, p)
                                /\ Disposes(o, p)' <=> Disposes(o, p)
                                /\ Detaches(o, p)' <=> Detaches(o, p)
    BY <1>3 DEF Holds, Handles, Disposes, Detaches
  <2>n. /\ ~source[p].held
        /\ \A o \in Thread \ {t} : Holds(o, p) =>
             thread[o].at \in {"ready", "called"} \/ (At(o, "unref") /\ thread[o].back = "emit")
    BY <2>i, <2>t DEF SourceInv, DisposeInv, Disposer, Detached
  <2>w. \A o \in Thread \ {t} : thread[o].h = p => thread[o].at \notin Preparation
    BY <2>n DEF Holds, HolderPlaces, Preparation, At
  <2>u. \A o \in Thread \ {t} : ~Disposes(o, p)
    BY <1>2, <2>i, <2>t DEF SourceInv, DisposeInv, Disposer, Detached, At
  <2>3. Cardinality(Holders(p))' = Cardinality(Holders(p))
    BY <2>t, <2>o, HoldersStay
  <2>4. CountInv(p)'
    <3>1. source[p].refs \in Nat /\ Cardinality(Holders(p)) \in Nat /\ source[p].refs = Bit(source[p].held) + Cardinality(Holders(p))
      BY <2>i, Counted DEF SourceInv, CountInv
    <3>2. source'[p].refs = Bit(source'[p].held) + Cardinality(Holders(p))'
      BY <1>2, <1>e, <2>s, <2>3, <3>1, <2>n DEF Bit
    <3>3. source'[p].phase = "live" <=> source'[p].refs # 0
      <4>1. source[p].phase = "live" <=> source[p].refs # 0
        BY <2>i DEF SourceInv, CountInv
      <4> QED
        BY <2>s, <4>1
    <3>4. source'[p].phase # "live" => ~source'[p].self
      BY <2>i, <2>s, <2>t, <2>n DEF SourceInv, CountInv
    <3>5. \A o \in Thread : thread'[o].h = p /\ At(o, "new")' => source'[p].held
      BY <1>2, <1>3, <1>e, <2>i, <2>s, <2>o DEF SourceInv, CountInv, At
    <3> QED
      BY <3>2, <3>3, <3>4, <3>5 DEF CountInv
  <2>5. ASSUME p \notin overtaken' PROVE HandlerInv(p)'
    <3>h. HandlerInv(p)
      BY <1>2, <2>5, <2>i DEF SourceInv
    <3>1. \A o \in Thread : Handles(o, p)' => ~source'[p].self /\ ~source'[p].called /\ source'[p].phase = "live"
      BY <3>h, <2>s, <2>t, <2>o DEF HandlerInv
    <3>2. source'[p].self /\ source'[p].called => \E o \in Thread : thread'[o].h = p /\ At(o, "prepare")'
      BY <1>2, <3>h, <2>s, <2>t, <2>o DEF HandlerInv, At
    <3>3. \A o \in Thread : thread'[o].h = p /\ At(o, "prepare2")' => ~source'[p].called
      BY <1>2, <1>3, <1>e, <3>h, <2>s, <2>o DEF HandlerInv, At, Preparation
    <3>4. ~source'[p].cancellable =>
            (\E o \in Thread : Detaches(o, p)') \/ (\A o \in Thread : ~Handles(o, p)')
      BY <1>2, <1>e, <3>h, <2>s, <2>t, <2>o DEF HandlerInv
    <3> QED
      BY <3>1, <3>2, <3>3, <3>4 DEF HandlerInv
  <2>6. DisposeInv(p)'
    <3>1. ASSUME NEW o \in Thread, Disposes(o, p)' PROVE Disposer(o, p)'
      BY <1>2, <1>3, <1>e, <2>i, <2>s, <2>t, <2>o, <3>1, <2>n, <2>u, <2>w DEF SourceInv, DisposeInv, Disposer, Detached, At
    <3>2. ASSUME ~source'[p].cancellable PROVE Detached(p)'
      BY <1>1, <1>2, <1>3, <1>e, <2>i, <2>s, <2>t, <2>o, <3>2, <2>n, <2>u, <2>w DEF SourceInv, DisposeInv, Disposer, Detached, At, Preparation
    <3> QED
      BY <3>1, <3>2 DEF DisposeInv
  <2> QED
    BY <2>4, <2>5, <2>6 DEF SourceInv
<1> QED
  BY <1>4, <1>e

LEMMA SourceDisposeTakes ==
  ASSUME Base, NEW t \in Thread, DisposeSelf(t), Rec(t).self, NEW p \in Source, SourceInv(p)
  PROVE  SourceInv(p)'
<1>1. ThreadInv(t) /\ thread[t] \in ThreadRecord /\ None \notin Source /\ User \cap Source = {}
  BY CancellableAssumption DEF Base, TypeOK
<1>2. /\ At(t, "self") /\ thread[t].h \in Source
      /\ source[thread[t].h].self
      /\ Goes(t, "disconnect", thread[t].h, thread[t].todo, thread[t].back)
      /\ Sets(thread[t].h, source[thread[t].h].phase, source[thread[t].h].refs,
             source[thread[t].h].held, FALSE, source[thread[t].h].called,
             source[thread[t].h].cancellable, source[thread[t].h].ready,
             source[thread[t].h].dispatched)
      /\ overtaken' = overtaken
  BY DidDisposeTakes
<1>3. /\ \A o \in Thread \ {t} : thread'[o] = thread[o]
      /\ thread'[t].at = "disconnect" /\ thread'[t].h = thread[t].h /\ thread'[t].back = thread[t].back
  BY <1>2 DEF Goes
<1>4. CASE p # thread[t].h
  <2>1. SameSource(p)
    BY <1>2, <1>4 DEF SameSource, Sets
  <2>2. ~Works(t, p) /\ ~Works(t, p)'
    BY <1>1, <1>2, <1>3, <1>4 DEF Works, At, ThreadInv, Placed, SourcePlaces, HolderPlaces,
       Unreffing, Disposal, Preparation
  <2> QED
    BY <1>2, <1>3, <2>1, <2>2, <1>4, SourceKept
<1>e. CASE p = thread[t].h
  <2>i. SourceInv(p) /\ Base
    OBVIOUS
  <2>s. /\ source'[p].phase = source[p].phase /\ source'[p].refs = source[p].refs
        /\ source'[p].held = source[p].held /\ source'[p].self = FALSE
        /\ source'[p].called = source[p].called /\ source'[p].cancellable = source[p].cancellable
    BY <1>2, <1>e DEF Sets
  <2>t. /\ Holds(t, p) /\ Holds(t, p)'
        /\ ~Handles(t, p) /\ ~Handles(t, p)'
        /\ Disposes(t, p) /\ Disposes(t, p)'
        /\ Detaches(t, p) /\ ~Detaches(t, p)'
    BY <1>1, <1>2, <1>3, <1>e DEF Works, Holds, Handles, Disposes, Detaches, Handling,
       HolderPlaces, Unreffing, Disposal, Preparation, At, ThreadInv, Placed
  <2>o. \A o \in Thread \ {t} : /\ thread'[o] = thread[o] /\ (Holds(o, p)' <=> Holds(o, p))
                                /\ Handles(o, p)' <=> Handles(o, p)
                                /\ Disposes(o, p)' <=> Disposes(o, p)
                                /\ Detaches(o, p)' <=> Detaches(o, p)
    BY <1>3 DEF Holds, Handles, Disposes, Detaches
  <2>n. /\ ~source[p].held
        /\ \A o \in Thread \ {t} : Holds(o, p) =>
             thread[o].at \in {"ready", "called"} \/ (At(o, "unref") /\ thread[o].back = "emit")
    BY <2>i, <2>t DEF SourceInv, DisposeInv, Disposer, Detached
  <2>w. \A o \in Thread \ {t} : thread[o].h = p => thread[o].at \notin Preparation
    BY <2>n DEF Holds, HolderPlaces, Preparation, At
  <2>u. \A o \in Thread \ {t} : ~Disposes(o, p)
    BY <1>2, <2>i, <2>t DEF SourceInv, DisposeInv, Disposer, Detached, At
  <2>v. ~source[p].cancellable
    BY <1>2, <2>i, <2>t DEF SourceInv, DisposeInv, Disposer, Detached, At
  <2>3. Cardinality(Holders(p))' = Cardinality(Holders(p))
    BY <2>t, <2>o, HoldersStay
  <2>4. CountInv(p)'
    <3>1. source[p].refs \in Nat /\ Cardinality(Holders(p)) \in Nat /\ source[p].refs = Bit(source[p].held) + Cardinality(Holders(p))
      BY <2>i, Counted DEF SourceInv, CountInv
    <3>2. source'[p].refs = Bit(source'[p].held) + Cardinality(Holders(p))'
      BY <1>2, <1>e, <2>s, <2>3, <3>1, <2>n DEF Bit
    <3>3. source'[p].phase = "live" <=> source'[p].refs # 0
      <4>1. source[p].phase = "live" <=> source[p].refs # 0
        BY <2>i DEF SourceInv, CountInv
      <4> QED
        BY <2>s, <4>1
    <3>4. source'[p].phase # "live" => ~source'[p].self
      BY <2>i, <2>s, <2>t, <2>n DEF SourceInv, CountInv
    <3>5. \A o \in Thread : thread'[o].h = p /\ At(o, "new")' => source'[p].held
      BY <1>2, <1>3, <1>e, <2>i, <2>s, <2>o DEF SourceInv, CountInv, At
    <3> QED
      BY <3>2, <3>3, <3>4, <3>5 DEF CountInv
  <2>5. ASSUME p \notin overtaken' PROVE HandlerInv(p)'
    <3>h. HandlerInv(p)
      BY <1>2, <2>5, <2>i DEF SourceInv
    <3>v. \A o \in Thread : ~Handles(o, p)
      BY <1>2, <1>e, <3>h DEF HandlerInv
    <3>1. \A o \in Thread : Handles(o, p)' => ~source'[p].self /\ ~source'[p].called /\ source'[p].phase = "live"
      BY <3>h, <2>s, <2>t, <2>o, <3>v DEF HandlerInv
    <3>2. source'[p].self /\ source'[p].called => \E o \in Thread : thread'[o].h = p /\ At(o, "prepare")'
      BY <1>2, <3>h, <2>s, <2>t, <2>o, <3>v DEF HandlerInv, At
    <3>3. \A o \in Thread : thread'[o].h = p /\ At(o, "prepare2")' => ~source'[p].called
      BY <1>2, <1>3, <1>e, <3>h, <2>s, <2>o, <3>v DEF HandlerInv, At, Preparation
    <3>4. ~source'[p].cancellable =>
            (\E o \in Thread : Detaches(o, p)') \/ (\A o \in Thread : ~Handles(o, p)')
      BY <1>2, <1>e, <3>h, <2>s, <2>t, <2>o, <3>v DEF HandlerInv
    <3> QED
      BY <3>1, <3>2, <3>3, <3>4 DEF HandlerInv
  <2>6. DisposeInv(p)'
    <3>1. ASSUME NEW o \in Thread, Disposes(o, p)' PROVE Disposer(o, p)'
      BY <1>2, <1>3, <1>e, <2>i, <2>s, <2>t, <2>o, <3>1, <2>n, <2>u, <2>v, <2>w DEF SourceInv, DisposeInv, Disposer, Detached, At
    <3>2. ASSUME ~source'[p].cancellable PROVE Detached(p)'
      BY <1>1, <1>2, <1>3, <1>e, <2>i, <2>s, <2>t, <2>o, <3>2, <2>n, <2>u, <2>v, <2>w DEF SourceInv, DisposeInv, Disposer, Detached, At, Preparation
    <3> QED
      BY <3>1, <3>2 DEF DisposeInv
  <2> QED
    BY <2>4, <2>5, <2>6 DEF SourceInv
<1> QED
  BY <1>4, <1>e

LEMMA SourceDisposeWaits ==
  ASSUME Base, NEW t \in Thread, DisposeSelf(t), ~Rec(t).self, NEW p \in Source, SourceInv(p)
  PROVE  SourceInv(p)'
<1>1. ThreadInv(t) /\ thread[t] \in ThreadRecord /\ None \notin Source /\ User \cap Source = {}
  BY CancellableAssumption DEF Base, TypeOK
<1>2. /\ At(t, "self") /\ thread[t].h \in Source
      /\ ~source[thread[t].h].self
      /\ Goes(t, "spin", thread[t].h, thread[t].todo, thread[t].back)
      /\ Sets(thread[t].h, source[thread[t].h].phase, source[thread[t].h].refs,
             source[thread[t].h].held, FALSE, source[thread[t].h].called,
             source[thread[t].h].cancellable, source[thread[t].h].ready,
             source[thread[t].h].dispatched)
      /\ overtaken' = overtaken
  BY DidDisposeWaits
<1>3. /\ \A o \in Thread \ {t} : thread'[o] = thread[o]
      /\ thread'[t].at = "spin" /\ thread'[t].h = thread[t].h /\ thread'[t].back = thread[t].back
  BY <1>2 DEF Goes
<1>4. CASE p # thread[t].h
  <2>1. SameSource(p)
    BY <1>2, <1>4 DEF SameSource, Sets
  <2>2. ~Works(t, p) /\ ~Works(t, p)'
    BY <1>1, <1>2, <1>3, <1>4 DEF Works, At, ThreadInv, Placed, SourcePlaces, HolderPlaces,
       Unreffing, Disposal, Preparation
  <2> QED
    BY <1>2, <1>3, <2>1, <2>2, <1>4, SourceKept
<1>e. CASE p = thread[t].h
  <2>i. SourceInv(p) /\ Base
    OBVIOUS
  <2>s. /\ source'[p].phase = source[p].phase /\ source'[p].refs = source[p].refs
        /\ source'[p].held = source[p].held /\ source'[p].self = FALSE
        /\ source'[p].called = source[p].called /\ source'[p].cancellable = source[p].cancellable
    BY <1>2, <1>e DEF Sets
  <2>t. /\ Holds(t, p) /\ Holds(t, p)'
        /\ ~Handles(t, p) /\ ~Handles(t, p)'
        /\ Disposes(t, p) /\ Disposes(t, p)'
        /\ Detaches(t, p) /\ Detaches(t, p)'
    BY <1>1, <1>2, <1>3, <1>e DEF Works, Holds, Handles, Disposes, Detaches, Handling,
       HolderPlaces, Unreffing, Disposal, Preparation, At, ThreadInv, Placed
  <2>o. \A o \in Thread \ {t} : /\ thread'[o] = thread[o] /\ (Holds(o, p)' <=> Holds(o, p))
                                /\ Handles(o, p)' <=> Handles(o, p)
                                /\ Disposes(o, p)' <=> Disposes(o, p)
                                /\ Detaches(o, p)' <=> Detaches(o, p)
    BY <1>3 DEF Holds, Handles, Disposes, Detaches
  <2>n. /\ ~source[p].held
        /\ \A o \in Thread \ {t} : Holds(o, p) =>
             thread[o].at \in {"ready", "called"} \/ (At(o, "unref") /\ thread[o].back = "emit")
    BY <2>i, <2>t DEF SourceInv, DisposeInv, Disposer, Detached
  <2>w. \A o \in Thread \ {t} : thread[o].h = p => thread[o].at \notin Preparation
    BY <2>n DEF Holds, HolderPlaces, Preparation, At
  <2>u. \A o \in Thread \ {t} : ~Disposes(o, p)
    BY <1>2, <2>i, <2>t DEF SourceInv, DisposeInv, Disposer, Detached, At
  <2>v. ~source[p].cancellable
    BY <1>2, <2>i, <2>t DEF SourceInv, DisposeInv, Disposer, Detached, At
  <2>3. Cardinality(Holders(p))' = Cardinality(Holders(p))
    BY <2>t, <2>o, HoldersStay
  <2>4. CountInv(p)'
    <3>1. source[p].refs \in Nat /\ Cardinality(Holders(p)) \in Nat /\ source[p].refs = Bit(source[p].held) + Cardinality(Holders(p))
      BY <2>i, Counted DEF SourceInv, CountInv
    <3>2. source'[p].refs = Bit(source'[p].held) + Cardinality(Holders(p))'
      BY <1>2, <1>e, <2>s, <2>3, <3>1, <2>n DEF Bit
    <3>3. source'[p].phase = "live" <=> source'[p].refs # 0
      <4>1. source[p].phase = "live" <=> source[p].refs # 0
        BY <2>i DEF SourceInv, CountInv
      <4> QED
        BY <2>s, <4>1
    <3>4. source'[p].phase # "live" => ~source'[p].self
      BY <2>i, <2>s, <2>t, <2>n DEF SourceInv, CountInv
    <3>5. \A o \in Thread : thread'[o].h = p /\ At(o, "new")' => source'[p].held
      BY <1>2, <1>3, <1>e, <2>i, <2>s, <2>o DEF SourceInv, CountInv, At
    <3> QED
      BY <3>2, <3>3, <3>4, <3>5 DEF CountInv
  <2>5. ASSUME p \notin overtaken' PROVE HandlerInv(p)'
    <3>h. HandlerInv(p)
      BY <1>2, <2>5, <2>i DEF SourceInv
    <3>1. \A o \in Thread : Handles(o, p)' => ~source'[p].self /\ ~source'[p].called /\ source'[p].phase = "live"
      BY <3>h, <2>s, <2>t, <2>o DEF HandlerInv
    <3>2. source'[p].self /\ source'[p].called => \E o \in Thread : thread'[o].h = p /\ At(o, "prepare")'
      BY <1>2, <3>h, <2>s, <2>t, <2>o DEF HandlerInv, At
    <3>3. \A o \in Thread : thread'[o].h = p /\ At(o, "prepare2")' => ~source'[p].called
      BY <1>2, <1>3, <1>e, <3>h, <2>s, <2>o DEF HandlerInv, At, Preparation
    <3>4. ~source'[p].cancellable =>
            (\E o \in Thread : Detaches(o, p)') \/ (\A o \in Thread : ~Handles(o, p)')
      BY <1>2, <1>e, <3>h, <2>s, <2>t, <2>o DEF HandlerInv
    <3> QED
      BY <3>1, <3>2, <3>3, <3>4 DEF HandlerInv
  <2>6. DisposeInv(p)'
    <3>1. ASSUME NEW o \in Thread, Disposes(o, p)' PROVE Disposer(o, p)'
      BY <1>2, <1>3, <1>e, <2>i, <2>s, <2>t, <2>o, <3>1, <2>n, <2>u, <2>v, <2>w DEF SourceInv, DisposeInv, Disposer, Detached, At
    <3>2. ASSUME ~source'[p].cancellable PROVE Detached(p)'
      BY <1>1, <1>2, <1>3, <1>e, <2>i, <2>s, <2>t, <2>o, <3>2, <2>n, <2>u, <2>v, <2>w DEF SourceInv, DisposeInv, Disposer, Detached, At, Preparation
    <3> QED
      BY <3>1, <3>2 DEF DisposeInv
  <2> QED
    BY <2>4, <2>5, <2>6 DEF SourceInv
<1> QED
  BY <1>4, <1>e

LEMMA SourceDisposeSpin ==
  ASSUME Base, NEW t \in Thread, DisposeSpin(t), NEW p \in Source, SourceInv(p)
  PROVE  SourceInv(p)'
<1>1. ThreadInv(t) /\ thread[t] \in ThreadRecord /\ None \notin Source /\ User \cap Source = {}
  BY CancellableAssumption DEF Base, TypeOK
<1>2. /\ At(t, "spin") /\ thread[t].h \in Source
      /\ source[thread[t].h].called
      /\ Goes(t, "disconnect", thread[t].h, thread[t].todo, thread[t].back)
      /\ source' = source
      /\ overtaken' = overtaken
  BY DidDisposeSpin
<1>3. /\ \A o \in Thread \ {t} : thread'[o] = thread[o]
      /\ thread'[t].at = "disconnect" /\ thread'[t].h = thread[t].h /\ thread'[t].back = thread[t].back
  BY <1>2 DEF Goes
<1>4. CASE p # thread[t].h
  <2>1. SameSource(p)
    BY <1>2, <1>4 DEF SameSource, Sets
  <2>2. ~Works(t, p) /\ ~Works(t, p)'
    BY <1>1, <1>2, <1>3, <1>4 DEF Works, At, ThreadInv, Placed, SourcePlaces, HolderPlaces,
       Unreffing, Disposal, Preparation
  <2> QED
    BY <1>2, <1>3, <2>1, <2>2, <1>4, SourceKept
<1>e. CASE p = thread[t].h
  <2>i. SourceInv(p) /\ Base
    OBVIOUS
  <2>s. /\ source'[p].phase = source[p].phase /\ source'[p].refs = source[p].refs
        /\ source'[p].held = source[p].held /\ source'[p].self = source[p].self
        /\ source'[p].called = source[p].called /\ source'[p].cancellable = source[p].cancellable
    BY <1>2, <1>e DEF Sets
  <2>t. /\ Holds(t, p) /\ Holds(t, p)'
        /\ ~Handles(t, p) /\ ~Handles(t, p)'
        /\ Disposes(t, p) /\ Disposes(t, p)'
        /\ Detaches(t, p) /\ ~Detaches(t, p)'
    BY <1>1, <1>2, <1>3, <1>e DEF Works, Holds, Handles, Disposes, Detaches, Handling,
       HolderPlaces, Unreffing, Disposal, Preparation, At, ThreadInv, Placed
  <2>o. \A o \in Thread \ {t} : /\ thread'[o] = thread[o] /\ (Holds(o, p)' <=> Holds(o, p))
                                /\ Handles(o, p)' <=> Handles(o, p)
                                /\ Disposes(o, p)' <=> Disposes(o, p)
                                /\ Detaches(o, p)' <=> Detaches(o, p)
    BY <1>3 DEF Holds, Handles, Disposes, Detaches
  <2>n. /\ ~source[p].held
        /\ \A o \in Thread \ {t} : Holds(o, p) =>
             thread[o].at \in {"ready", "called"} \/ (At(o, "unref") /\ thread[o].back = "emit")
    BY <2>i, <2>t DEF SourceInv, DisposeInv, Disposer, Detached
  <2>w. \A o \in Thread \ {t} : thread[o].h = p => thread[o].at \notin Preparation
    BY <2>n DEF Holds, HolderPlaces, Preparation, At
  <2>u. \A o \in Thread \ {t} : ~Disposes(o, p)
    BY <1>2, <2>i, <2>t DEF SourceInv, DisposeInv, Disposer, Detached, At
  <2>v. ~source[p].cancellable
    BY <1>2, <2>i, <2>t DEF SourceInv, DisposeInv, Disposer, Detached, At
  <2>x. ~source[p].self
    BY <1>2, <1>e, <2>i, <2>t DEF SourceInv, DisposeInv, Disposer, Detached
  <2>3. Cardinality(Holders(p))' = Cardinality(Holders(p))
    BY <2>t, <2>o, HoldersStay
  <2>4. CountInv(p)'
    <3>1. source[p].refs \in Nat /\ Cardinality(Holders(p)) \in Nat /\ source[p].refs = Bit(source[p].held) + Cardinality(Holders(p))
      BY <2>i, Counted DEF SourceInv, CountInv
    <3>2. source'[p].refs = Bit(source'[p].held) + Cardinality(Holders(p))'
      BY <1>2, <1>e, <2>s, <2>3, <3>1, <2>n DEF Bit
    <3>3. source'[p].phase = "live" <=> source'[p].refs # 0
      <4>1. source[p].phase = "live" <=> source[p].refs # 0
        BY <2>i DEF SourceInv, CountInv
      <4> QED
        BY <2>s, <4>1
    <3>4. source'[p].phase # "live" => ~source'[p].self
      BY <2>i, <2>s, <2>t, <2>n DEF SourceInv, CountInv
    <3>5. \A o \in Thread : thread'[o].h = p /\ At(o, "new")' => source'[p].held
      BY <1>2, <1>3, <1>e, <2>i, <2>s, <2>o DEF SourceInv, CountInv, At
    <3> QED
      BY <3>2, <3>3, <3>4, <3>5 DEF CountInv
  <2>5. ASSUME p \notin overtaken' PROVE HandlerInv(p)'
    <3>h. HandlerInv(p)
      BY <1>2, <2>5, <2>i DEF SourceInv
    <3>v. \A o \in Thread : ~Handles(o, p)
      BY <1>2, <1>e, <3>h DEF HandlerInv
    <3>1. \A o \in Thread : Handles(o, p)' => ~source'[p].self /\ ~source'[p].called /\ source'[p].phase = "live"
      BY <3>h, <2>s, <2>t, <2>o, <3>v DEF HandlerInv
    <3>2. source'[p].self /\ source'[p].called => \E o \in Thread : thread'[o].h = p /\ At(o, "prepare")'
      BY <1>2, <3>h, <2>s, <2>t, <2>o, <3>v DEF HandlerInv, At
    <3>3. \A o \in Thread : thread'[o].h = p /\ At(o, "prepare2")' => ~source'[p].called
      BY <1>2, <1>3, <1>e, <3>h, <2>s, <2>o, <3>v DEF HandlerInv, At, Preparation
    <3>4. ~source'[p].cancellable =>
            (\E o \in Thread : Detaches(o, p)') \/ (\A o \in Thread : ~Handles(o, p)')
      BY <1>2, <1>e, <3>h, <2>s, <2>t, <2>o, <3>v DEF HandlerInv
    <3> QED
      BY <3>1, <3>2, <3>3, <3>4 DEF HandlerInv
  <2>6. DisposeInv(p)'
    <3>1. ASSUME NEW o \in Thread, Disposes(o, p)' PROVE Disposer(o, p)'
      BY <1>2, <1>3, <1>e, <2>i, <2>s, <2>t, <2>o, <3>1, <2>n, <2>u, <2>v, <2>w, <2>x DEF SourceInv, DisposeInv, Disposer, Detached, At
    <3>2. ASSUME ~source'[p].cancellable PROVE Detached(p)'
      BY <1>1, <1>2, <1>3, <1>e, <2>i, <2>s, <2>t, <2>o, <3>2, <2>n, <2>u, <2>v, <2>w, <2>x DEF SourceInv, DisposeInv, Disposer, Detached, At, Preparation
    <3> QED
      BY <3>1, <3>2 DEF DisposeInv
  <2> QED
    BY <2>4, <2>5, <2>6 DEF SourceInv
<1> QED
  BY <1>4, <1>e

LEMMA SourceDisposeDisconnect ==
  ASSUME Base, NEW t \in Thread, DisposeDisconnect(t), NEW p \in Source, SourceInv(p)
  PROVE  SourceInv(p)'
<1>1. ThreadInv(t) /\ thread[t] \in ThreadRecord /\ None \notin Source /\ User \cap Source = {}
  BY CancellableAssumption DEF Base, TypeOK
<1>2. /\ At(t, "disconnect") /\ thread[t].h \in Source
      /\ Goes(t, "drop", thread[t].h, thread[t].todo, thread[t].back)
      /\ source' = source
      /\ overtaken' = overtaken
  BY DidDisposeDisconnect
<1>3. /\ \A o \in Thread \ {t} : thread'[o] = thread[o]
      /\ thread'[t].at = "drop" /\ thread'[t].h = thread[t].h /\ thread'[t].back = thread[t].back
  BY <1>2 DEF Goes
<1>4. CASE p # thread[t].h
  <2>1. SameSource(p)
    BY <1>2, <1>4 DEF SameSource, Sets
  <2>2. ~Works(t, p) /\ ~Works(t, p)'
    BY <1>1, <1>2, <1>3, <1>4 DEF Works, At, ThreadInv, Placed, SourcePlaces, HolderPlaces,
       Unreffing, Disposal, Preparation
  <2> QED
    BY <1>2, <1>3, <2>1, <2>2, <1>4, SourceKept
<1>e. CASE p = thread[t].h
  <2>i. SourceInv(p) /\ Base
    OBVIOUS
  <2>s. /\ source'[p].phase = source[p].phase /\ source'[p].refs = source[p].refs
        /\ source'[p].held = source[p].held /\ source'[p].self = source[p].self
        /\ source'[p].called = source[p].called /\ source'[p].cancellable = source[p].cancellable
    BY <1>2, <1>e DEF Sets
  <2>t. /\ Holds(t, p) /\ Holds(t, p)'
        /\ ~Handles(t, p) /\ ~Handles(t, p)'
        /\ Disposes(t, p) /\ Disposes(t, p)'
        /\ ~Detaches(t, p) /\ ~Detaches(t, p)'
    BY <1>1, <1>2, <1>3, <1>e DEF Works, Holds, Handles, Disposes, Detaches, Handling,
       HolderPlaces, Unreffing, Disposal, Preparation, At, ThreadInv, Placed
  <2>o. \A o \in Thread \ {t} : /\ thread'[o] = thread[o] /\ (Holds(o, p)' <=> Holds(o, p))
                                /\ Handles(o, p)' <=> Handles(o, p)
                                /\ Disposes(o, p)' <=> Disposes(o, p)
                                /\ Detaches(o, p)' <=> Detaches(o, p)
    BY <1>3 DEF Holds, Handles, Disposes, Detaches
  <2>n. /\ ~source[p].held
        /\ \A o \in Thread \ {t} : Holds(o, p) =>
             thread[o].at \in {"ready", "called"} \/ (At(o, "unref") /\ thread[o].back = "emit")
    BY <2>i, <2>t DEF SourceInv, DisposeInv, Disposer, Detached
  <2>w. \A o \in Thread \ {t} : thread[o].h = p => thread[o].at \notin Preparation
    BY <2>n DEF Holds, HolderPlaces, Preparation, At
  <2>u. \A o \in Thread \ {t} : ~Disposes(o, p)
    BY <1>2, <2>i, <2>t DEF SourceInv, DisposeInv, Disposer, Detached, At
  <2>v. ~source[p].cancellable
    BY <1>2, <2>i, <2>t DEF SourceInv, DisposeInv, Disposer, Detached, At
  <2>3. Cardinality(Holders(p))' = Cardinality(Holders(p))
    BY <2>t, <2>o, HoldersStay
  <2>4. CountInv(p)'
    <3>1. source[p].refs \in Nat /\ Cardinality(Holders(p)) \in Nat /\ source[p].refs = Bit(source[p].held) + Cardinality(Holders(p))
      BY <2>i, Counted DEF SourceInv, CountInv
    <3>2. source'[p].refs = Bit(source'[p].held) + Cardinality(Holders(p))'
      BY <1>2, <1>e, <2>s, <2>3, <3>1, <2>n DEF Bit
    <3>3. source'[p].phase = "live" <=> source'[p].refs # 0
      <4>1. source[p].phase = "live" <=> source[p].refs # 0
        BY <2>i DEF SourceInv, CountInv
      <4> QED
        BY <2>s, <4>1
    <3>4. source'[p].phase # "live" => ~source'[p].self
      BY <2>i, <2>s, <2>t, <2>n DEF SourceInv, CountInv
    <3>5. \A o \in Thread : thread'[o].h = p /\ At(o, "new")' => source'[p].held
      BY <1>2, <1>3, <1>e, <2>i, <2>s, <2>o DEF SourceInv, CountInv, At
    <3> QED
      BY <3>2, <3>3, <3>4, <3>5 DEF CountInv
  <2>5. ASSUME p \notin overtaken' PROVE HandlerInv(p)'
    <3>h. HandlerInv(p)
      BY <1>2, <2>5, <2>i DEF SourceInv
    <3>1. \A o \in Thread : Handles(o, p)' => ~source'[p].self /\ ~source'[p].called /\ source'[p].phase = "live"
      BY <3>h, <2>s, <2>t, <2>o DEF HandlerInv
    <3>2. source'[p].self /\ source'[p].called => \E o \in Thread : thread'[o].h = p /\ At(o, "prepare")'
      BY <1>2, <3>h, <2>s, <2>t, <2>o DEF HandlerInv, At
    <3>3. \A o \in Thread : thread'[o].h = p /\ At(o, "prepare2")' => ~source'[p].called
      BY <1>2, <1>3, <1>e, <3>h, <2>s, <2>o DEF HandlerInv, At, Preparation
    <3>4. ~source'[p].cancellable =>
            (\E o \in Thread : Detaches(o, p)') \/ (\A o \in Thread : ~Handles(o, p)')
      BY <1>2, <1>e, <3>h, <2>s, <2>t, <2>o DEF HandlerInv
    <3> QED
      BY <3>1, <3>2, <3>3, <3>4 DEF HandlerInv
  <2>6. DisposeInv(p)'
    <3>1. ASSUME NEW o \in Thread, Disposes(o, p)' PROVE Disposer(o, p)'
      BY <1>2, <1>3, <1>e, <2>i, <2>s, <2>t, <2>o, <3>1, <2>n, <2>u, <2>v, <2>w DEF SourceInv, DisposeInv, Disposer, Detached, At
    <3>2. ASSUME ~source'[p].cancellable PROVE Detached(p)'
      BY <1>1, <1>2, <1>3, <1>e, <2>i, <2>s, <2>t, <2>o, <3>2, <2>n, <2>u, <2>v, <2>w DEF SourceInv, DisposeInv, Disposer, Detached, At, Preparation
    <3> QED
      BY <3>1, <3>2 DEF DisposeInv
  <2> QED
    BY <2>4, <2>5, <2>6 DEF SourceInv
<1> QED
  BY <1>4, <1>e

LEMMA SourceDropFrees ==
  ASSUME Base, NEW t \in Thread, DropLast(t), Rec(t).refs = 1, NEW p \in Source, SourceInv(p)
  PROVE  SourceInv(p)'
<1>1. ThreadInv(t) /\ thread[t] \in ThreadRecord /\ None \notin Source /\ User \cap Source = {}
  BY CancellableAssumption DEF Base, TypeOK
<1>2. /\ At(t, "drop") /\ thread[t].h \in Source
      /\ source[thread[t].h].refs = 1
      /\ Goes(t, thread[t].back, None, thread[t].todo, "idle")
      /\ Sets(thread[t].h, "freed", 0, source[thread[t].h].held, source[thread[t].h].self,
             source[thread[t].h].called, source[thread[t].h].cancellable,
             source[thread[t].h].ready, source[thread[t].h].dispatched)
      /\ overtaken' = overtaken
  BY DidDropFrees
<1>3. /\ \A o \in Thread \ {t} : thread'[o] = thread[o]
      /\ thread'[t].at = thread[t].back /\ thread'[t].h = None /\ thread'[t].back = "idle"
  BY <1>2 DEF Goes
<1>4. CASE p # thread[t].h
  <2>1. SameSource(p)
    BY <1>2, <1>4 DEF SameSource, Sets
  <2>2. ~Works(t, p) /\ ~Works(t, p)'
    BY <1>1, <1>2, <1>3, <1>4 DEF Works, At, ThreadInv, Placed, SourcePlaces, HolderPlaces,
       Unreffing, Disposal, Preparation
  <2> QED
    BY <1>2, <1>3, <2>1, <2>2, <1>4, SourceKept
<1>e. CASE p = thread[t].h
  <2>i. SourceInv(p) /\ Base
    OBVIOUS
  <2>s. /\ source'[p].phase = "freed" /\ source'[p].refs = 0
        /\ source'[p].held = source[p].held /\ source'[p].self = source[p].self
        /\ source'[p].called = source[p].called /\ source'[p].cancellable = source[p].cancellable
    BY <1>2, <1>e DEF Sets
  <2>t. /\ Holds(t, p) /\ ~Holds(t, p)'
        /\ ~Handles(t, p) /\ ~Handles(t, p)'
        /\ Disposes(t, p) /\ ~Disposes(t, p)'
        /\ ~Detaches(t, p) /\ ~Detaches(t, p)'
    BY <1>1, <1>2, <1>3, <1>e DEF Works, Holds, Handles, Disposes, Detaches, Handling,
       HolderPlaces, Unreffing, Disposal, Preparation, At, ThreadInv, Placed
  <2>o. \A o \in Thread \ {t} : /\ thread'[o] = thread[o] /\ (Holds(o, p)' <=> Holds(o, p))
                                /\ Handles(o, p)' <=> Handles(o, p)
                                /\ Disposes(o, p)' <=> Disposes(o, p)
                                /\ Detaches(o, p)' <=> Detaches(o, p)
    BY <1>3 DEF Holds, Handles, Disposes, Detaches
  <2>n. ~source[p].held /\ (\A o \in Thread \ {t} : ~Holds(o, p)) /\ Cardinality(Holders(p)) = 1
    BY <1>2, <1>e, <2>i, <2>t, Counted
  <2>u. \A o \in Thread \ {t} : ~Disposes(o, p)
    BY <2>n DEF Holds, Disposes, HolderPlaces, Unreffing
  <2>v. ~source[p].cancellable
    BY <1>2, <2>i, <2>t DEF SourceInv, DisposeInv, Disposer, Detached, At
  <2>w. \A o \in Thread : ~Detaches(o, p)
    BY <1>2, <2>n DEF Holds, Detaches, HolderPlaces, Unreffing, Disposal, At
  <2>x. ~source[p].self /\ \A o \in Thread : thread[o].h = p => thread[o].at \notin Preparation
    BY <2>i, <2>v, <2>w DEF SourceInv, DisposeInv, Disposer, Detached
  <2>y. \A o \in Thread : thread[o].h = p => thread[o].at # "new"
    BY <2>i, <2>n DEF SourceInv, CountInv, At
  <2>3. Cardinality(Holders(p))' = Cardinality(Holders(p)) - 1
    BY <2>t, <2>o, HoldersLeave
  <2>4. CountInv(p)'
    <3>1. source[p].refs \in Nat /\ Cardinality(Holders(p)) \in Nat /\ source[p].refs = Bit(source[p].held) + Cardinality(Holders(p))
      BY <2>i, Counted DEF SourceInv, CountInv
    <3>2. source'[p].refs = Bit(source'[p].held) + Cardinality(Holders(p))'
      BY <1>2, <1>e, <2>s, <2>3, <3>1, <2>n, <2>x DEF Bit
    <3>3. source'[p].phase = "live" <=> source'[p].refs # 0
      <4>1. source[p].phase = "live" <=> source[p].refs # 0
        BY <2>i DEF SourceInv, CountInv
      <4> QED
        BY <2>s, <4>1
    <3>4. source'[p].phase # "live" => ~source'[p].self
      BY <2>i, <2>s, <2>t, <2>n, <2>x DEF SourceInv, CountInv
    <3>5. \A o \in Thread : thread'[o].h = p /\ At(o, "new")' => source'[p].held
      BY <1>1, <1>2, <1>3, <1>e, <2>i, <2>s, <2>o, <2>y DEF SourceInv, CountInv, At
    <3> QED
      BY <3>2, <3>3, <3>4, <3>5 DEF CountInv
  <2>5. ASSUME p \notin overtaken' PROVE HandlerInv(p)'
    <3>h. HandlerInv(p)
      BY <1>2, <2>5, <2>i DEF SourceInv
    <3>v. \A o \in Thread : ~Handles(o, p)
      BY <2>v, <2>w, <3>h DEF HandlerInv
    <3>1. \A o \in Thread : Handles(o, p)' => ~source'[p].self /\ ~source'[p].called /\ source'[p].phase = "live"
      BY <3>h, <2>s, <2>t, <2>o, <2>x, <3>v DEF HandlerInv
    <3>2. source'[p].self /\ source'[p].called => \E o \in Thread : thread'[o].h = p /\ At(o, "prepare")'
      BY <1>2, <3>h, <2>s, <2>t, <2>o, <2>x, <3>v DEF HandlerInv, At
    <3>3. \A o \in Thread : thread'[o].h = p /\ At(o, "prepare2")' => ~source'[p].called
      BY <1>1, <1>2, <1>3, <1>e, <3>h, <2>s, <2>o, <2>x, <3>v DEF HandlerInv, At, Preparation
    <3>4. ~source'[p].cancellable =>
            (\E o \in Thread : Detaches(o, p)') \/ (\A o \in Thread : ~Handles(o, p)')
      BY <1>2, <1>e, <3>h, <2>s, <2>t, <2>o, <2>x, <3>v DEF HandlerInv
    <3> QED
      BY <3>1, <3>2, <3>3, <3>4 DEF HandlerInv
  <2>6. DisposeInv(p)'
    <3>1. ASSUME NEW o \in Thread, Disposes(o, p)' PROVE Disposer(o, p)'
      BY <1>2, <1>3, <1>e, <2>i, <2>s, <2>t, <2>o, <3>1, <2>n, <2>u, <2>x DEF SourceInv, DisposeInv, Disposer, Detached, At
    <3>2. ASSUME ~source'[p].cancellable PROVE Detached(p)'
      BY <1>1, <1>2, <1>3, <1>e, <2>i, <2>s, <2>t, <2>o, <3>2, <2>n, <2>u, <2>x DEF SourceInv, DisposeInv, Disposer, Detached, At, Preparation
    <3> QED
      BY <3>1, <3>2 DEF DisposeInv
  <2> QED
    BY <2>4, <2>5, <2>6 DEF SourceInv
<1> QED
  BY <1>4, <1>e

LEMMA SourceDropRetries ==
  ASSUME Base, NEW t \in Thread, DropLast(t), Rec(t).refs # 1, NEW p \in Source, SourceInv(p)
  PROVE  SourceInv(p)'
<1>1. ThreadInv(t) /\ thread[t] \in ThreadRecord /\ None \notin Source /\ User \cap Source = {}
  BY CancellableAssumption DEF Base, TypeOK
<1>2. /\ At(t, "drop") /\ thread[t].h \in Source
      /\ Goes(t, "unref", thread[t].h, thread[t].todo, thread[t].back)
      /\ source' = source
      /\ overtaken' = overtaken
  BY DidDropRetries
<1>3. /\ \A o \in Thread \ {t} : thread'[o] = thread[o]
      /\ thread'[t].at = "unref" /\ thread'[t].h = thread[t].h /\ thread'[t].back = thread[t].back
  BY <1>2 DEF Goes
<1>4. CASE p # thread[t].h
  <2>1. SameSource(p)
    BY <1>2, <1>4 DEF SameSource, Sets
  <2>2. ~Works(t, p) /\ ~Works(t, p)'
    BY <1>1, <1>2, <1>3, <1>4 DEF Works, At, ThreadInv, Placed, SourcePlaces, HolderPlaces,
       Unreffing, Disposal, Preparation
  <2> QED
    BY <1>2, <1>3, <2>1, <2>2, <1>4, SourceKept
<1>e. CASE p = thread[t].h
  <2>i. SourceInv(p) /\ Base
    OBVIOUS
  <2>s. /\ source'[p].phase = source[p].phase /\ source'[p].refs = source[p].refs
        /\ source'[p].held = source[p].held /\ source'[p].self = source[p].self
        /\ source'[p].called = source[p].called /\ source'[p].cancellable = source[p].cancellable
    BY <1>2, <1>e DEF Sets
  <2>t. /\ Holds(t, p) /\ Holds(t, p)'
        /\ ~Handles(t, p) /\ ~Handles(t, p)'
        /\ Disposes(t, p) /\ ~Disposes(t, p)'
        /\ ~Detaches(t, p) /\ ~Detaches(t, p)'
    BY <1>1, <1>2, <1>3, <1>e DEF Works, Holds, Handles, Disposes, Detaches, Handling,
       HolderPlaces, Unreffing, Disposal, Preparation, At, ThreadInv, Placed
  <2>o. \A o \in Thread \ {t} : /\ thread'[o] = thread[o] /\ (Holds(o, p)' <=> Holds(o, p))
                                /\ Handles(o, p)' <=> Handles(o, p)
                                /\ Disposes(o, p)' <=> Disposes(o, p)
                                /\ Detaches(o, p)' <=> Detaches(o, p)
    BY <1>3 DEF Holds, Handles, Disposes, Detaches
  <2>n. /\ ~source[p].held
        /\ \A o \in Thread \ {t} : Holds(o, p) =>
             thread[o].at \in {"ready", "called"} \/ (At(o, "unref") /\ thread[o].back = "emit")
    BY <2>i, <2>t DEF SourceInv, DisposeInv, Disposer, Detached
  <2>w. \A o \in Thread \ {t} : thread[o].h = p => thread[o].at \notin Preparation
    BY <2>n DEF Holds, HolderPlaces, Preparation, At
  <2>u. \A o \in Thread \ {t} : ~Disposes(o, p)
    BY <1>2, <2>i, <2>t DEF SourceInv, DisposeInv, Disposer, Detached, At
  <2>v. ~source[p].cancellable
    BY <1>2, <2>i, <2>t DEF SourceInv, DisposeInv, Disposer, Detached, At
  <2>3. Cardinality(Holders(p))' = Cardinality(Holders(p))
    BY <2>t, <2>o, HoldersStay
  <2>4. CountInv(p)'
    <3>1. source[p].refs \in Nat /\ Cardinality(Holders(p)) \in Nat /\ source[p].refs = Bit(source[p].held) + Cardinality(Holders(p))
      BY <2>i, Counted DEF SourceInv, CountInv
    <3>2. source'[p].refs = Bit(source'[p].held) + Cardinality(Holders(p))'
      BY <1>2, <1>e, <2>s, <2>3, <3>1, <2>n DEF Bit
    <3>3. source'[p].phase = "live" <=> source'[p].refs # 0
      <4>1. source[p].phase = "live" <=> source[p].refs # 0
        BY <2>i DEF SourceInv, CountInv
      <4> QED
        BY <2>s, <4>1
    <3>4. source'[p].phase # "live" => ~source'[p].self
      BY <2>i, <2>s, <2>t, <2>n DEF SourceInv, CountInv
    <3>5. \A o \in Thread : thread'[o].h = p /\ At(o, "new")' => source'[p].held
      BY <1>2, <1>3, <1>e, <2>i, <2>s, <2>o DEF SourceInv, CountInv, At
    <3> QED
      BY <3>2, <3>3, <3>4, <3>5 DEF CountInv
  <2>5. ASSUME p \notin overtaken' PROVE HandlerInv(p)'
    <3>h. HandlerInv(p)
      BY <1>2, <2>5, <2>i DEF SourceInv
    <3>1. \A o \in Thread : Handles(o, p)' => ~source'[p].self /\ ~source'[p].called /\ source'[p].phase = "live"
      BY <3>h, <2>s, <2>t, <2>o DEF HandlerInv
    <3>2. source'[p].self /\ source'[p].called => \E o \in Thread : thread'[o].h = p /\ At(o, "prepare")'
      BY <1>2, <3>h, <2>s, <2>t, <2>o DEF HandlerInv, At
    <3>3. \A o \in Thread : thread'[o].h = p /\ At(o, "prepare2")' => ~source'[p].called
      BY <1>2, <1>3, <1>e, <3>h, <2>s, <2>o DEF HandlerInv, At, Preparation
    <3>4. ~source'[p].cancellable =>
            (\E o \in Thread : Detaches(o, p)') \/ (\A o \in Thread : ~Handles(o, p)')
      BY <1>2, <1>e, <3>h, <2>s, <2>t, <2>o DEF HandlerInv
    <3> QED
      BY <3>1, <3>2, <3>3, <3>4 DEF HandlerInv
  <2>6. DisposeInv(p)'
    <3>1. ASSUME NEW o \in Thread, Disposes(o, p)' PROVE Disposer(o, p)'
      BY <1>2, <1>3, <1>e, <2>i, <2>s, <2>t, <2>o, <3>1, <2>n, <2>u, <2>v, <2>w DEF SourceInv, DisposeInv, Disposer, Detached, At
    <3>2. ASSUME ~source'[p].cancellable PROVE Detached(p)'
      BY <1>1, <1>2, <1>3, <1>e, <2>i, <2>s, <2>t, <2>o, <3>2, <2>n, <2>u, <2>v, <2>w DEF SourceInv, DisposeInv, Disposer, Detached, At, Preparation
    <3> QED
      BY <3>1, <3>2 DEF DisposeInv
  <2> QED
    BY <2>4, <2>5, <2>6 DEF SourceInv
<1> QED
  BY <1>4, <1>e

LEMMA SourceStutters ==
  ASSUME NEW p \in Source, SourceInv(p), UNCHANGED vars
  PROVE  SourceInv(p)'
<1>1. thread' = thread /\ source' = source /\ overtaken' = overtaken
  BY DEF vars
<1>2. \A o \in Thread : /\ Holds(o, p)' <=> Holds(o, p)
                        /\ Handles(o, p)' <=> Handles(o, p)
                        /\ Disposes(o, p)' <=> Disposes(o, p)
                        /\ Detaches(o, p)' <=> Detaches(o, p)
  BY <1>1 DEF Holds, Handles, Disposes, Detaches
<1>3. Cardinality(Holders(p))' = Cardinality(Holders(p))
  BY <1>2, HoldersStay
<1>4. CountInv(p)' /\ (p \notin overtaken' => HandlerInv(p)')
  BY <1>1, <1>2, <1>3 DEF SourceInv, CountInv, HandlerInv, At
<1>5. DisposeInv(p)'
  BY <1>1, <1>2 DEF SourceInv, DisposeInv, Disposer, Detached, At
<1> QED
  BY <1>4, <1>5 DEF SourceInv

LEMMA SourceNext ==
  ASSUME Base, NEW p \in Source, SourceInv(p), [Next]_vars
  PROVE  SourceInv(p)'
<1>1. CASE UNCHANGED vars
  BY <1>1, SourceStutters
<1>2. ASSUME NEW t \in Thread, Sound, Start(t) \/ GoOn(t) PROVE SourceInv(p)'
  <2>1. CASE Cancel(t)
    BY <2>1, SourceCancel
  <2>2. CASE CancelLock(t)
    BY <2>2, SourceCancelLost, SourceCancelWon
  <2>3. CASE EmitStart(t)
    BY <2>3, SourceEmitStart
  <2>4. CASE EmitNext(t)
    <3>1. Head(thread[t].todo) \in User \cup Source
      BY <2>4 DEF EmitNext, Base, TypeOK, ThreadRecord
    <3> QED
      BY <2>4, <3>1, SourceEmitSkips, SourceEmitCalls, SourceEmitExchanges
  <2>5. CASE CallbackReturns(t)
    BY <2>5, SourceCallbackReturns
  <2>6. CASE EmitEnd(t)
    BY <2>6, SourceEmitEnd
  <2>7. ASSUME NEW u \in User, Connect(t, u) PROVE SourceInv(p)'
    BY <2>7, SourceConnectOn, SourceConnectOff
  <2>8. CASE DirectReturns(t)
    BY <2>8, SourceDirectReturns
  <2>9. ASSUME NEW u \in User, Disconnect(t, u) PROVE SourceInv(p)'
    BY <2>9, SourceDisconnect
  <2>10. CASE DisconnectLock(t)
    BY <2>10, SourceDisconnectLock
  <2>11. CASE DisconnectEnds(t)
    BY <2>11, SourceDisconnectEnds
  <2>12. CASE Reset(t)
    BY <2>12, SourceReset
  <2>13. CASE MakePollfd(t)
    BY <2>13, SourceMakePollfd
  <2>14. CASE ReleaseFd(t)
    BY <2>14, SourceReleaseFd
  <2>15. ASSUME NEW s \in Source, SourceNew(t, s) PROVE SourceInv(p)'
    BY <2>15, SourceSourceNew
  <2>16. CASE SourceChecks(t)
    BY <2>16, SourceSourceChecks
  <2>17. CASE Exchange(t)
    BY <2>17, SourceExchangeTakes, SourceExchangeFails
  <2>18. CASE HandlerRefs(t)
    BY <1>2, <2>18, SourceHandlerRefs
  <2>19. CASE HandlerReadies(t)
    BY <2>19, SourceHandlerReadies
  <2>20. CASE HandlerCalled(t)
    BY <2>20, SourceHandlerCalled
  <2>21. ASSUME NEW s \in Source, Prepare(t, s) PROVE SourceInv(p)'
    BY <2>21, SourcePrepare
  <2>22. CASE PrepareFlag(t)
    BY <2>22, SourcePrepareFlag
  <2>23. CASE PrepareSelf(t)
    BY <2>23, SourcePrepareSelf
  <2>24. ASSUME NEW s \in Source, Dispatch(t, s) PROVE SourceInv(p)'
    BY <2>24, SourceDispatch
  <2>25. ASSUME NEW s \in Source, Drop(t, s) PROVE SourceInv(p)'
    BY <2>25, SourceDrop
  <2>26. CASE Unref(t)
    BY <2>26, SourceUnrefDrops, SourceUnrefDisposes
  <2>27. CASE Dispose(t)
    BY <2>27, SourceDisposeFirst, SourceDisposeAgain
  <2>28. CASE DisposeSelf(t)
    BY <2>28, SourceDisposeTakes, SourceDisposeWaits
  <2>29. CASE DisposeSpin(t)
    BY <2>29, SourceDisposeSpin
  <2>30. CASE DisposeDisconnect(t)
    BY <2>30, SourceDisposeDisconnect
  <2>31. CASE DropLast(t)
    BY <2>31, SourceDropFrees, SourceDropRetries
  <2> QED
    BY <1>2, <2>1, <2>2, <2>3, <2>4, <2>5, <2>6, <2>7, <2>8, <2>9, <2>10, <2>11, <2>12,
       <2>13, <2>14, <2>15, <2>16, <2>17, <2>18, <2>19, <2>20, <2>21, <2>22, <2>23, <2>24,
       <2>25, <2>26, <2>27, <2>28, <2>29, <2>30, <2>31 DEF Start, GoOn
<1> QED
  BY <1>1, <1>2 DEF Next

LEMMA SourceInit == ASSUME Init PROVE \A p \in Source : SourceInv(p)
<1> SUFFICES ASSUME NEW p \in Source PROVE SourceInv(p)
  OBVIOUS
<1>1. /\ source[p].phase = "none" /\ source[p].refs = 0 /\ source[p].held = FALSE
      /\ source[p].self = FALSE /\ source[p].called = FALSE /\ source[p].cancellable = FALSE
  BY DEF Init, NoSource
<1>2. \A t \in Thread : thread[t].at = "idle" /\ thread[t].h # p
  BY CancellableAssumption DEF Init, Resting
<1>3. \A t \in Thread : ~Handles(t, p) /\ ~Disposes(t, p)
  BY <1>2 DEF Handles, Disposes
<1>4. Holders(p) = {}
  BY <1>2 DEF Holders
<1>5. Cardinality(Holders(p)) = 0
  BY <1>4, FS_EmptySet
<1>6. CountInv(p)
  BY <1>1, <1>2, <1>5 DEF CountInv, Bit, At
<1>7. HandlerInv(p) /\ DisposeInv(p)
  BY <1>1, <1>2, <1>3 DEF HandlerInv, DisposeInv, Detached
<1> QED
  BY <1>6, <1>7 DEF SourceInv

\* The references of a source are counted, and who disposes of it has the only one, but for
\* the handler's; and the handler has said so before the dispose goes on, but for a cancel
\* that has begun in the middle of the source's last preparation.
THEOREM SourcesCounted == Spec => [](\A p \in Source : SourceInv(p))
<1>1. Init => \A p \in Source : SourceInv(p)
  BY SourceInit
<1>2. Base /\ (\A p \in Source : SourceInv(p)) /\ [Next]_vars => (\A p \in Source : SourceInv(p))'
  BY SourceNext
<1> QED
  BY <1>1, <1>2, BaseHolds, PTL DEF Spec

\* Emissions are serialised by the mutex, and a source's memory outlives the handler that
\* works on it without a lock and everybody who drops a reference, but for a cancel that has
\* begun in the middle of the source's last preparation.
THEOREM SourcesSafe == Spec => []SourceLives
<1>1. Base => EmissionLocked
  <2> SUFFICES ASSUME Base PROVE EmissionLocked
    OBVIOUS
  <2>1. CASE \E t \in Thread : mutex = t /\ ~At(t, "direct")
    <3>1. PICK t \in Thread : mutex = t /\ ~At(t, "direct")
      BY <2>1
    <3>2. cancelledRunning = 1
      BY <3>1 DEF Base, MutexInv
    <3> QED
      BY <2>1, <3>2 DEF EmissionLocked
  <2>2. CASE ~\E t \in Thread : mutex = t /\ ~At(t, "direct")
    <3>1. \A t \in Thread : Emitting(t) => ~At(t, "direct")
      BY DEF Base, ThreadInv, Placed, Emitting, Emits, At, Unreffing, Disposal
    <3>2. cancelledRunning = 0
      BY <2>2, <3>1 DEF Base, MutexInv
    <3> QED
      BY <2>2, <3>2 DEF EmissionLocked
  <2> QED
    BY <2>1, <2>2
<1>2. Base /\ (\A p \in Source : SourceInv(p)) => NoUseAfterFree
  <2> SUFFICES ASSUME Base, NEW t \in Thread, NEW p \in Source, SourceInv(p), p = thread[t].h,
                      p \notin overtaken
               PROVE  /\ thread[t].at # "exchange" => source[p].phase = "live"
                      /\ At(t, "called") => ~source[p].called
    BY DEF NoUseAfterFree, Freed, Aborts, Rec, Here, At
  <2>a. At(t, "called") => ~source[p].called
    BY DEF SourceInv, HandlerInv, Handles, Handling, At
  <2> SUFFICES ASSUME thread[t].at # "exchange" PROVE source[p].phase = "live"
    BY <2>a
  <2>1. thread[t].at \in HolderPlaces \cup {"new", "ref"}
    <3>1. thread[t].at \in Places /\ ThreadInv(t) /\ p # None /\ p \notin User
      BY CancellableAssumption DEF Base, TypeOK, ThreadRecord
    <3> QED
      BY <3>1 DEF ThreadInv, Placed, Places, HolderPlaces, Unreffing, Disposal, Preparation
  <2>2. CASE thread[t].at \in HolderPlaces
    BY <2>2, Counted DEF Holds
  <2>3. CASE thread[t].at = "new"
    BY <2>3, Counted DEF SourceInv, CountInv, At
  <2>4. CASE thread[t].at = "ref"
    BY <2>4 DEF SourceInv, HandlerInv, Handles, Handling
  <2> QED
    BY <2>1, <2>2, <2>3, <2>4
<1>3. Base => TypeOK
  BY DEF Base
<1>4. Base /\ (\A p \in Source : SourceInv(p)) => SourceLives
  BY <1>1, <1>2, <1>3 DEF SourceLives
<1> QED
  BY <1>4, BaseHolds, SourcesCounted, PTL

--------------------------------------------------------------------------------
(* What a cancellation makes ready. *)

\* A step keeps what was made ready, and what will make ready.
KeepsReady(s) ==
  /\ s \in due' => s \in due
  /\ source[s].phase # "none" => source'[s].phase # "none"
  /\ source'[s].held =>
    /\ source[s].held
    /\ source[s].ready \/ source[s].dispatched => source'[s].ready \/ source'[s].dispatched
    /\ ~source'[s].self => ~source[s].self
    /\ s \in due' /\ source[s].ready => source'[s].ready
KeepsPending(t, s) ==
  source[s].held /\ source'[s].held =>
    /\ PendingBy(t, s) /\ cancelled => PendingBy(t, s)' \/ source'[s].ready \/ source'[s].dispatched
    /\ Taken(t, s) => Taken(t, s)' \/ source'[s].ready
    /\ source[s].self /\ Reaches(t, s) => Reaches(t, s)'

LEMMA TriggerKept ==
  ASSUME NEW s \in Source, NEW t \in Thread, TriggerInv(s),
         \A o \in Thread \ {t} : thread'[o] = thread[o], KeepsReady(s), KeepsPending(t, s),
         source[s].held => (In(handlers, s) => In(handlers, s)') /\ (cancelled' => cancelled)
  PROVE  TriggerInv(s)'
<1>1. \A o \in Thread \ {t} : /\ PendingBy(o, s)' <=> PendingBy(o, s)
                              /\ Taken(o, s)' <=> Taken(o, s)
                              /\ Reaches(o, s)' <=> Reaches(o, s)
  BY DEF PendingBy, Taken, Reaches, Emitting, At
<1> QED
  BY <1>1 DEF TriggerInv, KeepsReady, KeepsPending

\* A step outside of the emission that leaves the sources and the list alone.
LEMMA TriggerOther ==
  ASSUME Base, NEW s \in Source, NEW t \in Thread, TriggerInv(s), NEW a, NEW h, NEW q, NEW b,
         Goes(t, a, h, q, b), thread[t].at \in {"idle", "cancel", "direct", "wait"},
         source' = source, handlers' = handlers, due' = due, cancelled' => cancelled
  PROVE  TriggerInv(s)'
<1>1. ~Emitting(t)
  BY DEF Base, ThreadInv, Placed, Emitting, Emits, Unreffing, Disposal
<1>2. ~PendingBy(t, s) /\ ~Taken(t, s) /\ ~Reaches(t, s)
  BY <1>1 DEF PendingBy, Taken, Reaches, At
<1> QED
  BY <1>2, TriggerKept DEF Goes, KeepsReady, KeepsPending

LEMMA SeenCancel ==
  ASSUME Base, CallsInv, \A p \in Source : SourceInv(p), SeenInv,
         NEW t \in Thread, Cancel(t)
  PROVE  SeenInv'
<1>1. /\ At(t, "idle") /\ ~cancelled
      /\ Goes(t, "cancel", None, thread[t].todo, thread[t].back)
      /\ source' = source
      /\ UNCHANGED <<cancelled, fds, readable, handlers, due>>
  BY DidCancel
<1>2. FdInv'
  BY <1>1 DEF SeenInv, FdInv
<1> QED
  BY <1>1, <1>2, TriggerOther DEF SeenInv, At

LEMMA SeenCancelLost ==
  ASSUME Base, CallsInv, \A p \in Source : SourceInv(p), SeenInv,
         NEW t \in Thread, CancelLock(t), cancelled
  PROVE  SeenInv'
<1>1. /\ At(t, "cancel") /\ mutex = None
      /\ Goes(t, "idle", thread[t].h, thread[t].todo, thread[t].back)
      /\ source' = source
      /\ UNCHANGED <<cancelled, fds, readable, handlers, due>>
  BY DidCancelLost
<1>2. FdInv'
  BY <1>1 DEF SeenInv, FdInv
<1> QED
  BY <1>1, <1>2, TriggerOther DEF SeenInv, At

LEMMA SeenCancelWon ==
  ASSUME Base, CallsInv, \A p \in Source : SourceInv(p), SeenInv,
         NEW t \in Thread, CancelLock(t), ~cancelled
  PROVE  SeenInv'
<1>1. ThreadInv(t) /\ thread[t] \in ThreadRecord /\ None \notin Source /\ User \cap Source = {}
  BY CancellableAssumption DEF Base, TypeOK
<1>2. /\ At(t, "cancel") /\ mutex = None /\ ~cancelled
      /\ Goes(t, "locked", thread[t].h, thread[t].todo, thread[t].back)
      /\ source' = source
      /\ cancelled' = TRUE
      /\ readable' = (fds > 0)
      /\ due' = {x \in Source : source[x].held /\ source[x].self}
      /\ UNCHANGED <<fds, handlers>>
  BY DidCancelWon
<1>3. /\ \A o \in Thread \ {t} : thread'[o] = thread[o]
      /\ thread'[t].at = "locked" /\ thread'[t].h = thread[t].h
      /\ thread'[t].todo = thread[t].todo /\ thread'[t].back = thread[t].back
  BY <1>2 DEF Goes
<1>4. FdInv'
  BY <1>2 DEF SeenInv, FdInv, Base, TypeOK
<1>5. ASSUME NEW p \in Source PROVE TriggerInv(p)'
  <2>1. TriggerInv(p) /\ SourceInv(p) /\ source[p] \in SourceRecord
    BY DEF SeenInv, Base, TypeOK
  <2>2. PendingBy(t, p)' /\ Reaches(t, p)' /\ (p \in due' => source'[p].self)
    BY <1>2, <1>3 DEF PendingBy, Reaches, Emitting, Emits, At
  <2>4. p \in due' => source'[p].phase # "none"
    BY <1>2, <2>1, Counted
  <2>3. \A o \in Thread : Taken(o, p) => Taken(o, p)'
    BY <1>2, <1>3 DEF Taken, At
  <2> QED
    BY <1>2, <2>1, <2>2, <2>3, <2>4 DEF TriggerInv
<1> QED
  BY <1>4, <1>5 DEF SeenInv

LEMMA SeenEmitStart ==
  ASSUME Base, CallsInv, \A p \in Source : SourceInv(p), SeenInv,
         NEW t \in Thread, EmitStart(t)
  PROVE  SeenInv'
<1>1. ThreadInv(t) /\ thread[t] \in ThreadRecord /\ None \notin Source /\ User \cap Source = {}
  BY CancellableAssumption DEF Base, TypeOK
<1>2. /\ At(t, "locked")
      /\ Goes(t, "emit", thread[t].h, handlers, thread[t].back)
      /\ source' = source
      /\ UNCHANGED <<cancelled, fds, readable, handlers, due>>
  BY DidEmitStart
<1>3. /\ \A o \in Thread \ {t} : thread'[o] = thread[o]
      /\ thread'[t].at = "emit" /\ thread'[t].h = thread[t].h
      /\ thread'[t].todo = handlers /\ thread'[t].back = thread[t].back
  BY <1>2 DEF Goes
<1>4. FdInv'
  BY <1>2 DEF SeenInv, FdInv
<1>5. ASSUME NEW p \in Source PROVE TriggerInv(p)'
  <2>1. TriggerInv(p) /\ SourceInv(p) /\ source[p] \in SourceRecord
    BY DEF SeenInv, Base, TypeOK
  <2>2. KeepsReady(p)
    BY <1>2 DEF KeepsReady
  <2>3. source[p].held => (In(handlers, p) => In(handlers, p)') /\ (cancelled' => cancelled)
    BY <1>2
  <2>4. KeepsPending(t, p)
    BY <1>2, <1>3, <2>1 DEF KeepsPending, PendingBy, Taken, Reaches, At, Emitting, Emits, Emits, TriggerInv
  <2> QED
    BY <1>3, <2>1, <2>2, <2>3, <2>4, TriggerKept
<1> QED
  BY <1>4, <1>5 DEF SeenInv

LEMMA SeenEmitSkips ==
  ASSUME Base, CallsInv, \A p \in Source : SourceInv(p), SeenInv,
         NEW t \in Thread, EmitNext(t), ~Connected(Head(thread[t].todo))
  PROVE  SeenInv'
<1>1. ThreadInv(t) /\ thread[t] \in ThreadRecord /\ None \notin Source /\ User \cap Source = {}
  BY CancellableAssumption DEF Base, TypeOK
<1>2. /\ At(t, "emit") /\ thread[t].todo # <<>>
      /\ Goes(t, "emit", None, Tail(thread[t].todo), thread[t].back)
      /\ source' = source
      /\ UNCHANGED <<cancelled, fds, readable, handlers, due>>
  BY DidEmitSkips
<1>3. /\ \A o \in Thread \ {t} : thread'[o] = thread[o]
      /\ thread'[t].at = "emit" /\ thread'[t].h = None
      /\ thread'[t].todo = Tail(thread[t].todo) /\ thread'[t].back = thread[t].back
  BY <1>2 DEF Goes
<1>4. FdInv'
  BY <1>2 DEF SeenInv, FdInv
<1>5. ASSUME NEW p \in Source PROVE TriggerInv(p)'
  <2>1. TriggerInv(p) /\ SourceInv(p) /\ source[p] \in SourceRecord
    BY DEF SeenInv, Base, TypeOK
  <2>2. KeepsReady(p)
    BY <1>2 DEF KeepsReady
  <2>3. source[p].held => (In(handlers, p) => In(handlers, p)') /\ (cancelled' => cancelled)
    BY <1>2
  <2>q. thread[t].todo \in Seq(User \cup Source) /\ thread[t].todo # <<>>
    BY <1>1, <1>2 DEF ThreadRecord
  <2>r. In(thread[t].todo, p) <=> p = Head(thread[t].todo) \/ In(Tail(thread[t].todo), p)
    BY <2>q, TailIn
  <2>w. source[p].held => p # Head(thread[t].todo)
    BY <1>1, <1>2, <2>1 DEF TriggerInv, Connected
  <2>4. KeepsPending(t, p)
    BY <1>1, <1>2, <1>3, <2>r, <2>w DEF KeepsPending, PendingBy, Taken, Reaches, At, Emitting, Emits, Emits
  <2> QED
    BY <1>3, <2>1, <2>2, <2>3, <2>4, TriggerKept
<1> QED
  BY <1>4, <1>5 DEF SeenInv

LEMMA SeenEmitCalls ==
  ASSUME Base, CallsInv, \A p \in Source : SourceInv(p), SeenInv,
         NEW t \in Thread, EmitNext(t), Connected(Head(thread[t].todo)), Head(thread[t].todo) \in User
  PROVE  SeenInv'
<1>1. ThreadInv(t) /\ thread[t] \in ThreadRecord /\ None \notin Source /\ User \cap Source = {}
  BY CancellableAssumption DEF Base, TypeOK
<1>2. /\ At(t, "emit") /\ thread[t].todo # <<>>
      /\ Head(thread[t].todo) \in User /\ Connected(Head(thread[t].todo))
      /\ Goes(t, "callback", Head(thread[t].todo), Tail(thread[t].todo), thread[t].back)
      /\ source' = source
      /\ UNCHANGED <<cancelled, fds, readable, handlers, due>>
  BY DidEmitCalls
<1>3. /\ \A o \in Thread \ {t} : thread'[o] = thread[o]
      /\ thread'[t].at = "callback" /\ thread'[t].h = Head(thread[t].todo)
      /\ thread'[t].todo = Tail(thread[t].todo) /\ thread'[t].back = thread[t].back
  BY <1>2 DEF Goes
<1>4. FdInv'
  BY <1>2 DEF SeenInv, FdInv
<1>5. ASSUME NEW p \in Source PROVE TriggerInv(p)'
  <2>1. TriggerInv(p) /\ SourceInv(p) /\ source[p] \in SourceRecord
    BY DEF SeenInv, Base, TypeOK
  <2>2. KeepsReady(p)
    BY <1>2 DEF KeepsReady
  <2>3. source[p].held => (In(handlers, p) => In(handlers, p)') /\ (cancelled' => cancelled)
    BY <1>2
  <2>q. thread[t].todo \in Seq(User \cup Source) /\ thread[t].todo # <<>>
    BY <1>1, <1>2 DEF ThreadRecord
  <2>r. In(thread[t].todo, p) <=> p = Head(thread[t].todo) \/ In(Tail(thread[t].todo), p)
    BY <2>q, TailIn
  <2>w. source[p].held => p # Head(thread[t].todo)
    BY <1>1, <1>2, <2>1 DEF TriggerInv, Connected
  <2>4. KeepsPending(t, p)
    BY <1>1, <1>2, <1>3, <2>r, <2>w DEF KeepsPending, PendingBy, Taken, Reaches, At, Emitting, Emits, Emits
  <2> QED
    BY <1>3, <2>1, <2>2, <2>3, <2>4, TriggerKept
<1> QED
  BY <1>4, <1>5 DEF SeenInv

LEMMA SeenEmitExchanges ==
  ASSUME Base, CallsInv, \A p \in Source : SourceInv(p), SeenInv,
         NEW t \in Thread, EmitNext(t), Connected(Head(thread[t].todo)), Head(thread[t].todo) \in Source
  PROVE  SeenInv'
<1>1. ThreadInv(t) /\ thread[t] \in ThreadRecord /\ None \notin Source /\ User \cap Source = {}
  BY CancellableAssumption DEF Base, TypeOK
<1>2. /\ At(t, "emit") /\ thread[t].todo # <<>>
      /\ Head(thread[t].todo) \in Source /\ Connected(Head(thread[t].todo))
      /\ Goes(t, "exchange", Head(thread[t].todo), Tail(thread[t].todo), thread[t].back)
      /\ source' = source
      /\ UNCHANGED <<cancelled, fds, readable, handlers, due>>
  BY DidEmitExchanges
<1>3. /\ \A o \in Thread \ {t} : thread'[o] = thread[o]
      /\ thread'[t].at = "exchange" /\ thread'[t].h = Head(thread[t].todo)
      /\ thread'[t].todo = Tail(thread[t].todo) /\ thread'[t].back = thread[t].back
  BY <1>2 DEF Goes
<1>4. FdInv'
  BY <1>2 DEF SeenInv, FdInv
<1>5. ASSUME NEW p \in Source PROVE TriggerInv(p)'
  <2>1. TriggerInv(p) /\ SourceInv(p) /\ source[p] \in SourceRecord
    BY DEF SeenInv, Base, TypeOK
  <2>2. KeepsReady(p)
    BY <1>2 DEF KeepsReady
  <2>3. source[p].held => (In(handlers, p) => In(handlers, p)') /\ (cancelled' => cancelled)
    BY <1>2
  <2>q. thread[t].todo \in Seq(User \cup Source) /\ thread[t].todo # <<>>
    BY <1>1, <1>2 DEF ThreadRecord
  <2>r. In(thread[t].todo, p) <=> p = Head(thread[t].todo) \/ In(Tail(thread[t].todo), p)
    BY <2>q, TailIn
  <2>4. KeepsPending(t, p)
    BY <1>1, <1>2, <1>3, <2>r DEF KeepsPending, PendingBy, Taken, Reaches, At, Emitting, Emits, Emits
  <2> QED
    BY <1>3, <2>1, <2>2, <2>3, <2>4, TriggerKept
<1> QED
  BY <1>4, <1>5 DEF SeenInv

LEMMA SeenCallbackReturns ==
  ASSUME Base, CallsInv, \A p \in Source : SourceInv(p), SeenInv,
         NEW t \in Thread, CallbackReturns(t)
  PROVE  SeenInv'
<1>1. ThreadInv(t) /\ thread[t] \in ThreadRecord /\ None \notin Source /\ User \cap Source = {}
  BY CancellableAssumption DEF Base, TypeOK
<1>2. /\ At(t, "callback")
      /\ Goes(t, "emit", None, thread[t].todo, thread[t].back)
      /\ source' = source
      /\ UNCHANGED <<cancelled, fds, readable, handlers, due>>
  BY DidCallbackReturns
<1>3. /\ \A o \in Thread \ {t} : thread'[o] = thread[o]
      /\ thread'[t].at = "emit" /\ thread'[t].h = None
      /\ thread'[t].todo = thread[t].todo /\ thread'[t].back = thread[t].back
  BY <1>2 DEF Goes
<1>4. FdInv'
  BY <1>2 DEF SeenInv, FdInv
<1>5. ASSUME NEW p \in Source PROVE TriggerInv(p)'
  <2>1. TriggerInv(p) /\ SourceInv(p) /\ source[p] \in SourceRecord
    BY DEF SeenInv, Base, TypeOK
  <2>2. KeepsReady(p)
    BY <1>2 DEF KeepsReady
  <2>3. source[p].held => (In(handlers, p) => In(handlers, p)') /\ (cancelled' => cancelled)
    BY <1>2
  <2>4. KeepsPending(t, p)
    BY <1>1, <1>2, <1>3 DEF KeepsPending, PendingBy, Taken, Reaches, At, Emitting, Emits,
         Base, ThreadInv, Placed, SourcePlaces, HolderPlaces, Unreffing, Disposal,
         Preparation, ThreadRecord
  <2> QED
    BY <1>3, <2>1, <2>2, <2>3, <2>4, TriggerKept
<1> QED
  BY <1>4, <1>5 DEF SeenInv

LEMMA SeenEmitEnd ==
  ASSUME Base, CallsInv, \A p \in Source : SourceInv(p), SeenInv,
         NEW t \in Thread, EmitEnd(t)
  PROVE  SeenInv'
<1>1. ThreadInv(t) /\ thread[t] \in ThreadRecord /\ None \notin Source /\ User \cap Source = {}
  BY CancellableAssumption DEF Base, TypeOK
<1>2. /\ At(t, "emit") /\ thread[t].todo = <<>>
      /\ Goes(t, "idle", None, <<>>, "idle")
      /\ source' = source
      /\ UNCHANGED <<cancelled, fds, readable, handlers, due>>
  BY DidEmitEnd
<1>3. /\ \A o \in Thread \ {t} : thread'[o] = thread[o]
      /\ thread'[t].at = "idle" /\ thread'[t].h = None
      /\ thread'[t].todo = <<>> /\ thread'[t].back = "idle"
  BY <1>2 DEF Goes
<1>4. FdInv'
  BY <1>2 DEF SeenInv, FdInv
<1>5. ASSUME NEW p \in Source PROVE TriggerInv(p)'
  <2>1. TriggerInv(p) /\ SourceInv(p) /\ source[p] \in SourceRecord
    BY DEF SeenInv, Base, TypeOK
  <2>2. KeepsReady(p)
    BY <1>2 DEF KeepsReady
  <2>3. source[p].held => (In(handlers, p) => In(handlers, p)') /\ (cancelled' => cancelled)
    BY <1>2
  <2>4. KeepsPending(t, p)
    BY <1>1, <1>2, <1>3 DEF KeepsPending, PendingBy, Taken, Reaches, At, Emitting, Emits, In, Base, ThreadInv, Placed, SourcePlaces, HolderPlaces, Unreffing, Disposal, Preparation
  <2> QED
    BY <1>3, <2>1, <2>2, <2>3, <2>4, TriggerKept
<1> QED
  BY <1>4, <1>5 DEF SeenInv

LEMMA SeenConnectOn ==
  ASSUME Base, CallsInv, \A p \in Source : SourceInv(p), SeenInv,
         NEW t \in Thread, NEW u \in User, Connect(t, u), ~cancelled
  PROVE  SeenInv'
<1>1. ThreadInv(t) /\ thread[t] \in ThreadRecord /\ None \notin Source /\ User \cap Source = {}
  BY CancellableAssumption DEF Base, TypeOK
<1>2. /\ connection[u] = "none" /\ mutex = None /\ At(t, "idle") /\ ~cancelled
      /\ Goes(t, thread[t].at, thread[t].h, thread[t].todo, thread[t].back)
      /\ source' = source
      /\ handlers' = Append(handlers, u)
      /\ UNCHANGED <<cancelled, fds, readable, due>>
  BY DidConnectOn
<1>3. /\ \A o \in Thread \ {t} : thread'[o] = thread[o]
      /\ thread'[t].at = thread[t].at /\ thread'[t].h = thread[t].h
      /\ thread'[t].todo = thread[t].todo /\ thread'[t].back = thread[t].back
  BY <1>2 DEF Goes
<1>4. FdInv'
  BY <1>2 DEF SeenInv, FdInv
<1>5. ASSUME NEW p \in Source PROVE TriggerInv(p)'
  <2>1. TriggerInv(p) /\ SourceInv(p) /\ source[p] \in SourceRecord
    BY DEF SeenInv, Base, TypeOK
  <2>2. KeepsReady(p)
    BY <1>2 DEF KeepsReady
  <2>3. source[p].held => (In(handlers, p) => In(handlers, p)') /\ (cancelled' => cancelled)
    <3>1. handlers \in Seq(User \cup Source) /\ u \in User \cup Source
      BY DEF Base, TypeOK
    <3> QED
      BY <1>2, <3>1, AppendIn
  <2>4. KeepsPending(t, p)
    BY <1>1, <1>2, <1>3 DEF KeepsPending, PendingBy, Taken, Reaches, At, Emitting, Emits,
         Base, ThreadInv, Placed, SourcePlaces, HolderPlaces, Unreffing, Disposal,
         Preparation, ThreadRecord
  <2> QED
    BY <1>3, <2>1, <2>2, <2>3, <2>4, TriggerKept
<1> QED
  BY <1>4, <1>5 DEF SeenInv

LEMMA SeenConnectOff ==
  ASSUME Base, CallsInv, \A p \in Source : SourceInv(p), SeenInv,
         NEW t \in Thread, NEW u \in User, Connect(t, u), cancelled
  PROVE  SeenInv'
<1>1. /\ connection[u] = "none" /\ mutex = None /\ At(t, "idle") /\ cancelled
      /\ Goes(t, "direct", u, thread[t].todo, thread[t].back)
      /\ source' = source
      /\ UNCHANGED <<cancelled, fds, readable, handlers, due>>
  BY DidConnectOff
<1>2. FdInv'
  BY <1>1 DEF SeenInv, FdInv
<1> QED
  BY <1>1, <1>2, TriggerOther DEF SeenInv, At

LEMMA SeenDirectReturns ==
  ASSUME Base, CallsInv, \A p \in Source : SourceInv(p), SeenInv,
         NEW t \in Thread, DirectReturns(t)
  PROVE  SeenInv'
<1>1. /\ At(t, "direct")
      /\ Goes(t, "idle", None, <<>>, "idle")
      /\ source' = source
      /\ UNCHANGED <<cancelled, fds, readable, handlers, due>>
  BY DidDirectReturns
<1>2. FdInv'
  BY <1>1 DEF SeenInv, FdInv
<1> QED
  BY <1>1, <1>2, TriggerOther DEF SeenInv, At

LEMMA SeenDisconnect ==
  ASSUME Base, CallsInv, \A p \in Source : SourceInv(p), SeenInv,
         NEW t \in Thread, NEW u \in User, Disconnect(t, u)
  PROVE  SeenInv'
<1>1. /\ connection[u] = "on" /\ At(t, "idle")
      /\ Goes(t, "wait", u, thread[t].todo, thread[t].back)
      /\ source' = source
      /\ UNCHANGED <<cancelled, fds, readable, handlers, due>>
  BY DidDisconnect
<1>2. FdInv'
  BY <1>1 DEF SeenInv, FdInv
<1> QED
  BY <1>1, <1>2, TriggerOther DEF SeenInv, At

LEMMA SeenDisconnectLock ==
  ASSUME Base, CallsInv, \A p \in Source : SourceInv(p), SeenInv,
         NEW t \in Thread, DisconnectLock(t)
  PROVE  SeenInv'
<1>1. /\ At(t, "wait") /\ mutex = None
      /\ Goes(t, "gap", thread[t].h, thread[t].todo, thread[t].back)
      /\ source' = source
      /\ UNCHANGED <<cancelled, fds, readable, handlers, due>>
  BY DidDisconnectLock
<1>2. FdInv'
  BY <1>1 DEF SeenInv, FdInv
<1> QED
  BY <1>1, <1>2, TriggerOther DEF SeenInv, At

LEMMA SeenDisconnectEnds ==
  ASSUME Base, CallsInv, \A p \in Source : SourceInv(p), SeenInv,
         NEW t \in Thread, DisconnectEnds(t)
  PROVE  SeenInv'
<1>1. ThreadInv(t) /\ thread[t] \in ThreadRecord /\ None \notin Source /\ User \cap Source = {}
  BY CancellableAssumption DEF Base, TypeOK
<1>2. /\ At(t, "gap")
      /\ Goes(t, "idle", None, <<>>, "idle")
      /\ source' = source
      /\ handlers' = Without(handlers, thread[t].h)
      /\ UNCHANGED <<cancelled, fds, readable, due>>
  BY DidDisconnectEnds
<1>3. /\ \A o \in Thread \ {t} : thread'[o] = thread[o]
      /\ thread'[t].at = "idle" /\ thread'[t].h = None
      /\ thread'[t].todo = <<>> /\ thread'[t].back = "idle"
  BY <1>2 DEF Goes
<1>4. FdInv'
  BY <1>2 DEF SeenInv, FdInv
<1>5. ASSUME NEW p \in Source PROVE TriggerInv(p)'
  <2>1. TriggerInv(p) /\ SourceInv(p) /\ source[p] \in SourceRecord
    BY DEF SeenInv, Base, TypeOK
  <2>2. KeepsReady(p)
    BY <1>2 DEF KeepsReady
  <2>3. source[p].held => (In(handlers, p) => In(handlers, p)') /\ (cancelled' => cancelled)
    <3>1. handlers \in Seq(User \cup Source) /\ NoDup(handlers)
      BY DEF Base, TypeOK, CallsInv, ListInv
    <3>2. source[p].held => p # thread[t].h
      BY <1>1, <1>2 DEF ThreadInv, Placed, At
    <3> QED
      BY <1>2, <3>1, <3>2, WithoutIn
  <2>4. KeepsPending(t, p)
    BY <1>1, <1>2, <1>3 DEF KeepsPending, PendingBy, Taken, Reaches, At, Emitting, Emits,
         Base, ThreadInv, Placed, SourcePlaces, HolderPlaces, Unreffing, Disposal,
         Preparation, ThreadRecord
  <2> QED
    BY <1>3, <2>1, <2>2, <2>3, <2>4, TriggerKept
<1> QED
  BY <1>4, <1>5 DEF SeenInv

LEMMA SeenReset ==
  ASSUME Base, CallsInv, \A p \in Source : SourceInv(p), SeenInv,
         NEW t \in Thread, Reset(t)
  PROVE  SeenInv'
<1>1. /\ At(t, "idle") /\ mutex = None /\ resets < MaxResets
      /\ Goes(t, thread[t].at, thread[t].h, thread[t].todo, thread[t].back)
      /\ source' = source
      /\ cancelled' = FALSE
      /\ readable' = (IF cancelled THEN FALSE ELSE readable)
      /\ UNCHANGED <<fds, handlers, due>>
  BY DidReset
<1>2. FdInv'
  BY <1>1 DEF SeenInv, FdInv, Base, TypeOK
<1> QED
  BY <1>1, <1>2, TriggerOther DEF SeenInv, At

LEMMA SeenMakePollfd ==
  ASSUME Base, CallsInv, \A p \in Source : SourceInv(p), SeenInv,
         NEW t \in Thread, MakePollfd(t)
  PROVE  SeenInv'
<1>1. /\ At(t, "idle") /\ mutex = None /\ fds < MaxFds
      /\ Goes(t, thread[t].at, thread[t].h, thread[t].todo, thread[t].back)
      /\ source' = source
      /\ fds' = fds + 1
      /\ readable' = (IF fds = 0 THEN cancelled ELSE readable)
      /\ UNCHANGED <<cancelled, handlers, due>>
  BY DidMakePollfd
<1>2. FdInv'
  BY <1>1 DEF SeenInv, FdInv, Base, TypeOK
<1> QED
  BY <1>1, <1>2, TriggerOther DEF SeenInv, At

LEMMA SeenReleaseFd ==
  ASSUME Base, CallsInv, \A p \in Source : SourceInv(p), SeenInv,
         NEW t \in Thread, ReleaseFd(t)
  PROVE  SeenInv'
<1>1. /\ At(t, "idle") /\ mutex = None /\ fds > 0
      /\ Goes(t, thread[t].at, thread[t].h, thread[t].todo, thread[t].back)
      /\ source' = source
      /\ fds' = fds - 1
      /\ readable' = (readable /\ fds > 1)
      /\ UNCHANGED <<cancelled, handlers, due>>
  BY DidReleaseFd
<1>2. FdInv'
  BY <1>1 DEF SeenInv, FdInv, Base, TypeOK
<1> QED
  BY <1>1, <1>2, TriggerOther DEF SeenInv, At

LEMMA SeenSourceNew ==
  ASSUME Base, CallsInv, \A p \in Source : SourceInv(p), SeenInv,
         NEW t \in Thread, NEW s \in Source, SourceNew(t, s)
  PROVE  SeenInv'
<1>1. ThreadInv(t) /\ thread[t] \in ThreadRecord /\ None \notin Source /\ User \cap Source = {}
  BY CancellableAssumption DEF Base, TypeOK
<1>2. /\ At(t, "idle") /\ source[s].phase = "none"
      /\ Goes(t, "new", s, thread[t].todo, thread[t].back)
      /\ Sets(s, "live", 1, TRUE, TRUE, FALSE, TRUE, FALSE, FALSE)
      /\ handlers' = Append(handlers, s)
      /\ UNCHANGED <<cancelled, fds, readable, due>>
  BY DidSourceNew
<1>3. /\ \A o \in Thread \ {t} : thread'[o] = thread[o]
      /\ thread'[t].at = "new" /\ thread'[t].h = s
      /\ thread'[t].todo = thread[t].todo /\ thread'[t].back = thread[t].back
  BY <1>2 DEF Goes
<1>4. FdInv'
  BY <1>2 DEF SeenInv, FdInv
<1>5. ASSUME NEW p \in Source PROVE TriggerInv(p)'
  <2>1. TriggerInv(p) /\ SourceInv(p) /\ source[p] \in SourceRecord
    BY DEF SeenInv, Base, TypeOK
  <2>2. CASE p = s
    <3>1. handlers \in Seq(User \cup Source) /\ s \in User \cup Source
      BY DEF Base, TypeOK
    <3>2. In(handlers', p)
      BY <1>2, <2>2, <3>1, AppendIn
    <3>3. PendingBy(t, p)'
      BY <1>3, <2>2 DEF PendingBy, At
    <3>4. source'[p].self /\ p \notin due'
      BY <1>2, <2>1, <2>2 DEF Sets, TriggerInv
    <3> QED
      BY <3>2, <3>3, <3>4 DEF TriggerInv
  <2>3. CASE p # s
    <3>1. In(handlers, p) => In(handlers', p)
      <4>1. handlers \in Seq(User \cup Source) /\ s \in User \cup Source
        BY DEF Base, TypeOK
      <4> QED
        BY <1>2, <4>1, AppendIn
    <3>2. source'[p] = source[p]
      BY <1>2, <2>3 DEF Sets
    <3>3. ~PendingBy(t, p) /\ ~Taken(t, p) /\ ~Reaches(t, p)
      BY <1>1, <1>2 DEF KeepsPending, PendingBy, Taken, Reaches, At, Emitting, Emits, Base,
         ThreadInv, Placed, SourcePlaces, HolderPlaces, Unreffing, Disposal, Preparation
    <3> QED
      BY <1>2, <1>3, <2>1, <3>1, <3>2, <3>3, TriggerKept DEF KeepsReady, KeepsPending
  <2> QED
    BY <2>2, <2>3
<1> QED
  BY <1>4, <1>5 DEF SeenInv

LEMMA SeenSourceChecks ==
  ASSUME Base, CallsInv, \A p \in Source : SourceInv(p), SeenInv,
         NEW t \in Thread, SourceChecks(t)
  PROVE  SeenInv'
<1>1. ThreadInv(t) /\ thread[t] \in ThreadRecord /\ None \notin Source /\ User \cap Source = {}
  BY CancellableAssumption DEF Base, TypeOK
<1>2. /\ At(t, "new") /\ thread[t].h \in Source
      /\ Goes(t, "idle", None, <<>>, "idle")
      /\ Sets(thread[t].h, source[thread[t].h].phase, source[thread[t].h].refs,
             source[thread[t].h].held, source[thread[t].h].self, source[thread[t].h].called,
             source[thread[t].h].cancellable, (source[thread[t].h].ready \/ cancelled),
             source[thread[t].h].dispatched)
      /\ UNCHANGED <<cancelled, fds, readable, handlers, due>>
  BY DidSourceChecks
<1>3. /\ \A o \in Thread \ {t} : thread'[o] = thread[o]
      /\ thread'[t].at = "idle" /\ thread'[t].h = None
      /\ thread'[t].todo = <<>> /\ thread'[t].back = "idle"
  BY <1>2 DEF Goes
<1>4. FdInv'
  BY <1>2 DEF SeenInv, FdInv
<1>5. ASSUME NEW p \in Source PROVE TriggerInv(p)'
  <2>1. TriggerInv(p) /\ SourceInv(p) /\ source[p] \in SourceRecord
    BY DEF SeenInv, Base, TypeOK
  <2>2. KeepsReady(p)
    <3>1. CASE p # thread[t].h
      BY <1>2, <3>1 DEF Sets, KeepsReady
    <3>2. CASE p = thread[t].h
      <4>1. /\ source'[p].held = source[p].held /\ source'[p].ready = (source[p].ready \/ cancelled)
            /\ source'[p].dispatched = source[p].dispatched /\ source'[p].self = source[p].self /\ source'[p].phase = source[p].phase
        BY <1>2, <3>2 DEF Sets
      <4> QED
        BY <1>2, <2>1, <3>2, <4>1 DEF KeepsReady
    <3> QED
      BY <3>1, <3>2
  <2>3. source[p].held => (In(handlers, p) => In(handlers, p)') /\ (cancelled' => cancelled)
    BY <1>2
  <2>g. p = thread[t].h /\ cancelled => source'[p].ready
    BY <1>2 DEF Sets
  <2>4. KeepsPending(t, p)
    BY <1>1, <1>2, <1>3, <2>g DEF KeepsPending, PendingBy, Taken, Reaches, At, Emitting,
         Emits, Base, ThreadInv, Placed, SourcePlaces, HolderPlaces, Unreffing, Disposal,
         Preparation
  <2> QED
    BY <1>3, <2>1, <2>2, <2>3, <2>4, TriggerKept
<1> QED
  BY <1>4, <1>5 DEF SeenInv

LEMMA SeenExchangeTakes ==
  ASSUME Base, CallsInv, \A p \in Source : SourceInv(p), SeenInv,
         NEW t \in Thread, Exchange(t), Rec(t).self
  PROVE  SeenInv'
<1>1. ThreadInv(t) /\ thread[t] \in ThreadRecord /\ None \notin Source /\ User \cap Source = {}
  BY CancellableAssumption DEF Base, TypeOK
<1>2. /\ At(t, "exchange") /\ thread[t].h \in Source
      /\ source[thread[t].h].self
      /\ Goes(t, "ref", thread[t].h, thread[t].todo, thread[t].back)
      /\ Sets(thread[t].h, source[thread[t].h].phase, source[thread[t].h].refs,
             source[thread[t].h].held, FALSE, source[thread[t].h].called,
             source[thread[t].h].cancellable, source[thread[t].h].ready,
             source[thread[t].h].dispatched)
      /\ UNCHANGED <<cancelled, fds, readable, handlers, due>>
  BY DidExchangeTakes
<1>3. /\ \A o \in Thread \ {t} : thread'[o] = thread[o]
      /\ thread'[t].at = "ref" /\ thread'[t].h = thread[t].h
      /\ thread'[t].todo = thread[t].todo /\ thread'[t].back = thread[t].back
  BY <1>2 DEF Goes
<1>4. FdInv'
  BY <1>2 DEF SeenInv, FdInv
<1>5. ASSUME NEW p \in Source PROVE TriggerInv(p)'
  <2>1. TriggerInv(p) /\ SourceInv(p) /\ source[p] \in SourceRecord
    BY DEF SeenInv, Base, TypeOK
  <2>2. CASE p = thread[t].h
    <3>1. Taken(t, p)' /\ PendingBy(t, p)'
      BY <1>3, <2>2 DEF Taken, PendingBy
    <3>2. source'[p].held = source[p].held /\ source'[p].phase = source[p].phase
      BY <1>2, <2>2 DEF Sets
    <3> QED
      BY <1>2, <2>1, <3>1, <3>2 DEF TriggerInv
  <2>3. CASE p # thread[t].h
    <3>1. source'[p] = source[p]
      BY <1>2, <2>3 DEF Sets
    <3>2. (PendingBy(t, p) => PendingBy(t, p)') /\ ~Taken(t, p) /\ (Reaches(t, p) => Reaches(t, p)')
      BY <1>2, <1>3, <2>3 DEF KeepsPending, PendingBy, Taken, Reaches, At, Emitting, Emits
    <3> QED
      BY <1>2, <1>3, <2>1, <3>1, <3>2, TriggerKept DEF KeepsReady, KeepsPending
  <2> QED
    BY <2>2, <2>3
<1> QED
  BY <1>4, <1>5 DEF SeenInv

LEMMA SeenExchangeFails ==
  ASSUME Base, CallsInv, \A p \in Source : SourceInv(p), SeenInv,
         NEW t \in Thread, Exchange(t), ~Rec(t).self
  PROVE  SeenInv'
<1>1. ThreadInv(t) /\ thread[t] \in ThreadRecord /\ None \notin Source /\ User \cap Source = {}
  BY CancellableAssumption DEF Base, TypeOK
<1>2. /\ At(t, "exchange") /\ thread[t].h \in Source
      /\ ~source[thread[t].h].self
      /\ Goes(t, "emit", None, thread[t].todo, thread[t].back)
      /\ Sets(thread[t].h, source[thread[t].h].phase, source[thread[t].h].refs,
             source[thread[t].h].held, FALSE, source[thread[t].h].called,
             source[thread[t].h].cancellable, source[thread[t].h].ready,
             source[thread[t].h].dispatched)
      /\ UNCHANGED <<cancelled, fds, readable, handlers, due>>
  BY DidExchangeFails
<1>3. /\ \A o \in Thread \ {t} : thread'[o] = thread[o]
      /\ thread'[t].at = "emit" /\ thread'[t].h = None
      /\ thread'[t].todo = thread[t].todo /\ thread'[t].back = thread[t].back
  BY <1>2 DEF Goes
<1>4. FdInv'
  BY <1>2 DEF SeenInv, FdInv
<1>5. ASSUME NEW p \in Source PROVE TriggerInv(p)'
  <2>1. TriggerInv(p) /\ SourceInv(p) /\ source[p] \in SourceRecord
    BY DEF SeenInv, Base, TypeOK
  <2>2. KeepsReady(p)
    <3>1. CASE p # thread[t].h
      BY <1>2, <3>1 DEF Sets, KeepsReady
    <3>2. CASE p = thread[t].h
      <4>1. /\ source'[p].held = source[p].held /\ source'[p].ready = source[p].ready
            /\ source'[p].dispatched = source[p].dispatched /\ source'[p].self = FALSE /\ source'[p].phase = source[p].phase
        BY <1>2, <3>2 DEF Sets
      <4> QED
        BY <1>2, <2>1, <3>2, <4>1 DEF KeepsReady
    <3> QED
      BY <3>1, <3>2
  <2>3. source[p].held => (In(handlers, p) => In(handlers, p)') /\ (cancelled' => cancelled)
    BY <1>2
  <2>g. source[p].held /\ p = thread[t].h => source'[p].ready \/ source'[p].dispatched
    <3>1. \A o \in Thread : ~Taken(o, thread[t].h)
      BY <1>2 DEF Taken, Base, MutexInv, Emitting, Emits, At
    <3>2. source[p].held /\ p = thread[t].h => source[p].ready \/ source[p].dispatched
      BY <1>2, <2>1, <3>1 DEF TriggerInv
    <3>3. source'[p].ready = source[p].ready /\ source'[p].dispatched = source[p].dispatched
      BY <1>2 DEF Sets
    <3> QED
      BY <3>2, <3>3
  <2>4. KeepsPending(t, p)
    BY <1>1, <1>2, <1>3, <2>g DEF KeepsPending, PendingBy, Taken, Reaches, At, Emitting, Emits
  <2> QED
    BY <1>3, <2>1, <2>2, <2>3, <2>4, TriggerKept
<1> QED
  BY <1>4, <1>5 DEF SeenInv

LEMMA SeenHandlerRefs ==
  ASSUME Base, CallsInv, \A p \in Source : SourceInv(p), SeenInv,
         NEW t \in Thread, HandlerRefs(t), Sound
  PROVE  SeenInv'
<1>1. ThreadInv(t) /\ thread[t] \in ThreadRecord /\ None \notin Source /\ User \cap Source = {}
  BY CancellableAssumption DEF Base, TypeOK
<1>2. /\ At(t, "ref") /\ thread[t].h \in Source
      /\ source[thread[t].h].phase = "live"
      /\ Goes(t, "ready", thread[t].h, thread[t].todo, thread[t].back)
      /\ Sets(thread[t].h, source[thread[t].h].phase, source[thread[t].h].refs + 1,
             source[thread[t].h].held, source[thread[t].h].self, source[thread[t].h].called,
             source[thread[t].h].cancellable, source[thread[t].h].ready,
             source[thread[t].h].dispatched)
      /\ UNCHANGED <<cancelled, fds, readable, handlers, due>>
  BY DidHandlerRefs
<1>3. /\ \A o \in Thread \ {t} : thread'[o] = thread[o]
      /\ thread'[t].at = "ready" /\ thread'[t].h = thread[t].h
      /\ thread'[t].todo = thread[t].todo /\ thread'[t].back = thread[t].back
  BY <1>2 DEF Goes
<1>4. FdInv'
  BY <1>2 DEF SeenInv, FdInv
<1>5. ASSUME NEW p \in Source PROVE TriggerInv(p)'
  <2>1. TriggerInv(p) /\ SourceInv(p) /\ source[p] \in SourceRecord
    BY DEF SeenInv, Base, TypeOK
  <2>2. KeepsReady(p)
    <3>1. CASE p # thread[t].h
      BY <1>2, <3>1 DEF Sets, KeepsReady
    <3>2. CASE p = thread[t].h
      <4>1. /\ source'[p].held = source[p].held /\ source'[p].ready = source[p].ready
            /\ source'[p].dispatched = source[p].dispatched /\ source'[p].self = source[p].self /\ source'[p].phase = source[p].phase
        BY <1>2, <3>2 DEF Sets
      <4> QED
        BY <1>2, <2>1, <3>2, <4>1 DEF KeepsReady
    <3> QED
      BY <3>1, <3>2
  <2>3. source[p].held => (In(handlers, p) => In(handlers, p)') /\ (cancelled' => cancelled)
    BY <1>2
  <2>4. KeepsPending(t, p)
    BY <1>1, <1>2, <1>3 DEF KeepsPending, PendingBy, Taken, Reaches, At, Emitting, Emits,
         Base, ThreadInv, Placed, SourcePlaces, HolderPlaces, Unreffing, Disposal,
         Preparation, ThreadRecord
  <2> QED
    BY <1>3, <2>1, <2>2, <2>3, <2>4, TriggerKept
<1> QED
  BY <1>4, <1>5 DEF SeenInv

LEMMA SeenHandlerReadies ==
  ASSUME Base, CallsInv, \A p \in Source : SourceInv(p), SeenInv,
         NEW t \in Thread, HandlerReadies(t)
  PROVE  SeenInv'
<1>1. ThreadInv(t) /\ thread[t] \in ThreadRecord /\ None \notin Source /\ User \cap Source = {}
  BY CancellableAssumption DEF Base, TypeOK
<1>2. /\ At(t, "ready") /\ thread[t].h \in Source
      /\ Goes(t, "called", thread[t].h, thread[t].todo, thread[t].back)
      /\ Sets(thread[t].h, source[thread[t].h].phase, source[thread[t].h].refs,
             source[thread[t].h].held, source[thread[t].h].self, source[thread[t].h].called,
             source[thread[t].h].cancellable, TRUE, source[thread[t].h].dispatched)
      /\ UNCHANGED <<cancelled, fds, readable, handlers, due>>
  BY DidHandlerReadies
<1>3. /\ \A o \in Thread \ {t} : thread'[o] = thread[o]
      /\ thread'[t].at = "called" /\ thread'[t].h = thread[t].h
      /\ thread'[t].todo = thread[t].todo /\ thread'[t].back = thread[t].back
  BY <1>2 DEF Goes
<1>4. FdInv'
  BY <1>2 DEF SeenInv, FdInv
<1>5. ASSUME NEW p \in Source PROVE TriggerInv(p)'
  <2>1. TriggerInv(p) /\ SourceInv(p) /\ source[p] \in SourceRecord
    BY DEF SeenInv, Base, TypeOK
  <2>2. KeepsReady(p)
    <3>1. CASE p # thread[t].h
      BY <1>2, <3>1 DEF Sets, KeepsReady
    <3>2. CASE p = thread[t].h
      <4>1. /\ source'[p].held = source[p].held /\ source'[p].ready = TRUE
            /\ source'[p].dispatched = source[p].dispatched /\ source'[p].self = source[p].self /\ source'[p].phase = source[p].phase
        BY <1>2, <3>2 DEF Sets
      <4> QED
        BY <1>2, <2>1, <3>2, <4>1 DEF KeepsReady
    <3> QED
      BY <3>1, <3>2
  <2>3. source[p].held => (In(handlers, p) => In(handlers, p)') /\ (cancelled' => cancelled)
    BY <1>2
  <2>g. p = thread[t].h => source'[p].ready
    BY <1>2 DEF Sets
  <2>4. KeepsPending(t, p)
    BY <1>1, <1>2, <1>3, <2>g DEF KeepsPending, PendingBy, Taken, Reaches, At, Emitting,
         Emits, Base, ThreadInv, Placed, SourcePlaces, HolderPlaces, Unreffing, Disposal,
         Preparation
  <2> QED
    BY <1>3, <2>1, <2>2, <2>3, <2>4, TriggerKept
<1> QED
  BY <1>4, <1>5 DEF SeenInv

LEMMA SeenHandlerCalled ==
  ASSUME Base, CallsInv, \A p \in Source : SourceInv(p), SeenInv,
         NEW t \in Thread, HandlerCalled(t)
  PROVE  SeenInv'
<1>1. ThreadInv(t) /\ thread[t] \in ThreadRecord /\ None \notin Source /\ User \cap Source = {}
  BY CancellableAssumption DEF Base, TypeOK
<1>2. /\ At(t, "called") /\ thread[t].h \in Source
      /\ Goes(t, "unref", thread[t].h, thread[t].todo, "emit")
      /\ Sets(thread[t].h, source[thread[t].h].phase, source[thread[t].h].refs,
             source[thread[t].h].held, source[thread[t].h].self, TRUE,
             source[thread[t].h].cancellable, source[thread[t].h].ready,
             source[thread[t].h].dispatched)
      /\ UNCHANGED <<cancelled, fds, readable, handlers, due>>
  BY DidHandlerCalled
<1>3. /\ \A o \in Thread \ {t} : thread'[o] = thread[o]
      /\ thread'[t].at = "unref" /\ thread'[t].h = thread[t].h
      /\ thread'[t].todo = thread[t].todo /\ thread'[t].back = "emit"
  BY <1>2 DEF Goes
<1>4. FdInv'
  BY <1>2 DEF SeenInv, FdInv
<1>5. ASSUME NEW p \in Source PROVE TriggerInv(p)'
  <2>1. TriggerInv(p) /\ SourceInv(p) /\ source[p] \in SourceRecord
    BY DEF SeenInv, Base, TypeOK
  <2>2. KeepsReady(p)
    <3>1. CASE p # thread[t].h
      BY <1>2, <3>1 DEF Sets, KeepsReady
    <3>2. CASE p = thread[t].h
      <4>1. /\ source'[p].held = source[p].held /\ source'[p].ready = source[p].ready
            /\ source'[p].dispatched = source[p].dispatched /\ source'[p].self = source[p].self /\ source'[p].phase = source[p].phase
        BY <1>2, <3>2 DEF Sets
      <4> QED
        BY <1>2, <2>1, <3>2, <4>1 DEF KeepsReady
    <3> QED
      BY <3>1, <3>2
  <2>3. source[p].held => (In(handlers, p) => In(handlers, p)') /\ (cancelled' => cancelled)
    BY <1>2
  <2>4. KeepsPending(t, p)
    BY <1>1, <1>2, <1>3 DEF KeepsPending, PendingBy, Taken, Reaches, At, Emitting, Emits,
         Base, ThreadInv, Placed, SourcePlaces, HolderPlaces, Unreffing, Disposal,
         Preparation, ThreadRecord
  <2> QED
    BY <1>3, <2>1, <2>2, <2>3, <2>4, TriggerKept
<1> QED
  BY <1>4, <1>5 DEF SeenInv

LEMMA SeenPrepare ==
  ASSUME Base, CallsInv, \A p \in Source : SourceInv(p), SeenInv,
         NEW t \in Thread, NEW s \in Source, Prepare(t, s)
  PROVE  SeenInv'
<1>1. ThreadInv(t) /\ thread[t] \in ThreadRecord /\ None \notin Source /\ User \cap Source = {}
  BY CancellableAssumption DEF Base, TypeOK
<1>2. /\ At(t, "idle") /\ source[s].held /\ cancelledRunning = 0
      /\ \A o \in Thread : thread[o].h = s => thread[o].at \notin Preparation
      /\ Goes(t, "prepare", s, thread[t].todo, thread[t].back)
      /\ Sets(s, source[s].phase, source[s].refs + 1, source[s].held, source[s].self,
             source[s].called, source[s].cancellable, source[s].ready, source[s].dispatched)
      /\ UNCHANGED <<cancelled, fds, readable, handlers, due>>
  BY DidPrepare
<1>3. /\ \A o \in Thread \ {t} : thread'[o] = thread[o]
      /\ thread'[t].at = "prepare" /\ thread'[t].h = s
      /\ thread'[t].todo = thread[t].todo /\ thread'[t].back = thread[t].back
  BY <1>2 DEF Goes
<1>4. FdInv'
  BY <1>2 DEF SeenInv, FdInv
<1>5. ASSUME NEW p \in Source PROVE TriggerInv(p)'
  <2>1. TriggerInv(p) /\ SourceInv(p) /\ source[p] \in SourceRecord
    BY DEF SeenInv, Base, TypeOK
  <2>2. KeepsReady(p)
    <3>1. CASE p # s
      BY <1>2, <3>1 DEF Sets, KeepsReady
    <3>2. CASE p = s
      <4>1. /\ source'[p].held = source[p].held /\ source'[p].ready = source[p].ready
            /\ source'[p].dispatched = source[p].dispatched /\ source'[p].self = source[p].self /\ source'[p].phase = source[p].phase
        BY <1>2, <3>2 DEF Sets
      <4> QED
        BY <1>2, <2>1, <3>2, <4>1 DEF KeepsReady
    <3> QED
      BY <3>1, <3>2
  <2>3. source[p].held => (In(handlers, p) => In(handlers, p)') /\ (cancelled' => cancelled)
    BY <1>2
  <2>4. KeepsPending(t, p)
    BY <1>1, <1>2, <1>3 DEF KeepsPending, PendingBy, Taken, Reaches, At, Emitting, Emits,
         Base, ThreadInv, Placed, SourcePlaces, HolderPlaces, Unreffing, Disposal,
         Preparation, ThreadRecord
  <2> QED
    BY <1>3, <2>1, <2>2, <2>3, <2>4, TriggerKept
<1> QED
  BY <1>4, <1>5 DEF SeenInv

LEMMA SeenPrepareFlag ==
  ASSUME Base, CallsInv, \A p \in Source : SourceInv(p), SeenInv,
         NEW t \in Thread, PrepareFlag(t)
  PROVE  SeenInv'
<1>1. ThreadInv(t) /\ thread[t] \in ThreadRecord /\ None \notin Source /\ User \cap Source = {}
  BY CancellableAssumption DEF Base, TypeOK
<1>2. /\ At(t, "prepare") /\ thread[t].h \in Source
      /\ Goes(t, "prepare2", thread[t].h, thread[t].todo, thread[t].back)
      /\ Sets(thread[t].h, source[thread[t].h].phase, source[thread[t].h].refs,
             source[thread[t].h].held, source[thread[t].h].self, FALSE,
             source[thread[t].h].cancellable, source[thread[t].h].ready,
             source[thread[t].h].dispatched)
      /\ UNCHANGED <<cancelled, fds, readable, handlers, due>>
  BY DidPrepareFlag
<1>3. /\ \A o \in Thread \ {t} : thread'[o] = thread[o]
      /\ thread'[t].at = "prepare2" /\ thread'[t].h = thread[t].h
      /\ thread'[t].todo = thread[t].todo /\ thread'[t].back = thread[t].back
  BY <1>2 DEF Goes
<1>4. FdInv'
  BY <1>2 DEF SeenInv, FdInv
<1>5. ASSUME NEW p \in Source PROVE TriggerInv(p)'
  <2>1. TriggerInv(p) /\ SourceInv(p) /\ source[p] \in SourceRecord
    BY DEF SeenInv, Base, TypeOK
  <2>2. KeepsReady(p)
    <3>1. CASE p # thread[t].h
      BY <1>2, <3>1 DEF Sets, KeepsReady
    <3>2. CASE p = thread[t].h
      <4>1. /\ source'[p].held = source[p].held /\ source'[p].ready = source[p].ready
            /\ source'[p].dispatched = source[p].dispatched /\ source'[p].self = source[p].self /\ source'[p].phase = source[p].phase
        BY <1>2, <3>2 DEF Sets
      <4> QED
        BY <1>2, <2>1, <3>2, <4>1 DEF KeepsReady
    <3> QED
      BY <3>1, <3>2
  <2>3. source[p].held => (In(handlers, p) => In(handlers, p)') /\ (cancelled' => cancelled)
    BY <1>2
  <2>4. KeepsPending(t, p)
    BY <1>1, <1>2, <1>3 DEF KeepsPending, PendingBy, Taken, Reaches, At, Emitting, Emits,
         Base, ThreadInv, Placed, SourcePlaces, HolderPlaces, Unreffing, Disposal,
         Preparation, ThreadRecord
  <2> QED
    BY <1>3, <2>1, <2>2, <2>3, <2>4, TriggerKept
<1> QED
  BY <1>4, <1>5 DEF SeenInv

LEMMA SeenPrepareSelf ==
  ASSUME Base, CallsInv, \A p \in Source : SourceInv(p), SeenInv,
         NEW t \in Thread, PrepareSelf(t)
  PROVE  SeenInv'
<1>1. ThreadInv(t) /\ thread[t] \in ThreadRecord /\ None \notin Source /\ User \cap Source = {}
  BY CancellableAssumption DEF Base, TypeOK
<1>2. /\ At(t, "prepare2") /\ thread[t].h \in Source
      /\ Goes(t, "unref", thread[t].h, thread[t].todo, thread[t].back)
      /\ Sets(thread[t].h, source[thread[t].h].phase, source[thread[t].h].refs,
             source[thread[t].h].held, TRUE, source[thread[t].h].called,
             source[thread[t].h].cancellable, source[thread[t].h].ready,
             source[thread[t].h].dispatched)
      /\ UNCHANGED <<cancelled, fds, readable, handlers, due>>
  BY DidPrepareSelf
<1>3. /\ \A o \in Thread \ {t} : thread'[o] = thread[o]
      /\ thread'[t].at = "unref" /\ thread'[t].h = thread[t].h
      /\ thread'[t].todo = thread[t].todo /\ thread'[t].back = thread[t].back
  BY <1>2 DEF Goes
<1>4. FdInv'
  BY <1>2 DEF SeenInv, FdInv
<1>5. ASSUME NEW p \in Source PROVE TriggerInv(p)'
  <2>1. TriggerInv(p) /\ SourceInv(p) /\ source[p] \in SourceRecord
    BY DEF SeenInv, Base, TypeOK
  <2>2. KeepsReady(p)
    <3>1. CASE p # thread[t].h
      BY <1>2, <3>1 DEF Sets, KeepsReady
    <3>2. CASE p = thread[t].h
      <4>1. /\ source'[p].held = source[p].held /\ source'[p].ready = source[p].ready
            /\ source'[p].dispatched = source[p].dispatched /\ source'[p].self = TRUE /\ source'[p].phase = source[p].phase
        BY <1>2, <3>2 DEF Sets
      <4> QED
        BY <1>2, <2>1, <3>2, <4>1 DEF KeepsReady
    <3> QED
      BY <3>1, <3>2
  <2>3. source[p].held => (In(handlers, p) => In(handlers, p)') /\ (cancelled' => cancelled)
    BY <1>2
  <2>4. KeepsPending(t, p)
    BY <1>1, <1>2, <1>3 DEF KeepsPending, PendingBy, Taken, Reaches, At, Emitting, Emits,
         Base, ThreadInv, Placed, SourcePlaces, HolderPlaces, Unreffing, Disposal,
         Preparation, ThreadRecord
  <2> QED
    BY <1>3, <2>1, <2>2, <2>3, <2>4, TriggerKept
<1> QED
  BY <1>4, <1>5 DEF SeenInv

LEMMA SeenDispatch ==
  ASSUME Base, CallsInv, \A p \in Source : SourceInv(p), SeenInv,
         NEW t \in Thread, NEW s \in Source, Dispatch(t, s)
  PROVE  SeenInv'
<1>1. ThreadInv(t) /\ thread[t] \in ThreadRecord /\ None \notin Source /\ User \cap Source = {}
  BY CancellableAssumption DEF Base, TypeOK
<1>2. /\ At(t, "idle") /\ source[s].held /\ source[s].ready
      /\ Goes(t, thread[t].at, thread[t].h, thread[t].todo, thread[t].back)
      /\ Sets(s, source[s].phase, source[s].refs, source[s].held, source[s].self,
             source[s].called, source[s].cancellable, FALSE, TRUE)
      /\ due' = due \ {s}
      /\ UNCHANGED <<cancelled, fds, readable, handlers>>
  BY DidDispatch
<1>3. /\ \A o \in Thread \ {t} : thread'[o] = thread[o]
      /\ thread'[t].at = thread[t].at /\ thread'[t].h = thread[t].h
      /\ thread'[t].todo = thread[t].todo /\ thread'[t].back = thread[t].back
  BY <1>2 DEF Goes
<1>4. FdInv'
  BY <1>2 DEF SeenInv, FdInv
<1>5. ASSUME NEW p \in Source PROVE TriggerInv(p)'
  <2>1. TriggerInv(p) /\ SourceInv(p) /\ source[p] \in SourceRecord
    BY DEF SeenInv, Base, TypeOK
  <2>2. KeepsReady(p)
    <3>1. CASE p # s
      BY <1>2, <3>1 DEF Sets, KeepsReady
    <3>2. CASE p = s
      <4>1. /\ source'[p].held = source[p].held /\ source'[p].ready = FALSE
            /\ source'[p].dispatched = TRUE /\ source'[p].self = source[p].self /\ source'[p].phase = source[p].phase
        BY <1>2, <3>2 DEF Sets
      <4> QED
        BY <1>2, <2>1, <3>2, <4>1 DEF KeepsReady
    <3> QED
      BY <3>1, <3>2
  <2>3. source[p].held => (In(handlers, p) => In(handlers, p)') /\ (cancelled' => cancelled)
    BY <1>2
  <2>4. KeepsPending(t, p)
    BY <1>1, <1>2, <1>3 DEF KeepsPending, PendingBy, Taken, Reaches, At, Emitting, Emits,
         Base, ThreadInv, Placed, SourcePlaces, HolderPlaces, Unreffing, Disposal,
         Preparation, ThreadRecord
  <2> QED
    BY <1>3, <2>1, <2>2, <2>3, <2>4, TriggerKept
<1> QED
  BY <1>4, <1>5 DEF SeenInv

LEMMA SeenDrop ==
  ASSUME Base, CallsInv, \A p \in Source : SourceInv(p), SeenInv,
         NEW t \in Thread, NEW s \in Source, Drop(t, s)
  PROVE  SeenInv'
<1>1. ThreadInv(t) /\ thread[t] \in ThreadRecord /\ None \notin Source /\ User \cap Source = {}
  BY CancellableAssumption DEF Base, TypeOK
<1>2. /\ At(t, "idle") /\ source[s].held
      /\ \A o \in Thread : ~(At(o, "new") /\ thread[o].h = s)
      /\ Goes(t, "unref", s, thread[t].todo, thread[t].back)
      /\ Sets(s, source[s].phase, source[s].refs, FALSE, source[s].self, source[s].called,
             source[s].cancellable, source[s].ready, source[s].dispatched)
      /\ UNCHANGED <<cancelled, fds, readable, handlers, due>>
  BY DidDrop
<1>3. /\ \A o \in Thread \ {t} : thread'[o] = thread[o]
      /\ thread'[t].at = "unref" /\ thread'[t].h = s
      /\ thread'[t].todo = thread[t].todo /\ thread'[t].back = thread[t].back
  BY <1>2 DEF Goes
<1>4. FdInv'
  BY <1>2 DEF SeenInv, FdInv
<1>5. ASSUME NEW p \in Source PROVE TriggerInv(p)'
  <2>1. TriggerInv(p) /\ SourceInv(p) /\ source[p] \in SourceRecord
    BY DEF SeenInv, Base, TypeOK
  <2>2. KeepsReady(p)
    <3>1. CASE p # s
      BY <1>2, <3>1 DEF Sets, KeepsReady
    <3>2. CASE p = s
      <4>1. /\ source'[p].held = FALSE /\ source'[p].ready = source[p].ready
            /\ source'[p].dispatched = source[p].dispatched /\ source'[p].self = source[p].self /\ source'[p].phase = source[p].phase
        BY <1>2, <3>2 DEF Sets
      <4> QED
        BY <1>2, <2>1, <3>2, <4>1 DEF KeepsReady
    <3> QED
      BY <3>1, <3>2
  <2>3. source[p].held => (In(handlers, p) => In(handlers, p)') /\ (cancelled' => cancelled)
    BY <1>2
  <2>4. KeepsPending(t, p)
    BY <1>1, <1>2, <1>3 DEF KeepsPending, PendingBy, Taken, Reaches, At, Emitting, Emits,
         Base, ThreadInv, Placed, SourcePlaces, HolderPlaces, Unreffing, Disposal,
         Preparation, ThreadRecord
  <2> QED
    BY <1>3, <2>1, <2>2, <2>3, <2>4, TriggerKept
<1> QED
  BY <1>4, <1>5 DEF SeenInv

LEMMA SeenUnrefDrops ==
  ASSUME Base, CallsInv, \A p \in Source : SourceInv(p), SeenInv,
         NEW t \in Thread, Unref(t), Rec(t).refs > 1
  PROVE  SeenInv'
<1>1. ThreadInv(t) /\ thread[t] \in ThreadRecord /\ None \notin Source /\ User \cap Source = {}
  BY CancellableAssumption DEF Base, TypeOK
<1>2. /\ At(t, "unref") /\ thread[t].h \in Source
      /\ source[thread[t].h].refs > 1
      /\ Goes(t, thread[t].back, None, thread[t].todo, "idle")
      /\ Sets(thread[t].h, source[thread[t].h].phase, source[thread[t].h].refs - 1,
             source[thread[t].h].held, source[thread[t].h].self, source[thread[t].h].called,
             source[thread[t].h].cancellable, source[thread[t].h].ready,
             source[thread[t].h].dispatched)
      /\ UNCHANGED <<cancelled, fds, readable, handlers, due>>
  BY DidUnrefDrops
<1>3. /\ \A o \in Thread \ {t} : thread'[o] = thread[o]
      /\ thread'[t].at = thread[t].back /\ thread'[t].h = None
      /\ thread'[t].todo = thread[t].todo /\ thread'[t].back = "idle"
  BY <1>2 DEF Goes
<1>4. FdInv'
  BY <1>2 DEF SeenInv, FdInv
<1>5. ASSUME NEW p \in Source PROVE TriggerInv(p)'
  <2>1. TriggerInv(p) /\ SourceInv(p) /\ source[p] \in SourceRecord
    BY DEF SeenInv, Base, TypeOK
  <2>2. KeepsReady(p)
    <3>1. CASE p # thread[t].h
      BY <1>2, <3>1 DEF Sets, KeepsReady
    <3>2. CASE p = thread[t].h
      <4>1. /\ source'[p].held = source[p].held /\ source'[p].ready = source[p].ready
            /\ source'[p].dispatched = source[p].dispatched /\ source'[p].self = source[p].self /\ source'[p].phase = source[p].phase
        BY <1>2, <3>2 DEF Sets
      <4> QED
        BY <1>2, <2>1, <3>2, <4>1 DEF KeepsReady
    <3> QED
      BY <3>1, <3>2
  <2>3. source[p].held => (In(handlers, p) => In(handlers, p)') /\ (cancelled' => cancelled)
    BY <1>2
  <2>4. KeepsPending(t, p)
    BY <1>1, <1>2, <1>3 DEF KeepsPending, PendingBy, Taken, Reaches, At, Emitting, Emits,
         Base, ThreadInv, Placed, SourcePlaces, HolderPlaces, Unreffing, Disposal,
         Preparation, ThreadRecord
  <2> QED
    BY <1>3, <2>1, <2>2, <2>3, <2>4, TriggerKept
<1> QED
  BY <1>4, <1>5 DEF SeenInv

LEMMA SeenUnrefDisposes ==
  ASSUME Base, CallsInv, \A p \in Source : SourceInv(p), SeenInv,
         NEW t \in Thread, Unref(t), ~(Rec(t).refs > 1)
  PROVE  SeenInv'
<1>1. ThreadInv(t) /\ thread[t] \in ThreadRecord /\ None \notin Source /\ User \cap Source = {}
  BY CancellableAssumption DEF Base, TypeOK
<1>2. /\ At(t, "unref") /\ thread[t].h \in Source
      /\ source[thread[t].h].refs = 1
      /\ Goes(t, "dispose", thread[t].h, thread[t].todo, thread[t].back)
      /\ source' = source
      /\ UNCHANGED <<cancelled, fds, readable, handlers, due>>
  BY DidUnrefDisposes
<1>3. /\ \A o \in Thread \ {t} : thread'[o] = thread[o]
      /\ thread'[t].at = "dispose" /\ thread'[t].h = thread[t].h
      /\ thread'[t].todo = thread[t].todo /\ thread'[t].back = thread[t].back
  BY <1>2 DEF Goes
<1>4. FdInv'
  BY <1>2 DEF SeenInv, FdInv
<1>5. ASSUME NEW p \in Source PROVE TriggerInv(p)'
  <2>1. TriggerInv(p) /\ SourceInv(p) /\ source[p] \in SourceRecord
    BY DEF SeenInv, Base, TypeOK
  <2>2. KeepsReady(p)
    BY <1>2 DEF KeepsReady
  <2>3. source[p].held => (In(handlers, p) => In(handlers, p)') /\ (cancelled' => cancelled)
    BY <1>2
  <2>4. KeepsPending(t, p)
    BY <1>1, <1>2, <1>3 DEF KeepsPending, PendingBy, Taken, Reaches, At, Emitting, Emits,
         Base, ThreadInv, Placed, SourcePlaces, HolderPlaces, Unreffing, Disposal,
         Preparation, ThreadRecord
  <2> QED
    BY <1>3, <2>1, <2>2, <2>3, <2>4, TriggerKept
<1> QED
  BY <1>4, <1>5 DEF SeenInv

LEMMA SeenDisposeFirst ==
  ASSUME Base, CallsInv, \A p \in Source : SourceInv(p), SeenInv,
         NEW t \in Thread, Dispose(t), Rec(t).cancellable
  PROVE  SeenInv'
<1>1. ThreadInv(t) /\ thread[t] \in ThreadRecord /\ None \notin Source /\ User \cap Source = {}
  BY CancellableAssumption DEF Base, TypeOK
<1>2. /\ At(t, "dispose") /\ thread[t].h \in Source
      /\ source[thread[t].h].cancellable
      /\ Goes(t, "self", thread[t].h, thread[t].todo, thread[t].back)
      /\ Sets(thread[t].h, source[thread[t].h].phase, source[thread[t].h].refs,
             source[thread[t].h].held, source[thread[t].h].self, source[thread[t].h].called,
             FALSE, source[thread[t].h].ready, source[thread[t].h].dispatched)
      /\ UNCHANGED <<cancelled, fds, readable, handlers, due>>
  BY DidDisposeFirst
<1>3. /\ \A o \in Thread \ {t} : thread'[o] = thread[o]
      /\ thread'[t].at = "self" /\ thread'[t].h = thread[t].h
      /\ thread'[t].todo = thread[t].todo /\ thread'[t].back = thread[t].back
  BY <1>2 DEF Goes
<1>4. FdInv'
  BY <1>2 DEF SeenInv, FdInv
<1>5. ASSUME NEW p \in Source PROVE TriggerInv(p)'
  <2>1. TriggerInv(p) /\ SourceInv(p) /\ source[p] \in SourceRecord
    BY DEF SeenInv, Base, TypeOK
  <2>2. KeepsReady(p)
    <3>1. CASE p # thread[t].h
      BY <1>2, <3>1 DEF Sets, KeepsReady
    <3>2. CASE p = thread[t].h
      <4>1. /\ source'[p].held = source[p].held /\ source'[p].ready = source[p].ready
            /\ source'[p].dispatched = source[p].dispatched /\ source'[p].self = source[p].self /\ source'[p].phase = source[p].phase
        BY <1>2, <3>2 DEF Sets
      <4> QED
        BY <1>2, <2>1, <3>2, <4>1 DEF KeepsReady
    <3> QED
      BY <3>1, <3>2
  <2>3. source[p].held => (In(handlers, p) => In(handlers, p)') /\ (cancelled' => cancelled)
    BY <1>2
  <2>4. KeepsPending(t, p)
    BY <1>1, <1>2, <1>3 DEF KeepsPending, PendingBy, Taken, Reaches, At, Emitting, Emits,
         Base, ThreadInv, Placed, SourcePlaces, HolderPlaces, Unreffing, Disposal,
         Preparation, ThreadRecord
  <2> QED
    BY <1>3, <2>1, <2>2, <2>3, <2>4, TriggerKept
<1> QED
  BY <1>4, <1>5 DEF SeenInv

LEMMA SeenDisposeAgain ==
  ASSUME Base, CallsInv, \A p \in Source : SourceInv(p), SeenInv,
         NEW t \in Thread, Dispose(t), ~Rec(t).cancellable
  PROVE  SeenInv'
<1>1. ThreadInv(t) /\ thread[t] \in ThreadRecord /\ None \notin Source /\ User \cap Source = {}
  BY CancellableAssumption DEF Base, TypeOK
<1>2. /\ At(t, "dispose") /\ thread[t].h \in Source
      /\ ~source[thread[t].h].cancellable
      /\ Goes(t, "drop", thread[t].h, thread[t].todo, thread[t].back)
      /\ Sets(thread[t].h, source[thread[t].h].phase, source[thread[t].h].refs,
             source[thread[t].h].held, source[thread[t].h].self, source[thread[t].h].called,
             FALSE, source[thread[t].h].ready, source[thread[t].h].dispatched)
      /\ UNCHANGED <<cancelled, fds, readable, handlers, due>>
  BY DidDisposeAgain
<1>3. /\ \A o \in Thread \ {t} : thread'[o] = thread[o]
      /\ thread'[t].at = "drop" /\ thread'[t].h = thread[t].h
      /\ thread'[t].todo = thread[t].todo /\ thread'[t].back = thread[t].back
  BY <1>2 DEF Goes
<1>4. FdInv'
  BY <1>2 DEF SeenInv, FdInv
<1>5. ASSUME NEW p \in Source PROVE TriggerInv(p)'
  <2>1. TriggerInv(p) /\ SourceInv(p) /\ source[p] \in SourceRecord
    BY DEF SeenInv, Base, TypeOK
  <2>2. KeepsReady(p)
    <3>1. CASE p # thread[t].h
      BY <1>2, <3>1 DEF Sets, KeepsReady
    <3>2. CASE p = thread[t].h
      <4>1. /\ source'[p].held = source[p].held /\ source'[p].ready = source[p].ready
            /\ source'[p].dispatched = source[p].dispatched /\ source'[p].self = source[p].self /\ source'[p].phase = source[p].phase
        BY <1>2, <3>2 DEF Sets
      <4> QED
        BY <1>2, <2>1, <3>2, <4>1 DEF KeepsReady
    <3> QED
      BY <3>1, <3>2
  <2>3. source[p].held => (In(handlers, p) => In(handlers, p)') /\ (cancelled' => cancelled)
    BY <1>2
  <2>4. KeepsPending(t, p)
    BY <1>1, <1>2, <1>3 DEF KeepsPending, PendingBy, Taken, Reaches, At, Emitting, Emits,
         Base, ThreadInv, Placed, SourcePlaces, HolderPlaces, Unreffing, Disposal,
         Preparation, ThreadRecord
  <2> QED
    BY <1>3, <2>1, <2>2, <2>3, <2>4, TriggerKept
<1> QED
  BY <1>4, <1>5 DEF SeenInv

LEMMA SeenDisposeTakes ==
  ASSUME Base, CallsInv, \A p \in Source : SourceInv(p), SeenInv,
         NEW t \in Thread, DisposeSelf(t), Rec(t).self
  PROVE  SeenInv'
<1>1. ThreadInv(t) /\ thread[t] \in ThreadRecord /\ None \notin Source /\ User \cap Source = {}
  BY CancellableAssumption DEF Base, TypeOK
<1>2. /\ At(t, "self") /\ thread[t].h \in Source
      /\ source[thread[t].h].self
      /\ Goes(t, "disconnect", thread[t].h, thread[t].todo, thread[t].back)
      /\ Sets(thread[t].h, source[thread[t].h].phase, source[thread[t].h].refs,
             source[thread[t].h].held, FALSE, source[thread[t].h].called,
             source[thread[t].h].cancellable, source[thread[t].h].ready,
             source[thread[t].h].dispatched)
      /\ UNCHANGED <<cancelled, fds, readable, handlers, due>>
  BY DidDisposeTakes
<1>3. /\ \A o \in Thread \ {t} : thread'[o] = thread[o]
      /\ thread'[t].at = "disconnect" /\ thread'[t].h = thread[t].h
      /\ thread'[t].todo = thread[t].todo /\ thread'[t].back = thread[t].back
  BY <1>2 DEF Goes
<1>4. FdInv'
  BY <1>2 DEF SeenInv, FdInv
<1>5. ASSUME NEW p \in Source PROVE TriggerInv(p)'
  <2>1. TriggerInv(p) /\ SourceInv(p) /\ source[p] \in SourceRecord
    BY DEF SeenInv, Base, TypeOK
  <2>h. p = thread[t].h => ~source[p].held
    BY <1>2, <2>1 DEF SourceInv, DisposeInv, Disposer, Disposes, Disposal, At
  <2>2. KeepsReady(p)
    <3>1. CASE p # thread[t].h
      BY <1>2, <3>1 DEF Sets, KeepsReady
    <3>2. CASE p = thread[t].h
      <4>1. /\ source'[p].held = source[p].held /\ source'[p].ready = source[p].ready
            /\ source'[p].dispatched = source[p].dispatched /\ source'[p].self = FALSE /\ source'[p].phase = source[p].phase
        BY <1>2, <3>2 DEF Sets
      <4> QED
        BY <1>2, <2>1, <3>2, <4>1, <2>h DEF KeepsReady
    <3> QED
      BY <3>1, <3>2
  <2>3. source[p].held => (In(handlers, p) => In(handlers, p)') /\ (cancelled' => cancelled)
    BY <1>2
  <2>4. KeepsPending(t, p)
    BY <1>1, <1>2, <1>3 DEF KeepsPending, PendingBy, Taken, Reaches, At, Emitting, Emits,
         Base, ThreadInv, Placed, SourcePlaces, HolderPlaces, Unreffing, Disposal,
         Preparation, ThreadRecord
  <2> QED
    BY <1>3, <2>1, <2>2, <2>3, <2>4, TriggerKept
<1> QED
  BY <1>4, <1>5 DEF SeenInv

LEMMA SeenDisposeWaits ==
  ASSUME Base, CallsInv, \A p \in Source : SourceInv(p), SeenInv,
         NEW t \in Thread, DisposeSelf(t), ~Rec(t).self
  PROVE  SeenInv'
<1>1. ThreadInv(t) /\ thread[t] \in ThreadRecord /\ None \notin Source /\ User \cap Source = {}
  BY CancellableAssumption DEF Base, TypeOK
<1>2. /\ At(t, "self") /\ thread[t].h \in Source
      /\ ~source[thread[t].h].self
      /\ Goes(t, "spin", thread[t].h, thread[t].todo, thread[t].back)
      /\ Sets(thread[t].h, source[thread[t].h].phase, source[thread[t].h].refs,
             source[thread[t].h].held, FALSE, source[thread[t].h].called,
             source[thread[t].h].cancellable, source[thread[t].h].ready,
             source[thread[t].h].dispatched)
      /\ UNCHANGED <<cancelled, fds, readable, handlers, due>>
  BY DidDisposeWaits
<1>3. /\ \A o \in Thread \ {t} : thread'[o] = thread[o]
      /\ thread'[t].at = "spin" /\ thread'[t].h = thread[t].h
      /\ thread'[t].todo = thread[t].todo /\ thread'[t].back = thread[t].back
  BY <1>2 DEF Goes
<1>4. FdInv'
  BY <1>2 DEF SeenInv, FdInv
<1>5. ASSUME NEW p \in Source PROVE TriggerInv(p)'
  <2>1. TriggerInv(p) /\ SourceInv(p) /\ source[p] \in SourceRecord
    BY DEF SeenInv, Base, TypeOK
  <2>h. p = thread[t].h => ~source[p].held
    BY <1>2, <2>1 DEF SourceInv, DisposeInv, Disposer, Disposes, Disposal, At
  <2>2. KeepsReady(p)
    <3>1. CASE p # thread[t].h
      BY <1>2, <3>1 DEF Sets, KeepsReady
    <3>2. CASE p = thread[t].h
      <4>1. /\ source'[p].held = source[p].held /\ source'[p].ready = source[p].ready
            /\ source'[p].dispatched = source[p].dispatched /\ source'[p].self = FALSE /\ source'[p].phase = source[p].phase
        BY <1>2, <3>2 DEF Sets
      <4> QED
        BY <1>2, <2>1, <3>2, <4>1, <2>h DEF KeepsReady
    <3> QED
      BY <3>1, <3>2
  <2>3. source[p].held => (In(handlers, p) => In(handlers, p)') /\ (cancelled' => cancelled)
    BY <1>2
  <2>4. KeepsPending(t, p)
    BY <1>1, <1>2, <1>3 DEF KeepsPending, PendingBy, Taken, Reaches, At, Emitting, Emits,
         Base, ThreadInv, Placed, SourcePlaces, HolderPlaces, Unreffing, Disposal,
         Preparation, ThreadRecord
  <2> QED
    BY <1>3, <2>1, <2>2, <2>3, <2>4, TriggerKept
<1> QED
  BY <1>4, <1>5 DEF SeenInv

LEMMA SeenDisposeSpin ==
  ASSUME Base, CallsInv, \A p \in Source : SourceInv(p), SeenInv,
         NEW t \in Thread, DisposeSpin(t)
  PROVE  SeenInv'
<1>1. ThreadInv(t) /\ thread[t] \in ThreadRecord /\ None \notin Source /\ User \cap Source = {}
  BY CancellableAssumption DEF Base, TypeOK
<1>2. /\ At(t, "spin") /\ thread[t].h \in Source
      /\ source[thread[t].h].called
      /\ Goes(t, "disconnect", thread[t].h, thread[t].todo, thread[t].back)
      /\ source' = source
      /\ UNCHANGED <<cancelled, fds, readable, handlers, due>>
  BY DidDisposeSpin
<1>3. /\ \A o \in Thread \ {t} : thread'[o] = thread[o]
      /\ thread'[t].at = "disconnect" /\ thread'[t].h = thread[t].h
      /\ thread'[t].todo = thread[t].todo /\ thread'[t].back = thread[t].back
  BY <1>2 DEF Goes
<1>4. FdInv'
  BY <1>2 DEF SeenInv, FdInv
<1>5. ASSUME NEW p \in Source PROVE TriggerInv(p)'
  <2>1. TriggerInv(p) /\ SourceInv(p) /\ source[p] \in SourceRecord
    BY DEF SeenInv, Base, TypeOK
  <2>2. KeepsReady(p)
    BY <1>2 DEF KeepsReady
  <2>3. source[p].held => (In(handlers, p) => In(handlers, p)') /\ (cancelled' => cancelled)
    BY <1>2
  <2>4. KeepsPending(t, p)
    BY <1>1, <1>2, <1>3 DEF KeepsPending, PendingBy, Taken, Reaches, At, Emitting, Emits,
         Base, ThreadInv, Placed, SourcePlaces, HolderPlaces, Unreffing, Disposal,
         Preparation, ThreadRecord
  <2> QED
    BY <1>3, <2>1, <2>2, <2>3, <2>4, TriggerKept
<1> QED
  BY <1>4, <1>5 DEF SeenInv

LEMMA SeenDisposeDisconnect ==
  ASSUME Base, CallsInv, \A p \in Source : SourceInv(p), SeenInv,
         NEW t \in Thread, DisposeDisconnect(t)
  PROVE  SeenInv'
<1>1. ThreadInv(t) /\ thread[t] \in ThreadRecord /\ None \notin Source /\ User \cap Source = {}
  BY CancellableAssumption DEF Base, TypeOK
<1>2. /\ At(t, "disconnect") /\ thread[t].h \in Source
      /\ Goes(t, "drop", thread[t].h, thread[t].todo, thread[t].back)
      /\ source' = source
      /\ handlers' = Without(handlers, thread[t].h)
      /\ UNCHANGED <<cancelled, fds, readable, due>>
  BY DidDisposeDisconnect
<1>3. /\ \A o \in Thread \ {t} : thread'[o] = thread[o]
      /\ thread'[t].at = "drop" /\ thread'[t].h = thread[t].h
      /\ thread'[t].todo = thread[t].todo /\ thread'[t].back = thread[t].back
  BY <1>2 DEF Goes
<1>4. FdInv'
  BY <1>2 DEF SeenInv, FdInv
<1>5. ASSUME NEW p \in Source PROVE TriggerInv(p)'
  <2>1. TriggerInv(p) /\ SourceInv(p) /\ source[p] \in SourceRecord
    BY DEF SeenInv, Base, TypeOK
  <2>h. p = thread[t].h => ~source[p].held
    BY <1>2, <2>1 DEF SourceInv, DisposeInv, Disposer, Disposes, Disposal, At
  <2>2. KeepsReady(p)
    BY <1>2 DEF KeepsReady
  <2>3. source[p].held => (In(handlers, p) => In(handlers, p)') /\ (cancelled' => cancelled)
    <3>1. handlers \in Seq(User \cup Source) /\ NoDup(handlers)
      BY DEF Base, TypeOK, CallsInv, ListInv
    <3>2. source[p].held => p # thread[t].h
      BY <2>h
    <3> QED
      BY <1>2, <3>1, <3>2, WithoutIn
  <2>4. KeepsPending(t, p)
    BY <1>1, <1>2, <1>3 DEF KeepsPending, PendingBy, Taken, Reaches, At, Emitting, Emits,
         Base, ThreadInv, Placed, SourcePlaces, HolderPlaces, Unreffing, Disposal,
         Preparation, ThreadRecord
  <2> QED
    BY <1>3, <2>1, <2>2, <2>3, <2>4, TriggerKept
<1> QED
  BY <1>4, <1>5 DEF SeenInv

LEMMA SeenDropFrees ==
  ASSUME Base, CallsInv, \A p \in Source : SourceInv(p), SeenInv,
         NEW t \in Thread, DropLast(t), Rec(t).refs = 1
  PROVE  SeenInv'
<1>1. ThreadInv(t) /\ thread[t] \in ThreadRecord /\ None \notin Source /\ User \cap Source = {}
  BY CancellableAssumption DEF Base, TypeOK
<1>2. /\ At(t, "drop") /\ thread[t].h \in Source
      /\ source[thread[t].h].refs = 1
      /\ Goes(t, thread[t].back, None, thread[t].todo, "idle")
      /\ Sets(thread[t].h, "freed", 0, source[thread[t].h].held, source[thread[t].h].self,
             source[thread[t].h].called, source[thread[t].h].cancellable,
             source[thread[t].h].ready, source[thread[t].h].dispatched)
      /\ UNCHANGED <<cancelled, fds, readable, handlers, due>>
  BY DidDropFrees
<1>3. /\ \A o \in Thread \ {t} : thread'[o] = thread[o]
      /\ thread'[t].at = thread[t].back /\ thread'[t].h = None
      /\ thread'[t].todo = thread[t].todo /\ thread'[t].back = "idle"
  BY <1>2 DEF Goes
<1>4. FdInv'
  BY <1>2 DEF SeenInv, FdInv
<1>5. ASSUME NEW p \in Source PROVE TriggerInv(p)'
  <2>1. TriggerInv(p) /\ SourceInv(p) /\ source[p] \in SourceRecord
    BY DEF SeenInv, Base, TypeOK
  <2>2. KeepsReady(p)
    <3>1. CASE p # thread[t].h
      BY <1>2, <3>1 DEF Sets, KeepsReady
    <3>2. CASE p = thread[t].h
      <4>1. /\ source'[p].held = source[p].held /\ source'[p].ready = source[p].ready
            /\ source'[p].dispatched = source[p].dispatched /\ source'[p].self = source[p].self /\ source'[p].phase = "freed"
        BY <1>2, <3>2 DEF Sets
      <4> QED
        BY <1>2, <2>1, <3>2, <4>1 DEF KeepsReady
    <3> QED
      BY <3>1, <3>2
  <2>3. source[p].held => (In(handlers, p) => In(handlers, p)') /\ (cancelled' => cancelled)
    BY <1>2
  <2>4. KeepsPending(t, p)
    BY <1>1, <1>2, <1>3 DEF KeepsPending, PendingBy, Taken, Reaches, At, Emitting, Emits,
         Base, ThreadInv, Placed, SourcePlaces, HolderPlaces, Unreffing, Disposal,
         Preparation, ThreadRecord
  <2> QED
    BY <1>3, <2>1, <2>2, <2>3, <2>4, TriggerKept
<1> QED
  BY <1>4, <1>5 DEF SeenInv

LEMMA SeenDropRetries ==
  ASSUME Base, CallsInv, \A p \in Source : SourceInv(p), SeenInv,
         NEW t \in Thread, DropLast(t), Rec(t).refs # 1
  PROVE  SeenInv'
<1>1. ThreadInv(t) /\ thread[t] \in ThreadRecord /\ None \notin Source /\ User \cap Source = {}
  BY CancellableAssumption DEF Base, TypeOK
<1>2. /\ At(t, "drop") /\ thread[t].h \in Source
      /\ Goes(t, "unref", thread[t].h, thread[t].todo, thread[t].back)
      /\ source' = source
      /\ UNCHANGED <<cancelled, fds, readable, handlers, due>>
  BY DidDropRetries
<1>3. /\ \A o \in Thread \ {t} : thread'[o] = thread[o]
      /\ thread'[t].at = "unref" /\ thread'[t].h = thread[t].h
      /\ thread'[t].todo = thread[t].todo /\ thread'[t].back = thread[t].back
  BY <1>2 DEF Goes
<1>4. FdInv'
  BY <1>2 DEF SeenInv, FdInv
<1>5. ASSUME NEW p \in Source PROVE TriggerInv(p)'
  <2>1. TriggerInv(p) /\ SourceInv(p) /\ source[p] \in SourceRecord
    BY DEF SeenInv, Base, TypeOK
  <2>2. KeepsReady(p)
    BY <1>2 DEF KeepsReady
  <2>3. source[p].held => (In(handlers, p) => In(handlers, p)') /\ (cancelled' => cancelled)
    BY <1>2
  <2>4. KeepsPending(t, p)
    BY <1>1, <1>2, <1>3 DEF KeepsPending, PendingBy, Taken, Reaches, At, Emitting, Emits,
         Base, ThreadInv, Placed, SourcePlaces, HolderPlaces, Unreffing, Disposal,
         Preparation, ThreadRecord
  <2> QED
    BY <1>3, <2>1, <2>2, <2>3, <2>4, TriggerKept
<1> QED
  BY <1>4, <1>5 DEF SeenInv

LEMMA SeenNext ==
  ASSUME Base, CallsInv, \A p \in Source : SourceInv(p), SeenInv, [Next]_vars
  PROVE  SeenInv'
<1>1. CASE UNCHANGED vars
  BY <1>1 DEF vars, SeenInv, FdInv, TriggerInv, PendingBy, Taken, Reaches, Emitting, At
<1>2. ASSUME NEW t \in Thread, Sound, Start(t) \/ GoOn(t) PROVE SeenInv'
  <2>1. CASE Cancel(t)
    BY <2>1, SeenCancel
  <2>2. CASE CancelLock(t)
    BY <2>2, SeenCancelLost, SeenCancelWon
  <2>3. CASE EmitStart(t)
    BY <2>3, SeenEmitStart
  <2>4. CASE EmitNext(t)
    <3>1. Head(thread[t].todo) \in User \cup Source
      BY <2>4 DEF EmitNext, Base, TypeOK, ThreadRecord
    <3> QED
      BY <2>4, <3>1, SeenEmitSkips, SeenEmitCalls, SeenEmitExchanges
  <2>5. CASE CallbackReturns(t)
    BY <2>5, SeenCallbackReturns
  <2>6. CASE EmitEnd(t)
    BY <2>6, SeenEmitEnd
  <2>7. ASSUME NEW u \in User, Connect(t, u) PROVE SeenInv'
    BY <2>7, SeenConnectOn, SeenConnectOff
  <2>8. CASE DirectReturns(t)
    BY <2>8, SeenDirectReturns
  <2>9. ASSUME NEW u \in User, Disconnect(t, u) PROVE SeenInv'
    BY <2>9, SeenDisconnect
  <2>10. CASE DisconnectLock(t)
    BY <2>10, SeenDisconnectLock
  <2>11. CASE DisconnectEnds(t)
    BY <2>11, SeenDisconnectEnds
  <2>12. CASE Reset(t)
    BY <2>12, SeenReset
  <2>13. CASE MakePollfd(t)
    BY <2>13, SeenMakePollfd
  <2>14. CASE ReleaseFd(t)
    BY <2>14, SeenReleaseFd
  <2>15. ASSUME NEW s \in Source, SourceNew(t, s) PROVE SeenInv'
    BY <2>15, SeenSourceNew
  <2>16. CASE SourceChecks(t)
    BY <2>16, SeenSourceChecks
  <2>17. CASE Exchange(t)
    BY <2>17, SeenExchangeTakes, SeenExchangeFails
  <2>18. CASE HandlerRefs(t)
    BY <1>2, <2>18, SeenHandlerRefs
  <2>19. CASE HandlerReadies(t)
    BY <2>19, SeenHandlerReadies
  <2>20. CASE HandlerCalled(t)
    BY <2>20, SeenHandlerCalled
  <2>21. ASSUME NEW s \in Source, Prepare(t, s) PROVE SeenInv'
    BY <2>21, SeenPrepare
  <2>22. CASE PrepareFlag(t)
    BY <2>22, SeenPrepareFlag
  <2>23. CASE PrepareSelf(t)
    BY <2>23, SeenPrepareSelf
  <2>24. ASSUME NEW s \in Source, Dispatch(t, s) PROVE SeenInv'
    BY <2>24, SeenDispatch
  <2>25. ASSUME NEW s \in Source, Drop(t, s) PROVE SeenInv'
    BY <2>25, SeenDrop
  <2>26. CASE Unref(t)
    BY <2>26, SeenUnrefDrops, SeenUnrefDisposes
  <2>27. CASE Dispose(t)
    BY <2>27, SeenDisposeFirst, SeenDisposeAgain
  <2>28. CASE DisposeSelf(t)
    BY <2>28, SeenDisposeTakes, SeenDisposeWaits
  <2>29. CASE DisposeSpin(t)
    BY <2>29, SeenDisposeSpin
  <2>30. CASE DisposeDisconnect(t)
    BY <2>30, SeenDisposeDisconnect
  <2>31. CASE DropLast(t)
    BY <2>31, SeenDropFrees, SeenDropRetries
  <2> QED
    BY <1>2, <2>1, <2>2, <2>3, <2>4, <2>5, <2>6, <2>7, <2>8, <2>9, <2>10, <2>11, <2>12,
       <2>13, <2>14, <2>15, <2>16, <2>17, <2>18, <2>19, <2>20, <2>21, <2>22, <2>23, <2>24,
       <2>25, <2>26, <2>27, <2>28, <2>29, <2>30, <2>31 DEF Start, GoOn
<1> QED
  BY <1>1, <1>2 DEF Next

\* The descriptor and the sources that were made before a cancellation or during it have
\* seen it when it is over, with resets in between; a source that was prepared since is made
\* ready again by every cancellation.
THEOREM CancelSeen == Spec => []CancelIsSeen
<1>1. Init => CallsInv
  BY CallsInit
<1>2. Base /\ CallsInv /\ [Next]_vars => CallsInv'
  BY CallsNext
<1>3. Init => SeenInv
  <2> SUFFICES ASSUME Init PROVE SeenInv
    OBVIOUS
  <2>1. \A s \in Source : ~source[s].held
    BY DEF Init, NoSource
  <2>2. FdInv /\ due = {}
    BY DEF Init, FdInv
  <2> QED
    BY <2>1, <2>2 DEF SeenInv, TriggerInv
<1>4. Base /\ CallsInv /\ (\A p \in Source : SourceInv(p)) /\ SeenInv /\ [Next]_vars => SeenInv'
  BY SeenNext
<1>5. Base /\ SeenInv => CancelIsSeen
  <2> SUFFICES ASSUME Base, SeenInv PROVE CancelIsSeen
    OBVIOUS
  <2>1. FdTellsCancelled
    BY DEF SeenInv, FdInv, FdTellsCancelled
  <2>2. SourceTriggers
    <3> SUFFICES ASSUME NEW s \in Source, source[s].held, cancelled, mutex = None,
                        \A t \in Thread : ~At(t, "new")
                 PROVE  source[s].ready \/ source[s].dispatched
      BY DEF SourceTriggers
    <3>1. \A t \in Thread : ~PendingBy(t, s)
      BY Free DEF PendingBy, Reaches, Taken, Emitting, Emits
    <3> QED
      BY <3>1 DEF SeenInv, TriggerInv
  <2>3. TriggersAgain
    <3> SUFFICES ASSUME NEW s \in Source, s \in due, source[s].held, mutex = None
                 PROVE  source[s].ready
      BY DEF TriggersAgain, Base, TypeOK
    <3>1. \A t \in Thread : ~Taken(t, s) /\ ~Reaches(t, s)
      BY Free DEF Reaches, Taken, Emitting, Emits
    <3> QED
      BY <3>1 DEF SeenInv, TriggerInv
  <2> QED
    BY <2>1, <2>2, <2>3 DEF CancelIsSeen
<1> QED
  BY <1>1, <1>2, <1>3, <1>4, <1>5, BaseHolds, SourcesCounted, PTL DEF Spec

================================================================================
