----------------------------- MODULE GObjectRefs -----------------------------
(*****************************************************************************)
(* References to GObjects and GWeakRefs to them (gobject/gobject.c): threads *)
(* take and drop strong references, an object is disposed, resurrected and   *)
(* finalized, and GWeakRefs are set to objects and turned into references.   *)
(* A step is one access to an atomic counter, one acquisition of a lock with *)
(* the reads that follow it, or one part of a critical section.  Three kinds *)
(* of lock: of an object's data list, of its WeakRefData, and the bit of a   *)
(* GWeakRef.  Toggle references are not registered; the lock they are looked *)
(* for with is taken.                                                        *)
(*****************************************************************************)
EXTENDS Integers, Sequences, FiniteSets

CONSTANTS Thread, Object, Weak, None,
          Address,    \* the order of the WeakRefData in memory
          Owner,      \* who has the first reference to each object
          MaxHolds    \* bound: references of a thread to an object

ASSUME RefsAssumption ==
  /\ IsFiniteSet(Thread)
  /\ None \notin Thread \cup Object \cup Weak
  /\ Address \in [Object -> Nat] /\ (\A o, p \in Object : Address[o] = Address[p] => o = p)
  /\ Owner \in [Object -> Thread] /\ MaxHolds \in Nat \ {0}

VARIABLES object,   \* the objects
          data,     \* their WeakRefData, which may outlive them
          weak,     \* the GWeakRefs
          thread,   \* where each thread is, and its local variables
          holds     \* the strong references each thread has

vars == <<object, data, weak, thread, holds>>

(* ever: OPTIONAL_FLAG_EVER_HAD_WEAK_REF; frozen: the notification queue's    *)
(* freeze count; lock: of the data list.                                      *)
ObjectRecord == [refs : Nat, freed : BOOLEAN, ever : BOOLEAN, frozen : Nat,
                 lock : Thread \cup {None}]
(* The WeakRefData of an object: its own references, its lock and its list.   *)
DataRecord == [refs : Nat, lock : Thread \cup {None}, list : SUBSET Weak]
WeakRecord == [ptr : Object \cup {None}, lock : Thread \cup {None}]

(* A thread that drops a reference to d, or sets or gets the GWeakRef r; old  *)
(* is the object whose WeakRefData it has referenced, ptr what it has read.   *)
(* mode: why weak locations are cleared: to see whether d is to be disposed,  *)
(* to drop the last reference, or for g_object_run_dispose.                   *)
Places == {"idle", "unref", "clear", "clearing", "freeze", "dispose", "decrement", "thaw",
           "toggle", "finalize", "run", "create", "read", "reference", "first", "second", "lock",
           "commit", "release", "get reference", "get data", "get lock", "get object"}
ThreadRecord == [at : Places, d : Object \cup {None}, mode : {"check", "drop", "run"},
                 frozen : BOOLEAN, r : Weak \cup {None}, new : Object \cup {None},
                 old : Object \cup {None}, ptr : Object \cup {None}]
Resting == [at |-> "idle", d |-> None, mode |-> "check", frozen |-> FALSE, r |-> None,
            new |-> None, old |-> None, ptr |-> None]

Init ==
  /\ object = [o \in Object |-> [refs |-> 1, freed |-> FALSE, ever |-> FALSE, frozen |-> 0,
                                 lock |-> None]]
  /\ data = [o \in Object |-> [refs |-> 0, lock |-> None, list |-> {}]]
  /\ weak = [r \in Weak |-> [ptr |-> None, lock |-> None]]
  /\ thread = [t \in Thread |-> Resting]
  /\ holds = [t \in Thread |-> [o \in Object |-> IF Owner[o] = t THEN 1 ELSE 0]]

At(t, place) == thread[t].at = place
D(t) == thread[t].d
R(t) == thread[t].r
Step(t, place) == thread' = [thread EXCEPT ![t].at = place]
Set(o, rec) == object' = [object EXCEPT ![o] = rec]
SetData(o, rec) == data' = [data EXCEPT ![o] = rec]

--------------------------------------------------------------------------------
(* Strong references. *)

\* object_ref: with the second reference the data list's lock is taken, to look for a
\* toggle reference.
ObjectRef(o) ==
  /\ object[o].refs = 1 => object[o].lock = None
  /\ Set(o, [object[o] EXCEPT !.refs = @ + 1])

\* g_object_ref, by a thread that has one, for itself or for another thread.
Ref(t, u, o) ==
  /\ At(t, "idle") /\ holds[t][o] > 0 /\ holds[u][o] < MaxHolds
  /\ ObjectRef(o)
  /\ holds' = [holds EXCEPT ![u][o] = @ + 1]
  /\ UNCHANGED <<data, weak, thread>>

\* g_object_unref is called.
Unref(t, o) ==
  /\ At(t, "idle") /\ holds[t][o] > 0
  /\ holds' = [holds EXCEPT ![t][o] = @ - 1]
  /\ thread' = [thread EXCEPT ![t].at = "unref", ![t].d = o]
  /\ UNCHANGED <<object, data, weak>>

\* A reference that is not the last one is dropped; with the second to last the data
\* list's lock is taken, to look for a toggle reference.
DropOne(t) ==
  \/ /\ object[D(t)].refs > 2
     /\ Set(D(t), [object[D(t)] EXCEPT !.refs = @ - 1])
     /\ thread' = [thread EXCEPT ![t] = Resting]
  \/ /\ object[D(t)].refs = 2 /\ object[D(t)].lock = None
     /\ Set(D(t), [object[D(t)] EXCEPT !.refs = 1, !.lock = t])
     /\ Step(t, "toggle")

\* g_object_unref, from retry_beginning on.
UnrefDrops(t) ==
  /\ At(t, "unref")
  /\ \/ DropOne(t)
     \/ /\ object[D(t)].refs = 1
        /\ thread' = [thread EXCEPT ![t].at = "clear", ![t].mode = "check"]
        /\ UNCHANGED object
  /\ UNCHANGED <<data, weak, holds>>

\* toggle_refs_check_and_ref_or_deref, after the count has been lowered.
Toggle(t) ==
  /\ At(t, "toggle")
  /\ Set(D(t), [object[D(t)] EXCEPT !.lock = None])
  /\ thread' = [thread EXCEPT ![t] = Resting]
  /\ UNCHANGED <<data, weak, holds>>

\* Where a thread goes when weak locations are cleared, and when it was not alone.
Cleared(t) == CASE thread[t].mode = "check" -> "freeze"
                [] thread[t].mode = "drop"  -> "finalize"
                [] thread[t].mode = "run"   -> "unref"
NotAlone(t) == IF thread[t].mode = "check" THEN "unref" ELSE "decrement"
Dropped(t) == IF thread[t].mode = "drop" THEN [object[D(t)] EXCEPT !.refs = 0] ELSE object[D(t)]

\* _object_unref_clear_weak_locations where the object never had a GWeakRef.
ClearNothing(t) ==
  /\ At(t, "clear") /\ ~object[D(t)].ever
  /\ Set(D(t), Dropped(t))
  /\ Step(t, Cleared(t))
  /\ UNCHANGED <<data, weak, holds>>

\* Mutant: the count is not looked at again.
AloneAnyway(t) == TRUE
\* Only the caller's reference is left.
Alone(t) == thread[t].mode = "run" \/ object[D(t)].refs = 1

\* Where it had, and in g_object_run_dispose: with the WeakRefData's lock.
ClearLocks(t) ==
  /\ At(t, "clear") /\ object[D(t)].ever /\ data[D(t)].lock = None
  /\ \/ /\ Alone(t)
        /\ Set(D(t), Dropped(t))
        /\ SetData(D(t), [data[D(t)] EXCEPT !.lock = t])
        /\ Step(t, "clearing")
     \/ ~Alone(t) /\ Step(t, NotAlone(t)) /\ UNCHANGED <<object, data>>
  /\ UNCHANGED <<weak, holds>>

\* weak_ref_data_clear_list: the next GWeakRef, which is not locked.
ClearNext(t, r) ==
  /\ At(t, "clearing") /\ r \in data[D(t)].list /\ weak[r].lock = None
  /\ weak' = [weak EXCEPT ![r].ptr = None]
  /\ SetData(D(t), [data[D(t)] EXCEPT !.list = @ \ {r}])
  /\ UNCHANGED <<object, thread, holds>>
ClearUnlocks(t) ==
  /\ At(t, "clearing") /\ data[D(t)].list = {}
  /\ SetData(D(t), [data[D(t)] EXCEPT !.lock = None])
  /\ Step(t, Cleared(t))
  /\ UNCHANGED <<object, weak, holds>>

\* g_object_notify_queue_freeze, with the data list's lock.
Freeze(t) ==
  /\ At(t, "freeze") /\ object[D(t)].lock = None
  /\ Set(D(t), [object[D(t)] EXCEPT !.frozen = @ + 1])
  /\ thread' = [thread EXCEPT ![t].at = "dispose", ![t].frozen = TRUE]
  /\ UNCHANGED <<data, weak, holds>>

\* dispose() may take a reference that it keeps (and set GWeakRefs, see WeakRefSet).
Resurrect(t) ==
  /\ At(t, "dispose") /\ holds[t][D(t)] < MaxHolds
  /\ ObjectRef(D(t))
  /\ holds' = [holds EXCEPT ![t][D(t)] = @ + 1]
  /\ UNCHANGED <<data, weak, thread>>
Disposed(t) ==
  /\ At(t, "dispose")
  /\ Step(t, "decrement")
  /\ UNCHANGED <<object, data, weak, holds>>

\* g_object_unref, from retry_decrement on.
Decrement(t) ==
  /\ At(t, "decrement")
  /\ \/ object[D(t)].refs > 1 /\ thread[t].frozen /\ Step(t, "thaw") /\ UNCHANGED object
     \/ ~thread[t].frozen /\ DropOne(t)
     \/ /\ object[D(t)].refs = 1
        /\ thread' = [thread EXCEPT ![t].at = "clear", ![t].mode = "drop"]
        /\ UNCHANGED object
  /\ UNCHANGED <<data, weak, holds>>

\* g_object_notify_queue_thaw, with the data list's lock.
Thaw(t) ==
  /\ At(t, "thaw") /\ object[D(t)].lock = None
  /\ Set(D(t), [object[D(t)] EXCEPT !.frozen = @ - 1])
  /\ thread' = [thread EXCEPT ![t].at = "decrement", ![t].frozen = FALSE]
  /\ UNCHANGED <<data, weak, holds>>

\* Mutant: without the data list's lock.
FinalizeUnlocked(t) ==
  /\ At(t, "finalize")
  /\ Set(D(t), [object[D(t)] EXCEPT !.freed = TRUE])
  /\ SetData(D(t), [data[D(t)] EXCEPT !.refs = IF object[D(t)].ever THEN @ - 1 ELSE @])
  /\ thread' = [thread EXCEPT ![t] = Resting]
  /\ UNCHANGED <<weak, holds>>
\* g_object_finalize and the free: g_datalist_clear takes the data list's lock a last time;
\* the list drops the WeakRefData.
Finalize(t) ==
  /\ At(t, "finalize") /\ object[D(t)].lock = None
  /\ Set(D(t), [object[D(t)] EXCEPT !.freed = TRUE])
  /\ SetData(D(t), [data[D(t)] EXCEPT !.refs = IF object[D(t)].ever THEN @ - 1 ELSE @])
  /\ thread' = [thread EXCEPT ![t] = Resting]
  /\ UNCHANGED <<weak, holds>>

\* g_object_run_dispose: a reference, dispose(), and weak locations are cleared whatever
\* the count.
RunDispose(t, o) ==
  /\ At(t, "idle") /\ holds[t][o] > 0
  /\ ObjectRef(o)
  /\ thread' = [thread EXCEPT ![t].at = "run", ![t].d = o]
  /\ UNCHANGED <<data, weak, holds>>
RunDisposed(t) ==
  /\ At(t, "run")
  /\ thread' = [thread EXCEPT ![t].at = IF object[D(t)].ever THEN "clear" ELSE "unref",
                              ![t].mode = "run"]
  /\ UNCHANGED <<object, data, weak, holds>>

--------------------------------------------------------------------------------
(* GWeakRefs. *)

\* A call returns, to dispose() if that made it.
Return(t) ==
  thread' = [thread EXCEPT ![t] = IF D(t) = None THEN Resting
    ELSE [@ EXCEPT !.at = "dispose", !.r = None, !.new = None, !.old = None, !.ptr = None]]

\* The bit of a GWeakRef is locked, and its pointer read.
LockWeak(t, r, place) ==
  /\ weak[r].lock = None
  /\ weak' = [weak EXCEPT ![r].lock = t]
  /\ thread' = [thread EXCEPT ![t].at = place, ![t].r = r, ![t].ptr = weak[r].ptr]

\* g_weak_ref_set, with an object the thread has a reference to or disposes of, or with
\* NULL (as g_weak_ref_clear does).
WeakRefSet(t, r, n) ==
  /\ At(t, "idle") \/ At(t, "dispose")
  /\ n # None => holds[t][n] > 0 \/ n = D(t)
  /\ thread' = [thread EXCEPT ![t].at = IF n = None THEN "read" ELSE "create",
                              ![t].r = r, ![t].new = n]
  /\ UNCHANGED <<object, data, weak, holds>>

\* weak_ref_data_get_or_create, with the data list's lock.
Create(t) ==
  LET n == thread[t].new IN
  /\ At(t, "create") /\ object[n].lock = None
  /\ Set(n, [object[n] EXCEPT !.ever = TRUE])
  /\ SetData(n, [data[n] EXCEPT !.refs = IF object[n].ever THEN @ ELSE 1])
  /\ Step(t, "read")
  /\ UNCHANGED <<weak, holds>>

\* _weak_ref_set: the object that is set now, and a reference to its WeakRefData.
Read(t) ==
  /\ At(t, "read")
  /\ \/ /\ weak[R(t)].lock = None /\ weak[R(t)].ptr = thread[t].new
        /\ Return(t) /\ UNCHANGED weak
     \/ weak[R(t)].ptr # thread[t].new /\ LockWeak(t, R(t), "reference")
  /\ UNCHANGED <<object, data, holds>>
Reference(t) ==
  LET p == thread[t].ptr IN
  /\ At(t, "reference")
  /\ data' = [o \in Object |-> IF o = p THEN [data[o] EXCEPT !.refs = @ + 1] ELSE data[o]]
  /\ weak' = [weak EXCEPT ![R(t)].lock = None]
  /\ thread' = [thread EXCEPT ![t].at = "first", ![t].old = p]
  /\ UNCHANGED <<object, holds>>

\* Mutant: the order is that of the roles, not that of the addresses.
OrderByRole(t) == <<thread[t].old, thread[t].new>>
\* The order in which the locks of the two WeakRefData are taken.
Order(t) ==
  LET old == thread[t].old
      new == thread[t].new
  IN  IF old # None /\ new # None /\ Address[old] < Address[new] THEN <<old, new>>
                                                                 ELSE <<new, old>>

\* weak_ref_data_lock, of no WeakRefData too.
LockData(t, o, place) ==
  /\ \/ o = None /\ UNCHANGED data
     \/ /\ o # None /\ data[o].lock = None
        /\ SetData(o, [data[o] EXCEPT !.lock = t])
  /\ Step(t, place)
  /\ UNCHANGED <<object, weak, holds>>

LockFirst(t) == At(t, "first") /\ LockData(t, Order(t)[1], "second")
LockSecond(t) == At(t, "second") /\ LockData(t, Order(t)[2], "lock")
LockThird(t) == At(t, "lock") /\ LockWeak(t, R(t), "commit") /\ UNCHANGED <<object, data, holds>>

\* Mutant: a GWeakRef that was set to another object meanwhile is set all the same.
LostNever(t) == FALSE
\* Another object was set since the pointer was read.
Lost(t) == thread[t].ptr # None /\ thread[t].ptr # thread[t].old

\* _weak_ref_set, with all locks.  (The old object's lock is given back a little before
\* the GWeakRef is set; as the GWeakRef is locked, who comes to the old list in between
\* finds it gone, and nobody sees where it still points.)
Commit(t) ==
  LET me == thread[t]
      Moved(o) == IF Lost(t) THEN data[o].list
                  ELSE IF o = me.new THEN data[o].list \cup {me.r} ELSE data[o].list \ {me.r}
  IN  /\ At(t, "commit")
      /\ data' = [o \in Object |->
           IF o \in {me.old, me.new} THEN [data[o] EXCEPT !.lock = None, !.list = Moved(o)]
                                     ELSE data[o]]
      /\ weak' = [weak EXCEPT ![me.r] = [ptr |-> IF Lost(t) THEN @.ptr ELSE me.new, lock |-> None]]
      /\ Step(t, "release")
      /\ UNCHANGED <<object, holds>>

\* weak_ref_data_unref, of no WeakRefData too.
Release(t) ==
  /\ At(t, "release")
  /\ data' = [o \in Object |-> IF o = thread[t].old THEN [data[o] EXCEPT !.refs = @ - 1] ELSE data[o]]
  /\ Return(t)
  /\ UNCHANGED <<object, weak, holds>>

\* g_weak_ref_get: the WeakRefData of the object that is set.
WeakRefGet(t, r) ==
  /\ At(t, "idle") /\ (weak[r].ptr # None => holds[t][weak[r].ptr] < MaxHolds)
  /\ \A o \in Object : holds[t][o] <= MaxHolds
  /\ LockWeak(t, r, "get reference")
  /\ UNCHANGED <<object, data, holds>>
GetReference(t) ==
  LET p == thread[t].ptr IN
  /\ At(t, "get reference")
  /\ data' = [o \in Object |-> IF o = p THEN [data[o] EXCEPT !.refs = @ + 1] ELSE data[o]]
  /\ weak' = [weak EXCEPT ![R(t)].lock = None]
  /\ IF p = None THEN thread' = [thread EXCEPT ![t] = Resting]
                 ELSE thread' = [thread EXCEPT ![t].at = "get data", ![t].old = p]
  /\ UNCHANGED <<object, holds>>

\* From retry on: the locks, in the order in which they are to be taken.
GetData(t) == At(t, "get data") /\ LockData(t, thread[t].old, "get lock")
GetLock(t) == At(t, "get lock") /\ LockWeak(t, R(t), "get object") /\ UNCHANGED <<object, data, holds>>

\* The reference is taken if the object is still the same; another one is tried anew.
GetObject(t) ==
  LET me == thread[t]
      Unlocked(o) == [data[o] EXCEPT !.lock = IF o = me.old THEN None ELSE @]
  IN  /\ At(t, "get object")
      /\ \/ /\ me.ptr = me.old
            /\ ObjectRef(me.old)
            /\ holds' = [holds EXCEPT ![t][me.old] = @ + 1]
            /\ Step(t, "release")
            /\ data' = [o \in Object |-> Unlocked(o)]
         \/ /\ me.ptr = None
            /\ Step(t, "release")
            /\ data' = [o \in Object |-> Unlocked(o)]
            /\ UNCHANGED <<object, holds>>
         \/ /\ me.ptr \notin {None, me.old}
            /\ data' = [o \in Object |-> CASE o = me.ptr -> [data[o] EXCEPT !.refs = @ + 1]
                                          [] o = me.old -> [Unlocked(o) EXCEPT !.refs = @ - 1]
                                          [] OTHER -> data[o]]
            /\ thread' = [thread EXCEPT ![t].at = "get data", ![t].old = me.ptr]
            /\ UNCHANGED <<object, holds>>
      /\ weak' = [weak EXCEPT ![me.r].lock = None]

--------------------------------------------------------------------------------
\* The steps of a call that is under way, and the calls a thread may start.
GoOn(t) ==
  \/ UnrefDrops(t) \/ Toggle(t) \/ ClearNothing(t) \/ ClearLocks(t) \/ ClearUnlocks(t)
  \/ \E r \in Weak : ClearNext(t, r)
  \/ Freeze(t) \/ Disposed(t) \/ Decrement(t) \/ Thaw(t) \/ Finalize(t) \/ RunDisposed(t)
  \/ Create(t) \/ Read(t) \/ Reference(t) \/ LockFirst(t) \/ LockSecond(t) \/ LockThird(t)
  \/ Commit(t) \/ Release(t) \/ GetReference(t) \/ GetData(t) \/ GetLock(t) \/ GetObject(t)

Call(t) ==
  \/ \E o \in Object : Unref(t, o) \/ RunDispose(t, o) \/ (\E u \in Thread : Ref(t, u, o))
  \/ Resurrect(t)
  \/ \E r \in Weak : WeakRefGet(t, r) \/ (\E n \in Object \cup {None} : WeakRefSet(t, r, n))

Next == \E t \in Thread : GoOn(t) \/ Call(t)

Spec == Init /\ [][Next]_vars

--------------------------------------------------------------------------------
\* Type invariant of the module.
TypeOK ==
  /\ object \in [Object -> ObjectRecord] /\ data \in [Object -> DataRecord]
  /\ weak \in [Weak -> WeakRecord] /\ thread \in [Thread -> ThreadRecord]
  /\ holds \in [Thread -> [Object -> 0 .. MaxHolds + 1]]

\* A reference that a call under way will drop, or has not yet dropped, is still counted.
InFlight(o) ==
  {t \in Thread : /\ D(t) = o /\ thread[t].at \notin {"toggle", "finalize"}
                  /\ ~(thread[t].at = "clearing" /\ thread[t].mode = "drop")}

\* The references that threads have, each with its number.
Held(o) == {x \in Thread \X (1 .. MaxHolds + 1) : x[2] <= holds[x[1]][o]}

\* The count is the number of references that threads have or are about to drop,
\* whatever retries the compare-and-exchange operations of ref, unref and weak get go
\* through: no reference is lost, none is dropped twice.
RefsExact == \A o \in Object : object[o].refs = Cardinality(InFlight(o)) + Cardinality(Held(o))

\* No freed memory is touched: not the object by a thread in g_object_unref, even one
\* that has dropped its reference and holds the data list's lock; not the object a locked
\* GWeakRef points to; not a WeakRefData that a thread has looked up.
NoUseAfterFree ==
  /\ \A t \in Thread : LET me == thread[t] IN
       /\ me.d # None => ~object[me.d].freed
       /\ me.at \in {"reference", "commit", "get reference", "get object"} /\ me.ptr # None
            => ~object[me.ptr].freed
       /\ me.old # None => data[me.old].refs > 0
  /\ \A o \in Object : data[o].list # {} => data[o].refs > 0 /\ ~object[o].freed

\* g_weak_ref_get never takes a reference to an object whose last one is gone, and the
\* last reference is dropped without the WeakRefData's lock only where nobody can take
\* another ("we are good to proceed").
NoneFromTheDead ==
  \A t \in Thread : LET me == thread[t] IN
    /\ me.at = "get object" /\ me.ptr = me.old => object[me.ptr].refs > 0
    /\ me.at = "clear" /\ me.mode = "drop" /\ ~object[me.d].ever => object[me.d].refs = 1

\* When nobody has locked a GWeakRef or the WeakRefData of an object, it points to the
\* object exactly if it is in the object's list, so that the object's end reaches it.
WeakListExact ==
  \A r \in Weak, o \in Object :
    weak[r].lock = None /\ data[o].lock = None => (weak[r].ptr = o) = (r \in data[o].list)

\* A GWeakRef and its object agree: it points to an object that has it in its list, and
\* never gives out one whose last reference is gone.
WeakRefsExact == NoneFromTheDead /\ WeakListExact

\* g_object_unref clears a weak pointer only while it has the one reference left: a
\* thread that got a reference from a GWeakRef in time never finds it cleared behind its
\* back ("the object becomes alive and well, but ... would proceed and clear").
ClearedOnlyLast ==
  [][\A t \in Thread, r \in Weak :
       ClearNext(t, r) /\ thread[t].mode # "run" => object[D(t)].refs <= 1]_vars

\* When every call has returned, an object without references is freed with its
\* WeakRefData, and one with references can emit notifications again.
NothingLeaks ==
  (\A t \in Thread : At(t, "idle")) =>
    \A o \in Object :
      IF \A t \in Thread : holds[t][o] = 0 THEN object[o].freed /\ data[o].refs = 0
      ELSE ~object[o].freed /\ object[o].frozen = 0 /\ (data[o].refs > 0) = object[o].ever

\* However ref, unref, run_dispose and the operations of GWeakRef race, the counts are
\* exact, no memory is touched after it is freed, and all of it is freed in the end.
RefCounting == TypeOK /\ RefsExact /\ NoUseAfterFree /\ NothingLeaks

\* Of the threads in a call some can go on: the locks of objects, WeakRefData and
\* GWeakRefs are taken in an order that admits no circle.
NoDeadlock == (\E t \in Thread : ~At(t, "idle")) => ENABLED (\E t \in Thread : GoOn(t))
================================================================================
