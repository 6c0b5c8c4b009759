--------------------------- MODULE GObjectRefsFacts ---------------------------
(*****************************************************************************)
(* Facts about GObjectRefs, for any number of threads, objects and           *)
(* GWeakRefs.  The invariant comes in layers, each inductive with the ones   *)
(* before it: what a thread works on, by its place (Base), who has a lock    *)
(* (Locks), that a GWeakRef and the lists agree (Lists), the counts of       *)
(* objects and their ends (Life), and the counts of the WeakRefData and of   *)
(* the notification queues (Rest).  A lemma for each action, named Did and   *)
(* the action, says what the step leaves in each field; it is all that the   *)
(* layers use of the action.  The other lemmas say what such a step keeps of *)
(* each layer; GObjectRefsProofs applies them to the actions one by one.     *)
(*****************************************************************************)
EXTENDS GObjectRefs, FiniteSetTheorems, TLAPS

Bit(b) == IF b THEN 1 ELSE 0

UnrefPlaces == {"unref", "clear", "clearing", "freeze", "dispose", "decrement", "thaw",
                "toggle", "finalize", "run"}
SetPlaces == {"create", "read", "reference", "first", "second", "lock", "commit"}
GetPlaces == {"get reference", "get data", "get lock", "get object"}
WeakLocked == {"reference", "commit", "get reference", "get object"}
DataLocked == {"clearing", "second", "lock", "commit", "get lock", "get object"}

--------------------------------------------------------------------------------
(* The invariant. *)

\* The types, but for the counts that a step lowers.
ObjectType == [refs : Nat, freed : BOOLEAN, ever : BOOLEAN, frozen : Int,
               lock : Thread \cup {None}]
DataType == [refs : Int, lock : Thread \cup {None}, list : SUBSET Weak]
Types ==
  /\ object \in [Object -> ObjectType] /\ data \in [Object -> DataType]
  /\ weak \in [Weak -> WeakRecord] /\ thread \in [Thread -> ThreadRecord]
  /\ holds \in [Thread -> [Object -> 0 .. MaxHolds + 1]]

\* What a thread works on, by its place a.
Placed(a, d, mode, frozen, r, new, old, ptr) ==
  /\ a = "idle" => d = None /\ frozen = FALSE
  /\ a \in UnrefPlaces \cup {"idle"} => r = None /\ new = None /\ old = None /\ ptr = None
  /\ a \in UnrefPlaces => d \in Object
  /\ a \in SetPlaces \cup GetPlaces \cup {"release"} => r \in Weak
  /\ a \in GetPlaces => d = None /\ new = None
  /\ a = "create" => new \in Object
  /\ a \in {"create", "read", "reference", "get reference"} => old = None
  /\ a = "reference" => ptr # new
  /\ a \in {"first", "second", "lock", "commit"} => old # new
  /\ a \in {"get data", "get lock", "get object"} => old \in Object
  /\ a \in {"unref", "run", "freeze", "toggle"} => frozen = FALSE
  /\ a \in {"clear", "clearing"} /\ mode # "drop" => frozen = FALSE
  /\ a = "thaw" => frozen = TRUE
ThreadInv(t) == Placed(thread[t].at, thread[t].d, thread[t].mode, thread[t].frozen, thread[t].r,
                       thread[t].new, thread[t].old, thread[t].ptr)

\* An object that a thread sets is its own; one that gets has room for another reference.
HoldsInv(t) ==
  /\ thread[t].new # None => holds[t][thread[t].new] # 0 \/ thread[t].new = thread[t].d
  /\ thread[t].at \in GetPlaces => \A o \in Object : holds[t][o] <= MaxHolds

Base == Types /\ \A t \in Thread : ThreadInv(t) /\ HoldsInv(t)

\* The order in which the locks of two WeakRefData are taken.
First(t) == Order(t)[1]
Second(t) == Order(t)[2]

\* Who has the lock of a WeakRefData.
HasData(t, o) ==
  \/ thread[t].at = "clearing" /\ thread[t].d = o
  \/ thread[t].at = "second" /\ First(t) = o
  \/ thread[t].at \in {"lock", "commit"} /\ (thread[t].old = o \/ thread[t].new = o)
  \/ thread[t].at \in {"get lock", "get object"} /\ thread[t].old = o
HasWeak(t, r) == thread[t].r = r /\ thread[t].at \in WeakLocked

ObjectLocks == \A t \in Thread, o \in Object :
  object[o].lock = t <=> thread[t].at = "toggle" /\ thread[t].d = o
DataLocks == \A t \in Thread, o \in Object : data[o].lock = t <=> HasData(t, o)
WeakLocks == \A t \in Thread, r \in Weak :
  /\ weak[r].lock = t <=> HasWeak(t, r)
  /\ HasWeak(t, r) => thread[t].ptr = weak[r].ptr
Locks == ObjectLocks /\ DataLocks /\ WeakLocks

\* A GWeakRef points to an object exactly if it is in its list, always; and an object that
\* is pointed to, or whose WeakRefData is in use, has one.
Lists ==
  /\ \A r \in Weak, o \in Object : weak[r].ptr = o <=> r \in data[o].list
  /\ \A r \in Weak, o \in Object : weak[r].ptr = o => object[o].ever
  /\ \A t \in Thread, o \in Object : thread[t].old = o => object[o].ever
  /\ \A t \in Thread, o \in Object :
       thread[t].new = o /\ thread[t].at # "create" => object[o].ever

\* The thread has dropped the last reference and will finalize.
Doomed(t, o) ==
  /\ thread[t].d = o
  /\ thread[t].at = "finalize" \/ (thread[t].at = "clearing" /\ thread[t].mode = "drop")
Flies(t, o) == thread[t].d = o /\ thread[t].at # "toggle" /\ ~Doomed(t, o)

\* The thread has found that the reference it is about to drop is the only one, in a way
\* that nobody can change.
Sole(t, o) ==
  /\ thread[t].d = o
  /\ \/ thread[t].at = "clear" /\ thread[t].mode = "drop" /\ ~object[o].ever
     \/ thread[t].at = "clearing" /\ thread[t].mode = "check"

\* The count of an object, and its end: the thread that drops the last reference finalizes
\* it, and what still points to it is being cleared by that thread.
CountInv(o) == object[o].refs = Cardinality(InFlight(o)) + Cardinality(Held(o))
EndInv(o) ==
  /\ object[o].freed => object[o].refs = 0 /\ \A t \in Thread : thread[t].d # o
  /\ object[o].refs = 0 /\ ~object[o].freed => \E t \in Thread : Doomed(t, o)
  /\ \A t \in Thread : Doomed(t, o) => object[o].refs = 0
  /\ \A t, u \in Thread : Doomed(t, o) /\ Doomed(u, o) => t = u
PointedInv(o) == \A r \in Weak : weak[r].ptr = o =>
  object[o].refs # 0 \/ \E t \in Thread : thread[t].at = "clearing" /\ Doomed(t, o)
SoleInv(o) == \A t \in Thread : Sole(t, o) => object[o].refs = 1
LifeInv(o) == CountInv(o) /\ EndInv(o) /\ PointedInv(o) /\ SoleInv(o)
Life == \A o \in Object : LifeInv(o)

\* The references to a WeakRefData are the object's and those of the threads that work on
\* it; a notification queue is frozen once by each thread that has frozen it.
Users(o) == {t \in Thread : thread[t].old = o}
Freezes(t, o) == thread[t].d = o /\ thread[t].frozen = TRUE
Freezers(o) == {t \in Thread : Freezes(t, o)}
UsersInv(o) == data[o].refs = Bit(object[o].ever /\ ~object[o].freed) + Cardinality(Users(o))
FrozenInv(o) ==
  object[o].frozen \in Nat /\ (~object[o].freed => object[o].frozen = Cardinality(Freezers(o)))
RestInv(o) == UsersInv(o) /\ FrozenInv(o)
Rest == \A o \in Object : RestInv(o)

IInv == Base /\ Locks /\ Lists /\ Life /\ Rest

--------------------------------------------------------------------------------
(* What each action does. *)

\* The thread t goes on at the place at, with these local variables, and no other does.
Goes(t, at, d, mode, frozen, r, new, old, ptr) ==
  /\ thread' \in [Thread -> ThreadRecord]
  /\ thread'[t].at = at /\ thread'[t].d = d /\ thread'[t].mode = mode
  /\ thread'[t].frozen = frozen /\ thread'[t].r = r /\ thread'[t].new = new
  /\ thread'[t].old = old /\ thread'[t].ptr = ptr
  /\ \A u \in Thread \ {t} : thread'[u] = thread[u]

\* The fields of one object, of one WeakRefData, of one GWeakRef, and one thread's
\* references to one object.
SetsObject(x, refs, freed, ever, frozen, lock) ==
  /\ object' \in [Object -> ObjectType]
  /\ object'[x].refs = refs /\ object'[x].freed = freed /\ object'[x].ever = ever
  /\ object'[x].frozen = frozen /\ object'[x].lock = lock
  /\ \A o \in Object \ {x} : object'[o] = object[o]
SetsData(x, refs, lock, list) ==
  /\ data' \in [Object -> DataType]
  /\ x \in Object => data'[x].refs = refs /\ data'[x].lock = lock /\ data'[x].list = list
  /\ \A o \in Object \ {x} : data'[o] = data[o]
SetsWeak(x, ptr, lock) ==
  /\ weak' \in [Weak -> WeakRecord]
  /\ weak'[x].ptr = ptr /\ weak'[x].lock = lock
  /\ \A k \in Weak \ {x} : weak'[k] = weak[k]
SetsHolds(u, x, n) ==
  /\ holds' \in [Thread -> [Object -> 0 .. MaxHolds + 1]]
  /\ holds'[u][x] = n
  /\ \A v \in Thread, k \in Object : v # u \/ k # x => holds'[v][k] = holds[v][k]

\* The shapes that the steps have.
LEMMA GoesAt ==
  ASSUME Types, NEW t \in Thread, NEW a \in Places,
         thread' = [thread EXCEPT ![t].at = a]
  PROVE  Goes(t, a, thread[t].d, thread[t].mode, thread[t].frozen, thread[t].r, thread[t].new, thread[t].old, thread[t].ptr)
  BY DEF Goes, Types, ThreadRecord
LEMMA GoesMode ==
  ASSUME Types, NEW t \in Thread, NEW a \in Places, NEW m \in {"check", "drop", "run"},
         thread' = [thread EXCEPT ![t].at = a, ![t].mode = m]
  PROVE  Goes(t, a, thread[t].d, m, thread[t].frozen, thread[t].r, thread[t].new, thread[t].old, thread[t].ptr)
  BY DEF Goes, Types, ThreadRecord
LEMMA GoesD ==
  ASSUME Types, NEW t \in Thread, NEW a \in Places, NEW d \in Object \cup {None},
         thread' = [thread EXCEPT ![t].at = a, ![t].d = d]
  PROVE  Goes(t, a, d, thread[t].mode, thread[t].frozen, thread[t].r, thread[t].new, thread[t].old, thread[t].ptr)
  BY DEF Goes, Types, ThreadRecord
LEMMA GoesFrozen ==
  ASSUME Types, NEW t \in Thread, NEW a \in Places, NEW f \in BOOLEAN,
         thread' = [thread EXCEPT ![t].at = a, ![t].frozen = f]
  PROVE  Goes(t, a, thread[t].d, thread[t].mode, f, thread[t].r, thread[t].new, thread[t].old, thread[t].ptr)
  BY DEF Goes, Types, ThreadRecord
LEMMA GoesPtr ==
  ASSUME Types, NEW t \in Thread, NEW a \in Places, NEW r \in Weak, NEW p \in Object \cup {None},
         thread' = [thread EXCEPT ![t].at = a, ![t].r = r, ![t].ptr = p]
  PROVE  Goes(t, a, thread[t].d, thread[t].mode, thread[t].frozen, r, thread[t].new, thread[t].old, p)
  BY DEF Goes, Types, ThreadRecord
LEMMA GoesNew ==
  ASSUME Types, NEW t \in Thread, NEW a \in Places, NEW r \in Weak, NEW n \in Object \cup {None},
         thread' = [thread EXCEPT ![t].at = a, ![t].r = r, ![t].new = n]
  PROVE  Goes(t, a, thread[t].d, thread[t].mode, thread[t].frozen, r, n, thread[t].old, thread[t].ptr)
  BY DEF Goes, Types, ThreadRecord
LEMMA GoesOld ==
  ASSUME Types, NEW t \in Thread, NEW a \in Places, NEW p \in Object \cup {None},
         thread' = [thread EXCEPT ![t].at = a, ![t].old = p]
  PROVE  Goes(t, a, thread[t].d, thread[t].mode, thread[t].frozen, thread[t].r, thread[t].new, p, thread[t].ptr)
  BY DEF Goes, Types, ThreadRecord
LEMMA GoesRest ==
  ASSUME Types, NEW t \in Thread,
         thread' = [thread EXCEPT ![t] = Resting]
  PROVE  Goes(t, "idle", None, "check", FALSE, None, None, None, None)
<1>1. Resting \in ThreadRecord
  BY DEF Resting, ThreadRecord, Places
<1> QED
  BY <1>1 DEF Goes, Types, Resting
LEMMA GoesDispose ==
  ASSUME Types, NEW t \in Thread,
         thread' = [thread EXCEPT ![t] = [thread[t] EXCEPT !.at = "dispose", !.r = None, !.new = None,
                                                 !.old = None, !.ptr = None]]
  PROVE  Goes(t, "dispose", thread[t].d, thread[t].mode, thread[t].frozen, None, None, None, None)
<1>1. thread[t] \in ThreadRecord /\ thread \in [Thread -> ThreadRecord]
  BY DEF Types
<1> DEFINE new == [thread[t] EXCEPT !.at = "dispose", !.r = None, !.new = None, !.old = None,
                                  !.ptr = None]
<1>2. /\ new.at = "dispose" /\ new.d = thread[t].d /\ new.mode = thread[t].mode
      /\ new.frozen = thread[t].frozen /\ new.r = None /\ new.new = None
      /\ new.old = None /\ new.ptr = None
  BY <1>1 DEF ThreadRecord
<1> DEFINE some == [thread[t] EXCEPT !.at = "dispose", !.r = None, !.new = None]
<1>3. "dispose" \in Places
  BY DEF Places
<1>4. some \in ThreadRecord
  BY <1>1, <1>3 DEF ThreadRecord
<1>5. new = [some EXCEPT !.old = None, !.ptr = None]
  BY <1>1 DEF ThreadRecord
<1> HIDE DEF some
<1>6. new \in ThreadRecord
  BY <1>4, <1>5 DEF ThreadRecord
<1>7. thread' = [thread EXCEPT ![t] = new]
  OBVIOUS
<1> HIDE DEF new
<1> QED
  BY <1>1, <1>2, <1>6, <1>7 DEF Goes
LEMMA GoesNot ==
  ASSUME Types, NEW t \in Thread,
         thread' = thread
  PROVE  Goes(t, thread[t].at, thread[t].d, thread[t].mode, thread[t].frozen, thread[t].r, thread[t].new, thread[t].old, thread[t].ptr)
  BY DEF Goes, Types
LEMMA SetsRefs ==
  ASSUME Types, NEW x \in Object, NEW e \in Nat,
         object' = [object EXCEPT ![x] = [object[x] EXCEPT !.refs = e]]
  PROVE  SetsObject(x, e, object[x].freed, object[x].ever, object[x].frozen, object[x].lock)
  BY DEF SetsObject, Types, ObjectType
LEMMA SetsRefsLock ==
  ASSUME Types, NEW x \in Object, NEW e \in Nat, NEW l \in Thread \cup {None},
         object' = [object EXCEPT ![x] = [object[x] EXCEPT !.refs = e, !.lock = l]]
  PROVE  SetsObject(x, e, object[x].freed, object[x].ever, object[x].frozen, l)
  BY DEF SetsObject, Types, ObjectType
LEMMA SetsLock ==
  ASSUME Types, NEW x \in Object, NEW l \in Thread \cup {None},
         object' = [object EXCEPT ![x] = [object[x] EXCEPT !.lock = l]]
  PROVE  SetsObject(x, object[x].refs, object[x].freed, object[x].ever, object[x].frozen, l)
  BY DEF SetsObject, Types, ObjectType
LEMMA SetsFrozen ==
  ASSUME Types, NEW x \in Object, NEW e \in Int,
         object' = [object EXCEPT ![x] = [object[x] EXCEPT !.frozen = e]]
  PROVE  SetsObject(x, object[x].refs, object[x].freed, object[x].ever, e, object[x].lock)
  BY DEF SetsObject, Types, ObjectType
LEMMA SetsFreed ==
  ASSUME Types, NEW x \in Object, NEW e \in BOOLEAN,
         object' = [object EXCEPT ![x] = [object[x] EXCEPT !.freed = e]]
  PROVE  SetsObject(x, object[x].refs, e, object[x].ever, object[x].frozen, object[x].lock)
  BY DEF SetsObject, Types, ObjectType
LEMMA SetsEver ==
  ASSUME Types, NEW x \in Object, NEW e \in BOOLEAN,
         object' = [object EXCEPT ![x] = [object[x] EXCEPT !.ever = e]]
  PROVE  SetsObject(x, object[x].refs, object[x].freed, e, object[x].frozen, object[x].lock)
  BY DEF SetsObject, Types, ObjectType
LEMMA LocksData ==
  ASSUME Types, NEW x \in Object, NEW l \in Thread \cup {None},
         data' = [data EXCEPT ![x] = [data[x] EXCEPT !.lock = l]]
  PROVE  SetsData(x, data[x].refs, l, data[x].list)
  BY DEF SetsData, Types, DataType
LEMMA CountsData ==
  ASSUME Types, NEW x \in Object, NEW e \in Int,
         data' = [data EXCEPT ![x] = [data[x] EXCEPT !.refs = e]]
  PROVE  SetsData(x, e, data[x].lock, data[x].list)
  BY DEF SetsData, Types, DataType
LEMMA SetsList ==
  ASSUME Types, NEW x \in Object, NEW l \in SUBSET Weak,
         data' = [data EXCEPT ![x] = [data[x] EXCEPT !.list = l]]
  PROVE  SetsData(x, data[x].refs, data[x].lock, l)
  BY DEF SetsData, Types, DataType
LEMMA SetsPtr ==
  ASSUME Types, NEW x \in Weak, NEW p \in Object \cup {None}, weak' = [weak EXCEPT ![x].ptr = p]
  PROVE  SetsWeak(x, p, weak[x].lock)
  BY DEF SetsWeak, Types, WeakRecord
LEMMA LocksWeak ==
  ASSUME Types, NEW x \in Weak, NEW l \in Thread \cup {None}, weak' = [weak EXCEPT ![x].lock = l]
  PROVE  SetsWeak(x, weak[x].ptr, l)
  BY DEF SetsWeak, Types, WeakRecord
LEMMA SetsBoth ==
  ASSUME Types, NEW x \in Weak, NEW p \in Object \cup {None}, weak' = [weak EXCEPT ![x] = [ptr |-> p, lock |-> None]]
  PROVE  SetsWeak(x, p, None)
  BY DEF SetsWeak, Types, WeakRecord
LEMMA HoldsOneMore ==
  ASSUME Types, NEW u \in Thread, NEW x \in Object, holds[u][x] <= MaxHolds,
         holds' = [holds EXCEPT ![u][x] = @ + 1]
  PROVE  SetsHolds(u, x, holds[u][x] + 1)
  BY RefsAssumption DEF SetsHolds, Types
LEMMA HoldsOneLess ==
  ASSUME Types, NEW u \in Thread, NEW x \in Object, holds[u][x] # 0,
         holds' = [holds EXCEPT ![u][x] = @ - 1]
  PROVE  SetsHolds(u, x, holds[u][x] - 1)
<1>1. /\ holds \in [Thread -> [Object -> 0 .. MaxHolds + 1]] /\ MaxHolds \in Nat
      /\ holds[u] \in [Object -> 0 .. MaxHolds + 1] /\ holds[u][x] \in 0 .. MaxHolds + 1
  BY RefsAssumption DEF Types
<1>2. holds[u][x] - 1 \in 0 .. MaxHolds + 1
  BY <1>1
<1> DEFINE n == holds[u][x] - 1
<1>3. holds' = [holds EXCEPT ![u] = [holds[u] EXCEPT ![x] = n]]
  BY <1>1
<1> HIDE DEF n
<1>4. n \in 0 .. MaxHolds + 1
  BY <1>2 DEF n
<1>5. SetsHolds(u, x, n)
  BY <1>1, <1>3, <1>4 DEF SetsHolds
<1> QED
  BY <1>5 DEF n

LEMMA CountsMore ==
  ASSUME Types, NEW x,
         data' = [o \in Object |-> IF o = x THEN [data[o] EXCEPT !.refs = @ + 1] ELSE data[o]]
  PROVE  SetsData(x, data[x].refs + 1, data[x].lock, data[x].list)
<1>1. ASSUME NEW o \in Object
      PROVE  /\ data'[o] \in DataType
             /\ o # x => data'[o] = data[o]
             /\ o = x => /\ data'[o].refs = data[o].refs + 1 /\ data'[o].lock = data[o].lock
                         /\ data'[o].list = data[o].list
  <2>1. data[o] \in DataType
    BY DEF Types
  <2>2. CASE o = x
    <3>1. data'[o] = [data[o] EXCEPT !.refs = @ + 1]
      BY <2>2
    <3>2. data[o].refs + 1 \in Int
      BY <2>1 DEF DataType
    <3> QED
      BY <2>1, <2>2, <3>1, <3>2 DEF DataType
  <2>3. CASE o # x
    BY <2>1, <2>3
  <2> QED
    BY <2>2, <2>3
<1>2. data' \in [Object -> DataType]
  BY <1>1
<1> QED
  BY <1>1, <1>2 DEF SetsData

LEMMA CountsLess ==
  ASSUME Types, NEW x,
         data' = [o \in Object |-> IF o = x THEN [data[o] EXCEPT !.refs = @ - 1] ELSE data[o]]
  PROVE  SetsData(x, data[x].refs - 1, data[x].lock, data[x].list)
<1>1. ASSUME NEW o \in Object
      PROVE  /\ data'[o] \in DataType
             /\ o # x => data'[o] = data[o]
             /\ o = x => /\ data'[o].refs = data[o].refs - 1 /\ data'[o].lock = data[o].lock
                         /\ data'[o].list = data[o].list
  <2>1. data[o] \in DataType
    BY DEF Types
  <2>2. CASE o = x
    <3>1. data'[o] = [data[o] EXCEPT !.refs = @ - 1]
      BY <2>2
    <3>2. data[o].refs - 1 \in Int
      BY <2>1 DEF DataType
    <3> QED
      BY <2>1, <2>2, <3>1, <3>2 DEF DataType
  <2>3. CASE o # x
    BY <2>1, <2>3
  <2> QED
    BY <2>2, <2>3
<1>2. data' \in [Object -> DataType]
  BY <1>1
<1> QED
  BY <1>1, <1>2 DEF SetsData

LEMMA DidRef ==
  ASSUME Base, NEW t \in Thread, NEW u \in Thread, NEW o \in Object, Ref(t, u, o)
  PROVE  /\ thread[t].at = "idle"
         /\ holds[t][o] # 0 /\ holds[u][o] < MaxHolds
         /\ Goes(t, thread[t].at, thread[t].d, thread[t].mode, thread[t].frozen, thread[t].r,
             thread[t].new, thread[t].old, thread[t].ptr)
         /\ SetsObject(o, object[o].refs + 1, object[o].freed, object[o].ever, object[o].frozen,
             object[o].lock)
         /\ data' = data
         /\ weak' = weak
         /\ SetsHolds(u, o, holds[u][o] + 1)
<1>1. Types /\ ThreadInv(t) /\ HoldsInv(t) /\ thread[t] \in ThreadRecord
  BY DEF Base, Types
<1>a. thread[t].at = "idle"
  BY DEF Ref, At, ObjectRef, Set
<1>2. /\ thread[t].at = "idle"
      /\ holds[t][o] # 0 /\ holds[u][o] < MaxHolds
  BY <1>1, <1>a DEF Ref, At, ObjectRef, Set, Types, DataType, ObjectType
<1>t. thread' = thread
  BY <1>2 DEF Ref, At, ObjectRef, Set
<1>3. Goes(t, thread[t].at, thread[t].d, thread[t].mode, thread[t].frozen, thread[t].r,
          thread[t].new, thread[t].old, thread[t].ptr)
  BY <1>1, <1>t, GoesNot
<1>o. object' = [object EXCEPT ![o] = [object[o] EXCEPT !.refs = object[o].refs + 1]]
  BY <1>2 DEF Ref, At, ObjectRef, Set
<1>e. object[o].refs + 1 \in Nat
  BY <1>1 DEF Types, ObjectType
<1>4. SetsObject(o, object[o].refs + 1, object[o].freed, object[o].ever, object[o].frozen,
          object[o].lock)
  BY <1>1, <1>e, <1>o, SetsRefs
<1>5. data' = data
  BY <1>2 DEF Ref, At, ObjectRef, Set
<1>6. weak' = weak
  BY <1>2 DEF Ref, At, ObjectRef, Set
<1>h. holds' = [holds EXCEPT ![u][o] = @ + 1]
  BY <1>2 DEF Ref, At, ObjectRef, Set
<1>m. holds[u][o] <= MaxHolds
  BY <1>1, <1>2, RefsAssumption DEF Types, HoldsInv, GetPlaces
<1>7. SetsHolds(u, o, holds[u][o] + 1)
  BY <1>1, <1>h, <1>m, HoldsOneMore
<1> QED
  BY <1>2, <1>3, <1>4, <1>5, <1>6, <1>7

LEMMA DidUnref ==
  ASSUME Base, NEW t \in Thread, NEW o \in Object, Unref(t, o)
  PROVE  /\ thread[t].at = "idle"
         /\ holds[t][o] # 0
         /\ Goes(t, "unref", o, thread[t].mode, thread[t].frozen, thread[t].r, thread[t].new,
             thread[t].old, thread[t].ptr)
         /\ object' = object
         /\ data' = data
         /\ weak' = weak
         /\ SetsHolds(t, o, holds[t][o] - 1)
<1>1. Types /\ ThreadInv(t) /\ HoldsInv(t) /\ thread[t] \in ThreadRecord
  BY DEF Base, Types
<1>a. thread[t].at = "idle"
  BY DEF Unref, At
<1>2. /\ thread[t].at = "idle"
      /\ holds[t][o] # 0
  BY <1>1, <1>a DEF Unref, At, Types, DataType, ObjectType
<1>t. thread' = [thread EXCEPT ![t].at = "unref", ![t].d = o]
  BY <1>2 DEF Unref, At
<1>3. Goes(t, "unref", o, thread[t].mode, thread[t].frozen, thread[t].r, thread[t].new,
          thread[t].old, thread[t].ptr)
  BY <1>1, <1>t, GoesD DEF Places
<1>4. object' = object
  BY <1>1, <1>2 DEF Unref, At, Types
<1>5. data' = data
  BY <1>2 DEF Unref, At
<1>6. weak' = weak
  BY <1>2 DEF Unref, At
<1>h. holds' = [holds EXCEPT ![t][o] = @ - 1]
  BY <1>2 DEF Unref, At
<1>7. SetsHolds(t, o, holds[t][o] - 1)
  BY <1>1, <1>2, <1>h, HoldsOneLess
<1> QED
  BY <1>2, <1>3, <1>4, <1>5, <1>6, <1>7

LEMMA DidUnrefMany ==
  ASSUME Base, NEW t \in Thread, UnrefDrops(t), object[thread[t].d].refs > 2
  PROVE  /\ thread[t].at = "unref"
         /\ object[thread[t].d].refs > 2
         /\ Goes(t, "idle", None, "check", FALSE, None, None, None, None)
         /\ SetsObject(thread[t].d, object[thread[t].d].refs - 1, object[thread[t].d].freed,
             object[thread[t].d].ever, object[thread[t].d].frozen, object[thread[t].d].lock)
         /\ data' = data
         /\ weak' = weak
         /\ holds' = holds
<1>1. Types /\ ThreadInv(t) /\ HoldsInv(t) /\ thread[t] \in ThreadRecord
  BY DEF Base, Types
<1>a. thread[t].at = "unref"
  BY DEF UnrefDrops, At, Set, D, DropOne
<1>y. thread[t].d \in Object
  BY <1>1, <1>a DEF ThreadInv, Placed, UnrefPlaces, SetPlaces, GetPlaces
<1>2. /\ thread[t].at = "unref"
      /\ object[thread[t].d].refs > 2
  BY <1>1, <1>a, <1>y DEF UnrefDrops, At, Set, D, DropOne, Types, DataType, ObjectType
<1>t. thread' = [thread EXCEPT ![t] = Resting]
  BY <1>2, <1>y DEF UnrefDrops, At, Set, D, DropOne
<1>3. Goes(t, "idle", None, "check", FALSE, None, None, None, None)
  BY <1>1, <1>y, <1>t, GoesRest
<1>o. object' = [object EXCEPT ![thread[t].d] = [object[thread[t].d] EXCEPT !.refs =
                    object[thread[t].d].refs - 1]]
  BY <1>2, <1>y DEF UnrefDrops, At, Set, D, DropOne
<1>e. object[thread[t].d].refs - 1 \in Nat
  BY <1>1, <1>2, <1>y DEF Types, ObjectType
<1>4. SetsObject(thread[t].d, object[thread[t].d].refs - 1, object[thread[t].d].freed,
          object[thread[t].d].ever, object[thread[t].d].frozen, object[thread[t].d].lock)
  BY <1>1, <1>y, <1>e, <1>o, SetsRefs
<1>5. data' = data
  BY <1>2, <1>y DEF UnrefDrops, At, Set, D, DropOne
<1>6. weak' = weak
  BY <1>2, <1>y DEF UnrefDrops, At, Set, D, DropOne
<1>7. holds' = holds
  BY <1>2, <1>y DEF UnrefDrops, At, Set, D, DropOne
<1> QED
  BY <1>2, <1>3, <1>4, <1>5, <1>6, <1>7

LEMMA DidUnrefTwo ==
  ASSUME Base, NEW t \in Thread, UnrefDrops(t), object[thread[t].d].refs = 2
  PROVE  /\ thread[t].at = "unref"
         /\ object[thread[t].d].refs = 2 /\ object[thread[t].d].lock = None
         /\ Goes(t, "toggle", thread[t].d, thread[t].mode, thread[t].frozen, thread[t].r,
             thread[t].new, thread[t].old, thread[t].ptr)
         /\ SetsObject(thread[t].d, 1, object[thread[t].d].freed, object[thread[t].d].ever,
             object[thread[t].d].frozen, t)
         /\ data' = data
         /\ weak' = weak
         /\ holds' = holds
<1>1. Types /\ ThreadInv(t) /\ HoldsInv(t) /\ thread[t] \in ThreadRecord
  BY DEF Base, Types
<1>a. thread[t].at = "unref"
  BY DEF UnrefDrops, At, Set, D, DropOne, Step
<1>y. thread[t].d \in Object
  BY <1>1, <1>a DEF ThreadInv, Placed, UnrefPlaces, SetPlaces, GetPlaces
<1>2. /\ thread[t].at = "unref"
      /\ object[thread[t].d].refs = 2 /\ object[thread[t].d].lock = None
  BY <1>1, <1>a, <1>y DEF UnrefDrops, At, Set, D, DropOne, Step, Types, DataType, ObjectType
<1>t. thread' = [thread EXCEPT ![t].at = "toggle"]
  BY <1>2, <1>y DEF UnrefDrops, At, Set, D, DropOne, Step
<1>3. Goes(t, "toggle", thread[t].d, thread[t].mode, thread[t].frozen, thread[t].r,
          thread[t].new, thread[t].old, thread[t].ptr)
  BY <1>1, <1>y, <1>t, GoesAt DEF Places
<1>o. object' = [object EXCEPT ![thread[t].d] = [object[thread[t].d] EXCEPT !.refs = 1, !.lock
                    = t]]
  BY <1>2, <1>y DEF UnrefDrops, At, Set, D, DropOne, Step
<1>4. SetsObject(thread[t].d, 1, object[thread[t].d].freed, object[thread[t].d].ever,
          object[thread[t].d].frozen, t)
  BY <1>1, <1>y, <1>o, SetsRefsLock
<1>5. data' = data
  BY <1>2, <1>y DEF UnrefDrops, At, Set, D, DropOne, Step
<1>6. weak' = weak
  BY <1>2, <1>y DEF UnrefDrops, At, Set, D, DropOne, Step
<1>7. holds' = holds
  BY <1>2, <1>y DEF UnrefDrops, At, Set, D, DropOne, Step
<1> QED
  BY <1>2, <1>3, <1>4, <1>5, <1>6, <1>7

LEMMA DidDecrementMany ==
  ASSUME Base, NEW t \in Thread, Decrement(t), thread[t].frozen = FALSE,
         object[thread[t].d].refs > 2
  PROVE  /\ thread[t].at = "decrement"
         /\ object[thread[t].d].refs > 2
         /\ thread[t].frozen = FALSE
         /\ Goes(t, "idle", None, "check", FALSE, None, None, None, None)
         /\ SetsObject(thread[t].d, object[thread[t].d].refs - 1, object[thread[t].d].freed,
             object[thread[t].d].ever, object[thread[t].d].frozen, object[thread[t].d].lock)
         /\ data' = data
         /\ weak' = weak
         /\ holds' = holds
<1>1. Types /\ ThreadInv(t) /\ HoldsInv(t) /\ thread[t] \in ThreadRecord
  BY DEF Base, Types
<1>a. thread[t].at = "decrement"
  BY DEF Decrement, At, Set, D, DropOne
<1>y. thread[t].d \in Object
  BY <1>1, <1>a DEF ThreadInv, Placed, UnrefPlaces, SetPlaces, GetPlaces
<1>2. /\ thread[t].at = "decrement"
      /\ object[thread[t].d].refs > 2
      /\ thread[t].frozen = FALSE
  BY <1>1, <1>a, <1>y DEF Decrement, At, Set, D, DropOne, Types, DataType, ObjectType
<1>t. thread' = [thread EXCEPT ![t] = Resting]
  BY <1>2, <1>y DEF Decrement, At, Set, D, DropOne
<1>3. Goes(t, "idle", None, "check", FALSE, None, None, None, None)
  BY <1>1, <1>y, <1>t, GoesRest
<1>o. object' = [object EXCEPT ![thread[t].d] = [object[thread[t].d] EXCEPT !.refs =
                    object[thread[t].d].refs - 1]]
  BY <1>2, <1>y DEF Decrement, At, Set, D, DropOne
<1>e. object[thread[t].d].refs - 1 \in Nat
  BY <1>1, <1>2, <1>y DEF Types, ObjectType
<1>4. SetsObject(thread[t].d, object[thread[t].d].refs - 1, object[thread[t].d].freed,
          object[thread[t].d].ever, object[thread[t].d].frozen, object[thread[t].d].lock)
  BY <1>1, <1>y, <1>e, <1>o, SetsRefs
<1>5. data' = data
  BY <1>2, <1>y DEF Decrement, At, Set, D, DropOne
<1>6. weak' = weak
  BY <1>2, <1>y DEF Decrement, At, Set, D, DropOne
<1>7. holds' = holds
  BY <1>2, <1>y DEF Decrement, At, Set, D, DropOne
<1> QED
  BY <1>2, <1>3, <1>4, <1>5, <1>6, <1>7

LEMMA DidDecrementTwo ==
  ASSUME Base, NEW t \in Thread, Decrement(t), thread[t].frozen = FALSE,
         object[thread[t].d].refs = 2
  PROVE  /\ thread[t].at = "decrement"
         /\ object[thread[t].d].refs = 2 /\ object[thread[t].d].lock = None
         /\ thread[t].frozen = FALSE
         /\ Goes(t, "toggle", thread[t].d, thread[t].mode, thread[t].frozen, thread[t].r,
             thread[t].new, thread[t].old, thread[t].ptr)
         /\ SetsObject(thread[t].d, 1, object[thread[t].d].freed, object[thread[t].d].ever,
             object[thread[t].d].frozen, t)
         /\ data' = data
         /\ weak' = weak
         /\ holds' = holds
<1>1. Types /\ ThreadInv(t) /\ HoldsInv(t) /\ thread[t] \in ThreadRecord
  BY DEF Base, Types
<1>a. thread[t].at = "decrement"
  BY DEF Decrement, At, Set, D, DropOne, Step
<1>y. thread[t].d \in Object
  BY <1>1, <1>a DEF ThreadInv, Placed, UnrefPlaces, SetPlaces, GetPlaces
<1>2. /\ thread[t].at = "decrement"
      /\ object[thread[t].d].refs = 2 /\ object[thread[t].d].lock = None
      /\ thread[t].frozen = FALSE
  BY <1>1, <1>a, <1>y DEF Decrement, At, Set, D, DropOne, Step, Types, DataType, ObjectType
<1>t. thread' = [thread EXCEPT ![t].at = "toggle"]
  BY <1>2, <1>y DEF Decrement, At, Set, D, DropOne, Step
<1>3. Goes(t, "toggle", thread[t].d, thread[t].mode, thread[t].frozen, thread[t].r,
          thread[t].new, thread[t].old, thread[t].ptr)
  BY <1>1, <1>y, <1>t, GoesAt DEF Places
<1>o. object' = [object EXCEPT ![thread[t].d] = [object[thread[t].d] EXCEPT !.refs = 1, !.lock
                    = t]]
  BY <1>2, <1>y DEF Decrement, At, Set, D, DropOne, Step
<1>4. SetsObject(thread[t].d, 1, object[thread[t].d].freed, object[thread[t].d].ever,
          object[thread[t].d].frozen, t)
  BY <1>1, <1>y, <1>o, SetsRefsLock
<1>5. data' = data
  BY <1>2, <1>y DEF Decrement, At, Set, D, DropOne, Step
<1>6. weak' = weak
  BY <1>2, <1>y DEF Decrement, At, Set, D, DropOne, Step
<1>7. holds' = holds
  BY <1>2, <1>y DEF Decrement, At, Set, D, DropOne, Step
<1> QED
  BY <1>2, <1>3, <1>4, <1>5, <1>6, <1>7

LEMMA DidUnrefLast ==
  ASSUME Base, NEW t \in Thread, UnrefDrops(t), object[thread[t].d].refs = 1
  PROVE  /\ thread[t].at = "unref"
         /\ object[thread[t].d].refs = 1
         /\ Goes(t, "clear", thread[t].d, "check", thread[t].frozen, thread[t].r, thread[t].new,
             thread[t].old, thread[t].ptr)
         /\ object' = object
         /\ data' = data
         /\ weak' = weak
         /\ holds' = holds
<1>1. Types /\ ThreadInv(t) /\ HoldsInv(t) /\ thread[t] \in ThreadRecord
  BY DEF Base, Types
<1>a. thread[t].at = "unref"
  BY DEF UnrefDrops, At, Set, D, DropOne
<1>y. thread[t].d \in Object
  BY <1>1, <1>a DEF ThreadInv, Placed, UnrefPlaces, SetPlaces, GetPlaces
<1>2. /\ thread[t].at = "unref"
      /\ object[thread[t].d].refs = 1
  BY <1>1, <1>a, <1>y DEF UnrefDrops, At, Set, D, DropOne, Types, DataType, ObjectType
<1>t. thread' = [thread EXCEPT ![t].at = "clear", ![t].mode = "check"]
  BY <1>2, <1>y DEF UnrefDrops, At, Set, D, DropOne
<1>3. Goes(t, "clear", thread[t].d, "check", thread[t].frozen, thread[t].r, thread[t].new,
          thread[t].old, thread[t].ptr)
  BY <1>1, <1>y, <1>t, GoesMode DEF Places
<1>4. object' = object
  BY <1>1, <1>2, <1>y DEF UnrefDrops, At, Set, D, DropOne, Types
<1>5. data' = data
  BY <1>2, <1>y DEF UnrefDrops, At, Set, D, DropOne
<1>6. weak' = weak
  BY <1>2, <1>y DEF UnrefDrops, At, Set, D, DropOne
<1>7. holds' = holds
  BY <1>2, <1>y DEF UnrefDrops, At, Set, D, DropOne
<1> QED
  BY <1>2, <1>3, <1>4, <1>5, <1>6, <1>7

LEMMA DidToggle ==
  ASSUME Base, NEW t \in Thread, Toggle(t)
  PROVE  /\ thread[t].at = "toggle"
         /\ Goes(t, "idle", None, "check", FALSE, None, None, None, None)
         /\ SetsObject(thread[t].d, object[thread[t].d].refs, object[thread[t].d].freed,
             object[thread[t].d].ever, object[thread[t].d].frozen, None)
         /\ data' = data
         /\ weak' = weak
         /\ holds' = holds
<1>1. Types /\ ThreadInv(t) /\ HoldsInv(t) /\ thread[t] \in ThreadRecord
  BY DEF Base, Types
<1>a. thread[t].at = "toggle"
  BY DEF Toggle, At, Set, D
<1>y. thread[t].d \in Object
  BY <1>1, <1>a DEF ThreadInv, Placed, UnrefPlaces, SetPlaces, GetPlaces
<1>2. thread[t].at = "toggle"
  BY <1>a
<1>t. thread' = [thread EXCEPT ![t] = Resting]
  BY <1>2, <1>y DEF Toggle, At, Set, D
<1>3. Goes(t, "idle", None, "check", FALSE, None, None, None, None)
  BY <1>1, <1>y, <1>t, GoesRest
<1>o. object' = [object EXCEPT ![thread[t].d] = [object[thread[t].d] EXCEPT !.lock = None]]
  BY <1>2, <1>y DEF Toggle, At, Set, D
<1>4. SetsObject(thread[t].d, object[thread[t].d].refs, object[thread[t].d].freed,
          object[thread[t].d].ever, object[thread[t].d].frozen, None)
  BY <1>1, <1>y, <1>o, SetsLock
<1>5. data' = data
  BY <1>2, <1>y DEF Toggle, At, Set, D
<1>6. weak' = weak
  BY <1>2, <1>y DEF Toggle, At, Set, D
<1>7. holds' = holds
  BY <1>2, <1>y DEF Toggle, At, Set, D
<1> QED
  BY <1>2, <1>3, <1>4, <1>5, <1>6, <1>7

LEMMA DidClearNothingCheck ==
  ASSUME Base, NEW t \in Thread, ClearNothing(t), thread[t].mode = "check"
  PROVE  /\ thread[t].at = "clear"
         /\ thread[t].mode = "check"
         /\ Goes(t, "freeze", thread[t].d, thread[t].mode, thread[t].frozen, thread[t].r,
             thread[t].new, thread[t].old, thread[t].ptr)
         /\ object' = object
         /\ data' = data
         /\ weak' = weak
         /\ holds' = holds
<1>1. Types /\ ThreadInv(t) /\ HoldsInv(t) /\ thread[t] \in ThreadRecord
  BY DEF Base, Types
<1>a. thread[t].at = "clear"
  BY DEF ClearNothing, At, Set, D, Dropped, Cleared, Step
<1>y. thread[t].d \in Object
  BY <1>1, <1>a DEF ThreadInv, Placed, UnrefPlaces, SetPlaces, GetPlaces
<1>2. /\ thread[t].at = "clear"
      /\ thread[t].mode = "check"
  BY <1>a, <1>y DEF ClearNothing, At, Set, D, Dropped, Cleared, Step
<1>t. thread' = [thread EXCEPT ![t].at = "freeze"]
  BY <1>2, <1>y DEF ClearNothing, At, Set, D, Dropped, Cleared, Step, Cleared
<1>3. Goes(t, "freeze", thread[t].d, thread[t].mode, thread[t].frozen, thread[t].r,
          thread[t].new, thread[t].old, thread[t].ptr)
  BY <1>1, <1>y, <1>t, GoesAt DEF Places
<1>4. object' = object
  BY <1>1, <1>2, <1>y DEF ClearNothing, At, Set, D, Dropped, Cleared, Step, Types
<1>5. data' = data
  BY <1>2, <1>y DEF ClearNothing, At, Set, D, Dropped, Cleared, Step
<1>6. weak' = weak
  BY <1>2, <1>y DEF ClearNothing, At, Set, D, Dropped, Cleared, Step
<1>7. holds' = holds
  BY <1>2, <1>y DEF ClearNothing, At, Set, D, Dropped, Cleared, Step
<1> QED
  BY <1>2, <1>3, <1>4, <1>5, <1>6, <1>7

LEMMA DidClearNothingDrop ==
  ASSUME Base, NEW t \in Thread, ClearNothing(t), thread[t].mode = "drop"
  PROVE  /\ thread[t].at = "clear"
         /\ thread[t].mode = "drop" /\ ~object[thread[t].d].ever
         /\ Goes(t, "finalize", thread[t].d, thread[t].mode, thread[t].frozen, thread[t].r,
             thread[t].new, thread[t].old, thread[t].ptr)
         /\ SetsObject(thread[t].d, 0, object[thread[t].d].freed, object[thread[t].d].ever,
             object[thread[t].d].frozen, object[thread[t].d].lock)
         /\ data' = data
         /\ weak' = weak
         /\ holds' = holds
<1>1. Types /\ ThreadInv(t) /\ HoldsInv(t) /\ thread[t] \in ThreadRecord
  BY DEF Base, Types
<1>a. thread[t].at = "clear"
  BY DEF ClearNothing, At, Set, D, Dropped, Cleared, Step
<1>y. thread[t].d \in Object
  BY <1>1, <1>a DEF ThreadInv, Placed, UnrefPlaces, SetPlaces, GetPlaces
<1>2. /\ thread[t].at = "clear"
      /\ thread[t].mode = "drop" /\ ~object[thread[t].d].ever
  BY <1>a, <1>y DEF ClearNothing, At, Set, D, Dropped, Cleared, Step
<1>t. thread' = [thread EXCEPT ![t].at = "finalize"]
  BY <1>2, <1>y DEF ClearNothing, At, Set, D, Dropped, Cleared, Step, Cleared
<1>3. Goes(t, "finalize", thread[t].d, thread[t].mode, thread[t].frozen, thread[t].r,
          thread[t].new, thread[t].old, thread[t].ptr)
  BY <1>1, <1>y, <1>t, GoesAt DEF Places
<1>o. object' = [object EXCEPT ![thread[t].d] = [object[thread[t].d] EXCEPT !.refs = 0]]
  BY <1>2, <1>y DEF ClearNothing, At, Set, D, Dropped, Cleared, Step
<1>4. SetsObject(thread[t].d, 0, object[thread[t].d].freed, object[thread[t].d].ever,
          object[thread[t].d].frozen, object[thread[t].d].lock)
  BY <1>1, <1>y, <1>o, SetsRefs
<1>5. data' = data
  BY <1>2, <1>y DEF ClearNothing, At, Set, D, Dropped, Cleared, Step
<1>6. weak' = weak
  BY <1>2, <1>y DEF ClearNothing, At, Set, D, Dropped, Cleared, Step
<1>7. holds' = holds
  BY <1>2, <1>y DEF ClearNothing, At, Set, D, Dropped, Cleared, Step
<1> QED
  BY <1>2, <1>3, <1>4, <1>5, <1>6, <1>7

LEMMA DidClearNothingRun ==
  ASSUME Base, NEW t \in Thread, ClearNothing(t), thread[t].mode = "run"
  PROVE  /\ thread[t].at = "clear"
         /\ thread[t].mode = "run"
         /\ Goes(t, "unref", thread[t].d, thread[t].mode, thread[t].frozen, thread[t].r,
             thread[t].new, thread[t].old, thread[t].ptr)
         /\ object' = object
         /\ data' = data
         /\ weak' = weak
         /\ holds' = holds
<1>1. Types /\ ThreadInv(t) /\ HoldsInv(t) /\ thread[t] \in ThreadRecord
  BY DEF Base, Types
<1>a. thread[t].at = "clear"
  BY DEF ClearNothing, At, Set, D, Dropped, Cleared, Step
<1>y. thread[t].d \in Object
  BY <1>1, <1>a DEF ThreadInv, Placed, UnrefPlaces, SetPlaces, GetPlaces
<1>2. /\ thread[t].at = "clear"
      /\ thread[t].mode = "run"
  BY <1>a, <1>y DEF ClearNothing, At, Set, D, Dropped, Cleared, Step
<1>t. thread' = [thread EXCEPT ![t].at = "unref"]
  BY <1>2, <1>y DEF ClearNothing, At, Set, D, Dropped, Cleared, Step, Cleared
<1>3. Goes(t, "unref", thread[t].d, thread[t].mode, thread[t].frozen, thread[t].r,
          thread[t].new, thread[t].old, thread[t].ptr)
  BY <1>1, <1>y, <1>t, GoesAt DEF Places
<1>4. object' = object
  BY <1>1, <1>2, <1>y DEF ClearNothing, At, Set, D, Dropped, Cleared, Step, Types
<1>5. data' = data
  BY <1>2, <1>y DEF ClearNothing, At, Set, D, Dropped, Cleared, Step
<1>6. weak' = weak
  BY <1>2, <1>y DEF ClearNothing, At, Set, D, Dropped, Cleared, Step
<1>7. holds' = holds
  BY <1>2, <1>y DEF ClearNothing, At, Set, D, Dropped, Cleared, Step
<1> QED
  BY <1>2, <1>3, <1>4, <1>5, <1>6, <1>7

LEMMA DidClearLocksKeeps ==
  ASSUME Base, NEW t \in Thread, ClearLocks(t), Alone(t), thread[t].mode # "drop"
  PROVE  /\ thread[t].at = "clear"
         /\ thread[t].mode # "drop"
         /\ thread[t].mode = "check" => object[thread[t].d].refs = 1
         /\ object[thread[t].d].ever /\ data[thread[t].d].lock = None
         /\ Goes(t, "clearing", thread[t].d, thread[t].mode, thread[t].frozen, thread[t].r,
             thread[t].new, thread[t].old, thread[t].ptr)
         /\ object' = object
         /\ SetsData(thread[t].d, data[thread[t].d].refs, t, data[thread[t].d].list)
         /\ weak' = weak
         /\ holds' = holds
<1>1. Types /\ ThreadInv(t) /\ HoldsInv(t) /\ thread[t] \in ThreadRecord
  BY DEF Base, Types
<1>a. thread[t].at = "clear"
  BY DEF ClearLocks, At, Set, D, Dropped, SetData, Alone, NotAlone, Step
<1>y. thread[t].d \in Object
  BY <1>1, <1>a DEF ThreadInv, Placed, UnrefPlaces, SetPlaces, GetPlaces
<1>2. /\ thread[t].at = "clear"
      /\ thread[t].mode # "drop"
      /\ thread[t].mode = "check" => object[thread[t].d].refs = 1
      /\ object[thread[t].d].ever /\ data[thread[t].d].lock = None
  BY <1>1, <1>a, <1>y DEF ClearLocks, At, Set, D, Dropped, SetData, Alone, NotAlone, Step,
       Types, DataType, ObjectType
<1>t. thread' = [thread EXCEPT ![t].at = "clearing"]
  BY <1>2, <1>y DEF ClearLocks, At, Set, D, Dropped, SetData, Alone, NotAlone, Step
<1>3. Goes(t, "clearing", thread[t].d, thread[t].mode, thread[t].frozen, thread[t].r,
          thread[t].new, thread[t].old, thread[t].ptr)
  BY <1>1, <1>y, <1>t, GoesAt DEF Places
<1>4. object' = object
  BY <1>1, <1>2, <1>y DEF ClearLocks, At, Set, D, Dropped, SetData, Alone, NotAlone, Step,
       Types
<1>d. data' = [data EXCEPT ![thread[t].d] = [data[thread[t].d] EXCEPT !.lock = t]]
  BY <1>2, <1>y DEF ClearLocks, At, Set, D, Dropped, SetData, Alone, NotAlone, Step
<1>5. SetsData(thread[t].d, data[thread[t].d].refs, t, data[thread[t].d].list)
  BY <1>1, <1>y, <1>d, LocksData
<1>6. weak' = weak
  BY <1>2, <1>y DEF ClearLocks, At, Set, D, Dropped, SetData, Alone, NotAlone, Step
<1>7. holds' = holds
  BY <1>2, <1>y DEF ClearLocks, At, Set, D, Dropped, SetData, Alone, NotAlone, Step
<1> QED
  BY <1>2, <1>3, <1>4, <1>5, <1>6, <1>7

LEMMA DidClearLocksDrops ==
  ASSUME Base, NEW t \in Thread, ClearLocks(t), Alone(t), thread[t].mode = "drop"
  PROVE  /\ thread[t].at = "clear"
         /\ thread[t].mode = "drop"
         /\ object[thread[t].d].refs = 1
         /\ object[thread[t].d].ever /\ data[thread[t].d].lock = None
         /\ Goes(t, "clearing", thread[t].d, thread[t].mode, thread[t].frozen, thread[t].r,
             thread[t].new, thread[t].old, thread[t].ptr)
         /\ SetsObject(thread[t].d, 0, object[thread[t].d].freed, object[thread[t].d].ever,
             object[thread[t].d].frozen, object[thread[t].d].lock)
         /\ SetsData(thread[t].d, data[thread[t].d].refs, t, data[thread[t].d].list)
         /\ weak' = weak
         /\ holds' = holds
<1>1. Types /\ ThreadInv(t) /\ HoldsInv(t) /\ thread[t] \in ThreadRecord
  BY DEF Base, Types
<1>a. thread[t].at = "clear"
  BY DEF ClearLocks, At, Set, D, Dropped, SetData, Alone, NotAlone, Step
<1>y. thread[t].d \in Object
  BY <1>1, <1>a DEF ThreadInv, Placed, UnrefPlaces, SetPlaces, GetPlaces
<1>2. /\ thread[t].at = "clear"
      /\ thread[t].mode = "drop"
      /\ object[thread[t].d].refs = 1
      /\ object[thread[t].d].ever /\ data[thread[t].d].lock = None
  BY <1>1, <1>a, <1>y DEF ClearLocks, At, Set, D, Dropped, SetData, Alone, NotAlone, Step,
       Types, DataType, ObjectType
<1>t. thread' = [thread EXCEPT ![t].at = "clearing"]
  BY <1>2, <1>y DEF ClearLocks, At, Set, D, Dropped, SetData, Alone, NotAlone, Step
<1>3. Goes(t, "clearing", thread[t].d, thread[t].mode, thread[t].frozen, thread[t].r,
          thread[t].new, thread[t].old, thread[t].ptr)
  BY <1>1, <1>y, <1>t, GoesAt DEF Places
<1>o. object' = [object EXCEPT ![thread[t].d] = [object[thread[t].d] EXCEPT !.refs = 0]]
  BY <1>2, <1>y DEF ClearLocks, At, Set, D, Dropped, SetData, Alone, NotAlone, Step
<1>4. SetsObject(thread[t].d, 0, object[thread[t].d].freed, object[thread[t].d].ever,
          object[thread[t].d].frozen, object[thread[t].d].lock)
  BY <1>1, <1>y, <1>o, SetsRefs
<1>d. data' = [data EXCEPT ![thread[t].d] = [data[thread[t].d] EXCEPT !.lock = t]]
  BY <1>2, <1>y DEF ClearLocks, At, Set, D, Dropped, SetData, Alone, NotAlone, Step
<1>5. SetsData(thread[t].d, data[thread[t].d].refs, t, data[thread[t].d].list)
  BY <1>1, <1>y, <1>d, LocksData
<1>6. weak' = weak
  BY <1>2, <1>y DEF ClearLocks, At, Set, D, Dropped, SetData, Alone, NotAlone, Step
<1>7. holds' = holds
  BY <1>2, <1>y DEF ClearLocks, At, Set, D, Dropped, SetData, Alone, NotAlone, Step
<1> QED
  BY <1>2, <1>3, <1>4, <1>5, <1>6, <1>7

LEMMA DidClearNotAloneChecks ==
  ASSUME Base, NEW t \in Thread, ClearLocks(t), ~Alone(t), thread[t].mode = "check"
  PROVE  /\ thread[t].at = "clear"
         /\ thread[t].mode = "check"
         /\ Goes(t, "unref", thread[t].d, thread[t].mode, thread[t].frozen, thread[t].r,
             thread[t].new, thread[t].old, thread[t].ptr)
         /\ object' = object
         /\ data' = data
         /\ weak' = weak
         /\ holds' = holds
<1>1. Types /\ ThreadInv(t) /\ HoldsInv(t) /\ thread[t] \in ThreadRecord
  BY DEF Base, Types
<1>a. thread[t].at = "clear"
  BY DEF ClearLocks, At, Set, D, Dropped, SetData, Alone, NotAlone, Step
<1>y. thread[t].d \in Object
  BY <1>1, <1>a DEF ThreadInv, Placed, UnrefPlaces, SetPlaces, GetPlaces
<1>2. /\ thread[t].at = "clear"
      /\ thread[t].mode = "check"
  BY <1>a, <1>y DEF ClearLocks, At, Set, D, Dropped, SetData, Alone, NotAlone, Step
<1>t. thread' = [thread EXCEPT ![t].at = "unref"]
  BY <1>2, <1>y DEF ClearLocks, At, Set, D, Dropped, SetData, Alone, NotAlone, Step
<1>3. Goes(t, "unref", thread[t].d, thread[t].mode, thread[t].frozen, thread[t].r,
          thread[t].new, thread[t].old, thread[t].ptr)
  BY <1>1, <1>y, <1>t, GoesAt DEF Places
<1>4. object' = object
  BY <1>1, <1>2, <1>y DEF ClearLocks, At, Set, D, Dropped, SetData, Alone, NotAlone, Step,
       Types
<1>5. data' = data
  BY <1>2, <1>y DEF ClearLocks, At, Set, D, Dropped, SetData, Alone, NotAlone, Step
<1>6. weak' = weak
  BY <1>2, <1>y DEF ClearLocks, At, Set, D, Dropped, SetData, Alone, NotAlone, Step
<1>7. holds' = holds
  BY <1>2, <1>y DEF ClearLocks, At, Set, D, Dropped, SetData, Alone, NotAlone, Step
<1> QED
  BY <1>2, <1>3, <1>4, <1>5, <1>6, <1>7

LEMMA DidClearNotAloneDrops ==
  ASSUME Base, NEW t \in Thread, ClearLocks(t), ~Alone(t), thread[t].mode = "drop"
  PROVE  /\ thread[t].at = "clear"
         /\ thread[t].mode = "drop"
         /\ Goes(t, "decrement", thread[t].d, thread[t].mode, thread[t].frozen, thread[t].r,
             thread[t].new, thread[t].old, thread[t].ptr)
         /\ object' = object
         /\ data' = data
         /\ weak' = weak
         /\ holds' = holds
<1>1. Types /\ ThreadInv(t) /\ HoldsInv(t) /\ thread[t] \in ThreadRecord
  BY DEF Base, Types
<1>a. thread[t].at = "clear"
  BY DEF ClearLocks, At, Set, D, Dropped, SetData, Alone, NotAlone, Step
<1>y. thread[t].d \in Object
  BY <1>1, <1>a DEF ThreadInv, Placed, UnrefPlaces, SetPlaces, GetPlaces
<1>2. /\ thread[t].at = "clear"
      /\ thread[t].mode = "drop"
  BY <1>a, <1>y DEF ClearLocks, At, Set, D, Dropped, SetData, Alone, NotAlone, Step
<1>t. thread' = [thread EXCEPT ![t].at = "decrement"]
  BY <1>2, <1>y DEF ClearLocks, At, Set, D, Dropped, SetData, Alone, NotAlone, Step
<1>3. Goes(t, "decrement", thread[t].d, thread[t].mode, thread[t].frozen, thread[t].r,
          thread[t].new, thread[t].old, thread[t].ptr)
  BY <1>1, <1>y, <1>t, GoesAt DEF Places
<1>4. object' = object
  BY <1>1, <1>2, <1>y DEF ClearLocks, At, Set, D, Dropped, SetData, Alone, NotAlone, Step,
       Types
<1>5. data' = data
  BY <1>2, <1>y DEF ClearLocks, At, Set, D, Dropped, SetData, Alone, NotAlone, Step
<1>6. weak' = weak
  BY <1>2, <1>y DEF ClearLocks, At, Set, D, Dropped, SetData, Alone, NotAlone, Step
<1>7. holds' = holds
  BY <1>2, <1>y DEF ClearLocks, At, Set, D, Dropped, SetData, Alone, NotAlone, Step
<1> QED
  BY <1>2, <1>3, <1>4, <1>5, <1>6, <1>7

LEMMA DidClearNext ==
  ASSUME Base, NEW t \in Thread, NEW r \in Weak, ClearNext(t, r)
  PROVE  /\ thread[t].at = "clearing"
         /\ r \in data[thread[t].d].list /\ weak[r].lock = None
         /\ Goes(t, thread[t].at, thread[t].d, thread[t].mode, thread[t].frozen, thread[t].r,
             thread[t].new, thread[t].old, thread[t].ptr)
         /\ object' = object
         /\ SetsData(thread[t].d, data[thread[t].d].refs, data[thread[t].d].lock, data[thread[t].d].list \ {r})
         /\ SetsWeak(r, None, weak[r].lock)
         /\ holds' = holds
<1>1. Types /\ ThreadInv(t) /\ HoldsInv(t) /\ thread[t] \in ThreadRecord
  BY DEF Base, Types
<1>a. thread[t].at = "clearing"
  BY DEF ClearNext, At, Set, D, SetData
<1>y. thread[t].d \in Object
  BY <1>1, <1>a DEF ThreadInv, Placed, UnrefPlaces, SetPlaces, GetPlaces
<1>2. /\ thread[t].at = "clearing"
      /\ r \in data[thread[t].d].list /\ weak[r].lock = None
  BY <1>a, <1>y DEF ClearNext, At, Set, D, SetData
<1>t. thread' = thread
  BY <1>2, <1>y DEF ClearNext, At, Set, D, SetData
<1>3. Goes(t, thread[t].at, thread[t].d, thread[t].mode, thread[t].frozen, thread[t].r,
          thread[t].new, thread[t].old, thread[t].ptr)
  BY <1>1, <1>y, <1>t, GoesNot
<1>4. object' = object
  BY <1>1, <1>2, <1>y DEF ClearNext, At, Set, D, SetData, Types
<1>d. data' = [data EXCEPT ![thread[t].d] = [data[thread[t].d] EXCEPT !.list =
                  data[thread[t].d].list \ {r}]]
  BY <1>2, <1>y DEF ClearNext, At, Set, D, SetData
<1>f. data[thread[t].d].list \ {r} \in SUBSET Weak
  BY <1>1, <1>y DEF Types, DataType
<1>5. SetsData(thread[t].d, data[thread[t].d].refs, data[thread[t].d].lock,
          data[thread[t].d].list \ {r})
  BY <1>1, <1>y, <1>f, <1>d, SetsList
<1>w. weak' = [weak EXCEPT ![r].ptr = None]
  BY <1>2, <1>y DEF ClearNext, At, Set, D, SetData
<1>6. SetsWeak(r, None, weak[r].lock)
  BY <1>1, <1>y, <1>w, SetsPtr
<1>7. holds' = holds
  BY <1>2, <1>y DEF ClearNext, At, Set, D, SetData
<1> QED
  BY <1>2, <1>3, <1>4, <1>5, <1>6, <1>7

LEMMA DidClearUnlocksCheck ==
  ASSUME Base, NEW t \in Thread, ClearUnlocks(t), thread[t].mode = "check"
  PROVE  /\ thread[t].at = "clearing"
         /\ thread[t].mode = "check" /\ data[thread[t].d].list = {}
         /\ Goes(t, "freeze", thread[t].d, thread[t].mode, thread[t].frozen, thread[t].r,
             thread[t].new, thread[t].old, thread[t].ptr)
         /\ object' = object
         /\ SetsData(thread[t].d, data[thread[t].d].refs, None, data[thread[t].d].list)
         /\ weak' = weak
         /\ holds' = holds
<1>1. Types /\ ThreadInv(t) /\ HoldsInv(t) /\ thread[t] \in ThreadRecord
  BY DEF Base, Types
<1>a. thread[t].at = "clearing"
  BY DEF ClearUnlocks, At, Set, D, SetData, Cleared, Step
<1>y. thread[t].d \in Object
  BY <1>1, <1>a DEF ThreadInv, Placed, UnrefPlaces, SetPlaces, GetPlaces
<1>2. /\ thread[t].at = "clearing"
      /\ thread[t].mode = "check" /\ data[thread[t].d].list = {}
  BY <1>a, <1>y DEF ClearUnlocks, At, Set, D, SetData, Cleared, Step
<1>t. thread' = [thread EXCEPT ![t].at = "freeze"]
  BY <1>2, <1>y DEF ClearUnlocks, At, Set, D, SetData, Cleared, Step, Cleared
<1>3. Goes(t, "freeze", thread[t].d, thread[t].mode, thread[t].frozen, thread[t].r,
          thread[t].new, thread[t].old, thread[t].ptr)
  BY <1>1, <1>y, <1>t, GoesAt DEF Places
<1>4. object' = object
  BY <1>1, <1>2, <1>y DEF ClearUnlocks, At, Set, D, SetData, Cleared, Step, Types
<1>d. data' = [data EXCEPT ![thread[t].d] = [data[thread[t].d] EXCEPT !.lock = None]]
  BY <1>2, <1>y DEF ClearUnlocks, At, Set, D, SetData, Cleared, Step
<1>5. SetsData(thread[t].d, data[thread[t].d].refs, None, data[thread[t].d].list)
  BY <1>1, <1>y, <1>d, LocksData
<1>6. weak' = weak
  BY <1>2, <1>y DEF ClearUnlocks, At, Set, D, SetData, Cleared, Step
<1>7. holds' = holds
  BY <1>2, <1>y DEF ClearUnlocks, At, Set, D, SetData, Cleared, Step
<1> QED
  BY <1>2, <1>3, <1>4, <1>5, <1>6, <1>7

LEMMA DidClearUnlocksDrop ==
  ASSUME Base, NEW t \in Thread, ClearUnlocks(t), thread[t].mode = "drop"
  PROVE  /\ thread[t].at = "clearing"
         /\ thread[t].mode = "drop" /\ data[thread[t].d].list = {}
         /\ Goes(t, "finalize", thread[t].d, thread[t].mode, thread[t].frozen, thread[t].r,
             thread[t].new, thread[t].old, thread[t].ptr)
         /\ object' = object
         /\ SetsData(thread[t].d, data[thread[t].d].refs, None, data[thread[t].d].list)
         /\ weak' = weak
         /\ holds' = holds
<1>1. Types /\ ThreadInv(t) /\ HoldsInv(t) /\ thread[t] \in ThreadRecord
  BY DEF Base, Types
<1>a. thread[t].at = "clearing"
  BY DEF ClearUnlocks, At, Set, D, SetData, Cleared, Step
<1>y. thread[t].d \in Object
  BY <1>1, <1>a DEF ThreadInv, Placed, UnrefPlaces, SetPlaces, GetPlaces
<1>2. /\ thread[t].at = "clearing"
      /\ thread[t].mode = "drop" /\ data[thread[t].d].list = {}
  BY <1>a, <1>y DEF ClearUnlocks, At, Set, D, SetData, Cleared, Step
<1>t. thread' = [thread EXCEPT ![t].at = "finalize"]
  BY <1>2, <1>y DEF ClearUnlocks, At, Set, D, SetData, Cleared, Step, Cleared
<1>3. Goes(t, "finalize", thread[t].d, thread[t].mode, thread[t].frozen, thread[t].r,
          thread[t].new, thread[t].old, thread[t].ptr)
  BY <1>1, <1>y, <1>t, GoesAt DEF Places
<1>4. object' = object
  BY <1>1, <1>2, <1>y DEF ClearUnlocks, At, Set, D, SetData, Cleared, Step, Types
<1>d. data' = [data EXCEPT ![thread[t].d] = [data[thread[t].d] EXCEPT !.lock = None]]
  BY <1>2, <1>y DEF ClearUnlocks, At, Set, D, SetData, Cleared, Step
<1>5. SetsData(thread[t].d, data[thread[t].d].refs, None, data[thread[t].d].list)
  BY <1>1, <1>y, <1>d, LocksData
<1>6. weak' = weak
  BY <1>2, <1>y DEF ClearUnlocks, At, Set, D, SetData, Cleared, Step
<1>7. holds' = holds
  BY <1>2, <1>y DEF ClearUnlocks, At, Set, D, SetData, Cleared, Step
<1> QED
  BY <1>2, <1>3, <1>4, <1>5, <1>6, <1>7

LEMMA DidClearUnlocksRun ==
  ASSUME Base, NEW t \in Thread, ClearUnlocks(t), thread[t].mode = "run"
  PROVE  /\ thread[t].at = "clearing"
         /\ thread[t].mode = "run" /\ data[thread[t].d].list = {}
         /\ Goes(t, "unref", thread[t].d, thread[t].mode, thread[t].frozen, thread[t].r,
             thread[t].new, thread[t].old, thread[t].ptr)
         /\ object' = object
         /\ SetsData(thread[t].d, data[thread[t].d].refs, None, data[thread[t].d].list)
         /\ weak' = weak
         /\ holds' = holds
<1>1. Types /\ ThreadInv(t) /\ HoldsInv(t) /\ thread[t] \in ThreadRecord
  BY DEF Base, Types
<1>a. thread[t].at = "clearing"
  BY DEF ClearUnlocks, At, Set, D, SetData, Cleared, Step
<1>y. thread[t].d \in Object
  BY <1>1, <1>a DEF ThreadInv, Placed, UnrefPlaces, SetPlaces, GetPlaces
<1>2. /\ thread[t].at = "clearing"
      /\ thread[t].mode = "run" /\ data[thread[t].d].list = {}
  BY <1>a, <1>y DEF ClearUnlocks, At, Set, D, SetData, Cleared, Step
<1>t. thread' = [thread EXCEPT ![t].at = "unref"]
  BY <1>2, <1>y DEF ClearUnlocks, At, Set, D, SetData, Cleared, Step, Cleared
<1>3. Goes(t, "unref", thread[t].d, thread[t].mode, thread[t].frozen, thread[t].r,
          thread[t].new, thread[t].old, thread[t].ptr)
  BY <1>1, <1>y, <1>t, GoesAt DEF Places
<1>4. object' = object
  BY <1>1, <1>2, <1>y DEF ClearUnlocks, At, Set, D, SetData, Cleared, Step, Types
<1>d. data' = [data EXCEPT ![thread[t].d] = [data[thread[t].d] EXCEPT !.lock = None]]
  BY <1>2, <1>y DEF ClearUnlocks, At, Set, D, SetData, Cleared, Step
<1>5. SetsData(thread[t].d, data[thread[t].d].refs, None, data[thread[t].d].list)
  BY <1>1, <1>y, <1>d, LocksData
<1>6. weak' = weak
  BY <1>2, <1>y DEF ClearUnlocks, At, Set, D, SetData, Cleared, Step
<1>7. holds' = holds
  BY <1>2, <1>y DEF ClearUnlocks, At, Set, D, SetData, Cleared, Step
<1> QED
  BY <1>2, <1>3, <1>4, <1>5, <1>6, <1>7

LEMMA DidFreeze ==
  ASSUME Base, NEW t \in Thread, Freeze(t)
  PROVE  /\ thread[t].at = "freeze"
         /\ Goes(t, "dispose", thread[t].d, thread[t].mode, TRUE, thread[t].r, thread[t].new,
             thread[t].old, thread[t].ptr)
         /\ SetsObject(thread[t].d, object[thread[t].d].refs, object[thread[t].d].freed,
             object[thread[t].d].ever, object[thread[t].d].frozen + 1,
             object[thread[t].d].lock)
         /\ data' = data
         /\ weak' = weak
         /\ holds' = holds
<1>1. Types /\ ThreadInv(t) /\ HoldsInv(t) /\ thread[t] \in ThreadRecord
  BY DEF Base, Types
<1>a. thread[t].at = "freeze"
  BY DEF Freeze, At, Set, D
<1>y. thread[t].d \in Object
  BY <1>1, <1>a DEF ThreadInv, Placed, UnrefPlaces, SetPlaces, GetPlaces
<1>2. thread[t].at = "freeze"
  BY <1>a
<1>t. thread' = [thread EXCEPT ![t].at = "dispose", ![t].frozen = TRUE]
  BY <1>2, <1>y DEF Freeze, At, Set, D
<1>3. Goes(t, "dispose", thread[t].d, thread[t].mode, TRUE, thread[t].r, thread[t].new,
          thread[t].old, thread[t].ptr)
  BY <1>1, <1>y, <1>t, GoesFrozen DEF Places
<1>o. object' = [object EXCEPT ![thread[t].d] = [object[thread[t].d] EXCEPT !.frozen =
                    object[thread[t].d].frozen + 1]]
  BY <1>2, <1>y DEF Freeze, At, Set, D
<1>e. object[thread[t].d].frozen + 1 \in Int
  BY <1>1, <1>y DEF Types, ObjectType
<1>4. SetsObject(thread[t].d, object[thread[t].d].refs, object[thread[t].d].freed,
          object[thread[t].d].ever, object[thread[t].d].frozen + 1, object[thread[t].d].lock)
  BY <1>1, <1>y, <1>e, <1>o, SetsFrozen
<1>5. data' = data
  BY <1>2, <1>y DEF Freeze, At, Set, D
<1>6. weak' = weak
  BY <1>2, <1>y DEF Freeze, At, Set, D
<1>7. holds' = holds
  BY <1>2, <1>y DEF Freeze, At, Set, D
<1> QED
  BY <1>2, <1>3, <1>4, <1>5, <1>6, <1>7

LEMMA DidResurrect ==
  ASSUME Base, NEW t \in Thread, Resurrect(t)
  PROVE  /\ thread[t].at = "dispose"
         /\ holds[t][thread[t].d] < MaxHolds
         /\ Goes(t, thread[t].at, thread[t].d, thread[t].mode, thread[t].frozen, thread[t].r,
             thread[t].new, thread[t].old, thread[t].ptr)
         /\ SetsObject(thread[t].d, object[thread[t].d].refs + 1, object[thread[t].d].freed,
             object[thread[t].d].ever, object[thread[t].d].frozen, object[thread[t].d].lock)
         /\ data' = data
         /\ weak' = weak
         /\ SetsHolds(t, thread[t].d, holds[t][thread[t].d] + 1)
<1>1. Types /\ ThreadInv(t) /\ HoldsInv(t) /\ thread[t] \in ThreadRecord
  BY DEF Base, Types
<1>a. thread[t].at = "dispose"
  BY DEF Resurrect, At, ObjectRef, Set, D
<1>y. thread[t].d \in Object
  BY <1>1, <1>a DEF ThreadInv, Placed, UnrefPlaces, SetPlaces, GetPlaces
<1>2. /\ thread[t].at = "dispose"
      /\ holds[t][thread[t].d] < MaxHolds
  BY <1>a, <1>y DEF Resurrect, At, ObjectRef, Set, D
<1>t. thread' = thread
  BY <1>2, <1>y DEF Resurrect, At, ObjectRef, Set, D
<1>3. Goes(t, thread[t].at, thread[t].d, thread[t].mode, thread[t].frozen, thread[t].r,
          thread[t].new, thread[t].old, thread[t].ptr)
  BY <1>1, <1>y, <1>t, GoesNot
<1>o. object' = [object EXCEPT ![thread[t].d] = [object[thread[t].d] EXCEPT !.refs =
                    object[thread[t].d].refs + 1]]
  BY <1>2, <1>y DEF Resurrect, At, ObjectRef, Set, D
<1>e. object[thread[t].d].refs + 1 \in Nat
  BY <1>1, <1>y DEF Types, ObjectType
<1>4. SetsObject(thread[t].d, object[thread[t].d].refs + 1, object[thread[t].d].freed,
          object[thread[t].d].ever, object[thread[t].d].frozen, object[thread[t].d].lock)
  BY <1>1, <1>y, <1>e, <1>o, SetsRefs
<1>5. data' = data
  BY <1>2, <1>y DEF Resurrect, At, ObjectRef, Set, D
<1>6. weak' = weak
  BY <1>2, <1>y DEF Resurrect, At, ObjectRef, Set, D
<1>h. holds' = [holds EXCEPT ![t][thread[t].d] = @ + 1]
  BY <1>2, <1>y DEF Resurrect, At, ObjectRef, Set, D
<1>m. holds[t][thread[t].d] <= MaxHolds
  BY <1>1, <1>2, <1>y, RefsAssumption DEF Types, HoldsInv, GetPlaces
<1>7. SetsHolds(t, thread[t].d, holds[t][thread[t].d] + 1)
  BY <1>1, <1>y, <1>h, <1>m, HoldsOneMore
<1> QED
  BY <1>2, <1>3, <1>4, <1>5, <1>6, <1>7

LEMMA DidDisposed ==
  ASSUME Base, NEW t \in Thread, Disposed(t)
  PROVE  /\ thread[t].at = "dispose"
         /\ Goes(t, "decrement", thread[t].d, thread[t].mode, thread[t].frozen, thread[t].r,
             thread[t].new, thread[t].old, thread[t].ptr)
         /\ object' = object
         /\ data' = data
         /\ weak' = weak
         /\ holds' = holds
<1>1. Types /\ ThreadInv(t) /\ HoldsInv(t) /\ thread[t] \in ThreadRecord
  BY DEF Base, Types
<1>a. thread[t].at = "dispose"
  BY DEF Disposed, At, Step
<1>y. thread[t].d \in Object
  BY <1>1, <1>a DEF ThreadInv, Placed, UnrefPlaces, SetPlaces, GetPlaces
<1>2. thread[t].at = "dispose"
  BY <1>a
<1>t. thread' = [thread EXCEPT ![t].at = "decrement"]
  BY <1>2, <1>y DEF Disposed, At, Step
<1>3. Goes(t, "decrement", thread[t].d, thread[t].mode, thread[t].frozen, thread[t].r,
          thread[t].new, thread[t].old, thread[t].ptr)
  BY <1>1, <1>y, <1>t, GoesAt DEF Places
<1>4. object' = object
  BY <1>1, <1>2, <1>y DEF Disposed, At, Step, Types
<1>5. data' = data
  BY <1>2, <1>y DEF Disposed, At, Step
<1>6. weak' = weak
  BY <1>2, <1>y DEF Disposed, At, Step
<1>7. holds' = holds
  BY <1>2, <1>y DEF Disposed, At, Step
<1> QED
  BY <1>2, <1>3, <1>4, <1>5, <1>6, <1>7

LEMMA DidDecrementThaws ==
  ASSUME Base, NEW t \in Thread, Decrement(t), thread[t].frozen = TRUE, object[thread[t].d].refs
         > 1
  PROVE  /\ thread[t].at = "decrement"
         /\ thread[t].frozen = TRUE
         /\ Goes(t, "thaw", thread[t].d, thread[t].mode, thread[t].frozen, thread[t].r,
             thread[t].new, thread[t].old, thread[t].ptr)
         /\ object' = object
         /\ data' = data
         /\ weak' = weak
         /\ holds' = holds
<1>1. Types /\ ThreadInv(t) /\ HoldsInv(t) /\ thread[t] \in ThreadRecord
  BY DEF Base, Types
<1>a. thread[t].at = "decrement"
  BY DEF Decrement, At, Set, D, DropOne, Step
<1>y. thread[t].d \in Object
  BY <1>1, <1>a DEF ThreadInv, Placed, UnrefPlaces, SetPlaces, GetPlaces
<1>2. /\ thread[t].at = "decrement"
      /\ thread[t].frozen = TRUE
  BY <1>a, <1>y DEF Decrement, At, Set, D, DropOne, Step
<1>t. thread' = [thread EXCEPT ![t].at = "thaw"]
  BY <1>2, <1>y DEF Decrement, At, Set, D, DropOne, Step
<1>3. Goes(t, "thaw", thread[t].d, thread[t].mode, thread[t].frozen, thread[t].r,
          thread[t].new, thread[t].old, thread[t].ptr)
  BY <1>1, <1>y, <1>t, GoesAt DEF Places
<1>4. object' = object
  BY <1>1, <1>2, <1>y DEF Decrement, At, Set, D, DropOne, Step, Types
<1>5. data' = data
  BY <1>2, <1>y DEF Decrement, At, Set, D, DropOne, Step
<1>6. weak' = weak
  BY <1>2, <1>y DEF Decrement, At, Set, D, DropOne, Step
<1>7. holds' = holds
  BY <1>2, <1>y DEF Decrement, At, Set, D, DropOne, Step
<1> QED
  BY <1>2, <1>3, <1>4, <1>5, <1>6, <1>7

LEMMA DidDecrementLast ==
  ASSUME Base, NEW t \in Thread, Decrement(t), object[thread[t].d].refs = 1
  PROVE  /\ thread[t].at = "decrement"
         /\ object[thread[t].d].refs = 1
         /\ Goes(t, "clear", thread[t].d, "drop", thread[t].frozen, thread[t].r, thread[t].new,
             thread[t].old, thread[t].ptr)
         /\ object' = object
         /\ data' = data
         /\ weak' = weak
         /\ holds' = holds
<1>1. Types /\ ThreadInv(t) /\ HoldsInv(t) /\ thread[t] \in ThreadRecord
  BY DEF Base, Types
<1>a. thread[t].at = "decrement"
  BY DEF Decrement, At, Set, D, DropOne, Step
<1>y. thread[t].d \in Object
  BY <1>1, <1>a DEF ThreadInv, Placed, UnrefPlaces, SetPlaces, GetPlaces
<1>2. /\ thread[t].at = "decrement"
      /\ object[thread[t].d].refs = 1
  BY <1>1, <1>a, <1>y DEF Decrement, At, Set, D, DropOne, Step, Types, DataType, ObjectType
<1>t. thread' = [thread EXCEPT ![t].at = "clear", ![t].mode = "drop"]
  BY <1>2, <1>y DEF Decrement, At, Set, D, DropOne, Step
<1>3. Goes(t, "clear", thread[t].d, "drop", thread[t].frozen, thread[t].r, thread[t].new,
          thread[t].old, thread[t].ptr)
  BY <1>1, <1>y, <1>t, GoesMode DEF Places
<1>4. object' = object
  BY <1>1, <1>2, <1>y DEF Decrement, At, Set, D, DropOne, Step, Types
<1>5. data' = data
  BY <1>2, <1>y DEF Decrement, At, Set, D, DropOne, Step
<1>6. weak' = weak
  BY <1>2, <1>y DEF Decrement, At, Set, D, DropOne, Step
<1>7. holds' = holds
  BY <1>2, <1>y DEF Decrement, At, Set, D, DropOne, Step
<1> QED
  BY <1>2, <1>3, <1>4, <1>5, <1>6, <1>7

LEMMA DidThaw ==
  ASSUME Base, NEW t \in Thread, Thaw(t)
  PROVE  /\ thread[t].at = "thaw"
         /\ Goes(t, "decrement", thread[t].d, thread[t].mode, FALSE, thread[t].r, thread[t].new,
             thread[t].old, thread[t].ptr)
         /\ SetsObject(thread[t].d, object[thread[t].d].refs, object[thread[t].d].freed,
             object[thread[t].d].ever, object[thread[t].d].frozen - 1,
             object[thread[t].d].lock)
         /\ data' = data
         /\ weak' = weak
         /\ holds' = holds
<1>1. Types /\ ThreadInv(t) /\ HoldsInv(t) /\ thread[t] \in ThreadRecord
  BY DEF Base, Types
<1>a. thread[t].at = "thaw"
  BY DEF Thaw, At, Set, D
<1>y. thread[t].d \in Object
  BY <1>1, <1>a DEF ThreadInv, Placed, UnrefPlaces, SetPlaces, GetPlaces
<1>2. thread[t].at = "thaw"
  BY <1>a
<1>t. thread' = [thread EXCEPT ![t].at = "decrement", ![t].frozen = FALSE]
  BY <1>2, <1>y DEF Thaw, At, Set, D
<1>3. Goes(t, "decrement", thread[t].d, thread[t].mode, FALSE, thread[t].r, thread[t].new,
          thread[t].old, thread[t].ptr)
  BY <1>1, <1>y, <1>t, GoesFrozen DEF Places
<1>o. object' = [object EXCEPT ![thread[t].d] = [object[thread[t].d] EXCEPT !.frozen =
                    object[thread[t].d].frozen - 1]]
  BY <1>2, <1>y DEF Thaw, At, Set, D
<1>e. object[thread[t].d].frozen - 1 \in Int
  BY <1>1, <1>y DEF Types, ObjectType
<1>4. SetsObject(thread[t].d, object[thread[t].d].refs, object[thread[t].d].freed,
          object[thread[t].d].ever, object[thread[t].d].frozen - 1, object[thread[t].d].lock)
  BY <1>1, <1>y, <1>e, <1>o, SetsFrozen
<1>5. data' = data
  BY <1>2, <1>y DEF Thaw, At, Set, D
<1>6. weak' = weak
  BY <1>2, <1>y DEF Thaw, At, Set, D
<1>7. holds' = holds
  BY <1>2, <1>y DEF Thaw, At, Set, D
<1> QED
  BY <1>2, <1>3, <1>4, <1>5, <1>6, <1>7

LEMMA DidFinalize ==
  ASSUME Base, NEW t \in Thread, Finalize(t)
  PROVE  /\ thread[t].at = "finalize"
         /\ object[thread[t].d].lock = None
         /\ Goes(t, "idle", None, "check", FALSE, None, None, None, None)
         /\ SetsObject(thread[t].d, object[thread[t].d].refs, TRUE, object[thread[t].d].ever,
             object[thread[t].d].frozen, object[thread[t].d].lock)
         /\ SetsData(thread[t].d, (IF object[thread[t].d].ever THEN data[thread[t].d].refs - 1 ELSE data[thread[t].d].refs), data[thread[t].d].lock, data[thread[t].d].list)
         /\ weak' = weak
         /\ holds' = holds
<1>1. Types /\ ThreadInv(t) /\ HoldsInv(t) /\ thread[t] \in ThreadRecord
  BY DEF Base, Types
<1>a. thread[t].at = "finalize"
  BY DEF Finalize, At, Set, D, SetData
<1>y. thread[t].d \in Object
  BY <1>1, <1>a DEF ThreadInv, Placed, UnrefPlaces, SetPlaces, GetPlaces
<1>2. /\ thread[t].at = "finalize"
      /\ object[thread[t].d].lock = None
  BY <1>a, <1>y DEF Finalize, At, Set, D, SetData
<1>t. thread' = [thread EXCEPT ![t] = Resting]
  BY <1>2, <1>y DEF Finalize, At, Set, D, SetData
<1>3. Goes(t, "idle", None, "check", FALSE, None, None, None, None)
  BY <1>1, <1>y, <1>t, GoesRest
<1>o. object' = [object EXCEPT ![thread[t].d] = [object[thread[t].d] EXCEPT !.freed = TRUE]]
  BY <1>2, <1>y DEF Finalize, At, Set, D, SetData
<1>4. SetsObject(thread[t].d, object[thread[t].d].refs, TRUE, object[thread[t].d].ever,
          object[thread[t].d].frozen, object[thread[t].d].lock)
  BY <1>1, <1>y, <1>o, SetsFreed
<1>d. data' = [data EXCEPT ![thread[t].d] = [data[thread[t].d] EXCEPT !.refs = (IF
                  object[thread[t].d].ever THEN data[thread[t].d].refs - 1 ELSE
                  data[thread[t].d].refs)]]
  BY <1>2, <1>y DEF Finalize, At, Set, D, SetData
<1>f. (IF object[thread[t].d].ever THEN data[thread[t].d].refs - 1 ELSE data[thread[t].d].refs) \in Int
  BY <1>1, <1>y DEF Types, DataType
<1>5. SetsData(thread[t].d, (IF object[thread[t].d].ever THEN data[thread[t].d].refs - 1 ELSE
          data[thread[t].d].refs), data[thread[t].d].lock, data[thread[t].d].list)
  BY <1>1, <1>y, <1>f, <1>d, CountsData
<1>6. weak' = weak
  BY <1>2, <1>y DEF Finalize, At, Set, D, SetData
<1>7. holds' = holds
  BY <1>2, <1>y DEF Finalize, At, Set, D, SetData
<1> QED
  BY <1>2, <1>3, <1>4, <1>5, <1>6, <1>7

LEMMA DidRunDispose ==
  ASSUME Base, NEW t \in Thread, NEW o \in Object, RunDispose(t, o)
  PROVE  /\ thread[t].at = "idle"
         /\ holds[t][o] # 0
         /\ Goes(t, "run", o, thread[t].mode, thread[t].frozen, thread[t].r, thread[t].new,
             thread[t].old, thread[t].ptr)
         /\ SetsObject(o, object[o].refs + 1, object[o].freed, object[o].ever, object[o].frozen,
             object[o].lock)
         /\ data' = data
         /\ weak' = weak
         /\ holds' = holds
<1>1. Types /\ ThreadInv(t) /\ HoldsInv(t) /\ thread[t] \in ThreadRecord
  BY DEF Base, Types
<1>a. thread[t].at = "idle"
  BY DEF RunDispose, At, ObjectRef, Set
<1>2. /\ thread[t].at = "idle"
      /\ holds[t][o] # 0
  BY <1>1, <1>a DEF RunDispose, At, ObjectRef, Set, Types, DataType, ObjectType
<1>t. thread' = [thread EXCEPT ![t].at = "run", ![t].d = o]
  BY <1>2 DEF RunDispose, At, ObjectRef, Set
<1>3. Goes(t, "run", o, thread[t].mode, thread[t].frozen, thread[t].r, thread[t].new,
          thread[t].old, thread[t].ptr)
  BY <1>1, <1>t, GoesD DEF Places
<1>o. object' = [object EXCEPT ![o] = [object[o] EXCEPT !.refs = object[o].refs + 1]]
  BY <1>2 DEF RunDispose, At, ObjectRef, Set
<1>e. object[o].refs + 1 \in Nat
  BY <1>1 DEF Types, ObjectType
<1>4. SetsObject(o, object[o].refs + 1, object[o].freed, object[o].ever, object[o].frozen,
          object[o].lock)
  BY <1>1, <1>e, <1>o, SetsRefs
<1>5. data' = data
  BY <1>2 DEF RunDispose, At, ObjectRef, Set
<1>6. weak' = weak
  BY <1>2 DEF RunDispose, At, ObjectRef, Set
<1>7. holds' = holds
  BY <1>2 DEF RunDispose, At, ObjectRef, Set
<1> QED
  BY <1>2, <1>3, <1>4, <1>5, <1>6, <1>7

LEMMA DidRunDisposedEver ==
  ASSUME Base, NEW t \in Thread, RunDisposed(t), object[thread[t].d].ever
  PROVE  /\ thread[t].at = "run"
         /\ Goes(t, "clear", thread[t].d, "run", thread[t].frozen, thread[t].r, thread[t].new,
             thread[t].old, thread[t].ptr)
         /\ object' = object
         /\ data' = data
         /\ weak' = weak
         /\ holds' = holds
<1>1. Types /\ ThreadInv(t) /\ HoldsInv(t) /\ thread[t] \in ThreadRecord
  BY DEF Base, Types
<1>a. thread[t].at = "run"
  BY DEF RunDisposed, At, D
<1>y. thread[t].d \in Object
  BY <1>1, <1>a DEF ThreadInv, Placed, UnrefPlaces, SetPlaces, GetPlaces
<1>2. thread[t].at = "run"
  BY <1>a
<1>t. thread' = [thread EXCEPT ![t].at = "clear", ![t].mode = "run"]
  BY <1>2, <1>y DEF RunDisposed, At, D
<1>3. Goes(t, "clear", thread[t].d, "run", thread[t].frozen, thread[t].r, thread[t].new,
          thread[t].old, thread[t].ptr)
  BY <1>1, <1>y, <1>t, GoesMode DEF Places
<1>4. object' = object
  BY <1>1, <1>2, <1>y DEF RunDisposed, At, D, Types
<1>5. data' = data
  BY <1>2, <1>y DEF RunDisposed, At, D
<1>6. weak' = weak
  BY <1>2, <1>y DEF RunDisposed, At, D
<1>7. holds' = holds
  BY <1>2, <1>y DEF RunDisposed, At, D
<1> QED
  BY <1>2, <1>3, <1>4, <1>5, <1>6, <1>7

LEMMA DidRunDisposedNever ==
  ASSUME Base, NEW t \in Thread, RunDisposed(t), ~object[thread[t].d].ever
  PROVE  /\ thread[t].at = "run"
         /\ Goes(t, "unref", thread[t].d, "run", thread[t].frozen, thread[t].r, thread[t].new,
             thread[t].old, thread[t].ptr)
         /\ object' = object
         /\ data' = data
         /\ weak' = weak
         /\ holds' = holds
<1>1. Types /\ ThreadInv(t) /\ HoldsInv(t) /\ thread[t] \in ThreadRecord
  BY DEF Base, Types
<1>a. thread[t].at = "run"
  BY DEF RunDisposed, At, D
<1>y. thread[t].d \in Object
  BY <1>1, <1>a DEF ThreadInv, Placed, UnrefPlaces, SetPlaces, GetPlaces
<1>2. thread[t].at = "run"
  BY <1>a
<1>t. thread' = [thread EXCEPT ![t].at = "unref", ![t].mode = "run"]
  BY <1>2, <1>y DEF RunDisposed, At, D
<1>3. Goes(t, "unref", thread[t].d, "run", thread[t].frozen, thread[t].r, thread[t].new,
          thread[t].old, thread[t].ptr)
  BY <1>1, <1>y, <1>t, GoesMode DEF Places
<1>4. object' = object
  BY <1>1, <1>2, <1>y DEF RunDisposed, At, D, Types
<1>5. data' = data
  BY <1>2, <1>y DEF RunDisposed, At, D
<1>6. weak' = weak
  BY <1>2, <1>y DEF RunDisposed, At, D
<1>7. holds' = holds
  BY <1>2, <1>y DEF RunDisposed, At, D
<1> QED
  BY <1>2, <1>3, <1>4, <1>5, <1>6, <1>7

LEMMA DidWeakRefSetNone ==
  ASSUME Base, NEW t \in Thread, NEW r \in Weak, WeakRefSet(t, r, None)
  PROVE  /\ thread[t].at = "idle" \/ thread[t].at = "dispose"
         /\ Goes(t, "read", thread[t].d, thread[t].mode, thread[t].frozen, r, None,
             thread[t].old, thread[t].ptr)
         /\ object' = object
         /\ data' = data
         /\ weak' = weak
         /\ holds' = holds
<1>1. Types /\ ThreadInv(t) /\ HoldsInv(t) /\ thread[t] \in ThreadRecord
  BY DEF Base, Types
<1>a. thread[t].at = "idle" \/ thread[t].at = "dispose"
  BY DEF WeakRefSet, At
<1>2. thread[t].at = "idle" \/ thread[t].at = "dispose"
  BY <1>a
<1>t. thread' = [thread EXCEPT ![t].at = "read", ![t].r = r, ![t].new = None]
  BY <1>2 DEF WeakRefSet, At
<1>3. Goes(t, "read", thread[t].d, thread[t].mode, thread[t].frozen, r, None, thread[t].old,
          thread[t].ptr)
  BY <1>1, <1>t, GoesNew DEF Places
<1>4. object' = object
  BY <1>1, <1>2 DEF WeakRefSet, At, Types
<1>5. data' = data
  BY <1>2 DEF WeakRefSet, At
<1>6. weak' = weak
  BY <1>2 DEF WeakRefSet, At
<1>7. holds' = holds
  BY <1>2 DEF WeakRefSet, At
<1> QED
  BY <1>2, <1>3, <1>4, <1>5, <1>6, <1>7

LEMMA DidWeakRefSetObject ==
  ASSUME Base, NEW t \in Thread, NEW r \in Weak, NEW n \in Object, WeakRefSet(t, r, n)
  PROVE  /\ thread[t].at = "idle" \/ thread[t].at = "dispose"
         /\ holds[t][n] # 0 \/ n = thread[t].d
         /\ Goes(t, "create", thread[t].d, thread[t].mode, thread[t].frozen, r, n, thread[t].old,
             thread[t].ptr)
         /\ object' = object
         /\ data' = data
         /\ weak' = weak
         /\ holds' = holds
<1>1. Types /\ ThreadInv(t) /\ HoldsInv(t) /\ thread[t] \in ThreadRecord
  BY DEF Base, Types
<1>a. thread[t].at = "idle" \/ thread[t].at = "dispose"
  BY DEF WeakRefSet, At, D
<1>g. n # None
  BY RefsAssumption
<1>2. /\ thread[t].at = "idle" \/ thread[t].at = "dispose"
      /\ holds[t][n] # 0 \/ n = thread[t].d
  BY <1>1, <1>a, <1>g DEF WeakRefSet, At, D, Types
<1>t. thread' = [thread EXCEPT ![t].at = "create", ![t].r = r, ![t].new = n]
  BY <1>2, <1>g DEF WeakRefSet, At, D
<1>3. Goes(t, "create", thread[t].d, thread[t].mode, thread[t].frozen, r, n, thread[t].old,
          thread[t].ptr)
  BY <1>1, <1>g, <1>t, GoesNew DEF Places
<1>4. object' = object
  BY <1>1, <1>2, <1>g DEF WeakRefSet, At, D, Types
<1>5. data' = data
  BY <1>2, <1>g DEF WeakRefSet, At, D
<1>6. weak' = weak
  BY <1>2, <1>g DEF WeakRefSet, At, D
<1>7. holds' = holds
  BY <1>2, <1>g DEF WeakRefSet, At, D
<1> QED
  BY <1>2, <1>3, <1>4, <1>5, <1>6, <1>7

LEMMA DidCreate ==
  ASSUME Base, NEW t \in Thread, Create(t)
  PROVE  /\ thread[t].at = "create"
         /\ Goes(t, "read", thread[t].d, thread[t].mode, thread[t].frozen, thread[t].r,
             thread[t].new, thread[t].old, thread[t].ptr)
         /\ SetsObject(thread[t].new, object[thread[t].new].refs, object[thread[t].new].freed,
             TRUE, object[thread[t].new].frozen, object[thread[t].new].lock)
         /\ SetsData(thread[t].new, (IF object[thread[t].new].ever THEN data[thread[t].new].refs ELSE 1), data[thread[t].new].lock, data[thread[t].new].list)
         /\ weak' = weak
         /\ holds' = holds
<1>1. Types /\ ThreadInv(t) /\ HoldsInv(t) /\ thread[t] \in ThreadRecord
  BY DEF Base, Types
<1>a. thread[t].at = "create"
  BY DEF Create, At, Set, SetData, Step
<1>y. thread[t].new \in Object /\ thread[t].r \in Weak
  BY <1>1, <1>a DEF ThreadInv, Placed, UnrefPlaces, SetPlaces, GetPlaces
<1>2. thread[t].at = "create"
  BY <1>a
<1>t. thread' = [thread EXCEPT ![t].at = "read"]
  BY <1>2, <1>y DEF Create, At, Set, SetData, Step
<1>3. Goes(t, "read", thread[t].d, thread[t].mode, thread[t].frozen, thread[t].r,
          thread[t].new, thread[t].old, thread[t].ptr)
  BY <1>1, <1>y, <1>t, GoesAt DEF Places
<1>o. object' = [object EXCEPT ![thread[t].new] = [object[thread[t].new] EXCEPT !.ever = TRUE]]
  BY <1>2, <1>y DEF Create, At, Set, SetData, Step
<1>4. SetsObject(thread[t].new, object[thread[t].new].refs, object[thread[t].new].freed, TRUE,
          object[thread[t].new].frozen, object[thread[t].new].lock)
  BY <1>1, <1>y, <1>o, SetsEver
<1>d. data' = [data EXCEPT ![thread[t].new] = [data[thread[t].new] EXCEPT !.refs = (IF
                  object[thread[t].new].ever THEN data[thread[t].new].refs ELSE 1)]]
  BY <1>2, <1>y DEF Create, At, Set, SetData, Step
<1>f. (IF object[thread[t].new].ever THEN data[thread[t].new].refs ELSE 1) \in Int
  BY <1>1, <1>y DEF Types, DataType
<1>5. SetsData(thread[t].new, (IF object[thread[t].new].ever THEN data[thread[t].new].refs
          ELSE 1), data[thread[t].new].lock, data[thread[t].new].list)
  BY <1>1, <1>y, <1>f, <1>d, CountsData
<1>6. weak' = weak
  BY <1>2, <1>y DEF Create, At, Set, SetData, Step
<1>7. holds' = holds
  BY <1>2, <1>y DEF Create, At, Set, SetData, Step
<1> QED
  BY <1>2, <1>3, <1>4, <1>5, <1>6, <1>7

LEMMA DidReadSameIdle ==
  ASSUME Base, NEW t \in Thread, Read(t), weak[thread[t].r].ptr = thread[t].new, thread[t].d =
         None
  PROVE  /\ thread[t].at = "read"
         /\ Goes(t, "idle", None, "check", FALSE, None, None, None, None)
         /\ object' = object
         /\ data' = data
         /\ weak' = weak
         /\ holds' = holds
<1>1. Types /\ ThreadInv(t) /\ HoldsInv(t) /\ thread[t] \in ThreadRecord
  BY DEF Base, Types
<1>a. thread[t].at = "read"
  BY DEF Read, At, R, D, Return
<1>y. thread[t].r \in Weak
  BY <1>1, <1>a DEF ThreadInv, Placed, UnrefPlaces, SetPlaces, GetPlaces
<1>2. thread[t].at = "read"
  BY <1>a
<1>t. thread' = [thread EXCEPT ![t] = Resting]
  BY <1>2, <1>y DEF Read, At, R, D, Return
<1>3. Goes(t, "idle", None, "check", FALSE, None, None, None, None)
  BY <1>1, <1>y, <1>t, GoesRest
<1>4. object' = object
  BY <1>1, <1>2, <1>y DEF Read, At, R, D, Return, Types
<1>5. data' = data
  BY <1>2, <1>y DEF Read, At, R, D, Return
<1>6. weak' = weak
  BY <1>2, <1>y DEF Read, At, R, D, Return
<1>7. holds' = holds
  BY <1>2, <1>y DEF Read, At, R, D, Return
<1> QED
  BY <1>2, <1>3, <1>4, <1>5, <1>6, <1>7

LEMMA DidReadSameDispose ==
  ASSUME Base, NEW t \in Thread, Read(t), weak[thread[t].r].ptr = thread[t].new, thread[t].d #
         None
  PROVE  /\ thread[t].at = "read"
         /\ thread[t].d # None
         /\ Goes(t, "dispose", thread[t].d, thread[t].mode, thread[t].frozen, None, None, None,
             None)
         /\ object' = object
         /\ data' = data
         /\ weak' = weak
         /\ holds' = holds
<1>1. Types /\ ThreadInv(t) /\ HoldsInv(t) /\ thread[t] \in ThreadRecord
  BY DEF Base, Types
<1>a. thread[t].at = "read"
  BY DEF Read, At, R, D, Return
<1>y. thread[t].r \in Weak
  BY <1>1, <1>a DEF ThreadInv, Placed, UnrefPlaces, SetPlaces, GetPlaces
<1>2. /\ thread[t].at = "read"
      /\ thread[t].d # None
  BY <1>a, <1>y DEF Read, At, R, D, Return
<1>t. thread' = [thread EXCEPT ![t] = [thread[t] EXCEPT !.at = "dispose", !.r = None, !.new =
                    None,
                                                 !.old = None, !.ptr
                    = None]]
  BY <1>2, <1>y DEF Read, At, R, D, Return
<1>3. Goes(t, "dispose", thread[t].d, thread[t].mode, thread[t].frozen, None, None, None, None)
  BY <1>1, <1>y, <1>t, GoesDispose
<1>4. object' = object
  BY <1>1, <1>2, <1>y DEF Read, At, R, D, Return, Types
<1>5. data' = data
  BY <1>2, <1>y DEF Read, At, R, D, Return
<1>6. weak' = weak
  BY <1>2, <1>y DEF Read, At, R, D, Return
<1>7. holds' = holds
  BY <1>2, <1>y DEF Read, At, R, D, Return
<1> QED
  BY <1>2, <1>3, <1>4, <1>5, <1>6, <1>7

LEMMA DidReadOther ==
  ASSUME Base, NEW t \in Thread, Read(t), weak[thread[t].r].ptr # thread[t].new
  PROVE  /\ thread[t].at = "read"
         /\ weak[thread[t].r].ptr # thread[t].new /\ weak[thread[t].r].lock = None
         /\ Goes(t, "reference", thread[t].d, thread[t].mode, thread[t].frozen, thread[t].r,
             thread[t].new, thread[t].old, weak[thread[t].r].ptr)
         /\ object' = object
         /\ data' = data
         /\ SetsWeak(thread[t].r, weak[thread[t].r].ptr, t)
         /\ holds' = holds
<1>1. Types /\ ThreadInv(t) /\ HoldsInv(t) /\ thread[t] \in ThreadRecord
  BY DEF Base, Types
<1>a. thread[t].at = "read"
  BY DEF Read, At, R, LockWeak
<1>y. thread[t].r \in Weak
  BY <1>1, <1>a DEF ThreadInv, Placed, UnrefPlaces, SetPlaces, GetPlaces
<1>2. /\ thread[t].at = "read"
      /\ weak[thread[t].r].ptr # thread[t].new /\ weak[thread[t].r].lock = None
  BY <1>a, <1>y DEF Read, At, R, LockWeak
<1>t. thread' = [thread EXCEPT ![t].at = "reference", ![t].r = thread[t].r, ![t].ptr =
                    weak[thread[t].r].ptr]
  BY <1>2, <1>y DEF Read, At, R, LockWeak
<1>p. weak[thread[t].r].ptr \in Object \cup {None}
  BY <1>1, <1>y DEF Types, WeakRecord
<1>3. Goes(t, "reference", thread[t].d, thread[t].mode, thread[t].frozen, thread[t].r,
          thread[t].new, thread[t].old, weak[thread[t].r].ptr)
  BY <1>1, <1>y, <1>p, <1>t, GoesPtr DEF Places
<1>4. object' = object
  BY <1>1, <1>2, <1>y DEF Read, At, R, LockWeak, Types
<1>5. data' = data
  BY <1>2, <1>y DEF Read, At, R, LockWeak
<1>w. weak' = [weak EXCEPT ![thread[t].r].lock = t]
  BY <1>2, <1>y DEF Read, At, R, LockWeak
<1>6. SetsWeak(thread[t].r, weak[thread[t].r].ptr, t)
  BY <1>1, <1>y, <1>w, LocksWeak
<1>7. holds' = holds
  BY <1>2, <1>y DEF Read, At, R, LockWeak
<1> QED
  BY <1>2, <1>3, <1>4, <1>5, <1>6, <1>7

LEMMA DidReference ==
  ASSUME Base, NEW t \in Thread, Reference(t)
  PROVE  /\ thread[t].at = "reference"
         /\ Goes(t, "first", thread[t].d, thread[t].mode, thread[t].frozen, thread[t].r,
             thread[t].new, thread[t].ptr, thread[t].ptr)
         /\ object' = object
         /\ SetsData(thread[t].ptr, data[thread[t].ptr].refs + 1, data[thread[t].ptr].lock, data[thread[t].ptr].list)
         /\ SetsWeak(thread[t].r, weak[thread[t].r].ptr, None)
         /\ holds' = holds
<1>1. Types /\ ThreadInv(t) /\ HoldsInv(t) /\ thread[t] \in ThreadRecord
  BY DEF Base, Types
<1>a. thread[t].at = "reference"
  BY DEF Reference, At, R
<1>y. thread[t].r \in Weak
  BY <1>1, <1>a DEF ThreadInv, Placed, UnrefPlaces, SetPlaces, GetPlaces
<1>2. thread[t].at = "reference"
  BY <1>a
<1>t. thread' = [thread EXCEPT ![t].at = "first", ![t].old = thread[t].ptr]
  BY <1>2, <1>y DEF Reference, At, R
<1>p. thread[t].ptr \in Object \cup {None}
  BY <1>1 DEF ThreadRecord
<1>3. Goes(t, "first", thread[t].d, thread[t].mode, thread[t].frozen, thread[t].r,
          thread[t].new, thread[t].ptr, thread[t].ptr)
  BY <1>1, <1>y, <1>p, <1>t, GoesOld DEF Places
<1>4. object' = object
  BY <1>1, <1>2, <1>y DEF Reference, At, R, Types
<1>d. data' = [o \in Object |->
               IF o = thread[t].ptr THEN [data[o] EXCEPT !.refs = @ + 1] ELSE data[o]]
  BY <1>2, <1>y DEF Reference, At, R
<1>5. SetsData(thread[t].ptr, data[thread[t].ptr].refs + 1, data[thread[t].ptr].lock, data[thread[t].ptr].list)
  BY <1>1, <1>d, CountsMore
<1>w. weak' = [weak EXCEPT ![thread[t].r].lock = None]
  BY <1>2, <1>y DEF Reference, At, R
<1>6. SetsWeak(thread[t].r, weak[thread[t].r].ptr, None)
  BY <1>1, <1>y, <1>w, LocksWeak
<1>7. holds' = holds
  BY <1>2, <1>y DEF Reference, At, R
<1> QED
  BY <1>2, <1>3, <1>4, <1>5, <1>6, <1>7

LEMMA DidLockFirst ==
  ASSUME Base, NEW t \in Thread, LockFirst(t)
  PROVE  /\ thread[t].at = "first"
         /\ First(t) # None => data[First(t)].lock = None
         /\ Goes(t, "second", thread[t].d, thread[t].mode, thread[t].frozen, thread[t].r,
             thread[t].new, thread[t].old, thread[t].ptr)
         /\ object' = object
         /\ SetsData(First(t), data[First(t)].refs, t, data[First(t)].list)
         /\ weak' = weak
         /\ holds' = holds
<1>1. Types /\ ThreadInv(t) /\ HoldsInv(t) /\ thread[t] \in ThreadRecord
  BY DEF Base, Types
<1>a. thread[t].at = "first"
  BY DEF LockFirst, At, LockData, SetData, Step, First
<1>y. thread[t].r \in Weak
  BY <1>1, <1>a DEF ThreadInv, Placed, UnrefPlaces, SetPlaces, GetPlaces
<1>g. First(t) \in Object \cup {None}
  BY <1>1 DEF First, Second, Order, ThreadRecord
<1>2. /\ thread[t].at = "first"
      /\ First(t) # None => data[First(t)].lock = None
  BY <1>1, <1>a, <1>y, <1>g DEF LockFirst, At, LockData, SetData, Step, First
<1>t. thread' = [thread EXCEPT ![t].at = "second"]
  BY <1>2, <1>y, <1>g DEF LockFirst, At, LockData, SetData, Step, First
<1>3. Goes(t, "second", thread[t].d, thread[t].mode, thread[t].frozen, thread[t].r,
          thread[t].new, thread[t].old, thread[t].ptr)
  BY <1>1, <1>y, <1>g, <1>t, GoesAt DEF Places
<1>4. object' = object
  BY <1>1, <1>2, <1>y, <1>g DEF LockFirst, At, LockData, SetData, Step, First, Types
<1>d. \/ First(t) = None /\ data' = data
      \/ /\ First(t) \in Object
         /\ data' = [data EXCEPT ![First(t)] = [data[First(t)] EXCEPT !.lock = t]]
  BY <1>g DEF LockFirst, At, LockData, SetData, Step, First
<1>5. SetsData(First(t), data[First(t)].refs, t, data[First(t)].list)
  <2>1. CASE First(t) = None
    BY <1>1, <1>d, <2>1, RefsAssumption DEF SetsData, Types
  <2>2. CASE First(t) # None
    BY <1>1, <1>d, <2>2, LocksData
  <2> QED
    BY <2>1, <2>2
<1>6. weak' = weak
  BY <1>2, <1>y, <1>g DEF LockFirst, At, LockData, SetData, Step, First
<1>7. holds' = holds
  BY <1>2, <1>y, <1>g DEF LockFirst, At, LockData, SetData, Step, First
<1> QED
  BY <1>2, <1>3, <1>4, <1>5, <1>6, <1>7

LEMMA DidLockSecond ==
  ASSUME Base, NEW t \in Thread, LockSecond(t)
  PROVE  /\ thread[t].at = "second"
         /\ Second(t) # None => data[Second(t)].lock = None
         /\ Goes(t, "lock", thread[t].d, thread[t].mode, thread[t].frozen, thread[t].r,
             thread[t].new, thread[t].old, thread[t].ptr)
         /\ object' = object
         /\ SetsData(Second(t), data[Second(t)].refs, t, data[Second(t)].list)
         /\ weak' = weak
         /\ holds' = holds
<1>1. Types /\ ThreadInv(t) /\ HoldsInv(t) /\ thread[t] \in ThreadRecord
  BY DEF Base, Types
<1>a. thread[t].at = "second"
  BY DEF LockSecond, At, LockData, SetData, Step, Second
<1>y. thread[t].r \in Weak
  BY <1>1, <1>a DEF ThreadInv, Placed, UnrefPlaces, SetPlaces, GetPlaces
<1>g. Second(t) \in Object \cup {None}
  BY <1>1 DEF First, Second, Order, ThreadRecord
<1>2. /\ thread[t].at = "second"
      /\ Second(t) # None => data[Second(t)].lock = None
  BY <1>1, <1>a, <1>y, <1>g DEF LockSecond, At, LockData, SetData, Step, Second
<1>t. thread' = [thread EXCEPT ![t].at = "lock"]
  BY <1>2, <1>y, <1>g DEF LockSecond, At, LockData, SetData, Step, Second
<1>3. Goes(t, "lock", thread[t].d, thread[t].mode, thread[t].frozen, thread[t].r,
          thread[t].new, thread[t].old, thread[t].ptr)
  BY <1>1, <1>y, <1>g, <1>t, GoesAt DEF Places
<1>4. object' = object
  BY <1>1, <1>2, <1>y, <1>g DEF LockSecond, At, LockData, SetData, Step, Second, Types
<1>d. \/ Second(t) = None /\ data' = data
      \/ /\ Second(t) \in Object
         /\ data' = [data EXCEPT ![Second(t)] = [data[Second(t)] EXCEPT !.lock = t]]
  BY <1>g DEF LockSecond, At, LockData, SetData, Step, Second
<1>5. SetsData(Second(t), data[Second(t)].refs, t, data[Second(t)].list)
  <2>1. CASE Second(t) = None
    BY <1>1, <1>d, <2>1, RefsAssumption DEF SetsData, Types
  <2>2. CASE Second(t) # None
    BY <1>1, <1>d, <2>2, LocksData
  <2> QED
    BY <2>1, <2>2
<1>6. weak' = weak
  BY <1>2, <1>y, <1>g DEF LockSecond, At, LockData, SetData, Step, Second
<1>7. holds' = holds
  BY <1>2, <1>y, <1>g DEF LockSecond, At, LockData, SetData, Step, Second
<1> QED
  BY <1>2, <1>3, <1>4, <1>5, <1>6, <1>7

LEMMA DidLockThird ==
  ASSUME Base, NEW t \in Thread, LockThird(t)
  PROVE  /\ thread[t].at = "lock"
         /\ weak[thread[t].r].lock = None
         /\ Goes(t, "commit", thread[t].d, thread[t].mode, thread[t].frozen, thread[t].r,
             thread[t].new, thread[t].old, weak[thread[t].r].ptr)
         /\ object' = object
         /\ data' = data
         /\ SetsWeak(thread[t].r, weak[thread[t].r].ptr, t)
         /\ holds' = holds
<1>1. Types /\ ThreadInv(t) /\ HoldsInv(t) /\ thread[t] \in ThreadRecord
  BY DEF Base, Types
<1>a. thread[t].at = "lock"
  BY DEF LockThird, At, R, LockWeak
<1>y. thread[t].r \in Weak
  BY <1>1, <1>a DEF ThreadInv, Placed, UnrefPlaces, SetPlaces, GetPlaces
<1>2. /\ thread[t].at = "lock"
      /\ weak[thread[t].r].lock = None
  BY <1>a, <1>y DEF LockThird, At, R, LockWeak
<1>t. thread' = [thread EXCEPT ![t].at = "commit", ![t].r = thread[t].r, ![t].ptr =
                    weak[thread[t].r].ptr]
  BY <1>2, <1>y DEF LockThird, At, R, LockWeak
<1>p. weak[thread[t].r].ptr \in Object \cup {None}
  BY <1>1, <1>y DEF Types, WeakRecord
<1>3. Goes(t, "commit", thread[t].d, thread[t].mode, thread[t].frozen, thread[t].r,
          thread[t].new, thread[t].old, weak[thread[t].r].ptr)
  BY <1>1, <1>y, <1>p, <1>t, GoesPtr DEF Places
<1>4. object' = object
  BY <1>1, <1>2, <1>y DEF LockThird, At, R, LockWeak, Types
<1>5. data' = data
  BY <1>2, <1>y DEF LockThird, At, R, LockWeak
<1>w. weak' = [weak EXCEPT ![thread[t].r].lock = t]
  BY <1>2, <1>y DEF LockThird, At, R, LockWeak
<1>6. SetsWeak(thread[t].r, weak[thread[t].r].ptr, t)
  BY <1>1, <1>y, <1>w, LocksWeak
<1>7. holds' = holds
  BY <1>2, <1>y DEF LockThird, At, R, LockWeak
<1> QED
  BY <1>2, <1>3, <1>4, <1>5, <1>6, <1>7

LEMMA DidCommitLost ==
  ASSUME Base, NEW t \in Thread, Commit(t), Lost(t)
  PROVE  /\ thread[t].at = "commit"
         /\ thread[t].ptr # None /\ thread[t].ptr # thread[t].old
         /\ Goes(t, "release", thread[t].d, thread[t].mode, thread[t].frozen, thread[t].r,
             thread[t].new, thread[t].old, thread[t].ptr)
         /\ object' = object
         /\ data' \in [Object -> DataType]
         /\ \A o \in Object : data'[o].refs = data[o].refs
         /\ \A o \in Object : data'[o].lock = IF o = thread[t].old \/ o = thread[t].new THEN None ELSE data[o].lock
         /\ \A o \in Object : data'[o].list = data[o].list
         /\ SetsWeak(thread[t].r, weak[thread[t].r].ptr, None)
         /\ holds' = holds
<1>1. Types /\ ThreadInv(t) /\ HoldsInv(t) /\ thread[t] \in ThreadRecord
  BY DEF Base, Types
<1>a. thread[t].at = "commit"
  BY DEF Commit, At, Lost, Step
<1>y. thread[t].r \in Weak
  BY <1>1, <1>a DEF ThreadInv, Placed, UnrefPlaces, SetPlaces, GetPlaces
<1>2. /\ thread[t].at = "commit"
      /\ thread[t].ptr # None /\ thread[t].ptr # thread[t].old
  BY <1>a, <1>y DEF Commit, At, Lost, Step
<1>t. thread' = [thread EXCEPT ![t].at = "release"]
  BY <1>2, <1>y DEF Commit, At, Lost, Step
<1>3. Goes(t, "release", thread[t].d, thread[t].mode, thread[t].frozen, thread[t].r,
          thread[t].new, thread[t].old, thread[t].ptr)
  BY <1>1, <1>y, <1>t, GoesAt DEF Places
<1>4. object' = object
  BY <1>1, <1>2, <1>y DEF Commit, At, Lost, Step, Types
<1>d. data' = [o \in Object |-> IF o \in {thread[t].old, thread[t].new}
        THEN [data[o] EXCEPT !.lock = None, !.list = data[o].list]
        ELSE data[o]]
  BY <1>2, <1>y DEF Commit, At, Lost, Step
<1>5. /\ data' \in [Object -> DataType]
      /\ \A o \in Object : data'[o].refs = data[o].refs
      /\ \A o \in Object : data'[o].lock = IF o = thread[t].old \/ o = thread[t].new THEN None ELSE data[o].lock
      /\ \A o \in Object : data'[o].list = data[o].list
  BY <1>1, <1>y, <1>d DEF Types, DataType
<1>w. weak' = [weak EXCEPT ![thread[t].r] = [ptr |-> weak[thread[t].r].ptr, lock |-> None]]
  BY <1>2, <1>y DEF Commit, At, Lost, Step
<1>v. weak[thread[t].r].ptr \in Object \cup {None}
  BY <1>1, <1>y DEF Types, WeakRecord, ThreadRecord
<1>6. SetsWeak(thread[t].r, weak[thread[t].r].ptr, None)
  BY <1>1, <1>y, <1>v, <1>w, SetsBoth
<1>7. holds' = holds
  BY <1>2, <1>y DEF Commit, At, Lost, Step
<1> QED
  BY <1>2, <1>3, <1>4, <1>5, <1>6, <1>7

LEMMA DidCommitMoves ==
  ASSUME Base, NEW t \in Thread, Commit(t), ~Lost(t)
  PROVE  /\ thread[t].at = "commit"
         /\ thread[t].ptr = None \/ thread[t].ptr = thread[t].old
         /\ Goes(t, "release", thread[t].d, thread[t].mode, thread[t].frozen, thread[t].r,
             thread[t].new, thread[t].old, thread[t].ptr)
         /\ object' = object
         /\ data' \in [Object -> DataType]
         /\ \A o \in Object : data'[o].refs = data[o].refs
         /\ \A o \in Object : data'[o].lock = IF o = thread[t].old \/ o = thread[t].new THEN None ELSE data[o].lock
         /\ \A o \in Object : data'[o].list = IF o = thread[t].new THEN data[o].list \cup {thread[t].r}
                               ELSE IF o = thread[t].old THEN data[o].list \ {thread[t].r} ELSE data[o].list
         /\ SetsWeak(thread[t].r, thread[t].new, None)
         /\ holds' = holds
<1>1. Types /\ ThreadInv(t) /\ HoldsInv(t) /\ thread[t] \in ThreadRecord
  BY DEF Base, Types
<1>a. thread[t].at = "commit"
  BY DEF Commit, At, Lost, Step
<1>y. thread[t].r \in Weak
  BY <1>1, <1>a DEF ThreadInv, Placed, UnrefPlaces, SetPlaces, GetPlaces
<1>2. /\ thread[t].at = "commit"
      /\ thread[t].ptr = None \/ thread[t].ptr = thread[t].old
  BY <1>a, <1>y DEF Commit, At, Lost, Step
<1>t. thread' = [thread EXCEPT ![t].at = "release"]
  BY <1>2, <1>y DEF Commit, At, Lost, Step
<1>3. Goes(t, "release", thread[t].d, thread[t].mode, thread[t].frozen, thread[t].r,
          thread[t].new, thread[t].old, thread[t].ptr)
  BY <1>1, <1>y, <1>t, GoesAt DEF Places
<1>4. object' = object
  BY <1>1, <1>2, <1>y DEF Commit, At, Lost, Step, Types
<1>d. data' = [o \in Object |-> IF o \in {thread[t].old, thread[t].new}
        THEN [data[o] EXCEPT !.lock = None, !.list = IF o = thread[t].new THEN data[o].list \cup {thread[t].r} ELSE data[o].list \ {thread[t].r}]
        ELSE data[o]]
  BY <1>2, <1>y DEF Commit, At, Lost, Step
<1>5. /\ data' \in [Object -> DataType]
      /\ \A o \in Object : data'[o].refs = data[o].refs
      /\ \A o \in Object : data'[o].lock = IF o = thread[t].old \/ o = thread[t].new THEN None ELSE data[o].lock
      /\ \A o \in Object : data'[o].list = IF o = thread[t].new THEN data[o].list \cup {thread[t].r}
                            ELSE IF o = thread[t].old THEN data[o].list \ {thread[t].r} ELSE data[o].list
  BY <1>1, <1>y, <1>d DEF Types, DataType
<1>w. weak' = [weak EXCEPT ![thread[t].r] = [ptr |-> thread[t].new, lock |-> None]]
  BY <1>2, <1>y DEF Commit, At, Lost, Step
<1>v. thread[t].new \in Object \cup {None}
  BY <1>1, <1>y DEF Types, WeakRecord, ThreadRecord
<1>6. SetsWeak(thread[t].r, thread[t].new, None)
  BY <1>1, <1>y, <1>v, <1>w, SetsBoth
<1>7. holds' = holds
  BY <1>2, <1>y DEF Commit, At, Lost, Step
<1> QED
  BY <1>2, <1>3, <1>4, <1>5, <1>6, <1>7

LEMMA DidReleaseIdle ==
  ASSUME Base, NEW t \in Thread, Release(t), thread[t].d = None
  PROVE  /\ thread[t].at = "release"
         /\ thread[t].d = None
         /\ Goes(t, "idle", None, "check", FALSE, None, None, None, None)
         /\ object' = object
         /\ SetsData(thread[t].old, data[thread[t].old].refs - 1, data[thread[t].old].lock, data[thread[t].old].list)
         /\ weak' = weak
         /\ holds' = holds
<1>1. Types /\ ThreadInv(t) /\ HoldsInv(t) /\ thread[t] \in ThreadRecord
  BY DEF Base, Types
<1>a. thread[t].at = "release"
  BY DEF Release, At, D, Return
<1>y. thread[t].r \in Weak
  BY <1>1, <1>a DEF ThreadInv, Placed, UnrefPlaces, SetPlaces, GetPlaces
<1>2. /\ thread[t].at = "release"
      /\ thread[t].d = None
  BY <1>a, <1>y DEF Release, At, D, Return
<1>t. thread' = [thread EXCEPT ![t] = Resting]
  BY <1>2, <1>y DEF Release, At, D, Return
<1>3. Goes(t, "idle", None, "check", FALSE, None, None, None, None)
  BY <1>1, <1>y, <1>t, GoesRest
<1>4. object' = object
  BY <1>1, <1>2, <1>y DEF Release, At, D, Return, Types
<1>d. data' = [o \in Object |->
               IF o = thread[t].old THEN [data[o] EXCEPT !.refs = @ - 1] ELSE data[o]]
  BY <1>2, <1>y DEF Release, At, D, Return
<1>5. SetsData(thread[t].old, data[thread[t].old].refs - 1, data[thread[t].old].lock, data[thread[t].old].list)
  BY <1>1, <1>d, CountsLess
<1>6. weak' = weak
  BY <1>2, <1>y DEF Release, At, D, Return
<1>7. holds' = holds
  BY <1>2, <1>y DEF Release, At, D, Return
<1> QED
  BY <1>2, <1>3, <1>4, <1>5, <1>6, <1>7

LEMMA DidReleaseDispose ==
  ASSUME Base, NEW t \in Thread, Release(t), thread[t].d # None
  PROVE  /\ thread[t].at = "release"
         /\ thread[t].d # None
         /\ Goes(t, "dispose", thread[t].d, thread[t].mode, thread[t].frozen, None, None, None,
             None)
         /\ object' = object
         /\ SetsData(thread[t].old, data[thread[t].old].refs - 1, data[thread[t].old].lock, data[thread[t].old].list)
         /\ weak' = weak
         /\ holds' = holds
<1>1. Types /\ ThreadInv(t) /\ HoldsInv(t) /\ thread[t] \in ThreadRecord
  BY DEF Base, Types
<1>a. thread[t].at = "release"
  BY DEF Release, At, D, Return
<1>y. thread[t].r \in Weak
  BY <1>1, <1>a DEF ThreadInv, Placed, UnrefPlaces, SetPlaces, GetPlaces
<1>2. /\ thread[t].at = "release"
      /\ thread[t].d # None
  BY <1>a, <1>y DEF Release, At, D, Return
<1>t. thread' = [thread EXCEPT ![t] = [thread[t] EXCEPT !.at = "dispose", !.r = None, !.new =
                    None,
                                                 !.old = None, !.ptr
                    = None]]
  BY <1>2, <1>y DEF Release, At, D, Return
<1>3. Goes(t, "dispose", thread[t].d, thread[t].mode, thread[t].frozen, None, None, None, None)
  BY <1>1, <1>y, <1>t, GoesDispose
<1>4. object' = object
  BY <1>1, <1>2, <1>y DEF Release, At, D, Return, Types
<1>d. data' = [o \in Object |->
               IF o = thread[t].old THEN [data[o] EXCEPT !.refs = @ - 1] ELSE data[o]]
  BY <1>2, <1>y DEF Release, At, D, Return
<1>5. SetsData(thread[t].old, data[thread[t].old].refs - 1, data[thread[t].old].lock, data[thread[t].old].list)
  BY <1>1, <1>d, CountsLess
<1>6. weak' = weak
  BY <1>2, <1>y DEF Release, At, D, Return
<1>7. holds' = holds
  BY <1>2, <1>y DEF Release, At, D, Return
<1> QED
  BY <1>2, <1>3, <1>4, <1>5, <1>6, <1>7

LEMMA DidWeakRefGet ==
  ASSUME Base, NEW t \in Thread, NEW r \in Weak, WeakRefGet(t, r)
  PROVE  /\ thread[t].at = "idle"
         /\ weak[r].lock = None /\ \A o \in Object : holds[t][o] <= MaxHolds
         /\ Goes(t, "get reference", thread[t].d, thread[t].mode, thread[t].frozen, r,
             thread[t].new, thread[t].old, weak[r].ptr)
         /\ object' = object
         /\ data' = data
         /\ SetsWeak(r, weak[r].ptr, t)
         /\ holds' = holds
<1>1. Types /\ ThreadInv(t) /\ HoldsInv(t) /\ thread[t] \in ThreadRecord
  BY DEF Base, Types
<1>a. thread[t].at = "idle"
  BY DEF WeakRefGet, At, LockWeak
<1>2. /\ thread[t].at = "idle"
      /\ weak[r].lock = None /\ \A o \in Object : holds[t][o] <= MaxHolds
  BY <1>a DEF WeakRefGet, At, LockWeak
<1>t. thread' = [thread EXCEPT ![t].at = "get reference", ![t].r = r, ![t].ptr = weak[r].ptr]
  BY <1>2 DEF WeakRefGet, At, LockWeak
<1>p. weak[r].ptr \in Object \cup {None}
  BY <1>1 DEF Types, WeakRecord
<1>3. Goes(t, "get reference", thread[t].d, thread[t].mode, thread[t].frozen, r,
          thread[t].new, thread[t].old, weak[r].ptr)
  BY <1>1, <1>p, <1>t, GoesPtr DEF Places
<1>4. object' = object
  BY <1>1, <1>2 DEF WeakRefGet, At, LockWeak, Types
<1>5. data' = data
  BY <1>2 DEF WeakRefGet, At, LockWeak
<1>w. weak' = [weak EXCEPT ![r].lock = t]
  BY <1>2 DEF WeakRefGet, At, LockWeak
<1>6. SetsWeak(r, weak[r].ptr, t)
  BY <1>1, <1>w, LocksWeak
<1>7. holds' = holds
  BY <1>2 DEF WeakRefGet, At, LockWeak
<1> QED
  BY <1>2, <1>3, <1>4, <1>5, <1>6, <1>7

LEMMA DidGetReferenceNone ==
  ASSUME Base, NEW t \in Thread, GetReference(t), thread[t].ptr = None
  PROVE  /\ thread[t].at = "get reference"
         /\ Goes(t, "idle", None, "check", FALSE, None, None, None, None)
         /\ object' = object
         /\ data' = data
         /\ SetsWeak(thread[t].r, weak[thread[t].r].ptr, None)
         /\ holds' = holds
<1>1. Types /\ ThreadInv(t) /\ HoldsInv(t) /\ thread[t] \in ThreadRecord
  BY DEF Base, Types
<1>a. thread[t].at = "get reference"
  BY DEF GetReference, At, R
<1>y. thread[t].r \in Weak
  BY <1>1, <1>a DEF ThreadInv, Placed, UnrefPlaces, SetPlaces, GetPlaces
<1>2. thread[t].at = "get reference"
  BY <1>a
<1>t. thread' = [thread EXCEPT ![t] = Resting]
  BY <1>2, <1>y DEF GetReference, At, R
<1>3. Goes(t, "idle", None, "check", FALSE, None, None, None, None)
  BY <1>1, <1>y, <1>t, GoesRest
<1>4. object' = object
  BY <1>1, <1>2, <1>y DEF GetReference, At, R, Types
<1>5. data' = data
  <2>1. data' = [o \in Object |-> IF o = thread[t].ptr THEN [data[o] EXCEPT !.refs = @ + 1] ELSE data[o]]
    BY <1>2 DEF GetReference, At, R
  <2>2. \A o \in Object : o # thread[t].ptr
    BY RefsAssumption
  <2> QED
    BY <1>1, <2>1, <2>2 DEF Types
<1>w. weak' = [weak EXCEPT ![thread[t].r].lock = None]
  BY <1>2, <1>y DEF GetReference, At, R
<1>6. SetsWeak(thread[t].r, weak[thread[t].r].ptr, None)
  BY <1>1, <1>y, <1>w, LocksWeak
<1>7. holds' = holds
  BY <1>2, <1>y DEF GetReference, At, R
<1> QED
  BY <1>2, <1>3, <1>4, <1>5, <1>6, <1>7

LEMMA DidGetReferenceSome ==
  ASSUME Base, NEW t \in Thread, GetReference(t), thread[t].ptr # None
  PROVE  /\ thread[t].at = "get reference"
         /\ thread[t].ptr # None
         /\ Goes(t, "get data", thread[t].d, thread[t].mode, thread[t].frozen, thread[t].r,
             thread[t].new, thread[t].ptr, thread[t].ptr)
         /\ object' = object
         /\ SetsData(thread[t].ptr, data[thread[t].ptr].refs + 1, data[thread[t].ptr].lock, data[thread[t].ptr].list)
         /\ SetsWeak(thread[t].r, weak[thread[t].r].ptr, None)
         /\ holds' = holds
<1>1. Types /\ ThreadInv(t) /\ HoldsInv(t) /\ thread[t] \in ThreadRecord
  BY DEF Base, Types
<1>a. thread[t].at = "get reference"
  BY DEF GetReference, At, R
<1>y. thread[t].r \in Weak
  BY <1>1, <1>a DEF ThreadInv, Placed, UnrefPlaces, SetPlaces, GetPlaces
<1>2. /\ thread[t].at = "get reference"
      /\ thread[t].ptr # None
  BY <1>a, <1>y DEF GetReference, At, R
<1>t. thread' = [thread EXCEPT ![t].at = "get data", ![t].old = thread[t].ptr]
  BY <1>2, <1>y DEF GetReference, At, R
<1>p. thread[t].ptr \in Object \cup {None}
  BY <1>1 DEF ThreadRecord
<1>3. Goes(t, "get data", thread[t].d, thread[t].mode, thread[t].frozen, thread[t].r,
          thread[t].new, thread[t].ptr, thread[t].ptr)
  BY <1>1, <1>y, <1>p, <1>t, GoesOld DEF Places
<1>4. object' = object
  BY <1>1, <1>2, <1>y DEF GetReference, At, R, Types
<1>d. data' = [o \in Object |->
               IF o = thread[t].ptr THEN [data[o] EXCEPT !.refs = @ + 1] ELSE data[o]]
  BY <1>2, <1>y DEF GetReference, At, R
<1>5. SetsData(thread[t].ptr, data[thread[t].ptr].refs + 1, data[thread[t].ptr].lock, data[thread[t].ptr].list)
  BY <1>1, <1>d, CountsMore
<1>w. weak' = [weak EXCEPT ![thread[t].r].lock = None]
  BY <1>2, <1>y DEF GetReference, At, R
<1>6. SetsWeak(thread[t].r, weak[thread[t].r].ptr, None)
  BY <1>1, <1>y, <1>w, LocksWeak
<1>7. holds' = holds
  BY <1>2, <1>y DEF GetReference, At, R
<1> QED
  BY <1>2, <1>3, <1>4, <1>5, <1>6, <1>7

LEMMA DidGetData ==
  ASSUME Base, NEW t \in Thread, GetData(t)
  PROVE  /\ thread[t].at = "get data"
         /\ data[thread[t].old].lock = None
         /\ Goes(t, "get lock", thread[t].d, thread[t].mode, thread[t].frozen, thread[t].r,
             thread[t].new, thread[t].old, thread[t].ptr)
         /\ object' = object
         /\ SetsData(thread[t].old, data[thread[t].old].refs, t, data[thread[t].old].list)
         /\ weak' = weak
         /\ holds' = holds
<1>1. Types /\ ThreadInv(t) /\ HoldsInv(t) /\ thread[t] \in ThreadRecord
  BY DEF Base, Types
<1>a. thread[t].at = "get data"
  BY DEF GetData, At, LockData, SetData, Step
<1>y. thread[t].r \in Weak /\ thread[t].old \in Object /\ thread[t].old # None
  BY <1>1, <1>a, RefsAssumption DEF ThreadInv, Placed, UnrefPlaces, SetPlaces, GetPlaces
<1>2. /\ thread[t].at = "get data"
      /\ data[thread[t].old].lock = None
  BY <1>a, <1>y DEF GetData, At, LockData, SetData, Step
<1>t. thread' = [thread EXCEPT ![t].at = "get lock"]
  BY <1>2, <1>y DEF GetData, At, LockData, SetData, Step
<1>3. Goes(t, "get lock", thread[t].d, thread[t].mode, thread[t].frozen, thread[t].r,
          thread[t].new, thread[t].old, thread[t].ptr)
  BY <1>1, <1>y, <1>t, GoesAt DEF Places
<1>4. object' = object
  BY <1>1, <1>2, <1>y DEF GetData, At, LockData, SetData, Step, Types
<1>d. data' = [data EXCEPT ![thread[t].old] = [data[thread[t].old] EXCEPT !.lock = t]]
  BY <1>2, <1>y DEF GetData, At, LockData, SetData, Step
<1>5. SetsData(thread[t].old, data[thread[t].old].refs, t, data[thread[t].old].list)
  BY <1>1, <1>y, <1>d, LocksData
<1>6. weak' = weak
  BY <1>2, <1>y DEF GetData, At, LockData, SetData, Step
<1>7. holds' = holds
  BY <1>2, <1>y DEF GetData, At, LockData, SetData, Step
<1> QED
  BY <1>2, <1>3, <1>4, <1>5, <1>6, <1>7

LEMMA DidGetLock ==
  ASSUME Base, NEW t \in Thread, GetLock(t)
  PROVE  /\ thread[t].at = "get lock"
         /\ weak[thread[t].r].lock = None
         /\ Goes(t, "get object", thread[t].d, thread[t].mode, thread[t].frozen, thread[t].r,
             thread[t].new, thread[t].old, weak[thread[t].r].ptr)
         /\ object' = object
         /\ data' = data
         /\ SetsWeak(thread[t].r, weak[thread[t].r].ptr, t)
         /\ holds' = holds
<1>1. Types /\ ThreadInv(t) /\ HoldsInv(t) /\ thread[t] \in ThreadRecord
  BY DEF Base, Types
<1>a. thread[t].at = "get lock"
  BY DEF GetLock, At, R, LockWeak
<1>y. thread[t].r \in Weak /\ thread[t].old \in Object /\ thread[t].old # None
  BY <1>1, <1>a, RefsAssumption DEF ThreadInv, Placed, UnrefPlaces, SetPlaces, GetPlaces
<1>2. /\ thread[t].at = "get lock"
      /\ weak[thread[t].r].lock = None
  BY <1>a, <1>y DEF GetLock, At, R, LockWeak
<1>t. thread' = [thread EXCEPT ![t].at = "get object", ![t].r = thread[t].r, ![t].ptr =
                    weak[thread[t].r].ptr]
  BY <1>2, <1>y DEF GetLock, At, R, LockWeak
<1>p. weak[thread[t].r].ptr \in Object \cup {None}
  BY <1>1, <1>y DEF Types, WeakRecord
<1>3. Goes(t, "get object", thread[t].d, thread[t].mode, thread[t].frozen, thread[t].r,
          thread[t].new, thread[t].old, weak[thread[t].r].ptr)
  BY <1>1, <1>y, <1>p, <1>t, GoesPtr DEF Places
<1>4. object' = object
  BY <1>1, <1>2, <1>y DEF GetLock, At, R, LockWeak, Types
<1>5. data' = data
  BY <1>2, <1>y DEF GetLock, At, R, LockWeak
<1>w. weak' = [weak EXCEPT ![thread[t].r].lock = t]
  BY <1>2, <1>y DEF GetLock, At, R, LockWeak
<1>6. SetsWeak(thread[t].r, weak[thread[t].r].ptr, t)
  BY <1>1, <1>y, <1>w, LocksWeak
<1>7. holds' = holds
  BY <1>2, <1>y DEF GetLock, At, R, LockWeak
<1> QED
  BY <1>2, <1>3, <1>4, <1>5, <1>6, <1>7

LEMMA DidGetObjectTakes ==
  ASSUME Base, NEW t \in Thread, GetObject(t), thread[t].ptr = thread[t].old
  PROVE  /\ thread[t].at = "get object"
         /\ thread[t].ptr = thread[t].old
         /\ Goes(t, "release", thread[t].d, thread[t].mode, thread[t].frozen, thread[t].r,
             thread[t].new, thread[t].old, thread[t].ptr)
         /\ SetsObject(thread[t].old, object[thread[t].old].refs + 1,
             object[thread[t].old].freed, object[thread[t].old].ever,
             object[thread[t].old].frozen, object[thread[t].old].lock)
         /\ data' \in [Object -> DataType]
         /\ \A o \in Object : data'[o].refs = data[o].refs
         /\ \A o \in Object : data'[o].lock = IF o = thread[t].old THEN None ELSE data[o].lock
         /\ \A o \in Object : data'[o].list = data[o].list
         /\ SetsWeak(thread[t].r, weak[thread[t].r].ptr, None)
         /\ SetsHolds(t, thread[t].old, holds[t][thread[t].old] + 1)
<1>1. Types /\ ThreadInv(t) /\ HoldsInv(t) /\ thread[t] \in ThreadRecord
  BY DEF Base, Types
<1>a. thread[t].at = "get object"
  BY DEF GetObject, At, ObjectRef, Set, Step
<1>y. thread[t].r \in Weak /\ thread[t].old \in Object /\ thread[t].old # None
  BY <1>1, <1>a, RefsAssumption DEF ThreadInv, Placed, UnrefPlaces, SetPlaces, GetPlaces
<1>2. /\ thread[t].at = "get object"
      /\ thread[t].ptr = thread[t].old
  BY <1>a, <1>y DEF GetObject, At, ObjectRef, Set, Step
<1>t. thread' = [thread EXCEPT ![t].at = "release"]
  BY <1>2, <1>y DEF GetObject, At, ObjectRef, Set, Step
<1>3. Goes(t, "release", thread[t].d, thread[t].mode, thread[t].frozen, thread[t].r,
          thread[t].new, thread[t].old, thread[t].ptr)
  BY <1>1, <1>y, <1>t, GoesAt DEF Places
<1>o. object' = [object EXCEPT ![thread[t].old] = [object[thread[t].old] EXCEPT !.refs =
                    object[thread[t].old].refs + 1]]
  BY <1>2, <1>y DEF GetObject, At, ObjectRef, Set, Step
<1>e. object[thread[t].old].refs + 1 \in Nat
  BY <1>1, <1>y DEF Types, ObjectType
<1>4. SetsObject(thread[t].old, object[thread[t].old].refs + 1, object[thread[t].old].freed,
          object[thread[t].old].ever, object[thread[t].old].frozen,
          object[thread[t].old].lock)
  BY <1>1, <1>y, <1>e, <1>o, SetsRefs
<1>d. data' = [o \in Object |-> [data[o] EXCEPT !.lock = IF o = thread[t].old THEN None ELSE @]]
  BY <1>2, <1>y DEF GetObject, At, ObjectRef, Set, Step
<1>5. /\ data' \in [Object -> DataType]
      /\ \A o \in Object : data'[o].refs = data[o].refs
      /\ \A o \in Object : data'[o].lock = IF o = thread[t].old THEN None ELSE data[o].lock
      /\ \A o \in Object : data'[o].list = data[o].list
  BY <1>1, <1>y, <1>d DEF Types, DataType
<1>w. weak' = [weak EXCEPT ![thread[t].r].lock = None]
  BY <1>2, <1>y DEF GetObject, At, ObjectRef, Set, Step
<1>6. SetsWeak(thread[t].r, weak[thread[t].r].ptr, None)
  BY <1>1, <1>y, <1>w, LocksWeak
<1>h. holds' = [holds EXCEPT ![t][thread[t].old] = @ + 1]
  BY <1>2, <1>y DEF GetObject, At, ObjectRef, Set, Step
<1>m. holds[t][thread[t].old] <= MaxHolds
  BY <1>1, <1>2, <1>y, RefsAssumption DEF Types, HoldsInv, GetPlaces
<1>7. SetsHolds(t, thread[t].old, holds[t][thread[t].old] + 1)
  BY <1>1, <1>y, <1>h, <1>m, HoldsOneMore
<1> QED
  BY <1>2, <1>3, <1>4, <1>5, <1>6, <1>7

LEMMA DidGetObjectNone ==
  ASSUME Base, NEW t \in Thread, GetObject(t), thread[t].ptr = None
  PROVE  /\ thread[t].at = "get object"
         /\ thread[t].ptr = None
         /\ Goes(t, "release", thread[t].d, thread[t].mode, thread[t].frozen, thread[t].r,
             thread[t].new, thread[t].old, thread[t].ptr)
         /\ object' = object
         /\ data' \in [Object -> DataType]
         /\ \A o \in Object : data'[o].refs = data[o].refs
         /\ \A o \in Object : data'[o].lock = IF o = thread[t].old THEN None ELSE data[o].lock
         /\ \A o \in Object : data'[o].list = data[o].list
         /\ SetsWeak(thread[t].r, weak[thread[t].r].ptr, None)
         /\ holds' = holds
<1>1. Types /\ ThreadInv(t) /\ HoldsInv(t) /\ thread[t] \in ThreadRecord
  BY DEF Base, Types
<1>a. thread[t].at = "get object"
  BY DEF GetObject, At, Step, ObjectRef, Set
<1>y. thread[t].r \in Weak /\ thread[t].old \in Object /\ thread[t].old # None
  BY <1>1, <1>a, RefsAssumption DEF ThreadInv, Placed, UnrefPlaces, SetPlaces, GetPlaces
<1>2. /\ thread[t].at = "get object"
      /\ thread[t].ptr = None
  BY <1>a, <1>y DEF GetObject, At, Step, ObjectRef, Set
<1>t. thread' = [thread EXCEPT ![t].at = "release"]
  BY <1>2, <1>y DEF GetObject, At, Step, ObjectRef, Set
<1>3. Goes(t, "release", thread[t].d, thread[t].mode, thread[t].frozen, thread[t].r,
          thread[t].new, thread[t].old, thread[t].ptr)
  BY <1>1, <1>y, <1>t, GoesAt DEF Places
<1>4. object' = object
  BY <1>1, <1>2, <1>y DEF GetObject, At, Step, ObjectRef, Set, Types
<1>d. data' = [o \in Object |-> [data[o] EXCEPT !.lock = IF o = thread[t].old THEN None ELSE @]]
  BY <1>2, <1>y DEF GetObject, At, Step, ObjectRef, Set
<1>5. /\ data' \in [Object -> DataType]
      /\ \A o \in Object : data'[o].refs = data[o].refs
      /\ \A o \in Object : data'[o].lock = IF o = thread[t].old THEN None ELSE data[o].lock
      /\ \A o \in Object : data'[o].list = data[o].list
  BY <1>1, <1>y, <1>d DEF Types, DataType
<1>w. weak' = [weak EXCEPT ![thread[t].r].lock = None]
  BY <1>2, <1>y DEF GetObject, At, Step, ObjectRef, Set
<1>6. SetsWeak(thread[t].r, weak[thread[t].r].ptr, None)
  BY <1>1, <1>y, <1>w, LocksWeak
<1>7. holds' = holds
  BY <1>2, <1>y DEF GetObject, At, Step, ObjectRef, Set
<1> QED
  BY <1>2, <1>3, <1>4, <1>5, <1>6, <1>7

LEMMA DidGetObjectOther ==
  ASSUME Base, NEW t \in Thread, GetObject(t), thread[t].ptr # thread[t].old, thread[t].ptr #
         None
  PROVE  /\ thread[t].at = "get object"
         /\ thread[t].ptr # thread[t].old /\ thread[t].ptr # None
         /\ Goes(t, "get data", thread[t].d, thread[t].mode, thread[t].frozen, thread[t].r,
             thread[t].new, thread[t].ptr, thread[t].ptr)
         /\ object' = object
         /\ data' \in [Object -> DataType]
         /\ \A o \in Object : data'[o].refs = IF o = thread[t].ptr THEN data[o].refs + 1
                               ELSE IF o = thread[t].old THEN data[o].refs - 1 ELSE data[o].refs
         /\ \A o \in Object : data'[o].lock = IF o = thread[t].old THEN None ELSE data[o].lock
         /\ \A o \in Object : data'[o].list = data[o].list
         /\ SetsWeak(thread[t].r, weak[thread[t].r].ptr, None)
         /\ holds' = holds
<1>1. Types /\ ThreadInv(t) /\ HoldsInv(t) /\ thread[t] \in ThreadRecord
  BY DEF Base, Types
<1>a. thread[t].at = "get object"
  BY DEF GetObject, At, Step, ObjectRef, Set
<1>y. thread[t].r \in Weak /\ thread[t].old \in Object /\ thread[t].old # None
  BY <1>1, <1>a, RefsAssumption DEF ThreadInv, Placed, UnrefPlaces, SetPlaces, GetPlaces
<1>2. /\ thread[t].at = "get object"
      /\ thread[t].ptr # thread[t].old /\ thread[t].ptr # None
  BY <1>a, <1>y DEF GetObject, At, Step, ObjectRef, Set
<1>t. thread' = [thread EXCEPT ![t].at = "get data", ![t].old = thread[t].ptr]
  BY <1>2, <1>y DEF GetObject, At, Step, ObjectRef, Set
<1>p. thread[t].ptr \in Object \cup {None}
  BY <1>1 DEF ThreadRecord
<1>3. Goes(t, "get data", thread[t].d, thread[t].mode, thread[t].frozen, thread[t].r,
          thread[t].new, thread[t].ptr, thread[t].ptr)
  BY <1>1, <1>y, <1>p, <1>t, GoesOld DEF Places
<1>4. object' = object
  BY <1>1, <1>2, <1>y DEF GetObject, At, Step, ObjectRef, Set, Types
<1>d. data' = [o \in Object |-> CASE o = thread[t].ptr -> [data[o] EXCEPT !.refs = @ + 1]
        [] o = thread[t].old -> [[data[o] EXCEPT !.lock = IF o = thread[t].old THEN None ELSE @] EXCEPT !.refs = @ - 1]
        [] OTHER -> data[o]]
  BY <1>2, <1>y DEF GetObject, At, Step, ObjectRef, Set
<1>5. /\ data' \in [Object -> DataType]
      /\ \A o \in Object : data'[o].refs = IF o = thread[t].ptr THEN data[o].refs + 1
                            ELSE IF o = thread[t].old THEN data[o].refs - 1 ELSE data[o].refs
      /\ \A o \in Object : data'[o].lock = IF o = thread[t].old THEN None ELSE data[o].lock
      /\ \A o \in Object : data'[o].list = data[o].list
  <2> SUFFICES ASSUME NEW o \in Object
               PROVE  /\ data'[o] \in DataType
                      /\ data'[o].refs = IF o = thread[t].ptr THEN data[o].refs + 1
                                        ELSE IF o = thread[t].old THEN data[o].refs - 1 ELSE data[o].refs
                      /\ data'[o].lock = IF o = thread[t].old THEN None ELSE data[o].lock
                      /\ data'[o].list = data[o].list
    BY <1>d
  <2>1. data[o] \in DataType
    BY <1>1 DEF Types
  <2>2. CASE o = thread[t].ptr
    <3>1. data'[o] = [data[o] EXCEPT !.refs = @ + 1]
      BY <1>2, <1>d, <2>2
    <3>2. data[o].refs + 1 \in Int
      BY <2>1 DEF DataType
    <3> QED
      BY <1>2, <2>1, <2>2, <3>1, <3>2 DEF DataType
  <2>3. CASE o = thread[t].old
    <3>1. data'[o] = [[data[o] EXCEPT !.lock = None] EXCEPT !.refs = @ - 1]
      BY <1>2, <1>d, <2>3
    <3>2. data[o].refs - 1 \in Int
      BY <2>1 DEF DataType
    <3>3. /\ data'[o] \in DataType /\ data'[o].refs = data[o].refs - 1
          /\ data'[o].lock = None /\ data'[o].list = data[o].list
      BY <2>1, <3>1, <3>2 DEF DataType
    <3> QED
      BY <1>2, <2>3, <3>3
  <2>4. CASE o # thread[t].ptr /\ o # thread[t].old
    BY <1>d, <2>1, <2>4
  <2> QED
    BY <2>2, <2>3, <2>4
<1>w. weak' = [weak EXCEPT ![thread[t].r].lock = None]
  BY <1>2, <1>y DEF GetObject, At, Step, ObjectRef, Set
<1>6. SetsWeak(thread[t].r, weak[thread[t].r].ptr, None)
  BY <1>1, <1>y, <1>w, LocksWeak
<1>7. holds' = holds
  BY <1>2, <1>y DEF GetObject, At, Step, ObjectRef, Set
<1> QED
  BY <1>2, <1>3, <1>4, <1>5, <1>6, <1>7

--------------------------------------------------------------------------------
(* What a step of one thread leaves alone. *)

\* The thread's own part of Base is enough.
LEMMA BaseStep ==
  ASSUME Base, NEW t \in Thread,
         NEW a, NEW d, NEW m, NEW f, NEW r, NEW n, NEW p, NEW q,
         Goes(t, a, d, m, f, r, n, p, q),
         object' \in [Object -> ObjectType], data' \in [Object -> DataType],
         weak' \in [Weak -> WeakRecord], holds' \in [Thread -> [Object -> 0 .. MaxHolds + 1]],
         Placed(a, d, m, f, r, n, p, q),
         n # None => holds'[t][n] # 0 \/ n = d,
         a \in GetPlaces => \A o \in Object : holds'[t][o] <= MaxHolds,
         \A v \in Thread \ {t}, o \in Object :
            /\ holds[v][o] # 0 => holds'[v][o] # 0
            /\ holds[v][o] <= MaxHolds => holds'[v][o] <= MaxHolds
  PROVE  Base'
<1>1. Types'
  BY DEF Types, Goes
<1>2. ThreadInv(t)' /\ HoldsInv(t)'
  BY DEF ThreadInv, HoldsInv, Goes
<1>3. ASSUME NEW v \in Thread \ {t}
      PROVE  ThreadInv(v)' /\ HoldsInv(v)'
  <2>1. thread'[v] = thread[v]
    BY DEF Goes
  <2>2. ThreadInv(v) /\ HoldsInv(v) /\ thread[v].new \in Object \cup {None}
    BY DEF Base, Types, ThreadRecord
  <2>3. ThreadInv(v)'
    BY <2>1, <2>2 DEF ThreadInv
  <2>4. HoldsInv(v)'
    BY <2>1, <2>2 DEF HoldsInv
  <2> QED
    BY <2>3, <2>4
<1> QED
  BY <1>1, <1>2, <1>3 DEF Base

LEMMA BaseKept ==
  ASSUME Base, NEW t \in Thread,
         NEW a, NEW d, NEW m, NEW f, NEW r, NEW n, NEW p, NEW q,
         Goes(t, a, d, m, f, r, n, p, q),
         object' \in [Object -> ObjectType], data' \in [Object -> DataType],
         weak' \in [Weak -> WeakRecord], holds' = holds,
         Placed(a, d, m, f, r, n, p, q),
         n # None => holds[t][n] # 0 \/ n = d,
         a \in GetPlaces => \A o \in Object : holds[t][o] <= MaxHolds
  PROVE  Base'
<1>1. holds' \in [Thread -> [Object -> 0 .. MaxHolds + 1]]
  BY DEF Base, Types
<1> QED
  BY <1>1, BaseStep

LEMMA ObjectLocksStep ==
  ASSUME Base, ObjectLocks, NEW t \in Thread,
         NEW a, NEW d, NEW m, NEW f, NEW r, NEW n, NEW p, NEW q,
         Goes(t, a, d, m, f, r, n, p, q),
         \A o \in Object : \/ object'[o].lock = object[o].lock
                           \/ object[o].lock \in {None, t} /\ object'[o].lock \in {None, t},
         \A o \in Object : object'[o].lock = t <=> a = "toggle" /\ d = o
  PROVE  ObjectLocks'
<1>1. ASSUME NEW u \in Thread \ {t}, NEW o \in Object
      PROVE  object'[o].lock = u <=> thread'[u].at = "toggle" /\ thread'[u].d = o
  <2>1. thread'[u] = thread[u] /\ u # None /\ u # t
    BY RefsAssumption DEF Goes
  <2>2. object[o].lock = u <=> thread[u].at = "toggle" /\ thread[u].d = o
    BY DEF ObjectLocks
  <2>3. object'[o].lock = u <=> object[o].lock = u
    BY <2>1
  <2> QED
    BY <2>1, <2>2, <2>3
<1>2. \A o \in Object : object'[o].lock = t <=> thread'[t].at = "toggle" /\ thread'[t].d = o
  BY DEF Goes
<1> QED
  BY <1>1, <1>2 DEF ObjectLocks

LEMMA ObjectLocksKept ==
  ASSUME Base, ObjectLocks, NEW t \in Thread,
         NEW a, NEW d, NEW m, NEW f, NEW r, NEW n, NEW p, NEW q,
         Goes(t, a, d, m, f, r, n, p, q),
         \A o \in Object : object'[o].lock = object[o].lock,
         thread[t].at # "toggle", a # "toggle"
  PROVE  ObjectLocks'
<1>1. \A o \in Object : object'[o].lock = t <=> a = "toggle" /\ d = o
  BY DEF ObjectLocks
<1>2. \A o \in Object : \/ object'[o].lock = object[o].lock
                        \/ object[o].lock \in {None, t} /\ object'[o].lock \in {None, t}
  OBVIOUS
<1> QED
  BY <1>1, <1>2, ObjectLocksStep

LEMMA DataLocksStep ==
  ASSUME Base, DataLocks, NEW t \in Thread,
         NEW a, NEW d, NEW m, NEW f, NEW r, NEW n, NEW p, NEW q,
         Goes(t, a, d, m, f, r, n, p, q),
         \A o \in Object : \/ data'[o].lock = data[o].lock
                           \/ data[o].lock \in {None, t} /\ data'[o].lock \in {None, t},
         \A o \in Object : data'[o].lock = t <=> HasData(t, o)'
  PROVE  DataLocks'
<1>1. ASSUME NEW u \in Thread \ {t}, NEW o \in Object
      PROVE  data'[o].lock = u <=> HasData(u, o)'
  <2>1. thread'[u] = thread[u] /\ u # None /\ u # t
    BY RefsAssumption DEF Goes
  <2>2. data[o].lock = u <=> HasData(u, o)
    BY DEF DataLocks
  <2>3. data'[o].lock = u <=> data[o].lock = u
    BY <2>1
  <2>4. HasData(u, o)' <=> HasData(u, o)
    BY <2>1 DEF HasData, First, Order
  <2> QED
    BY <2>2, <2>3, <2>4
<1> QED
  BY <1>1 DEF DataLocks

LEMMA DataLocksKept ==
  ASSUME Base, DataLocks, NEW t \in Thread,
         NEW a, NEW d, NEW m, NEW f, NEW r, NEW n, NEW p, NEW q,
         Goes(t, a, d, m, f, r, n, p, q),
         \A o \in Object : data'[o].lock = data[o].lock,
         thread[t].at \notin DataLocked, a \notin DataLocked
  PROVE  DataLocks'
<1>1. \A o \in Object : ~HasData(t, o) /\ ~HasData(t, o)'
  BY DEF HasData, DataLocked, Goes
<1>2. \A o \in Object : data'[o].lock = t <=> HasData(t, o)'
  BY <1>1 DEF DataLocks
<1>3. \A o \in Object : \/ data'[o].lock = data[o].lock
                        \/ data[o].lock \in {None, t} /\ data'[o].lock \in {None, t}
  OBVIOUS
<1> QED
  BY <1>2, <1>3, DataLocksStep

LEMMA WeakLocksStep ==
  ASSUME Base, WeakLocks, NEW t \in Thread,
         NEW a, NEW d, NEW m, NEW f, NEW r, NEW n, NEW p, NEW q,
         Goes(t, a, d, m, f, r, n, p, q),
         \A k \in Weak : \/ weak'[k] = weak[k]
                         \/ weak[k].lock \in {None, t} /\ weak'[k].lock \in {None, t},
         \A k \in Weak : weak'[k].lock = t <=> r = k /\ a \in WeakLocked,
         a \in WeakLocked => q = weak'[r].ptr
  PROVE  WeakLocks'
<1>1. ASSUME NEW u \in Thread \ {t}, NEW k \in Weak
      PROVE  /\ weak'[k].lock = u <=> HasWeak(u, k)'
             /\ HasWeak(u, k)' => thread'[u].ptr = weak'[k].ptr
  <2>1. thread'[u] = thread[u] /\ u # None /\ u # t
    BY RefsAssumption DEF Goes
  <2>2. /\ weak[k].lock = u <=> HasWeak(u, k)
        /\ HasWeak(u, k) => thread[u].ptr = weak[k].ptr
    BY DEF WeakLocks
  <2>3. weak'[k] = weak[k] \/ (weak[k].lock # u /\ weak'[k].lock # u)
    BY <2>1
  <2>4. HasWeak(u, k)' <=> HasWeak(u, k)
    BY <2>1 DEF HasWeak
  <2> QED
    BY <2>1, <2>2, <2>3, <2>4
<1>2. ASSUME NEW k \in Weak
      PROVE  /\ weak'[k].lock = t <=> HasWeak(t, k)'
             /\ HasWeak(t, k)' => thread'[t].ptr = weak'[k].ptr
  BY DEF HasWeak, Goes
<1> QED
  BY <1>1, <1>2 DEF WeakLocks

LEMMA WeakLocksKept ==
  ASSUME Base, WeakLocks, NEW t \in Thread,
         NEW a, NEW d, NEW m, NEW f, NEW r, NEW n, NEW p, NEW q,
         Goes(t, a, d, m, f, r, n, p, q),
         weak' = weak, thread[t].at \notin WeakLocked, a \notin WeakLocked
  PROVE  WeakLocks'
<1>1. \A k \in Weak : weak'[k].lock = t <=> r = k /\ a \in WeakLocked
  BY DEF WeakLocks, HasWeak
<1>2. \A k \in Weak : \/ weak'[k] = weak[k]
                      \/ weak[k].lock \in {None, t} /\ weak'[k].lock \in {None, t}
  OBVIOUS
<1> QED
  BY <1>1, <1>2, WeakLocksStep

LEMMA ListsStep ==
  ASSUME Base, Lists, NEW t \in Thread,
         NEW a, NEW d, NEW m, NEW f, NEW r, NEW n, NEW p, NEW q,
         Goes(t, a, d, m, f, r, n, p, q),
         \A o \in Object : object[o].ever => object'[o].ever,
         \A k \in Weak, o \in Object : weak'[k].ptr = o <=> k \in data'[o].list,
         \A k \in Weak, o \in Object : weak'[k].ptr = o => object'[o].ever,
         p \in Object => object'[p].ever,
         n \in Object /\ a # "create" => object'[n].ever
  PROVE  Lists'
<1>1. ASSUME NEW u \in Thread \ {t}, NEW o \in Object
      PROVE  /\ thread'[u].old = o => object'[o].ever
             /\ thread'[u].new = o /\ thread'[u].at # "create" => object'[o].ever
  <2>1. thread'[u] = thread[u]
    BY DEF Goes
  <2>2. /\ thread[u].old = o => object[o].ever
        /\ thread[u].new = o /\ thread[u].at # "create" => object[o].ever
    BY DEF Lists
  <2> QED
    BY <2>1, <2>2
<1>2. ASSUME NEW o \in Object
      PROVE  /\ thread'[t].old = o => object'[o].ever
             /\ thread'[t].new = o /\ thread'[t].at # "create" => object'[o].ever
  BY DEF Goes
<1> QED
  BY <1>1, <1>2 DEF Lists

LEMMA ListsKept ==
  ASSUME Base, Lists, NEW t \in Thread,
         NEW a, NEW d, NEW m, NEW f, NEW r, NEW n, NEW p, NEW q,
         Goes(t, a, d, m, f, r, n, p, q),
         \A o \in Object : object[o].ever => object'[o].ever,
         \A k \in Weak : weak'[k].ptr = weak[k].ptr,
         \A o \in Object : data'[o].list = data[o].list,
         p \in Object => object'[p].ever,
         n \in Object /\ a # "create" => object'[n].ever
  PROVE  Lists'
<1>1. \A k \in Weak, o \in Object : weak'[k].ptr = o <=> k \in data'[o].list
  BY DEF Lists
<1>2. \A k \in Weak, o \in Object : weak'[k].ptr = o => object'[o].ever
  BY DEF Lists
<1> QED
  BY <1>1, <1>2, ListsStep

LEMMA ObjectLocksReleased ==
  ASSUME Base, ObjectLocks, NEW t \in Thread,
         NEW a, NEW d, NEW m, NEW f, NEW r, NEW n, NEW p, NEW q,
         Goes(t, a, d, m, f, r, n, p, q),
         \A o \in Object : \/ object'[o].lock = object[o].lock
                           \/ object[o].lock \in {None, t} /\ object'[o].lock \in {None, t},
         \A o \in Object : object'[o].lock # t,
         a # "toggle"
  PROVE  ObjectLocks'
<1>1. \A o \in Object : object'[o].lock = t <=> a = "toggle" /\ d = o
  OBVIOUS
<1> QED
  BY <1>1, ObjectLocksStep

LEMMA WeakLocksReleased ==
  ASSUME Base, WeakLocks, NEW t \in Thread,
         NEW a, NEW d, NEW m, NEW f, NEW r, NEW n, NEW p, NEW q,
         Goes(t, a, d, m, f, r, n, p, q),
         \A k \in Weak : \/ weak'[k] = weak[k]
                         \/ weak[k].lock \in {None, t} /\ weak'[k].lock \in {None, t},
         \A k \in Weak : weak'[k].lock # t,
         a \notin WeakLocked
  PROVE  WeakLocks'
<1>1. \A k \in Weak : weak'[k].lock = t <=> r = k /\ a \in WeakLocked
  OBVIOUS
<1> QED
  BY <1>1, WeakLocksStep

LEMMA WeakLocksTaken ==
  ASSUME Base, WeakLocks, NEW t \in Thread,
         \A u \in Thread \ {t} : thread'[u] = thread[u],
         \A k \in Weak : \/ weak'[k] = weak[k]
                         \/ weak[k].lock \in {None, t} /\ weak'[k].lock \in {None, t},
         \A k \in Weak : weak'[k].lock = t <=> thread'[t].r = k,
         thread'[t].at \in WeakLocked, thread'[t].ptr = weak'[thread'[t].r].ptr
  PROVE  WeakLocks'
<1>1. ASSUME NEW u \in Thread \ {t}, NEW k \in Weak
      PROVE  /\ weak'[k].lock = u <=> HasWeak(u, k)'
             /\ HasWeak(u, k)' => thread'[u].ptr = weak'[k].ptr
  <2>1. thread'[u] = thread[u] /\ u # None /\ u # t
    BY RefsAssumption
  <2>2. /\ weak[k].lock = u <=> HasWeak(u, k)
        /\ HasWeak(u, k) => thread[u].ptr = weak[k].ptr
    BY DEF WeakLocks
  <2>3. weak'[k] = weak[k] \/ (weak[k].lock # u /\ weak'[k].lock # u)
    BY <2>1
  <2>4. HasWeak(u, k)' <=> HasWeak(u, k)
    BY <2>1 DEF HasWeak
  <2> QED
    BY <2>1, <2>2, <2>3, <2>4
<1>2. ASSUME NEW k \in Weak
      PROVE  /\ weak'[k].lock = t <=> HasWeak(t, k)'
             /\ HasWeak(t, k)' => thread'[t].ptr = weak'[k].ptr
  BY DEF HasWeak
<1> QED
  BY <1>1, <1>2 DEF WeakLocks

--------------------------------------------------------------------------------
(* The counts of an object. *)

LEMMA CountsFinite ==
  ASSUME Types, NEW o \in Object
  PROVE  /\ IsFiniteSet(InFlight(o)) /\ Cardinality(InFlight(o)) \in Nat
         /\ IsFiniteSet(Held(o)) /\ Cardinality(Held(o)) \in Nat
<1>1. InFlight(o) \subseteq Thread /\ IsFiniteSet(Thread)
  BY RefsAssumption DEF InFlight
<1>2. IsFiniteSet(InFlight(o))
  BY <1>1, FS_Subset
<1>3. IsFiniteSet(1 .. MaxHolds + 1)
  BY RefsAssumption, FS_Interval
<1>4. IsFiniteSet(Thread \X (1 .. MaxHolds + 1))
  BY <1>1, <1>3, FS_Product
<1>5. Held(o) \subseteq Thread \X (1 .. MaxHolds + 1)
  BY DEF Held
<1>6. IsFiniteSet(Held(o))
  BY <1>4, <1>5, FS_Subset
<1> QED
  BY <1>2, <1>6, FS_CardinalityType

LEMMA InFlightIs ==
  ASSUME NEW o \in Object, NEW t \in Thread
  PROVE  t \in InFlight(o) <=> Flies(t, o)
  BY DEF InFlight, Flies, Doomed, D

LEMMA InFlightIsThen ==
  ASSUME NEW o \in Object, NEW t \in Thread
  PROVE  t \in InFlight(o)' <=> Flies(t, o)'
  BY DEF InFlight, Flies, Doomed, D

LEMMA OthersFly ==
  ASSUME NEW o \in Object, NEW t \in Thread,
         \A u \in Thread \ {t} : thread'[u] = thread[u],
         NEW u \in Thread \ {t}
  PROVE  u \in InFlight(o)' <=> u \in InFlight(o)
<1>1. thread'[u] = thread[u]
  OBVIOUS
<1>2. Flies(u, o)' <=> Flies(u, o)
  BY <1>1 DEF Flies, Doomed
<1> QED
  BY <1>2, InFlightIs, InFlightIsThen

\* A step of one thread changes the references in flight by at most its own.
LEMMA FlightSame ==
  ASSUME NEW o \in Object, NEW t \in Thread,
         \A u \in Thread \ {t} : thread'[u] = thread[u],
         Flies(t, o)' <=> Flies(t, o)
  PROVE  InFlight(o)' = InFlight(o)
<1>1. InFlight(o) \subseteq Thread /\ InFlight(o)' \subseteq Thread
  BY DEF InFlight
<1>2. t \in InFlight(o)' <=> t \in InFlight(o)
  BY InFlightIs, InFlightIsThen
<1>3. \A u \in Thread \ {t} : u \in InFlight(o)' <=> u \in InFlight(o)
  BY OthersFly
<1> QED
  BY <1>1, <1>2, <1>3

LEMMA FlightMore ==
  ASSUME Types, NEW o \in Object, NEW t \in Thread,
         \A u \in Thread \ {t} : thread'[u] = thread[u],
         ~Flies(t, o), Flies(t, o)'
  PROVE  Cardinality(InFlight(o))' = Cardinality(InFlight(o)) + 1
<1>1. InFlight(o) \subseteq Thread /\ InFlight(o)' \subseteq Thread
  BY DEF InFlight
<1>2. t \notin InFlight(o) /\ t \in InFlight(o)'
  BY InFlightIs, InFlightIsThen
<1>3. \A u \in Thread \ {t} : u \in InFlight(o)' <=> u \in InFlight(o)
  BY OthersFly
<1>4. InFlight(o)' = InFlight(o) \cup {t}
  BY <1>1, <1>2, <1>3
<1>5. IsFiniteSet(InFlight(o))
  BY CountsFinite
<1>6. Cardinality(InFlight(o) \cup {t}) = Cardinality(InFlight(o)) + 1
  BY <1>2, <1>5, FS_AddElement
<1> QED
  BY <1>4, <1>6

LEMMA FlightLess ==
  ASSUME Types, NEW o \in Object, NEW t \in Thread,
         \A u \in Thread \ {t} : thread'[u] = thread[u],
         Flies(t, o), ~Flies(t, o)'
  PROVE  Cardinality(InFlight(o))' = Cardinality(InFlight(o)) - 1
<1>1. InFlight(o) \subseteq Thread /\ InFlight(o)' \subseteq Thread
  BY DEF InFlight
<1>2. t \in InFlight(o) /\ t \notin InFlight(o)'
  BY InFlightIs, InFlightIsThen
<1>3. \A u \in Thread \ {t} : u \in InFlight(o)' <=> u \in InFlight(o)
  BY OthersFly
<1>4. InFlight(o)' = InFlight(o) \ {t}
  BY <1>1, <1>2, <1>3
<1>5. IsFiniteSet(InFlight(o))
  BY CountsFinite
<1>6. Cardinality(InFlight(o) \ {t}) = Cardinality(InFlight(o)) - 1
  BY <1>2, <1>5, FS_RemoveElement
<1> QED
  BY <1>4, <1>6

LEMMA HeldSame ==
  ASSUME NEW o \in Object,
         \A v \in Thread : holds'[v][o] = holds[v][o]
  PROVE  Held(o)' = Held(o)
<1>1. \A x \in Thread \X (1 .. MaxHolds + 1) : x[1] \in Thread
  OBVIOUS
<1> QED
  BY <1>1 DEF Held

\* One reference more, and one less, of a thread.
LEMMA HeldMore ==
  ASSUME Types, NEW o \in Object, NEW u \in Thread, SetsHolds(u, o, holds[u][o] + 1)
  PROVE  Cardinality(Held(o))' = Cardinality(Held(o)) + 1
<1> DEFINE n == holds[u][o] + 1
           S == Thread \X (1 .. MaxHolds + 1)
<1>1. MaxHolds \in Nat /\ holds[u][o] \in 0 .. MaxHolds + 1 /\ holds'[u][o] \in 0 .. MaxHolds + 1
  BY RefsAssumption DEF Types, SetsHolds
<1>2. holds'[u][o] = n
  BY DEF SetsHolds
<1>3. n \in 1 .. MaxHolds + 1
  BY <1>1, <1>2
<1>4. <<u, n>> \in S
  BY <1>3
<1>5. <<u, n>> \notin Held(o)
  BY <1>1 DEF Held
<1>6. Held(o)' = Held(o) \cup {<<u, n>>}
  <2>1. ASSUME NEW x \in S
        PROVE  x \in Held(o)' <=> x \in Held(o) \/ x = <<u, n>>
    <3>1. x[1] \in Thread /\ x[2] \in 1 .. MaxHolds + 1 /\ x = <<x[1], x[2]>>
      OBVIOUS
    <3>2. CASE x[1] = u
      <4>1. x \in Held(o)' <=> x[2] <= n
        BY <1>2, <3>2 DEF Held
      <4>2. x \in Held(o) <=> x[2] <= holds[u][o]
        BY <3>2 DEF Held
      <4>3. x[2] <= n <=> x[2] <= holds[u][o] \/ x[2] = n
        BY <1>1, <3>1
      <4>4. x[2] = n <=> x = <<u, n>>
        BY <3>1, <3>2
      <4> QED
        BY <4>1, <4>2, <4>3, <4>4
    <3>3. CASE x[1] # u
      <4>1. holds'[x[1]][o] = holds[x[1]][o]
        BY <3>1, <3>3 DEF SetsHolds
      <4> QED
        BY <3>3, <4>1 DEF Held
    <3> QED
      BY <3>2, <3>3
  <2>2. Held(o) \subseteq S /\ Held(o)' \subseteq S
    BY DEF Held
  <2> QED
    BY <1>4, <2>1, <2>2
<1>7. IsFiniteSet(Held(o))
  BY CountsFinite
<1>8. Cardinality(Held(o) \cup {<<u, n>>}) = Cardinality(Held(o)) + 1
  BY <1>5, <1>7, FS_AddElement
<1> QED
  BY <1>6, <1>8

LEMMA HeldLess ==
  ASSUME Types, NEW o \in Object, NEW u \in Thread, holds[u][o] # 0,
         SetsHolds(u, o, holds[u][o] - 1)
  PROVE  Cardinality(Held(o))' = Cardinality(Held(o)) - 1
<1> DEFINE n == holds[u][o]
           S == Thread \X (1 .. MaxHolds + 1)
<1>1. MaxHolds \in Nat /\ n \in 0 .. MaxHolds + 1 /\ n # 0
  BY RefsAssumption DEF Types
<1>2. holds'[u][o] = n - 1
  BY DEF SetsHolds
<1>3. n \in 1 .. MaxHolds + 1
  BY <1>1
<1>4. <<u, n>> \in Held(o)
  BY <1>3 DEF Held
<1>5. Held(o)' = Held(o) \ {<<u, n>>}
  <2>1. ASSUME NEW x \in S
        PROVE  x \in Held(o)' <=> x \in Held(o) /\ x # <<u, n>>
    <3>1. x[1] \in Thread /\ x[2] \in 1 .. MaxHolds + 1 /\ x = <<x[1], x[2]>>
      OBVIOUS
    <3>2. CASE x[1] = u
      <4>1. x \in Held(o)' <=> x[2] <= n - 1
        BY <1>2, <3>2 DEF Held
      <4>2. x \in Held(o) <=> x[2] <= n
        BY <3>2 DEF Held
      <4>3. x[2] <= n - 1 <=> x[2] <= n /\ x[2] # n
        BY <1>1, <3>1
      <4>4. x[2] = n <=> x = <<u, n>>
        BY <3>1, <3>2
      <4> QED
        BY <4>1, <4>2, <4>3, <4>4
    <3>3. CASE x[1] # u
      <4>1. holds'[x[1]][o] = holds[x[1]][o]
        BY <3>1, <3>3 DEF SetsHolds
      <4> QED
        BY <3>3, <4>1 DEF Held
    <3> QED
      BY <3>2, <3>3
  <2>2. Held(o) \subseteq S /\ Held(o)' \subseteq S
    BY DEF Held
  <2> QED
    BY <2>1, <2>2
<1>6. IsFiniteSet(Held(o))
  BY CountsFinite
<1>7. Cardinality(Held(o) \ {<<u, n>>}) = Cardinality(Held(o)) - 1
  BY <1>4, <1>6, FS_RemoveElement
<1> QED
  BY <1>5, <1>7

\* What a reference, or two of them, say of the count.
LEMMA FlierCounts ==
  ASSUME Types, NEW o \in Object, CountInv(o), NEW t \in Thread, Flies(t, o)
  PROVE  object[o].refs # 0
<1>1. t \in InFlight(o)
  BY InFlightIs
<1>2. Cardinality(InFlight(o)) # 0
  BY <1>1, CountsFinite, FS_EmptySet
<1> QED
  BY <1>2, CountsFinite DEF CountInv

LEMMA HolderCounts ==
  ASSUME Types, NEW o \in Object, CountInv(o), NEW u \in Thread, holds[u][o] # 0
  PROVE  Cardinality(Held(o)) # 0 /\ object[o].refs # 0
<1>1. MaxHolds \in Nat /\ holds[u][o] \in 0 .. MaxHolds + 1
  BY RefsAssumption DEF Types
<1>2. <<u, 1>> \in Held(o)
  BY <1>1 DEF Held
<1>3. Cardinality(Held(o)) # 0
  BY <1>2, CountsFinite, FS_EmptySet
<1> QED
  BY <1>3, CountsFinite DEF CountInv

LEMMA TwoFliersCount ==
  ASSUME Types, NEW o \in Object, CountInv(o), NEW t \in Thread, NEW u \in Thread,
         t # u, Flies(t, o), Flies(u, o)
  PROVE  object[o].refs # 1
<1>1. t \in InFlight(o) /\ u \in InFlight(o) \ {t}
  BY InFlightIs
<1>2. IsFiniteSet(InFlight(o) \ {t}) /\ Cardinality(InFlight(o) \ {t}) = Cardinality(InFlight(o)) - 1
  BY <1>1, CountsFinite, FS_RemoveElement
<1>3. Cardinality(InFlight(o) \ {t}) # 0 /\ Cardinality(InFlight(o) \ {t}) \in Nat
  BY <1>1, <1>2, FS_EmptySet, FS_CardinalityType
<1> QED
  BY <1>2, <1>3, CountsFinite DEF CountInv

LEMMA FlierAndHolderCount ==
  ASSUME Types, NEW o \in Object, CountInv(o), NEW t \in Thread, NEW u \in Thread,
         Flies(t, o), holds[u][o] # 0
  PROVE  object[o].refs # 1
<1>1. t \in InFlight(o)
  BY InFlightIs
<1>2. Cardinality(InFlight(o)) # 0
  BY <1>1, CountsFinite, FS_EmptySet
<1>3. Cardinality(Held(o)) # 0
  BY HolderCounts
<1> QED
  BY <1>2, <1>3, CountsFinite DEF CountInv

\* The other threads are where they were.
LEMMA OthersEnd ==
  ASSUME NEW o \in Object, NEW t \in Thread,
         \A u \in Thread \ {t} : thread'[u] = thread[u],
         object[o].ever => object'[o].ever,
         NEW u \in Thread \ {t}
  PROVE  /\ thread'[u] = thread[u] /\ (Doomed(u, o)' <=> Doomed(u, o)) /\ (Sole(u, o)' => Sole(u, o))
<1>1. thread'[u] = thread[u]
  OBVIOUS
<1> QED
  BY <1>1 DEF Doomed, Sole

\* The count stays: what a step may change of an object.
LEMMA LifeEven ==
  ASSUME Types, NEW o \in Object, LifeInv(o), NEW t \in Thread,
         \A u \in Thread \ {t} : thread'[u] = thread[u],
         object[o].ever => object'[o].ever, object'[o].freed = object[o].freed,
         object'[o].refs = object[o].refs,
         Cardinality(InFlight(o))' + Cardinality(Held(o))' = Cardinality(InFlight(o)) + Cardinality(Held(o)),
         Doomed(t, o)' <=> Doomed(t, o),
         thread'[t].d = o => thread[t].d = o \/ object[o].refs # 0,
         Sole(t, o)' => object[o].refs = 1,
         \A k \in Weak : weak'[k].ptr = o =>
            \/ object[o].refs # 0
            \/ /\ weak[k].ptr = o
               /\ Doomed(t, o) /\ thread[t].at = "clearing" => thread'[t].at = "clearing"
  PROVE  LifeInv(o)'
<1>1. \A u \in Thread \ {t} : /\ thread'[u] = thread[u] /\ (Doomed(u, o)' <=> Doomed(u, o))
                              /\ (Sole(u, o)' => Sole(u, o))
  BY OthersEnd
<1>2. \A u \in Thread : Doomed(u, o)' <=> Doomed(u, o)
  BY <1>1
<1>3. CountInv(o)'
  BY DEF LifeInv, CountInv
<1>4. EndInv(o)'
  <2>1. object'[o].freed => object'[o].refs = 0 /\ \A u \in Thread : thread'[u].d # o
    BY <1>1 DEF LifeInv, EndInv
  <2>2. object'[o].refs = 0 /\ ~object'[o].freed => \E u \in Thread : Doomed(u, o)'
    BY <1>2 DEF LifeInv, EndInv
  <2>3. \A u \in Thread : Doomed(u, o)' => object'[o].refs = 0
    BY <1>2 DEF LifeInv, EndInv
  <2>4. \A u, v \in Thread : Doomed(u, o)' /\ Doomed(v, o)' => u = v
    BY <1>2 DEF LifeInv, EndInv
  <2> QED
    BY <2>1, <2>2, <2>3, <2>4 DEF EndInv
<1>5. PointedInv(o)'
  <2> SUFFICES ASSUME NEW k \in Weak, weak'[k].ptr = o, object[o].refs = 0
               PROVE  \E u \in Thread : thread'[u].at = "clearing" /\ Doomed(u, o)'
    BY DEF PointedInv
  <2>1. weak[k].ptr = o /\ (Doomed(t, o) /\ thread[t].at = "clearing" => thread'[t].at = "clearing")
    OBVIOUS
  <2>2. PICK u \in Thread : thread[u].at = "clearing" /\ Doomed(u, o)
    BY <2>1 DEF LifeInv, PointedInv
  <2>3. thread'[u].at = "clearing"
    BY <1>1, <2>1, <2>2
  <2> QED
    BY <1>2, <2>2, <2>3
<1>6. SoleInv(o)'
  BY <1>1 DEF LifeInv, SoleInv
<1> QED
  BY <1>3, <1>4, <1>5, <1>6 DEF LifeInv

LEMMA LifeKept ==
  ASSUME Types, NEW o \in Object, LifeInv(o), NEW t \in Thread,
         \A u \in Thread \ {t} : thread'[u] = thread[u],
         object[o].ever => object'[o].ever, object'[o].freed = object[o].freed,
         object'[o].refs = object[o].refs,
         \A v \in Thread : holds'[v][o] = holds[v][o],
         Flies(t, o)' <=> Flies(t, o),
         Doomed(t, o)' <=> Doomed(t, o),
         thread'[t].d = o => thread[t].d = o,
         Sole(t, o)' => object[o].refs = 1,
         \A k \in Weak : weak'[k].ptr = o =>
            \/ object[o].refs # 0
            \/ /\ weak[k].ptr = o
               /\ Doomed(t, o) /\ thread[t].at = "clearing" => thread'[t].at = "clearing"
  PROVE  LifeInv(o)'
<1>1. InFlight(o)' = InFlight(o)
  BY FlightSame
<1>2. Held(o)' = Held(o)
  BY HeldSame
<1>3. Cardinality(InFlight(o))' + Cardinality(Held(o))' = Cardinality(InFlight(o)) + Cardinality(Held(o))
  BY <1>1, <1>2
<1>4. thread'[t].d = o => thread[t].d = o \/ object[o].refs # 0
  OBVIOUS
<1> QED
  BY <1>3, <1>4, LifeEven

\* The step is about another object.
LEMMA LifeApart ==
  ASSUME Types, NEW o \in Object, LifeInv(o), NEW t \in Thread,
         \A u \in Thread \ {t} : thread'[u] = thread[u],
         object[o].ever => object'[o].ever, object'[o].freed = object[o].freed,
         object'[o].refs = object[o].refs,
         \A v \in Thread : holds'[v][o] = holds[v][o],
         thread[t].d # o, thread'[t].d # o,
         \A k \in Weak : weak'[k].ptr = o => weak[k].ptr = o \/ object[o].refs # 0
  PROVE  LifeInv(o)'
<1>1. ~Flies(t, o) /\ ~Flies(t, o)' /\ ~Doomed(t, o) /\ ~Doomed(t, o)' /\ ~Sole(t, o)'
  BY DEF Flies, Doomed, Sole
<1>2. \A k \in Weak : weak'[k].ptr = o =>
        \/ object[o].refs # 0
        \/ /\ weak[k].ptr = o
           /\ Doomed(t, o) /\ thread[t].at = "clearing" => thread'[t].at = "clearing"
  BY <1>1
<1> QED
  BY <1>1, <1>2, LifeKept

\* The thread has a reference, before and after.
LEMMA LifeFlies ==
  ASSUME Types, NEW o \in Object, LifeInv(o), NEW t \in Thread,
         \A u \in Thread \ {t} : thread'[u] = thread[u],
         object[o].ever => object'[o].ever, object'[o].freed = object[o].freed,
         object'[o].refs = object[o].refs,
         \A v \in Thread : holds'[v][o] = holds[v][o],
         Flies(t, o), Flies(t, o)', Sole(t, o)' => object[o].refs = 1
  PROVE  LifeInv(o)'
<1>1. ~Doomed(t, o) /\ ~Doomed(t, o)' /\ thread[t].d = o
  BY DEF Flies
<1>2. object[o].refs # 0
  BY FlierCounts DEF LifeInv
<1>3. \A k \in Weak : weak'[k].ptr = o =>
        \/ object[o].refs # 0
        \/ /\ weak[k].ptr = o
           /\ Doomed(t, o) /\ thread[t].at = "clearing" => thread'[t].at = "clearing"
  BY <1>2
<1> QED
  BY <1>1, <1>3, LifeKept

\* A reference more, to an object that is alive.
LEMMA LifeMore ==
  ASSUME Types, NEW o \in Object, LifeInv(o), NEW t \in Thread,
         \A u \in Thread \ {t} : thread'[u] = thread[u],
         object[o].ever => object'[o].ever, object'[o].freed = object[o].freed,
         object[o].refs # 0, object'[o].refs = object[o].refs + 1,
         Cardinality(InFlight(o))' + Cardinality(Held(o))' = Cardinality(InFlight(o)) + Cardinality(Held(o)) + 1,
         ~Doomed(t, o)', ~Sole(t, o)', \A u \in Thread \ {t} : ~Sole(u, o)
  PROVE  LifeInv(o)'
<1>1. \A u \in Thread \ {t} : /\ thread'[u] = thread[u] /\ (Doomed(u, o)' <=> Doomed(u, o))
                              /\ (Sole(u, o)' => Sole(u, o))
  BY OthersEnd
<1>2. object[o].refs \in Nat
  BY DEF Types, ObjectType
<1>3. object'[o].refs # 0
  BY <1>2
<1>4. CountInv(o)'
  BY DEF LifeInv, CountInv
<1>5. \A u \in Thread : ~Doomed(u, o)' /\ ~Sole(u, o)'
  BY <1>1 DEF LifeInv, EndInv
<1>6. ~object'[o].freed
  BY DEF LifeInv, EndInv
<1>7. EndInv(o)' /\ PointedInv(o)' /\ SoleInv(o)'
  BY <1>3, <1>5, <1>6 DEF EndInv, PointedInv, SoleInv
<1> QED
  BY <1>4, <1>7 DEF LifeInv

\* A reference less, which was not the last.
LEMMA LifeLess ==
  ASSUME Types, NEW o \in Object, LifeInv(o), NEW t \in Thread,
         \A u \in Thread \ {t} : thread'[u] = thread[u],
         object[o].ever => object'[o].ever, object'[o].freed = object[o].freed,
         object[o].refs > 1, object'[o].refs = object[o].refs - 1,
         \A v \in Thread : holds'[v][o] = holds[v][o],
         Flies(t, o), ~Flies(t, o)', ~Doomed(t, o)', ~Sole(t, o)'
  PROVE  LifeInv(o)'
<1>1. \A u \in Thread \ {t} : /\ thread'[u] = thread[u] /\ (Doomed(u, o)' <=> Doomed(u, o))
                              /\ (Sole(u, o)' => Sole(u, o))
  BY OthersEnd
<1>2. object[o].refs \in Nat
  BY DEF Types, ObjectType
<1>3. object[o].refs # 0 /\ object[o].refs # 1 /\ object'[o].refs # 0
  BY <1>2
<1>4. Cardinality(InFlight(o))' = Cardinality(InFlight(o)) - 1
  BY FlightLess
<1>5. Held(o)' = Held(o)
  BY HeldSame
<1>6. CountInv(o)'
  BY <1>4, <1>5, CountsFinite DEF LifeInv, CountInv
<1>7. \A u \in Thread : ~Doomed(u, o)' /\ ~Sole(u, o)'
  BY <1>1, <1>3 DEF LifeInv, EndInv, SoleInv
<1>8. ~object'[o].freed
  BY <1>3 DEF LifeInv, EndInv
<1>9. EndInv(o)' /\ PointedInv(o)' /\ SoleInv(o)'
  BY <1>3, <1>7, <1>8 DEF EndInv, PointedInv, SoleInv
<1> QED
  BY <1>6, <1>9 DEF LifeInv

\* The last reference goes, and the thread will finalize.
LEMMA LifeEnds ==
  ASSUME Types, NEW o \in Object, LifeInv(o), NEW t \in Thread,
         \A u \in Thread \ {t} : thread'[u] = thread[u],
         object[o].ever => object'[o].ever, object'[o].freed = object[o].freed,
         object[o].refs = 1, object'[o].refs = 0,
         \A v \in Thread : holds'[v][o] = holds[v][o],
         Flies(t, o), Doomed(t, o)', ~Sole(t, o)',
         \A k \in Weak : weak'[k].ptr = o => thread'[t].at = "clearing"
  PROVE  LifeInv(o)'
<1>1. \A u \in Thread \ {t} : /\ thread'[u] = thread[u] /\ (Doomed(u, o)' <=> Doomed(u, o))
                              /\ (Sole(u, o)' => Sole(u, o))
  BY OthersEnd
<1>2. ~Flies(t, o)'
  BY DEF Flies
<1>3. Cardinality(InFlight(o))' = Cardinality(InFlight(o)) - 1
  BY <1>2, FlightLess
<1>4. Held(o)' = Held(o)
  BY HeldSame
<1>5. CountInv(o)'
  BY <1>3, <1>4, CountsFinite DEF LifeInv, CountInv
<1>6. \A u \in Thread \ {t} : ~Doomed(u, o)'
  BY <1>1 DEF LifeInv, EndInv
<1>7. \A u \in Thread \ {t} : ~Sole(u, o)'
  <2> SUFFICES ASSUME NEW u \in Thread \ {t}, Sole(u, o)
               PROVE  FALSE
    BY <1>1
  <2>1. Flies(u, o)
    BY DEF Sole, Flies, Doomed
  <2> QED
    BY <2>1, TwoFliersCount DEF LifeInv
<1>8. ~object'[o].freed
  BY DEF LifeInv, EndInv
<1>9. EndInv(o)' /\ PointedInv(o)' /\ SoleInv(o)'
  BY <1>6, <1>7, <1>8 DEF EndInv, PointedInv, SoleInv
<1> QED
  BY <1>5, <1>9 DEF LifeInv

\* The object is freed.
LEMMA LifeFreed ==
  ASSUME Types, ObjectLocks, Lists, NEW o \in Object, LifeInv(o), NEW t \in Thread,
         \A u \in Thread \ {t} : thread'[u] = thread[u],
         object'[o].freed = TRUE, object'[o].refs = object[o].refs, object'[o].ever = object[o].ever,
         object[o].lock = None, \A v \in Thread : holds'[v][o] = holds[v][o],
         weak' = weak,
         thread[t].d = o, thread[t].at = "finalize", thread'[t].d # o
  PROVE  LifeInv(o)'
<1>1. \A u \in Thread \ {t} : /\ thread'[u] = thread[u] /\ (Doomed(u, o)' <=> Doomed(u, o))
                              /\ (Sole(u, o)' => Sole(u, o))
  BY OthersEnd
<1>2. Doomed(t, o) /\ ~Flies(t, o) /\ ~Flies(t, o)' /\ ~Doomed(t, o)' /\ ~Sole(t, o)'
  BY DEF Doomed, Flies, Sole
<1>3. object[o].refs = 0
  BY <1>2 DEF LifeInv, EndInv
<1>4. InFlight(o)' = InFlight(o)
  BY <1>2, FlightSame
<1>5. Held(o)' = Held(o)
  BY HeldSame
<1>6. CountInv(o)'
  BY <1>4, <1>5 DEF LifeInv, CountInv
<1>7. \A u \in Thread \ {t} : thread[u].d # o
  <2> SUFFICES ASSUME NEW u \in Thread \ {t}, thread[u].d = o
               PROVE  FALSE
    OBVIOUS
  <2>1. ~Flies(u, o)
    BY <1>3, FlierCounts DEF LifeInv
  <2>2. thread[u].at # "toggle"
    BY RefsAssumption DEF ObjectLocks
  <2>3. Doomed(u, o)
    BY <2>1, <2>2 DEF Flies
  <2> QED
    BY <1>2, <2>3 DEF LifeInv, EndInv
<1>8. \A u \in Thread : thread'[u].d # o
  BY <1>1, <1>7
<1>9. \A u \in Thread : ~Doomed(u, o)' /\ ~Sole(u, o)'
  BY <1>8 DEF Doomed, Sole
<1>10. \A k \in Weak : weak'[k].ptr # o
  <2> SUFFICES ASSUME NEW k \in Weak, weak[k].ptr = o
               PROVE  FALSE
    OBVIOUS
  <2>1. PICK u \in Thread : thread[u].at = "clearing" /\ Doomed(u, o)
    BY <1>3 DEF LifeInv, PointedInv
  <2>2. u = t
    BY <1>2, <2>1 DEF LifeInv, EndInv
  <2> QED
    BY <2>1, <2>2
<1>11. EndInv(o)' /\ PointedInv(o)' /\ SoleInv(o)'
  BY <1>3, <1>8, <1>9, <1>10 DEF EndInv, PointedInv, SoleInv
<1> QED
  BY <1>6, <1>11 DEF LifeInv

--------------------------------------------------------------------------------
(* The counts of a WeakRefData and of a notification queue. *)

LEMMA UsersFinite ==
  ASSUME NEW o \in Object
  PROVE  /\ IsFiniteSet(Users(o)) /\ Cardinality(Users(o)) \in Nat
         /\ IsFiniteSet(Freezers(o)) /\ Cardinality(Freezers(o)) \in Nat
<1>1. Users(o) \subseteq Thread /\ Freezers(o) \subseteq Thread /\ IsFiniteSet(Thread)
  BY RefsAssumption DEF Users, Freezers
<1> QED
  BY <1>1, FS_Subset, FS_CardinalityType

LEMMA UsersSame ==
  ASSUME NEW o \in Object, NEW t \in Thread,
         \A u \in Thread \ {t} : thread'[u] = thread[u],
         thread'[t].old = o <=> thread[t].old = o
  PROVE  Users(o)' = Users(o)
<1>1. Users(o) \subseteq Thread /\ Users(o)' \subseteq Thread
  BY DEF Users
<1>2. \A u \in Thread \ {t} : u \in Users(o)' <=> u \in Users(o)
  BY DEF Users
<1>3. t \in Users(o)' <=> t \in Users(o)
  BY DEF Users
<1> QED
  BY <1>1, <1>2, <1>3

LEMMA UsersPlus ==
  ASSUME NEW o \in Object, NEW t \in Thread,
         \A u \in Thread \ {t} : thread'[u] = thread[u],
         thread[t].old # o, thread'[t].old = o
  PROVE  Cardinality(Users(o))' = Cardinality(Users(o)) + 1
<1>1. Users(o) \subseteq Thread /\ Users(o)' \subseteq Thread
  BY DEF Users
<1>2. \A u \in Thread \ {t} : u \in Users(o)' <=> u \in Users(o)
  BY DEF Users
<1>3. t \in Users(o)' /\ t \notin Users(o)
  BY DEF Users
<1>4. Users(o)' = Users(o) \cup {t}
  BY <1>1, <1>2, <1>3
<1>5. Cardinality(Users(o) \cup {t}) = Cardinality(Users(o)) + 1
  BY <1>3, UsersFinite, FS_AddElement
<1> QED
  BY <1>4, <1>5

LEMMA UsersMinus ==
  ASSUME NEW o \in Object, NEW t \in Thread,
         \A u \in Thread \ {t} : thread'[u] = thread[u],
         thread[t].old = o, thread'[t].old # o
  PROVE  Cardinality(Users(o))' = Cardinality(Users(o)) - 1
<1>1. Users(o) \subseteq Thread /\ Users(o)' \subseteq Thread
  BY DEF Users
<1>2. \A u \in Thread \ {t} : u \in Users(o)' <=> u \in Users(o)
  BY DEF Users
<1>3. t \notin Users(o)' /\ t \in Users(o)
  BY DEF Users
<1>4. Users(o)' = Users(o) \ {t}
  BY <1>1, <1>2, <1>3
<1>5. Cardinality(Users(o) \ {t}) = Cardinality(Users(o)) - 1
  BY <1>3, UsersFinite, FS_RemoveElement
<1> QED
  BY <1>4, <1>5

LEMMA FreezersSame ==
  ASSUME NEW o \in Object, NEW t \in Thread,
         \A u \in Thread \ {t} : thread'[u] = thread[u],
         Freezes(t, o)' <=> Freezes(t, o)
  PROVE  Freezers(o)' = Freezers(o)
<1>1. Freezers(o) \subseteq Thread /\ Freezers(o)' \subseteq Thread
  BY DEF Freezers
<1>2. \A u \in Thread \ {t} : u \in Freezers(o)' <=> u \in Freezers(o)
  BY DEF Freezers, Freezes
<1>3. t \in Freezers(o)' <=> t \in Freezers(o)
  BY DEF Freezers
<1> QED
  BY <1>1, <1>2, <1>3

LEMMA FreezersPlus ==
  ASSUME NEW o \in Object, NEW t \in Thread,
         \A u \in Thread \ {t} : thread'[u] = thread[u],
         ~Freezes(t, o), Freezes(t, o)'
  PROVE  Cardinality(Freezers(o))' = Cardinality(Freezers(o)) + 1
<1>1. Freezers(o) \subseteq Thread /\ Freezers(o)' \subseteq Thread
  BY DEF Freezers
<1>2. \A u \in Thread \ {t} : u \in Freezers(o)' <=> u \in Freezers(o)
  BY DEF Freezers, Freezes
<1>3. t \in Freezers(o)' /\ t \notin Freezers(o)
  BY DEF Freezers
<1>4. Freezers(o)' = Freezers(o) \cup {t}
  BY <1>1, <1>2, <1>3
<1>5. Cardinality(Freezers(o) \cup {t}) = Cardinality(Freezers(o)) + 1
  BY <1>3, UsersFinite, FS_AddElement
<1> QED
  BY <1>4, <1>5

LEMMA FreezersMinus ==
  ASSUME NEW o \in Object, NEW t \in Thread,
         \A u \in Thread \ {t} : thread'[u] = thread[u],
         Freezes(t, o), ~Freezes(t, o)'
  PROVE  Cardinality(Freezers(o))' = Cardinality(Freezers(o)) - 1
<1>1. Freezers(o) \subseteq Thread /\ Freezers(o)' \subseteq Thread
  BY DEF Freezers
<1>2. \A u \in Thread \ {t} : u \in Freezers(o)' <=> u \in Freezers(o)
  BY DEF Freezers, Freezes
<1>3. t \notin Freezers(o)' /\ t \in Freezers(o)
  BY DEF Freezers
<1>4. Freezers(o)' = Freezers(o) \ {t}
  BY <1>1, <1>2, <1>3
<1>5. Cardinality(Freezers(o) \ {t}) = Cardinality(Freezers(o)) - 1
  BY <1>3, UsersFinite, FS_RemoveElement
<1> QED
  BY <1>4, <1>5

LEMMA UsersKept ==
  ASSUME NEW o \in Object, UsersInv(o), NEW t \in Thread,
         \A u \in Thread \ {t} : thread'[u] = thread[u],
         object'[o].ever = object[o].ever, object'[o].freed = object[o].freed,
         data'[o].refs = data[o].refs,
         thread'[t].old = o <=> thread[t].old = o
  PROVE  UsersInv(o)'
<1>1. Users(o)' = Users(o)
  BY UsersSame
<1> QED
  BY <1>1 DEF UsersInv

LEMMA UsersMore ==
  ASSUME NEW o \in Object, UsersInv(o), NEW t \in Thread,
         \A u \in Thread \ {t} : thread'[u] = thread[u],
         object'[o].ever = object[o].ever, object'[o].freed = object[o].freed,
         data'[o].refs = data[o].refs + 1,
         thread[t].old # o, thread'[t].old = o
  PROVE  UsersInv(o)'
<1>1. Cardinality(Users(o))' = Cardinality(Users(o)) + 1
  BY UsersPlus
<1>2. Bit(object[o].ever /\ ~object[o].freed) \in Nat
  BY DEF Bit
<1> QED
  BY <1>1, <1>2, UsersFinite DEF UsersInv

LEMMA UsersLess ==
  ASSUME NEW o \in Object, UsersInv(o), NEW t \in Thread,
         \A u \in Thread \ {t} : thread'[u] = thread[u],
         object'[o].ever = object[o].ever, object'[o].freed = object[o].freed,
         data'[o].refs = data[o].refs - 1,
         thread[t].old = o, thread'[t].old # o
  PROVE  UsersInv(o)'
<1>1. Cardinality(Users(o))' = Cardinality(Users(o)) - 1
  BY UsersMinus
<1>2. Bit(object[o].ever /\ ~object[o].freed) \in Nat
  BY DEF Bit
<1> QED
  BY <1>1, <1>2, UsersFinite DEF UsersInv

LEMMA FrozenKept ==
  ASSUME NEW o \in Object, FrozenInv(o), NEW t \in Thread,
         \A u \in Thread \ {t} : thread'[u] = thread[u],
         object'[o].frozen = object[o].frozen, object'[o].freed = object[o].freed,
         Freezes(t, o)' <=> Freezes(t, o)
  PROVE  FrozenInv(o)'
<1>1. Freezers(o)' = Freezers(o)
  BY FreezersSame
<1> QED
  BY <1>1 DEF FrozenInv

================================================================================
