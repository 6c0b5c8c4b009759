--------------------------- MODULE GThreadPoolProofs ---------------------------
(*****************************************************************************)
(* Proofs about GThreadPool: a pool lives as long as it can be reached       *)
(* (PoolsLive), no task is stranded (TasksServed), and the pools implement   *)
(* TaskPool (Refinement).  The invariant has three layers: Base counts the   *)
(* threads of every pool, Tasks ties the queues to what became of the tasks, *)
(* and Served is about signals, hand-overs and the decision to start no more *)
(* threads.  Every action has a lemma that says what it did (...Did), and    *)
(* one for each layer it can disturb.  Only g_thread_pool_new_full, when it  *)
(* frees a pool under its threads (Abandons), ends what Base says: there the *)
(* properties are shown once, and nothing happens afterwards.                *)
(*****************************************************************************)
EXTENDS GThreadPool, FiniteSetTheorems, SequenceTheorems, TLAPS

--------------------------------------------------------------------------------
(* The inductive invariant. *)

Fates == {New} \cup ({"queued", "running", "done", "lost", "freed"} \X Pool)
SetterRecord == [at : {"out", "read", "kill", "serial", "push"}, n : Nat]
Types == /\ pools \in [Pool -> PoolRecord]
         /\ threads \in [Thread -> ThreadRecord]
         /\ asleep \subseteq {w \in Thread : At(w, "pop") \/ At(w, "idle")}
         /\ unusedQueue \in Seq(Pool \cup {Marker})
         /\ maxUnused \in UnusedLimits \cup {DefaultUnused}
         /\ killUnused \in Int /\ serial \in Nat
         /\ setter \in SetterRecord
         /\ fate \in [Task -> Fates] /\ failures \in Nat

\* A thread has a pool from when it is given one until it leaves it, and a task while
\* it runs it.
InPool == {"start", "pop", "func", "back", "got"}
PlaceInv == \A w \in Thread : /\ threads[w].pool # None <=> threads[w].at \in InPool
                              /\ threads[w].task # None <=> threads[w].at = "func"

\* A pool between its creation and its end.
Has(q, x) == \E i \in DOMAIN q : q[i] = x
PoolInv(p) ==
  /\ pools[p].phase = "none" => pools[p] = NoPool
  /\ pools[p].phase = "new" => pools[p].toStart > 0
  /\ pools[p].toStart > 0 => pools[p].running /\ pools[p].phase \in {"new", "live"}
  /\ pools[p].freer = "out" <=> pools[p].running \/ pools[p].phase = "none"
  /\ pools[p].freer \in {"wait", "woken"} => pools[p].waiting
  /\ pools[p].phase = "freed" =>
       pools[p].num = 0 /\ pools[p].queue = <<>> /\ pools[p].freer \in {"out", "done"}
  /\ pools[p].phase = "new" => pools[p].queue = <<>>
  /\ Has(pools[p].queue, Bogus) => pools[p].immediate /\ ~pools[p].running

CountInv(p) == pools[p].num = Cardinality(Members(p)) + Count(unusedQueue, p)

\* A pool that may have no threads is freed without waiting when nothing is left.
FrozenInv(p) ==
  pools[p].phase = "live" /\ ~pools[p].running /\ ~pools[p].immediate /\ pools[p].max = 0
    => Len(pools[p].queue) <= Cardinality(Waiters(p))

\* Those that unused_threads counts.
InGlobal == {"limits", "serial", "check", "enter", "idle", "marker", "relay", "kill",
             "update", "quit", "got"}
Global == {w \in Thread : threads[w].at \in InGlobal}
UnusedInv == unusedThreads = Cardinality(Global)

\* The queue of a pool holds each of its queued tasks once.
Unique(q) == \A i, j \in DOMAIN q : q[i] \in Task /\ q[i] = q[j] => i = j
QueueInv(p) == /\ Unique(pools[p].queue)
               /\ \A t \in Task : fate[t] = In("queued", p) <=> Has(pools[p].queue, t)

\* Each task that is running is run by one thread.
Runner(w, t, p) == threads[w].at = "func" /\ threads[w].task = t /\ threads[w].pool = p
RunInv ==
  /\ \A w \in Thread : threads[w].at = "func" =>
       fate[threads[w].task] = In("running", threads[w].pool)
  /\ \A v, w \in Thread : threads[v].at = "func" /\ threads[w].at = "func"
       /\ threads[v].task = threads[w].task => v = w
  /\ \A t \in Task, p \in Pool : fate[t] = In("running", p) => \E w \in Thread : Runner(w, t, p)

Base == /\ Types /\ PlaceInv /\ UnusedInv
        /\ \A p \in Pool : PoolInv(p) /\ CountInv(p)
Tasks == RunInv /\ \A p \in Pool : QueueInv(p) /\ FrozenInv(p)

\* While its mutex is held to start threads for it, a pool is as good as it will be.
ConservingInv(p) ==
  pools[p].phase \in {"new", "live"} /\ pools[p].running /\ failures = 0 =>
    IF pools[p].exclusive THEN pools[p].max # -1 /\ pools[p].num + pools[p].toStart >= pools[p].max
    ELSE Length(p) > Coming(p) + pools[p].toStart => Enough(p)

Served == HandOverReached /\ NoLostSignal /\ \A p \in Pool : ConservingInv(p)

--------------------------------------------------------------------------------
(* Counting threads. *)

Bit(b) == IF b THEN 1 ELSE 0

LEMMA ThreadSets ==
  ASSUME NEW S \in SUBSET Thread
  PROVE  IsFiniteSet(S) /\ Cardinality(S) \in Nat
<1>1. IsFiniteSet(Thread)
  BY PoolAssumption
<1>2. IsFiniteSet(S)
  BY <1>1, FS_Subset
<1> QED
  BY <1>2, FS_CardinalityType

\* Two sets of threads that differ in one thread at most.
LEMMA SetStep ==
  ASSUME NEW S \in SUBSET Thread, NEW T \in SUBSET Thread, NEW w \in Thread,
         \A v \in Thread \ {w} : v \in S <=> v \in T
  PROVE  Cardinality(T) = Cardinality(S) + Bit(w \in T) - Bit(w \in S)
<1>1. IsFiniteSet(S) /\ Cardinality(S) \in Nat /\ IsFiniteSet(T) /\ Cardinality(T) \in Nat
  BY ThreadSets
<1>2. CASE w \in S /\ w \in T
  <2>1. S = T
    BY <1>2
  <2> QED
    BY <2>1, <1>1, <1>2 DEF Bit
<1>3. CASE w \notin S /\ w \notin T
  <2>1. S = T
    BY <1>3
  <2> QED
    BY <2>1, <1>1, <1>3 DEF Bit
<1>4. CASE w \in S /\ w \notin T
  <2>1. T = S \ {w}
    BY <1>4
  <2>2. Cardinality(S \ {w}) = Cardinality(S) - 1
    BY <1>1, <1>4, FS_RemoveElement
  <2> QED
    BY <2>1, <2>2, <1>1, <1>4 DEF Bit
<1>5. CASE w \notin S /\ w \in T
  <2>1. T = S \cup {w}
    BY <1>5
  <2>2. Cardinality(S \cup {w}) = Cardinality(S) + 1
    BY <1>1, <1>5, FS_AddElement
  <2> QED
    BY <2>1, <2>2, <1>1, <1>5 DEF Bit
<1> QED
  BY <1>2, <1>3, <1>4, <1>5

LEMMA SubsetSize ==
  ASSUME NEW S \in SUBSET Thread, NEW T \in SUBSET S
  PROVE  Cardinality(T) <= Cardinality(S)
  BY ThreadSets, FS_Subset

LEMMA EmptySize ==
  ASSUME NEW S \in SUBSET Thread
  PROVE  Cardinality(S) = 0 <=> S = {}
  BY ThreadSets, FS_EmptySet

\* Taking a part of a set out of it.
LEMMA PartSize ==
  ASSUME NEW S \in SUBSET Thread, NEW X \in SUBSET S
  PROVE  Cardinality(S \ X) = Cardinality(S) - Cardinality(X)
<1>1. IsFiniteSet(S)
  BY ThreadSets
<1>2. Cardinality(S \ X) = Cardinality(S) - Cardinality(S \cap X)
  BY <1>1, FS_Difference
<1>3. S \cap X = X
  OBVIOUS
<1> QED
  BY <1>2, <1>3

--------------------------------------------------------------------------------
(* Queues. *)

LEMMA CountNat ==
  ASSUME NEW S, NEW q \in Seq(S), NEW x
  PROVE  IsFiniteSet({i \in DOMAIN q : q[i] = x}) /\ Count(q, x) \in Nat
<1>1. DOMAIN q = 1 .. Len(q) /\ Len(q) \in Nat
  BY LenProperties
<1>2. IsFiniteSet(DOMAIN q)
  BY <1>1, FS_Interval
<1>3. {i \in DOMAIN q : q[i] = x} \in SUBSET DOMAIN q
  OBVIOUS
<1>4. IsFiniteSet({i \in DOMAIN q : q[i] = x})
  BY <1>2, <1>3, FS_Subset
<1> QED
  BY <1>4, FS_CardinalityType DEF Count

LEMMA CountHas ==
  ASSUME NEW S, NEW q \in Seq(S), NEW x
  PROVE  /\ Count(q, x) > 0 <=> Has(q, x)
         /\ Count(q, x) = 0 <=> ~Has(q, x)
<1>1. Count(q, x) \in Nat /\ IsFiniteSet({i \in DOMAIN q : q[i] = x})
  BY CountNat
<1>2. Count(q, x) = 0 <=> {i \in DOMAIN q : q[i] = x} = {}
  BY <1>1, FS_EmptySet DEF Count
<1>3. {i \in DOMAIN q : q[i] = x} = {} <=> ~Has(q, x)
  BY DEF Has
<1> QED
  BY <1>1, <1>2, <1>3

LEMMA CountEmpty == ASSUME NEW x PROVE Count(<<>>, x) = 0
<1>1. {i \in DOMAIN <<>> : <<>>[i] = x} = {}
  OBVIOUS
<1> QED
  BY <1>1, FS_EmptySet DEF Count

LEMMA CountAppend ==
  ASSUME NEW S, NEW q \in Seq(S), NEW y \in S, NEW x
  PROVE  Count(Append(q, y), x) = Count(q, x) + Bit(y = x)
<1> DEFINE A == {i \in DOMAIN q : q[i] = x}
           B == {i \in DOMAIN Append(q, y) : Append(q, y)[i] = x}
<1>1. /\ DOMAIN q = 1 .. Len(q) /\ Len(q) \in Nat
      /\ DOMAIN Append(q, y) = 1 .. (Len(q) + 1)
      /\ \A i \in 1 .. Len(q) : Append(q, y)[i] = q[i]
      /\ Append(q, y)[Len(q) + 1] = y
  BY LenProperties, AppendProperties
<1>2. IsFiniteSet(A) /\ Cardinality(A) \in Nat /\ Count(q, x) = Cardinality(A)
  BY CountNat DEF Count
<1>5. Len(q) + 1 \notin A
  BY <1>1
<1>3. CASE y = x
  <2>1. B = A \cup {Len(q) + 1}
    BY <1>1, <1>3
  <2>2. Cardinality(A \cup {Len(q) + 1}) = Cardinality(A) + 1
    BY <1>2, <1>5, FS_AddElement
  <2> QED
    BY <2>1, <2>2, <1>3 DEF Count, Bit
<1>4. CASE y # x
  <2>1. B = A
    BY <1>1, <1>4
  <2>2. Bit(y = x) = 0
    BY <1>4 DEF Bit
  <2>3. Count(Append(q, y), x) = Cardinality(A)
    BY <2>1 DEF Count
  <2> QED
    BY <2>2, <2>3, <1>2
<1> QED
  BY <1>3, <1>4

LEMMA CountTail ==
  ASSUME NEW S, NEW q \in Seq(S), q # <<>>, NEW x
  PROVE  Count(q, x) = Count(Tail(q), x) + Bit(Head(q) = x)
<1> DEFINE A == {i \in DOMAIN Tail(q) : Tail(q)[i] = x}
           B == {i \in DOMAIN q : q[i] = x}
           f == [i \in A |-> i + 1]
<1>1. /\ DOMAIN q = 1 .. Len(q) /\ Len(q) \in Nat \ {0}
      /\ DOMAIN Tail(q) = 1 .. (Len(q) - 1) /\ Tail(q) \in Seq(S)
      /\ \A i \in 1 .. (Len(q) - 1) : Tail(q)[i] = q[i + 1]
      /\ Head(q) = q[1]
  BY LenProperties, HeadTailProperties, EmptySeq
<1>2. IsFiniteSet(A) /\ Cardinality(A) \in Nat /\ IsFiniteSet(B)
  BY <1>1, CountNat DEF Count
<1>3. f \in Bijection(A, B \ {1})
  <2>1. f \in [A -> B \ {1}]
    BY <1>1
  <2>2. \A i, j \in A : f[i] = f[j] => i = j
    BY <1>1
  <2>3. \A j \in B \ {1} : \E i \in A : f[i] = j
    <3> SUFFICES ASSUME NEW j \in B \ {1} PROVE \E i \in A : f[i] = j
      OBVIOUS
    <3>1. j - 1 \in 1 .. (Len(q) - 1) /\ q[(j - 1) + 1] = x
      BY <1>1
    <3>2. j - 1 \in A
      BY <3>1, <1>1
    <3> QED
      BY <3>2, <1>1
  <2> QED
    BY <2>1, <2>2, <2>3 DEF Bijection, Injection, Surjection, IsInjective
<1>4. Cardinality(B \ {1}) = Cardinality(A)
  BY <1>2, <1>3, FS_Bijection DEF ExistsBijection
<1>5. Cardinality(B \ {1}) = IF 1 \in B THEN Cardinality(B) - 1 ELSE Cardinality(B)
  BY <1>2, FS_RemoveElement
<1>6. 1 \in B <=> Head(q) = x
  BY <1>1
<1>7. Cardinality(B) \in Nat
  BY <1>2, FS_CardinalityType
<1>8. Count(q, x) = Cardinality(B) /\ Count(Tail(q), x) = Cardinality(A)
  BY DEF Count
<1>9. Bit(Head(q) = x) = IF 1 \in B THEN 1 ELSE 0
  BY <1>6 DEF Bit
<1> HIDE DEF A, B, f
<1> QED
  BY <1>2, <1>4, <1>5, <1>7, <1>8, <1>9

\* Filling a queue up with n times the same.
LEMMA Filled ==
  ASSUME NEW S, NEW q \in Seq(S), NEW y \in S, NEW n \in Nat
  PROVE  LET r == q \o [i \in 1 .. n |-> y]
         IN  /\ r \in Seq(S) /\ Len(r) = Len(q) + n /\ Len(q) \in Nat
             /\ DOMAIN q = 1 .. Len(q) /\ DOMAIN r = 1 .. (Len(q) + n)
             /\ \A i \in 1 .. Len(q) : r[i] = q[i]
             /\ \A i \in Len(q) + 1 .. Len(q) + n : r[i] = y
<1> DEFINE f == [i \in 1 .. n |-> y]
<1>1. f \in Seq(S)
  BY IsASeq
<1>2. Len(f) = n
  BY <1>1, LenProperties
<1>3. /\ q \o f \in Seq(S) /\ Len(q \o f) = Len(q) + n /\ Len(q) \in Nat
      /\ \A i \in 1 .. Len(q) + n : (q \o f)[i] = IF i <= Len(q) THEN q[i] ELSE f[i - Len(q)]
  BY <1>1, <1>2, ConcatProperties, LenProperties
<1>4. DOMAIN q = 1 .. Len(q) /\ DOMAIN (q \o f) = 1 .. (Len(q) + n)
  BY <1>3, LenProperties
<1> HIDE DEF f
<1>5. \A i \in 1 .. Len(q) : (q \o f)[i] = q[i]
  BY <1>3
<1>6. \A i \in Len(q) + 1 .. Len(q) + n : (q \o f)[i] = y
  <2> SUFFICES ASSUME NEW i \in Len(q) + 1 .. Len(q) + n PROVE (q \o f)[i] = y
    OBVIOUS
  <2>1. i - Len(q) \in 1 .. n /\ i \in 1 .. Len(q) + n /\ ~(i <= Len(q))
    BY <1>3
  <2>2. f[i - Len(q)] = y
    BY <2>1 DEF f
  <2> QED
    BY <2>1, <2>2, <1>3
<1> QED
  BY <1>3, <1>4, <1>5, <1>6 DEF f

LEMMA CountFilled ==
  ASSUME NEW S, NEW q \in Seq(S), NEW y \in S, NEW n \in Nat, NEW x, x # y
  PROVE  Count(q \o [i \in 1 .. n |-> y], x) = Count(q, x)
<1> DEFINE r == q \o [i \in 1 .. n |-> y]
<1>1. /\ DOMAIN q = 1 .. Len(q) /\ DOMAIN r = 1 .. (Len(q) + n) /\ Len(q) \in Nat
      /\ \A i \in 1 .. Len(q) : r[i] = q[i]
      /\ \A i \in Len(q) + 1 .. Len(q) + n : r[i] = y
  BY Filled
<1> HIDE DEF r
<1>2. {i \in DOMAIN r : r[i] = x} = {i \in DOMAIN q : q[i] = x}
  BY <1>1
<1> QED
  BY <1>2 DEF Count, r

--------------------------------------------------------------------------------
(* Steps of one thread, and what they do to the sets of threads. *)

Others(w) == \A v \in Thread \ {w} : threads'[v] = threads[v]

LEMMA MembersStep ==
  ASSUME NEW w \in Thread, Others(w), NEW p
  PROVE  Cardinality(Members(p)') =
           Cardinality(Members(p)) + Bit(threads'[w].pool = p) - Bit(threads[w].pool = p)
<1>1. Members(p) \in SUBSET Thread /\ Members(p)' \in SUBSET Thread
  BY DEF Members
<1>2. \A v \in Thread \ {w} : v \in Members(p) <=> v \in Members(p)'
  BY DEF Members, Others
<1>3. Cardinality(Members(p)') =
        Cardinality(Members(p)) + Bit(w \in Members(p)') - Bit(w \in Members(p))
  BY <1>1, <1>2, SetStep
<1>4. Bit(w \in Members(p)') = Bit(threads'[w].pool = p)
  BY DEF Members
<1>5. Bit(w \in Members(p)) = Bit(threads[w].pool = p)
  BY DEF Members
<1> QED
  BY <1>3, <1>4, <1>5

Waits(rec, p) == rec.at = "pop" /\ rec.pool = p

LEMMA WaitersStep ==
  ASSUME NEW w \in Thread, Others(w), NEW p
  PROVE  Cardinality(Waiters(p)') =
           Cardinality(Waiters(p)) + Bit(Waits(threads'[w], p)) - Bit(Waits(threads[w], p))
<1>1. Waiters(p) \in SUBSET Thread /\ Waiters(p)' \in SUBSET Thread
  BY DEF Waiters
<1>2. \A v \in Thread \ {w} : v \in Waiters(p) <=> v \in Waiters(p)'
  BY DEF Waiters, Others, At
<1>3. Cardinality(Waiters(p)') =
        Cardinality(Waiters(p)) + Bit(w \in Waiters(p)') - Bit(w \in Waiters(p))
  BY <1>1, <1>2, SetStep
<1>4. Bit(w \in Waiters(p)') = Bit(Waits(threads'[w], p))
  BY DEF Waiters, At, Waits
<1>5. Bit(w \in Waiters(p)) = Bit(Waits(threads[w], p))
  BY DEF Waiters, At, Waits
<1> QED
  BY <1>3, <1>4, <1>5

LEMMA IdleStep ==
  ASSUME NEW w \in Thread, Others(w)
  PROVE  Cardinality(Idle') =
           Cardinality(Idle) + Bit(threads'[w].at = "idle") - Bit(threads[w].at = "idle")
<1>1. Idle \in SUBSET Thread /\ Idle' \in SUBSET Thread
  BY DEF Idle
<1>2. \A v \in Thread \ {w} : v \in Idle <=> v \in Idle'
  BY DEF Idle, Others, At
<1>3. Cardinality(Idle') = Cardinality(Idle) + Bit(w \in Idle') - Bit(w \in Idle)
  BY <1>1, <1>2, SetStep
<1>4. Bit(w \in Idle') = Bit(threads'[w].at = "idle")
  BY DEF Idle, At
<1>5. Bit(w \in Idle) = Bit(threads[w].at = "idle")
  BY DEF Idle, At
<1> QED
  BY <1>3, <1>4, <1>5

LEMMA GlobalStep ==
  ASSUME NEW w \in Thread, Others(w)
  PROVE  Cardinality(Global') = Cardinality(Global)
           + Bit(threads'[w].at \in InGlobal) - Bit(threads[w].at \in InGlobal)
<1>1. Global \in SUBSET Thread /\ Global' \in SUBSET Thread
  BY DEF Global
<1>2. \A v \in Thread \ {w} : v \in Global <=> v \in Global'
  BY DEF Global, Others
<1>3. Cardinality(Global') = Cardinality(Global) + Bit(w \in Global') - Bit(w \in Global)
  BY <1>1, <1>2, SetStep
<1>4. Bit(w \in Global') = Bit(threads'[w].at \in InGlobal)
  BY DEF Global
<1>5. Bit(w \in Global) = Bit(threads[w].at \in InGlobal)
  BY DEF Global
<1> QED
  BY <1>3, <1>4, <1>5

\* The threads that come to a pool, apart from those that were not reached yet.
Arriving(p) == {w \in Members(p) : threads[w].at \in {"got", "start"}}
Arrives(rec, p) == rec.pool = p /\ rec.at \in {"got", "start"}

LEMMA ArrivingStep ==
  ASSUME NEW w \in Thread, Others(w), NEW p
  PROVE  Cardinality(Arriving(p)') = Cardinality(Arriving(p))
           + Bit(Arrives(threads'[w], p)) - Bit(Arrives(threads[w], p))
<1>1. Arriving(p) \in SUBSET Thread /\ Arriving(p)' \in SUBSET Thread
  BY DEF Arriving, Members
<1>2. \A v \in Thread \ {w} : v \in Arriving(p) <=> v \in Arriving(p)'
  BY DEF Arriving, Members, Others
<1>3. Cardinality(Arriving(p)') =
        Cardinality(Arriving(p)) + Bit(w \in Arriving(p)') - Bit(w \in Arriving(p))
  BY <1>1, <1>2, SetStep
<1>4. Bit(w \in Arriving(p)') = Bit(Arrives(threads'[w], p))
  BY DEF Arriving, Members, Arrives
<1>5. Bit(w \in Arriving(p)) = Bit(Arrives(threads[w], p))
  BY DEF Arriving, Members, Arrives
<1> QED
  BY <1>3, <1>4, <1>5

LEMMA Sizes ==
  ASSUME NEW p
  PROVE  /\ Cardinality(Members(p)) \in Nat /\ Cardinality(Waiters(p)) \in Nat
         /\ Cardinality(Idle) \in Nat /\ Cardinality(Global) \in Nat
         /\ Cardinality(Arriving(p)) \in Nat
         /\ Cardinality(Waiters(p)) <= Cardinality(Members(p))
<1>1. /\ Members(p) \in SUBSET Thread /\ Waiters(p) \in SUBSET Thread /\ Idle \in SUBSET Thread
      /\ Global \in SUBSET Thread /\ Arriving(p) \in SUBSET Thread
      /\ Waiters(p) \in SUBSET Members(p)
  BY DEF Members, Waiters, Idle, Global, Arriving
<1> QED
  BY <1>1, ThreadSets, SubsetSize

LEMMA NoMembers ==
  ASSUME NEW p
  PROVE  Cardinality(Members(p)) = 0 <=> Members(p) = {}
<1>1. Members(p) \in SUBSET Thread
  BY DEF Members
<1> QED
  BY <1>1, EmptySize

\* The same when no thread moves.
LEMMA ThreadsKept ==
  ASSUME threads' = threads, NEW p
  PROVE  /\ Members(p)' = Members(p) /\ Waiters(p)' = Waiters(p) /\ Idle' = Idle
         /\ Global' = Global /\ Arriving(p)' = Arriving(p)
  BY DEF Members, Waiters, Idle, Global, Arriving, At

--------------------------------------------------------------------------------
(* Base, from what a step does. *)

Placed(rec) == /\ rec.pool # None <=> rec.at \in InPool
               /\ rec.task # None <=> rec.at = "func"

LEMMA BaseStep ==
  ASSUME Base, Types', NEW w \in Thread, Others(w), Placed(threads'[w]),
         \A p \in Pool : PoolInv(p)',
         \A p \in Pool : pools'[p].num + Bit(threads[w].pool = p) + Count(unusedQueue, p) =
           pools[p].num + Bit(threads'[w].pool = p) + Count(unusedQueue', p),
         unusedThreads' + Bit(threads[w].at \in InGlobal) =
           unusedThreads + Bit(threads'[w].at \in InGlobal),
         unusedThreads' \in Int
  PROVE  Base'
<1>1. PlaceInv'
  <2> SUFFICES ASSUME NEW v \in Thread PROVE Placed(threads'[v])
    BY DEF PlaceInv, Placed
  <2>1. CASE v = w
    BY <2>1
  <2>2. CASE v # w
    BY <2>2 DEF Base, PlaceInv, Placed, Others
  <2> QED
    BY <2>1, <2>2
<1>2. UnusedInv'
  <2>1. Cardinality(Global') = Cardinality(Global)
           + Bit(threads'[w].at \in InGlobal) - Bit(threads[w].at \in InGlobal)
    BY GlobalStep
  <2>2. unusedThreads = Cardinality(Global) /\ Cardinality(Global) \in Nat
    BY Sizes DEF Base, UnusedInv
  <2>3. Bit(threads'[w].at \in InGlobal) \in {0, 1} /\ Bit(threads[w].at \in InGlobal) \in {0, 1}
    BY DEF Bit
  <2>4. unusedThreads' = Cardinality(Global')
    BY <2>1, <2>2, <2>3
  <2> QED
    BY <2>4 DEF UnusedInv
<1>3. ASSUME NEW p \in Pool PROVE CountInv(p)'
  <2>1. Cardinality(Members(p)') =
           Cardinality(Members(p)) + Bit(threads'[w].pool = p) - Bit(threads[w].pool = p)
    BY MembersStep
  <2>2. pools[p].num = Cardinality(Members(p)) + Count(unusedQueue, p)
    BY DEF Base, CountInv
  <2>3. Bit(threads'[w].pool = p) \in {0, 1} /\ Bit(threads[w].pool = p) \in {0, 1}
    BY DEF Bit
  <2>4. Cardinality(Members(p)) \in Nat
    BY Sizes
  <2>5. Count(unusedQueue, p) \in Nat
    BY CountNat DEF Base, Types
  <2>6. Count(unusedQueue', p) \in Nat
    BY CountNat DEF Types
  <2>7. pools'[p].num \in Nat
    BY DEF Types, PoolRecord
  <2>8. pools'[p].num + Bit(threads[w].pool = p) + Count(unusedQueue, p) =
           pools[p].num + Bit(threads'[w].pool = p) + Count(unusedQueue', p)
    OBVIOUS
  <2>9. pools'[p].num = Cardinality(Members(p)') + Count(unusedQueue', p)
    BY <2>1, <2>2, <2>3, <2>4, <2>5, <2>6, <2>7, <2>8
  <2> QED
    BY <2>9 DEF CountInv, Count
<1> QED
  BY <1>1, <1>2, <1>3 DEF Base

\* No thread moves.
LEMMA BaseStill ==
  ASSUME Base, Types', threads' = threads, unusedThreads' = unusedThreads,
         \A p \in Pool : PoolInv(p)',
         \A p \in Pool : pools'[p].num + Count(unusedQueue, p) =
           pools[p].num + Count(unusedQueue', p)
  PROVE  Base'
<1>1. PlaceInv' /\ UnusedInv'
  BY DEF Base, PlaceInv, UnusedInv, Global
<1>2. ASSUME NEW p \in Pool PROVE CountInv(p)'
  <2>1. Members(p)' = Members(p) /\ Cardinality(Members(p)) \in Nat
    BY ThreadsKept, Sizes
  <2>2. pools[p].num = Cardinality(Members(p)) + Count(unusedQueue, p)
    BY DEF Base, CountInv
  <2>5. Count(unusedQueue, p) \in Nat
    BY CountNat DEF Base, Types
  <2>6. Count(unusedQueue', p) \in Nat
    BY CountNat DEF Types
  <2>7. pools'[p].num \in Nat
    BY DEF Types, PoolRecord
  <2>8. pools'[p].num + Count(unusedQueue, p) = pools[p].num + Count(unusedQueue', p)
    OBVIOUS
  <2>9. pools'[p].num = Cardinality(Members(p)) + Count(unusedQueue', p)
    BY <2>1, <2>2, <2>5, <2>6, <2>7, <2>8
  <2> QED
    BY <2>9, <2>1 DEF CountInv, Count
<1> QED
  BY <1>1, <1>2 DEF Base

\* A thread moves within its pool or within the global pool, and nothing is counted anew.
LEMMA BaseWalk ==
  ASSUME Base, Types', NEW w \in Thread, Others(w), Placed(threads'[w]),
         threads'[w].pool = threads[w].pool,
         threads'[w].at \in InGlobal <=> threads[w].at \in InGlobal,
         unusedThreads' = unusedThreads, unusedQueue' = unusedQueue,
         \A p \in Pool : PoolInv(p)',
         \A p \in Pool : pools'[p].num = pools[p].num
  PROVE  Base'
<1>1. ASSUME NEW p \in Pool
      PROVE  pools'[p].num + Bit(threads[w].pool = p) + Count(unusedQueue, p) =
               pools[p].num + Bit(threads'[w].pool = p) + Count(unusedQueue', p)
  OBVIOUS
<1>2. Bit(threads[w].at \in InGlobal) = Bit(threads'[w].at \in InGlobal)
  BY DEF Bit
<1>3. unusedThreads' \in Int
  BY Sizes DEF Base, UnusedInv
<1>4. unusedThreads' + Bit(threads[w].at \in InGlobal) =
           unusedThreads + Bit(threads'[w].at \in InGlobal)
  BY <1>2
<1> QED
  BY <1>1, <1>3, <1>4, BaseStep

--------------------------------------------------------------------------------
(* Threads in the global pool, and g_thread_pool_set_max_unused_threads. *)

LEMMA PoolsKept ==
  ASSUME Base, pools' = pools
  PROVE  \A p \in Pool : PoolInv(p)' /\ pools'[p].num = pools[p].num
  BY DEF Base, PoolInv

\* The types after a step of one thread.
LEMMA TypesStep ==
  ASSUME Types, NEW w \in Thread, Others(w), threads' \in [Thread -> ThreadRecord],
         \A v \in asleep' : v = w \/ v \in asleep,
         w \in asleep' => threads'[w].at \in {"pop", "idle"},
         unusedQueue' \in Seq(Pool \cup {Marker}), killUnused' \in Int,
         maxUnused' = maxUnused, serial' = serial, setter' = setter,
         pools' \in [Pool -> PoolRecord], fate' \in [Task -> Fates], failures' \in Nat
  PROVE  Types'
<1>1. ASSUME NEW v \in asleep' PROVE v \in Thread /\ threads'[v].at \in {"pop", "idle"}
  <2>1. CASE v = w
    BY <2>1
  <2>2. CASE v # w
    <3>1. v \in Thread /\ threads[v].at \in {"pop", "idle"}
      BY <2>2 DEF Types, At
    <3>2. threads'[v] = threads[v]
      BY <3>1, <2>2 DEF Others
    <3> QED
      BY <3>1, <3>2
  <2> QED
    BY <2>1, <2>2
<1>2. asleep' \subseteq {v \in Thread : At(v, "pop")' \/ At(v, "idle")'}
  BY <1>1 DEF At
<1> QED
  BY <1>2 DEF Types

\* Such a step in the global pool, which no pool notices.
Unnoticed(w) == /\ Others(w) /\ pools' = pools /\ fate' = fate /\ failures' = failures
                /\ threads[w].at \in InGlobal /\ threads'[w].at \in InGlobal \cup {"none", "start"}
                /\ threads' \in [Thread -> ThreadRecord]

LEMMA TypesUnnoticed ==
  ASSUME Types, NEW w \in Thread, Unnoticed(w),
         \A v \in asleep' : v = w \/ v \in asleep,
         w \in asleep' => threads'[w].at = "idle",
         unusedQueue' \in Seq(Pool \cup {Marker}), killUnused' \in Int,
         maxUnused' = maxUnused, serial' = serial, setter' = setter
  PROVE  Types'
<1>1. /\ Others(w) /\ threads' \in [Thread -> ThreadRecord] /\ pools' \in [Pool -> PoolRecord]
      /\ fate' \in [Task -> Fates] /\ failures' \in Nat
  BY DEF Unnoticed, Types
<1>2. w \in asleep' => threads'[w].at \in {"pop", "idle"}
  OBVIOUS
<1> QED
  BY <1>1, <1>2, TypesStep

\* A step that only changes the thread's place and local variables.
LocalStep(w, from, to) ==
  /\ Unnoticed(w) /\ threads[w].at = from /\ threads'[w].at = to
  /\ threads'[w].pool = threads[w].pool /\ threads'[w].task = threads[w].task

LEMMA ReadLimitsDid ==
  ASSUME Types, NEW w \in Thread, ReadLimits(w)
  PROVE  LocalStep(w, "limits", "serial") \/ LocalStep(w, "update", "check")
<1> DEFINE to == IF threads[w].at = "limits" THEN "serial" ELSE "check"
           rec == [threads[w] EXCEPT !.at = to, !.limit = maxUnused, !.relayed = FALSE]
<1>1. /\ threads[w].at \in {"limits", "update"} /\ threads \in [Thread -> ThreadRecord]
      /\ threads[w] \in ThreadRecord
      /\ threads' = [threads EXCEPT ![w] = rec]
      /\ pools' = pools /\ fate' = fate /\ failures' = failures
      /\ maxUnused \in UnusedLimits \cup {0, DefaultUnused}
  BY DEF ReadLimits, At, Types, historyVars
<1>2. to \in {"serial", "check"}
  OBVIOUS
<1>3. to = IF threads[w].at = "limits" THEN "serial" ELSE "check"
  OBVIOUS
<1> HIDE DEF to
<1>4. rec \in ThreadRecord /\ rec.at = to /\ rec.pool = threads[w].pool /\ rec.task = threads[w].task
  BY <1>1, <1>2 DEF ThreadRecord, Places
<1> HIDE DEF rec
<1>5. /\ threads' \in [Thread -> ThreadRecord] /\ Others(w) /\ threads'[w].at = to
      /\ threads'[w].pool = threads[w].pool /\ threads'[w].task = threads[w].task
  BY <1>1, <1>4 DEF Others
<1> QED
  BY <1>1, <1>2, <1>3, <1>5 DEF LocalStep, Unnoticed, InGlobal

LEMMA ReadSerialDid ==
  ASSUME Types, NEW w \in Thread, ReadSerial(w)
  PROVE  LocalStep(w, "serial", "check")
<1>1. /\ threads[w].at = "serial" /\ threads[w] \in ThreadRecord /\ threads \in [Thread -> ThreadRecord]
      /\ threads' = [threads EXCEPT ![w].at = "check", ![w].seen = serial]
      /\ pools' = pools /\ fate' = fate /\ failures' = failures
      /\ serial \in Nat
  BY DEF ReadSerial, At, Types, historyVars
<1>2. /\ threads' \in [Thread -> ThreadRecord] /\ Others(w) /\ threads'[w].at = "check"
      /\ threads'[w].pool = threads[w].pool /\ threads'[w].task = threads[w].task
  BY <1>1 DEF ThreadRecord, Places, Others
<1> QED
  BY <1>1, <1>2 DEF LocalStep, Unnoticed, InGlobal

\* A thread that goes to another place, and changes nothing else of its own.
LEMMA GoDid ==
  ASSUME Types, NEW w \in Thread, NEW place \in Places, Go(w, place)
  PROVE  /\ threads' \in [Thread -> ThreadRecord] /\ Others(w) /\ threads'[w].at = place
         /\ threads'[w].pool = threads[w].pool /\ threads'[w].task = threads[w].task
  BY DEF Go, Types, ThreadRecord, Others

LEMMA GoLocal ==
  ASSUME Types, NEW w \in Thread, NEW from \in InGlobal, NEW to \in InGlobal, Go(w, to),
         threads[w].at = from, pools' = pools, fate' = fate, failures' = failures
  PROVE  LocalStep(w, from, to)
<1>1. to \in Places
  BY DEF InGlobal, Places
<1> QED
  BY <1>1, GoDid DEF LocalStep, Unnoticed

LEMMA CheckLimitDid ==
  ASSUME Types, NEW w \in Thread, CheckLimit(w)
  PROVE  LocalStep(w, "check", "quit") \/ LocalStep(w, "check", "enter")
<1>1. threads[w].at = "check" /\ pools' = pools /\ fate' = fate /\ failures' = failures
  BY DEF CheckLimit, At, historyVars
<1>2. Go(w, "quit") \/ Go(w, "enter")
  BY DEF CheckLimit
<1>3. "check" \in InGlobal /\ "quit" \in InGlobal /\ "enter" \in InGlobal
  BY DEF InGlobal
<1> QED
  BY <1>1, <1>2, <1>3, GoLocal

\* Such a step keeps Base.
LEMMA BaseLocal ==
  ASSUME Base, NEW w \in Thread, NEW from \in InGlobal, NEW to \in InGlobal,
         LocalStep(w, from, to), from # "got", to # "got", Types',
         unusedThreads' = unusedThreads, unusedQueue' = unusedQueue
  PROVE  Base'
<1>1. /\ Others(w) /\ threads'[w].pool = threads[w].pool /\ threads'[w].task = threads[w].task
      /\ threads[w].at = from /\ threads'[w].at = to /\ pools' = pools
  BY DEF LocalStep, Unnoticed
<1>2. threads'[w].at \in InGlobal <=> threads[w].at \in InGlobal
  BY <1>1
<1>3. /\ threads[w].pool # None <=> threads[w].at \in InPool
      /\ threads[w].task # None <=> threads[w].at = "func"
  BY DEF Base, PlaceInv
<1>4. from \notin InPool /\ to \notin InPool /\ from # "func" /\ to # "func"
  BY DEF InGlobal, InPool
<1>5. Placed(threads'[w])
  BY <1>1, <1>3, <1>4 DEF Placed
<1>6. \A p \in Pool : PoolInv(p)'
  BY <1>1, PoolsKept
<1>7. \A p \in Pool : pools'[p].num = pools[p].num
  BY <1>1
<1> QED
  BY <1>1, <1>2, <1>5, <1>6, <1>7, BaseWalk

LEMMA BaseReadLimits ==
  ASSUME Base, NEW w \in Thread, ReadLimits(w)
  PROVE  Base'
<1>1. Types /\ (LocalStep(w, "limits", "serial") \/ LocalStep(w, "update", "check"))
  BY ReadLimitsDid DEF Base
<1>2. /\ asleep' = asleep /\ unusedQueue' = unusedQueue /\ unusedThreads' = unusedThreads
      /\ killUnused' = killUnused /\ maxUnused' = maxUnused /\ serial' = serial /\ setter' = setter
  BY DEF ReadLimits, unusedVars
<1>3. w \notin asleep /\ unusedQueue' \in Seq(Pool \cup {Marker}) /\ killUnused' \in Int
  BY <1>1, <1>2 DEF Types, At, LocalStep
<1>4. Unnoticed(w)
  BY <1>1 DEF LocalStep
<1>5. Types'
  BY <1>1, <1>2, <1>3, <1>4, TypesUnnoticed
<1>6. /\ "limits" \in InGlobal /\ "serial" \in InGlobal
      /\ "update" \in InGlobal /\ "check" \in InGlobal
  BY DEF InGlobal
<1> QED
  BY <1>1, <1>2, <1>5, <1>6, BaseLocal

LEMMA BaseReadSerial ==
  ASSUME Base, NEW w \in Thread, ReadSerial(w)
  PROVE  Base'
<1>1. Types /\ LocalStep(w, "serial", "check")
  BY ReadSerialDid DEF Base
<1>2. /\ asleep' = asleep /\ unusedQueue' = unusedQueue /\ unusedThreads' = unusedThreads
      /\ killUnused' = killUnused /\ maxUnused' = maxUnused /\ serial' = serial /\ setter' = setter
  BY DEF ReadSerial, unusedVars
<1>3. w \notin asleep /\ unusedQueue' \in Seq(Pool \cup {Marker}) /\ killUnused' \in Int
  BY <1>1, <1>2 DEF Types, At, LocalStep
<1>4. Unnoticed(w)
  BY <1>1 DEF LocalStep
<1>5. Types'
  BY <1>1, <1>2, <1>3, <1>4, TypesUnnoticed
<1>6. "serial" \in InGlobal /\ "check" \in InGlobal
  BY DEF InGlobal
<1> QED
  BY <1>1, <1>2, <1>5, <1>6, BaseLocal

LEMMA BaseCheckLimit ==
  ASSUME Base, NEW w \in Thread, CheckLimit(w)
  PROVE  Base'
<1>1. Types /\ (LocalStep(w, "check", "quit") \/ LocalStep(w, "check", "enter"))
  BY CheckLimitDid DEF Base
<1>2. /\ asleep' = asleep /\ unusedQueue' = unusedQueue /\ unusedThreads' = unusedThreads
      /\ killUnused' = killUnused /\ maxUnused' = maxUnused /\ serial' = serial /\ setter' = setter
  BY DEF CheckLimit, unusedVars
<1>3. w \notin asleep /\ unusedQueue' \in Seq(Pool \cup {Marker}) /\ killUnused' \in Int
  BY <1>1, <1>2 DEF Types, At, LocalStep
<1>4. Unnoticed(w)
  BY <1>1 DEF LocalStep
<1>5. Types'
  BY <1>1, <1>2, <1>3, <1>4, TypesUnnoticed
<1>6. "check" \in InGlobal /\ "quit" \in InGlobal /\ "enter" \in InGlobal
  BY DEF InGlobal
<1> QED
  BY <1>1, <1>2, <1>5, <1>6, BaseLocal

\* A thread takes what is first in the global queue.
LEMMA TakePoolDid ==
  ASSUME Base, NEW w \in Thread, threads[w].at \in {"enter", "idle"}, TakePool(w),
         pools' = pools, fate' = fate, failures' = failures
  PROVE  /\ Unnoticed(w) /\ unusedQueue # <<>> /\ unusedQueue' = Tail(unusedQueue)
         /\ unusedQueue' \in Seq(Pool \cup {Marker}) /\ asleep' = asleep \ {w}
         /\ threads[w].pool = None /\ threads'[w].task = threads[w].task
         /\ \/ /\ Head(unusedQueue) = Marker /\ threads'[w].at = "marker"
               /\ threads'[w].pool = None
            \/ /\ Head(unusedQueue) \in Pool /\ threads'[w].at = "got"
               /\ threads'[w].pool = Head(unusedQueue)
<1>1. /\ unusedQueue # <<>> /\ unusedQueue \in Seq(Pool \cup {Marker})
      /\ threads \in [Thread -> ThreadRecord]
      /\ unusedQueue' = Tail(unusedQueue) /\ asleep' = asleep \ {w}
      /\ threads' = IF Head(unusedQueue) = Marker THEN [threads EXCEPT ![w].at = "marker"]
                    ELSE [threads EXCEPT ![w].at = "got", ![w].pool = Head(unusedQueue)]
  BY DEF TakePool, Base, Types
<1>2. Head(unusedQueue) \in Pool \cup {Marker} /\ unusedQueue' \in Seq(Pool \cup {Marker})
  BY <1>1, HeadTailProperties
<1>3. threads[w].pool = None
  BY DEF Base, PlaceInv, InPool
<1>4. CASE Head(unusedQueue) = Marker
  <2>1. /\ threads' \in [Thread -> ThreadRecord] /\ Others(w) /\ threads'[w].at = "marker"
        /\ threads'[w].pool = threads[w].pool /\ threads'[w].task = threads[w].task
    BY <1>1, <1>4 DEF ThreadRecord, Places, Others
  <2> QED
    BY <2>1, <1>1, <1>2, <1>3, <1>4 DEF Unnoticed, InGlobal
<1>5. CASE Head(unusedQueue) # Marker
  <2> DEFINE x == Head(unusedQueue)
             rec == [threads[w] EXCEPT !.at = "got", !.pool = x]
  <2>2. threads' = [threads EXCEPT ![w] = rec] /\ x \in Pool
    BY <1>1, <1>2, <1>5
  <2> HIDE DEF x
  <2>4. rec \in ThreadRecord /\ rec.at = "got" /\ rec.pool = x /\ rec.task = threads[w].task
    BY <1>1, <2>2 DEF ThreadRecord, Places
  <2> HIDE DEF rec
  <2>3. /\ threads' \in [Thread -> ThreadRecord] /\ Others(w) /\ threads'[w].at = "got"
        /\ threads'[w].pool = x /\ threads'[w].task = threads[w].task
    BY <1>1, <2>2, <2>4 DEF Others
  <2>1. /\ threads' \in [Thread -> ThreadRecord] /\ Others(w) /\ threads'[w].at = "got"
        /\ threads'[w].pool = Head(unusedQueue) /\ threads'[w].task = threads[w].task
        /\ Head(unusedQueue) \in Pool
    BY <2>2, <2>3 DEF x
  <2> QED
    BY <2>1, <1>1, <1>2, <1>3 DEF Unnoticed, InGlobal
<1> QED
  BY <1>4, <1>5

LEMMA BaseTakePool ==
  ASSUME Base, NEW w \in Thread, threads[w].at \in {"enter", "idle"}, TakePool(w),
         pools' = pools, fate' = fate, failures' = failures
  PROVE  Base'
<1>1. /\ Unnoticed(w) /\ unusedQueue # <<>> /\ unusedQueue' = Tail(unusedQueue)
      /\ unusedQueue' \in Seq(Pool \cup {Marker}) /\ asleep' = asleep \ {w}
      /\ threads[w].pool = None /\ threads'[w].task = threads[w].task
      /\ \/ /\ Head(unusedQueue) = Marker /\ threads'[w].at = "marker"
            /\ threads'[w].pool = None
         \/ /\ Head(unusedQueue) \in Pool /\ threads'[w].at = "got"
            /\ threads'[w].pool = Head(unusedQueue)
  BY TakePoolDid
<1>2. /\ killUnused' = killUnused /\ maxUnused' = maxUnused /\ serial' = serial
      /\ setter' = setter /\ unusedThreads' = unusedThreads
  BY DEF TakePool
<1>3. Types /\ killUnused' \in Int
  BY <1>2 DEF Base, Types
<1>4. Types'
  BY <1>1, <1>2, <1>3, TypesUnnoticed
<1>5. threads[w].task = None
  BY DEF Base, PlaceInv
<1>6. Placed(threads'[w])
  BY <1>1, <1>5, PoolAssumption DEF Placed, InPool
<1>7. \A p \in Pool : PoolInv(p)'
  BY <1>1, PoolsKept DEF Unnoticed
<1>8. ASSUME NEW p \in Pool
      PROVE  pools'[p].num + Bit(threads[w].pool = p) + Count(unusedQueue, p) =
               pools[p].num + Bit(threads'[w].pool = p) + Count(unusedQueue', p)
  <2>1. /\ Count(unusedQueue, p) = Count(Tail(unusedQueue), p) + Bit(Head(unusedQueue) = p)
        /\ Count(unusedQueue', p) \in Nat
    BY <1>1, <1>3, CountTail, CountNat DEF Types
  <2>2. Bit(threads[w].pool = p) = 0 /\ Bit(threads'[w].pool = p) = Bit(Head(unusedQueue) = p)
    BY <1>1, PoolAssumption DEF Bit
  <2>3. pools'[p].num = pools[p].num /\ pools[p].num \in Nat
    BY <1>1, <1>3 DEF Unnoticed, Types, PoolRecord
  <2>4. Bit(Head(unusedQueue) = p) \in {0, 1}
    BY DEF Bit
  <2>5. Count(unusedQueue, p) = Count(unusedQueue', p) + Bit(Head(unusedQueue) = p)
    BY <2>1, <1>1
  <2> HIDE DEF Count
  <2> QED
    BY <2>1, <2>2, <2>3, <2>4, <2>5
<1>9. Bit(threads[w].at \in InGlobal) = 1 /\ Bit(threads'[w].at \in InGlobal) = 1
  BY <1>1 DEF Bit, InGlobal
<1>10. unusedThreads' \in Int
  BY <1>2, Sizes DEF Base, UnusedInv
<1>11. unusedThreads' + Bit(threads[w].at \in InGlobal) =
           unusedThreads + Bit(threads'[w].at \in InGlobal)
  BY <1>2, <1>9
<1>12. Others(w)
  BY <1>1 DEF Unnoticed
<1> QED
  BY <1>4, <1>6, <1>7, <1>8, <1>10, <1>11, <1>12, BaseStep

\* A thread that finds nothing in the global queue goes to sleep, or stops.
LEMMA BaseIdleMove ==
  ASSUME Base, NEW w \in Thread, NEW to \in {"idle", "quit"}, threads[w].at \in {"enter", "idle"},
         Go(w, to), asleep' = IF to = "idle" THEN asleep \cup {w} ELSE asleep \ {w},
         UNCHANGED unusedVars, pools' = pools, fate' = fate, failures' = failures
  PROVE  Base' /\ LocalStep(w, threads[w].at, to)
<1>1. /\ unusedQueue' = unusedQueue /\ unusedThreads' = unusedThreads
      /\ killUnused' = killUnused /\ maxUnused' = maxUnused /\ serial' = serial /\ setter' = setter
  BY DEF unusedVars
<1>2. Types /\ threads[w].at \in InGlobal /\ to \in InGlobal
  BY DEF Base, InGlobal
<1>3. LocalStep(w, threads[w].at, to)
  BY <1>2, GoLocal
<1>4. Unnoticed(w) /\ threads'[w].at = to
  BY <1>3 DEF LocalStep
<1>5. unusedQueue' \in Seq(Pool \cup {Marker}) /\ killUnused' \in Int
  BY <1>1, <1>2 DEF Types
<1>6. (\A v \in asleep' : v = w \/ v \in asleep) /\ (w \in asleep' => threads'[w].at = "idle")
  BY <1>4
<1>7. Types'
  BY <1>1, <1>2, <1>4, <1>5, <1>6, TypesUnnoticed
<1> QED
  BY <1>1, <1>2, <1>3, <1>7, BaseLocal

LEMMA BaseIdlePop ==
  ASSUME Base, NEW w \in Thread, IdlePop(w)
  PROVE  Base'
<1>1. pools' = pools /\ fate' = fate /\ failures' = failures
  BY DEF IdlePop, historyVars
<1>2. CASE threads[w].at \in {"enter", "idle"} /\ TakePool(w)
  BY <1>1, <1>2, BaseTakePool
<1>3. CASE /\ threads[w].at \in {"enter", "idle"} /\ Go(w, "idle") /\ asleep' = asleep \cup {w}
           /\ UNCHANGED unusedVars
  BY <1>1, <1>3, BaseIdleMove
<1> QED
  BY <1>2, <1>3 DEF IdlePop, At

LEMMA BaseIdleTimesOut ==
  ASSUME Base, NEW w \in Thread, IdleTimesOut(w)
  PROVE  Base'
<1>1. pools' = pools /\ fate' = fate /\ failures' = failures /\ threads[w].at = "idle"
  BY DEF IdleTimesOut, historyVars, At
<1>2. CASE TakePool(w)
  BY <1>1, <1>2, BaseTakePool
<1>3. CASE Go(w, "quit") /\ asleep' = asleep \ {w} /\ UNCHANGED unusedVars
  BY <1>1, <1>3, BaseIdleMove
<1> QED
  BY <1>2, <1>3 DEF IdleTimesOut

\* A marker is relayed, or obeyed.
\* What a thread does with a marker.
MarkerStep(w) == \E from \in {"marker", "relay", "kill"},
                    to \in {"relay", "kill", "check", "quit", "update"} : LocalStep(w, from, to)

LEMMA HandleMarkerDid ==
  ASSUME Types, NEW w \in Thread, HandleMarker(w)
  PROVE  /\ MarkerStep(w)
         /\ \/ unusedQueue' = unusedQueue /\ asleep' = asleep
            \/ /\ unusedQueue' = Append(unusedQueue, Marker)
               /\ \E X \in Signal(Idle, 1) : asleep' = asleep \ X
         /\ killUnused' \in Int /\ unusedThreads' = unusedThreads
         /\ maxUnused' = maxUnused /\ serial' = serial /\ setter' = setter
<1>1. /\ threads \in [Thread -> ThreadRecord] /\ threads[w] \in ThreadRecord
      /\ pools' = pools /\ fate' = fate /\ failures' = failures
      /\ serial \in Nat /\ killUnused \in Int
      /\ unusedThreads' = unusedThreads
      /\ maxUnused' = maxUnused /\ serial' = serial /\ setter' = setter
  BY DEF HandleMarker, Types, historyVars
<1>2. ASSUME NEW from \in {"marker", "relay", "kill"}, threads[w].at = from,
             NEW to \in {"relay", "kill", "check", "quit", "update"},
             NEW seen \in Nat, NEW relayed \in BOOLEAN,
             threads' = [threads EXCEPT ![w] =
                           [threads[w] EXCEPT !.at = to, !.seen = seen, !.relayed = relayed]]
      PROVE  MarkerStep(w)
  <2> DEFINE rec == [threads[w] EXCEPT !.at = to, !.seen = seen, !.relayed = relayed]
  <2>1. rec \in ThreadRecord /\ rec.at = to /\ rec.pool = threads[w].pool /\ rec.task = threads[w].task
    BY <1>1, <1>2 DEF ThreadRecord, Places
  <2>2. threads' = [threads EXCEPT ![w] = rec]
    BY <1>2
  <2> HIDE DEF rec
  <2>3. /\ threads' \in [Thread -> ThreadRecord] /\ Others(w) /\ threads'[w].at = to
        /\ threads'[w].pool = threads[w].pool /\ threads'[w].task = threads[w].task
    BY <1>1, <2>1, <2>2 DEF Others
  <2>4. LocalStep(w, from, to)
    BY <1>1, <1>2, <2>3 DEF LocalStep, Unnoticed, InGlobal
  <2> QED
    BY <2>4 DEF MarkerStep
<1>3. threads[w].seen \in Nat /\ threads[w].relayed \in BOOLEAN
  BY <1>1 DEF ThreadRecord
<1>4. CASE At(w, "marker")
  <2> DEFINE to == IF threads[w].seen # serial THEN "kill"
                   ELSE IF threads[w].relayed THEN "check" ELSE "relay"
  <2>1. threads' = [threads EXCEPT ![w].at = to, ![w].seen = serial]
    BY <1>4 DEF HandleMarker, At
  <2>2. to \in {"relay", "kill", "check", "quit", "update"}
    OBVIOUS
  <2> HIDE DEF to
  <2>3. threads' = [threads EXCEPT ![w] =
           [threads[w] EXCEPT !.at = to, !.seen = serial, !.relayed = threads[w].relayed]]
    BY <2>1, <1>1 DEF ThreadRecord
  <2>4. MarkerStep(w)
    BY <2>2, <2>3, <1>1, <1>2, <1>3, <1>4 DEF At
  <2> QED
    BY <2>4, <1>1, <1>4 DEF HandleMarker, At
<1>5. CASE At(w, "relay")
  <2>1. /\ threads' = [threads EXCEPT ![w].at = "check", ![w].relayed = TRUE]
        /\ unusedQueue' = Append(unusedQueue, Marker) /\ killUnused' = killUnused
        /\ \E X \in Signal(Idle, 1) : asleep' = asleep \ X
    BY <1>5 DEF HandleMarker, At
  <2>2. threads' = [threads EXCEPT ![w] =
           [threads[w] EXCEPT !.at = "check", !.seen = threads[w].seen, !.relayed = TRUE]]
    BY <2>1, <1>1 DEF ThreadRecord
  <2>3. MarkerStep(w)
    BY <2>2, <1>2, <1>3, <1>5 DEF At
  <2> QED
    BY <2>1, <2>3, <1>1
<1>6. CASE At(w, "kill")
  <2> DEFINE to == IF killUnused > 0 THEN "quit" ELSE "update"
  <2>1. /\ threads' = [threads EXCEPT ![w].at = to]
        /\ unusedQueue' = unusedQueue /\ asleep' = asleep /\ killUnused' = killUnused - 1
    BY <1>6 DEF HandleMarker, At, Go
  <2>2. to \in {"relay", "kill", "check", "quit", "update"}
    OBVIOUS
  <2> HIDE DEF to
  <2>3. threads' = [threads EXCEPT ![w] =
           [threads[w] EXCEPT !.at = to, !.seen = threads[w].seen, !.relayed = threads[w].relayed]]
    BY <2>1, <1>1 DEF ThreadRecord
  <2>4. MarkerStep(w)
    BY <2>2, <2>3, <1>2, <1>3, <1>6 DEF At
  <2> QED
    BY <2>1, <2>4, <1>1
<1> QED
  BY <1>4, <1>5, <1>6 DEF HandleMarker

\* A marker that is appended is no pool.
LEMMA MarkerCounts ==
  ASSUME Types, NEW p \in Pool
  PROVE  Count(Append(unusedQueue, Marker), p) = Count(unusedQueue, p)
<1>1. Count(Append(unusedQueue, Marker), p) = Count(unusedQueue, p) + Bit(Marker = p)
  BY CountAppend DEF Types
<1>2. Bit(Marker = p) = 0 /\ Count(unusedQueue, p) \in Nat
  BY PoolAssumption, CountNat DEF Types, Bit
<1> QED
  BY <1>1, <1>2

LEMMA BaseHandleMarker ==
  ASSUME Base, NEW w \in Thread, HandleMarker(w)
  PROVE  Base'
<1>1. /\ Types
      /\ MarkerStep(w)
      /\ \/ unusedQueue' = unusedQueue /\ asleep' = asleep
         \/ /\ unusedQueue' = Append(unusedQueue, Marker)
            /\ \E X \in Signal(Idle, 1) : asleep' = asleep \ X
      /\ killUnused' \in Int /\ unusedThreads' = unusedThreads
      /\ maxUnused' = maxUnused /\ serial' = serial /\ setter' = setter
  BY HandleMarkerDid DEF Base
<1>2. /\ Unnoticed(w) /\ Others(w) /\ threads[w].at \in {"marker", "relay", "kill"}
      /\ threads'[w].at \in {"relay", "kill", "check", "quit", "update"}
      /\ threads'[w].pool = threads[w].pool /\ threads'[w].task = threads[w].task
      /\ pools' = pools
  BY <1>1 DEF MarkerStep, LocalStep, Unnoticed
<1>3. w \notin asleep /\ unusedQueue \in Seq(Pool \cup {Marker})
  BY <1>1, <1>2 DEF Types, At
<1>4. unusedQueue' \in Seq(Pool \cup {Marker})
  BY <1>1, <1>3, AppendProperties
<1>5. asleep' \subseteq asleep
  BY <1>1
<1>6. Types'
  BY <1>1, <1>2, <1>3, <1>4, <1>5, TypesUnnoticed
<1>7. threads[w].pool = None /\ threads[w].task = None
  BY <1>2 DEF Base, PlaceInv, InPool
<1>8. Placed(threads'[w])
  BY <1>2, <1>7 DEF Placed, InPool
<1>9. \A p \in Pool : PoolInv(p)'
  BY <1>2, PoolsKept
<1>10. ASSUME NEW p \in Pool
       PROVE  pools'[p].num + Bit(threads[w].pool = p) + Count(unusedQueue, p) =
                pools[p].num + Bit(threads'[w].pool = p) + Count(unusedQueue', p)
  <2>1. Count(unusedQueue', p) = Count(unusedQueue, p)
    BY <1>1, MarkerCounts
  <2> QED
    BY <2>1, <1>2
<1>11. Bit(threads[w].at \in InGlobal) = 1 /\ Bit(threads'[w].at \in InGlobal) = 1
  BY <1>2 DEF Bit, InGlobal
<1>12. unusedThreads' \in Int
  BY <1>1, Sizes DEF Base, UnusedInv
<1>13. unusedThreads' + Bit(threads[w].at \in InGlobal) =
           unusedThreads + Bit(threads'[w].at \in InGlobal)
  BY <1>1, <1>11
<1> QED
  BY <1>2, <1>6, <1>8, <1>9, <1>10, <1>12, <1>13, BaseStep

LEMMA LeaveIdleDid ==
  ASSUME Base, NEW w \in Thread, LeaveIdle(w)
  PROVE  /\ Unnoticed(w) /\ asleep' = asleep /\ threads'[w].pool = threads[w].pool
         /\ threads'[w].task = None /\ threads'[w].pool \in Pool \cup {None}
         /\ \/ threads[w].at = "quit" /\ threads'[w].at = "none"
            \/ threads[w].at = "got" /\ threads'[w].at = "start"
<1>1. /\ threads \in [Thread -> ThreadRecord] /\ threads[w].pool \in Pool \cup {None}
      /\ pools' = pools /\ fate' = fate /\ failures' = failures /\ asleep' = asleep
      /\ (threads[w].at = "quit" => threads[w].pool = None)
      /\ NoThread \in ThreadRecord
  BY DEF Base, Types, ThreadRecord, LeaveIdle, historyVars, PlaceInv, InPool, NoThread, Places
<1>2. CASE threads[w].at = "quit"
  <2>1. threads' = [threads EXCEPT ![w] = NoThread]
    BY <1>2 DEF LeaveIdle, At
  <2>2. threads' \in [Thread -> ThreadRecord] /\ Others(w) /\ threads'[w] = NoThread
    BY <2>1, <1>1 DEF Others
  <2> QED
    BY <2>2, <1>1, <1>2 DEF NoThread, Unnoticed, InGlobal
<1>3. CASE threads[w].at = "got"
  <2>1. threads' = [threads EXCEPT ![w] = [NoThread EXCEPT !.at = "start", !.pool = threads[w].pool]]
    BY <1>3 DEF LeaveIdle, At
  <2>2. [NoThread EXCEPT !.at = "start", !.pool = threads[w].pool] \in ThreadRecord
    BY <1>1 DEF NoThread, ThreadRecord, Places
  <2>3. /\ threads' \in [Thread -> ThreadRecord] /\ Others(w)
        /\ threads'[w] = [NoThread EXCEPT !.at = "start", !.pool = threads[w].pool]
    BY <2>1, <2>2, <1>1 DEF Others
  <2>4. threads'[w].at = "start" /\ threads'[w].pool = threads[w].pool /\ threads'[w].task = None
    BY <2>3 DEF NoThread
  <2> QED
    BY <2>3, <2>4, <1>1, <1>3 DEF Unnoticed, InGlobal
<1> QED
  BY <1>2, <1>3 DEF LeaveIdle, At

LEMMA BaseLeaveIdle ==
  ASSUME Base, NEW w \in Thread, LeaveIdle(w)
  PROVE  Base'
<1>1. /\ Unnoticed(w) /\ asleep' = asleep /\ threads'[w].pool = threads[w].pool
      /\ threads'[w].task = None /\ threads'[w].pool \in Pool \cup {None}
      /\ \/ threads[w].at = "quit" /\ threads'[w].at = "none"
         \/ threads[w].at = "got" /\ threads'[w].at = "start"
  BY LeaveIdleDid
<1>2. /\ killUnused' = killUnused /\ maxUnused' = maxUnused /\ serial' = serial
      /\ setter' = setter /\ unusedThreads' = unusedThreads - 1 /\ unusedQueue' = unusedQueue
  BY DEF LeaveIdle
<1>3. /\ Types /\ killUnused' \in Int /\ unusedQueue' \in Seq(Pool \cup {Marker})
      /\ w \notin asleep /\ pools' = pools /\ Others(w)
  BY <1>1, <1>2 DEF Base, Types, At, Unnoticed
<1>4. Types'
  BY <1>1, <1>2, <1>3, TypesUnnoticed
<1>5. threads[w].pool # None <=> threads[w].at \in InPool
  BY DEF Base, PlaceInv
<1>6. Placed(threads'[w])
  BY <1>1, <1>5 DEF Placed, InPool
<1>7. \A p \in Pool : PoolInv(p)'
  BY <1>3, PoolsKept
<1>8. \A p \in Pool : pools'[p].num + Bit(threads[w].pool = p) + Count(unusedQueue, p) =
               pools[p].num + Bit(threads'[w].pool = p) + Count(unusedQueue', p)
  BY <1>1, <1>2, <1>3
<1>9. Bit(threads[w].at \in InGlobal) = 1 /\ Bit(threads'[w].at \in InGlobal) = 0
  BY <1>1 DEF Bit, InGlobal
<1>10. unusedThreads \in Int
  BY Sizes DEF Base, UnusedInv
<1>11. unusedThreads' + Bit(threads[w].at \in InGlobal) =
           unusedThreads + Bit(threads'[w].at \in InGlobal)
  BY <1>2, <1>9, <1>10
<1>12. unusedThreads' \in Int
  BY <1>2, <1>10
<1> QED
  BY <1>3, <1>4, <1>6, <1>7, <1>8, <1>11, <1>12, BaseStep

LEMMA BaseSetMaxUnused ==
  ASSUME Base, NEW m \in UnusedLimits, SetMaxUnused(m)
  PROVE  Base'
<1>1. /\ maxUnused' = m /\ setter' = IF m = -1 THEN NoSetter ELSE [at |-> "read", n |-> m]
      /\ pools' = pools /\ threads' = threads /\ asleep' = asleep /\ unusedQueue' = unusedQueue
      /\ unusedThreads' = unusedThreads /\ killUnused' = killUnused /\ serial' = serial
      /\ fate' = fate /\ failures' = failures
  BY DEF SetMaxUnused
<1>2. setter' \in SetterRecord
  BY <1>1, PoolAssumption DEF SetterRecord, NoSetter
<1>3. Types'
  BY <1>1, <1>2 DEF Base, Types, At
<1>4. \A p \in Pool : PoolInv(p)'
  BY <1>1, PoolsKept
<1>5. \A p \in Pool : pools'[p].num + Count(unusedQueue, p) = pools[p].num + Count(unusedQueue', p)
  BY <1>1
<1> QED
  BY <1>1, <1>3, <1>4, <1>5, BaseStill

\* What the setter's last step pushes.
LEMMA SetterStepDid ==
  ASSUME Types, SetterStep, UnusedInv
  PROVE  /\ pools' = pools /\ threads' = threads /\ unusedThreads' = unusedThreads
         /\ maxUnused' = maxUnused /\ fate' = fate /\ failures' = failures
         /\ setter' \in SetterRecord /\ killUnused' \in Int /\ serial' \in Nat
         /\ \/ unusedQueue' = unusedQueue /\ asleep' = asleep
            \/ \E n \in Nat : /\ unusedQueue' = unusedQueue \o [i \in 1 .. n |-> Marker]
                              /\ \E X \in Signal(Idle, n) : asleep' = asleep \ X
<1>1. /\ pools' = pools /\ threads' = threads /\ unusedThreads' = unusedThreads
      /\ maxUnused' = maxUnused /\ fate' = fate /\ failures' = failures
      /\ setter \in SetterRecord /\ setter.n \in Nat /\ killUnused \in Int /\ serial \in Nat
      /\ NoSetter \in SetterRecord
  BY DEF SetterStep, historyVars, Types, SetterRecord, NoSetter
<1>2. unusedThreads \in Nat
  BY Sizes DEF UnusedInv
<1>3. CASE /\ setter' = IF unusedThreads > setter.n
                        THEN [at |-> "kill", n |-> unusedThreads - setter.n] ELSE NoSetter
           /\ UNCHANGED <<killUnused, serial, unusedQueue, asleep>>
  <2>1. unusedThreads > setter.n => unusedThreads - setter.n \in Nat
    BY <1>1, <1>2
  <2>2. setter' \in SetterRecord
    BY <2>1, <1>1, <1>3 DEF SetterRecord
  <2> QED
    BY <2>2, <1>1, <1>3
<1>4. CASE /\ killUnused' = setter.n /\ setter' = [setter EXCEPT !.at = "serial"]
           /\ UNCHANGED <<serial, unusedQueue, asleep>>
  <2>1. setter' \in SetterRecord
    BY <1>1, <1>4 DEF SetterRecord
  <2> QED
    BY <2>1, <1>1, <1>4
<1>5. CASE /\ serial' = serial + 1 /\ setter' = [setter EXCEPT !.at = "push"]
           /\ UNCHANGED <<killUnused, unusedQueue, asleep>>
  <2>1. setter' \in SetterRecord /\ serial' \in Nat
    BY <1>1, <1>5 DEF SetterRecord
  <2> QED
    BY <2>1, <1>1, <1>5
<1>6. CASE /\ unusedQueue' = unusedQueue \o [i \in 1 .. setter.n |-> Marker]
           /\ \E X \in Signal(Idle, setter.n) : asleep' = asleep \ X
           /\ setter' = NoSetter /\ UNCHANGED <<killUnused, serial>>
  BY <1>1, <1>6
<1> QED
  BY <1>3, <1>4, <1>5, <1>6 DEF SetterStep

LEMMA BaseSetterStep ==
  ASSUME Base, SetterStep
  PROVE  Base'
<1>1. /\ pools' = pools /\ threads' = threads /\ unusedThreads' = unusedThreads
      /\ maxUnused' = maxUnused /\ fate' = fate /\ failures' = failures
      /\ setter' \in SetterRecord /\ killUnused' \in Int /\ serial' \in Nat
      /\ \/ unusedQueue' = unusedQueue /\ asleep' = asleep
         \/ \E n \in Nat : /\ unusedQueue' = unusedQueue \o [i \in 1 .. n |-> Marker]
                           /\ \E X \in Signal(Idle, n) : asleep' = asleep \ X
  BY SetterStepDid DEF Base
<1>2. unusedQueue \in Seq(Pool \cup {Marker}) /\ Marker \in Pool \cup {Marker}
  BY DEF Base, Types
<1>3. /\ unusedQueue' \in Seq(Pool \cup {Marker}) /\ asleep' \subseteq asleep
      /\ \A p \in Pool : Count(unusedQueue', p) = Count(unusedQueue, p)
  <2>1. CASE unusedQueue' = unusedQueue /\ asleep' = asleep
    BY <2>1, <1>2
  <2>2. ASSUME NEW n \in Nat, unusedQueue' = unusedQueue \o [i \in 1 .. n |-> Marker],
               \E X \in Signal(Idle, n) : asleep' = asleep \ X
        PROVE  /\ unusedQueue' \in Seq(Pool \cup {Marker}) /\ asleep' \subseteq asleep
               /\ \A p \in Pool : Count(unusedQueue', p) = Count(unusedQueue, p)
    <3>1. unusedQueue \o [i \in 1 .. n |-> Marker] \in Seq(Pool \cup {Marker})
      BY <1>2, Filled
    <3>2. ASSUME NEW p \in Pool PROVE Count(unusedQueue', p) = Count(unusedQueue, p)
      <4>1. p # Marker
        BY PoolAssumption
      <4> QED
        BY <4>1, <2>2, <1>2, CountFilled
    <3> QED
      BY <3>1, <3>2, <2>2
  <2> QED
    BY <2>1, <2>2, <1>1
<1>4. Types'
  BY <1>1, <1>3 DEF Base, Types, At
<1>5. \A p \in Pool : PoolInv(p)'
  BY <1>1, PoolsKept
<1>6. \A p \in Pool : pools'[p].num + Count(unusedQueue, p) = pools[p].num + Count(unusedQueue', p)
  BY <1>1, <1>3
<1> QED
  BY <1>1, <1>4, <1>5, <1>6, BaseStill

--------------------------------------------------------------------------------
(* Calls that only change the pool. *)

OtherPools(p) == \A o \in Pool \ {p} : pools'[o] = pools[o]

LEMMA PoolDid ==
  ASSUME Types, NEW p \in Pool, NEW rec \in PoolRecord, pools' = [pools EXCEPT ![p] = rec]
  PROVE  pools' \in [Pool -> PoolRecord] /\ OtherPools(p) /\ pools'[p] = rec
  BY DEF Types, OtherPools

LEMMA PoolInvStep ==
  ASSUME Base, NEW p \in Pool, OtherPools(p), PoolInv(p)'
  PROVE  \A o \in Pool : PoolInv(o)'
<1> SUFFICES ASSUME NEW o \in Pool \ {p} PROVE PoolInv(o)'
  OBVIOUS
<1>1. PoolInv(o) /\ pools'[o] = pools[o]
  BY DEF Base, OtherPools
<1> QED
  BY <1>1 DEF PoolInv

\* What calls leave alone that move no thread and hand none over.
Calm == /\ threads' = threads /\ unusedQueue' = unusedQueue /\ unusedThreads' = unusedThreads
        /\ killUnused' = killUnused /\ maxUnused' = maxUnused /\ serial' = serial /\ setter' = setter

LEMMA BaseCall ==
  ASSUME Base, NEW p \in Pool, pools' \in [Pool -> PoolRecord], OtherPools(p), PoolInv(p)',
         pools'[p].num = pools[p].num, asleep' \subseteq asleep, Calm,
         fate' \in [Task -> Fates], failures' \in Nat
  PROVE  Base'
<1>1. Types'
  BY DEF Base, Types, Calm, At
<1>2. \A o \in Pool : PoolInv(o)'
  BY PoolInvStep
<1>3. \A o \in Pool : pools'[o].num = pools[o].num
  BY DEF OtherPools
<1>4. \A o \in Pool : pools'[o].num + Count(unusedQueue, o) = pools[o].num + Count(unusedQueue', o)
  BY <1>3 DEF Calm
<1>5. threads' = threads /\ unusedThreads' = unusedThreads
  BY DEF Calm
<1> QED
  BY <1>1, <1>2, <1>4, <1>5, BaseStill

LEMMA EmptyHas == ASSUME NEW x PROVE ~Has(<<>>, x)
  BY DEF Has

LEMMA PoolTypes ==
  ASSUME Types, NEW p \in Pool
  PROVE  /\ pools[p] \in PoolRecord /\ pools[p].phase \in {"none", "new", "live", "freed"}
         /\ pools[p].max \in Limits \cup NewLimits \cup {0} /\ pools[p].max \in Int
         /\ pools[p].num \in Nat /\ pools[p].toStart \in Nat /\ pools[p].freer \in Freer
         /\ pools[p].exclusive \in BOOLEAN /\ pools[p].running \in BOOLEAN
         /\ pools[p].immediate \in BOOLEAN /\ pools[p].waiting \in BOOLEAN
         /\ pools[p].queue \in Seq(Task \cup {Bogus}) /\ Len(pools[p].queue) \in Nat
<1>1. pools[p] \in PoolRecord
  BY DEF Types
<1>2. /\ pools[p].phase \in {"none", "new", "live", "freed"}
      /\ pools[p].max \in Limits \cup NewLimits \cup {0}
      /\ pools[p].num \in Nat /\ pools[p].toStart \in Nat /\ pools[p].freer \in Freer
      /\ pools[p].queue \in Seq(Task \cup {Bogus})
  BY <1>1 DEF PoolRecord
<1>3. /\ pools[p].exclusive \in BOOLEAN /\ pools[p].running \in BOOLEAN
      /\ pools[p].immediate \in BOOLEAN /\ pools[p].waiting \in BOOLEAN
  BY <1>1 DEF PoolRecord
<1>4. pools[p].max \in Int
  BY <1>2, PoolAssumption
<1>5. Len(pools[p].queue) \in Nat
  BY <1>2, LenProperties
<1> QED
  BY <1>1, <1>2, <1>3, <1>4, <1>5

LEMMA LengthType ==
  ASSUME Types, NEW p \in Pool
  PROVE  Length(p) \in Int
<1>1. Len(pools[p].queue) \in Nat /\ Cardinality(Waiters(p)) \in Nat
  BY PoolTypes, Sizes
<1> QED
  BY <1>1 DEF Length

LEMMA NewFullDid ==
  ASSUME Base, NEW p \in Pool, NEW max \in Limits, NEW exclusive \in BOOLEAN,
         NewFull(p, max, exclusive)
  PROVE  /\ pools' \in [Pool -> PoolRecord] /\ OtherPools(p)
         /\ pools[p] = NoPool /\ pools[p].phase = "none" /\ pools[p].num = 0
         /\ pools'[p].phase = IF exclusive /\ max > 0 THEN "new" ELSE "live"
         /\ pools'[p].max = max /\ pools'[p].exclusive = exclusive
         /\ pools'[p].running = TRUE /\ pools'[p].immediate = FALSE /\ pools'[p].waiting = FALSE
         /\ pools'[p].queue = <<>> /\ pools'[p].freer = "out" /\ pools'[p].num = 0
         /\ pools'[p].toStart = IF exclusive THEN max ELSE 0
         /\ (exclusive => max # -1 /\ max \in Nat) /\ max \in Int
         /\ Calm /\ asleep' = asleep /\ fate' = fate /\ failures' = failures
<1> DEFINE phase == IF exclusive /\ max > 0 THEN "new" ELSE "live"
           start == IF exclusive THEN max ELSE 0
           rec == [NoPool EXCEPT !.phase = phase, !.max = max, !.exclusive = exclusive,
                                 !.running = TRUE, !.toStart = start]
<1>1. /\ pools[p].phase = "none" /\ (exclusive => max # -1)
      /\ pools' = [pools EXCEPT ![p] = rec]
      /\ Calm /\ asleep' = asleep /\ fate' = fate /\ failures' = failures
  BY DEF NewFull, unusedVars, historyVars, Calm
<1>2. pools[p] = NoPool /\ pools[p].num = 0
  BY <1>1 DEF Base, PoolInv, NoPool
<1>3. max \in Int /\ (exclusive => max \in Nat)
  BY <1>1, PoolAssumption
<1>4. phase \in {"new", "live"} /\ start \in Nat
  BY <1>3
<1> HIDE DEF phase, start
<1>5. <<>> \in Seq(Task \cup {Bogus})
  BY EmptySeq
<1>6. rec \in PoolRecord
  BY <1>4, <1>5 DEF PoolRecord, NoPool, Freer
<1>7. /\ rec.phase = phase /\ rec.max = max /\ rec.exclusive = exclusive /\ rec.running = TRUE
      /\ rec.immediate = FALSE /\ rec.waiting = FALSE /\ rec.queue = <<>> /\ rec.freer = "out"
      /\ rec.num = 0 /\ rec.toStart = start
  BY DEF NoPool
<1> HIDE DEF rec
<1>8. pools' \in [Pool -> PoolRecord] /\ OtherPools(p) /\ pools'[p] = rec
  BY <1>1, <1>6, PoolDid DEF Base
<1> QED
  BY <1>1, <1>2, <1>3, <1>7, <1>8 DEF phase, start

LEMMA BaseNewFull ==
  ASSUME Base, NEW p \in Pool, NEW max \in Limits, NEW exclusive \in BOOLEAN,
         NewFull(p, max, exclusive)
  PROVE  Base'
<1>1. /\ pools' \in [Pool -> PoolRecord] /\ OtherPools(p) /\ pools[p].num = 0
      /\ pools'[p].phase = IF exclusive /\ max > 0 THEN "new" ELSE "live"
      /\ pools'[p].running = TRUE /\ pools'[p].queue = <<>> /\ pools'[p].freer = "out"
      /\ pools'[p].num = 0 /\ pools'[p].toStart = IF exclusive THEN max ELSE 0
      /\ Calm /\ asleep' = asleep /\ fate' = fate /\ failures' = failures /\ max \in Int
  BY NewFullDid
<1>2. ~Has(pools'[p].queue, Bogus)
  BY <1>1, EmptyHas
<1>3. PoolInv(p)'
  BY <1>1, <1>2 DEF PoolInv, Has
<1>4. fate' \in [Task -> Fates] /\ failures' \in Nat
  BY <1>1 DEF Base, Types
<1> QED
  BY <1>1, <1>3, <1>4, BaseCall

LEMMA UsableIs ==
  ASSUME Base, NEW p \in Pool, Usable(p)
  PROVE  /\ pools[p].phase = "live" /\ pools[p].running = TRUE /\ pools[p].toStart = 0
         /\ pools[p].freer = "out"
<1>1. PoolInv(p) /\ pools[p].running \in BOOLEAN
  BY PoolTypes DEF Base
<1> QED
  BY <1>1 DEF Usable, Unlocked, PoolInv

LEMMA SetMaxThreadsDid ==
  ASSUME Base, NEW p \in Pool, NEW max \in NewLimits, SetMaxThreads(p, max)
  PROVE  /\ pools' \in [Pool -> PoolRecord] /\ OtherPools(p) /\ Usable(p)
         /\ pools'[p].max = max /\ max \in Int /\ (pools[p].exclusive => max # -1)
         /\ pools'[p].phase = "live" /\ pools'[p].running = TRUE /\ pools'[p].freer = "out"
         /\ pools'[p].exclusive = pools[p].exclusive /\ pools'[p].num = pools[p].num
         /\ pools'[p].immediate = pools[p].immediate
         /\ pools'[p].waiting = pools[p].waiting /\ pools'[p].queue = pools[p].queue
         /\ pools'[p].toStart \in Nat
         /\ pools[p].exclusive => pools'[p].num + pools'[p].toStart >= max
         /\ ~pools[p].exclusive => pools'[p].toStart >= Length(p)
         /\ Calm /\ asleep' = asleep /\ fate' = fate /\ failures' = failures
<1> DEFINE n == IF pools[p].exclusive THEN max - pools[p].num ELSE Length(p)
           start == IF n > 0 THEN n ELSE 0
           rec == [pools[p] EXCEPT !.max = max, !.toStart = start]
<1>1. /\ Usable(p) /\ (pools[p].exclusive => max # -1)
      /\ pools' = [pools EXCEPT ![p] = rec]
      /\ Calm /\ asleep' = asleep /\ fate' = fate /\ failures' = failures
  <2>1. /\ Usable(p) /\ (pools[p].exclusive => max # -1)
        /\ pools' = [pools EXCEPT ![p].max = max, ![p].toStart = start]
        /\ Calm /\ asleep' = asleep /\ fate' = fate /\ failures' = failures
    BY DEF SetMaxThreads, unusedVars, historyVars, Calm
  <2>2. pools \in [Pool -> PoolRecord]
    BY DEF Base, Types
  <2> QED
    BY <2>1, <2>2
<1>2. /\ pools[p] \in PoolRecord /\ pools[p].num \in Nat /\ max \in Int /\ Length(p) \in Int
      /\ pools[p].exclusive \in BOOLEAN
  BY PoolTypes, LengthType, PoolAssumption DEF Base
<1>3. /\ start \in Nat /\ (pools[p].exclusive => pools[p].num + start >= max)
      /\ (~pools[p].exclusive => start >= Length(p))
  BY <1>2
<1> HIDE DEF n, start
<1>4. rec \in PoolRecord
  BY <1>2, <1>3 DEF PoolRecord
<1>5. /\ rec.phase = pools[p].phase /\ rec.max = max /\ rec.exclusive = pools[p].exclusive
      /\ rec.running = pools[p].running
      /\ rec.immediate = pools[p].immediate /\ rec.waiting = pools[p].waiting
      /\ rec.queue = pools[p].queue /\ rec.freer = pools[p].freer
      /\ rec.num = pools[p].num /\ rec.toStart = start
  BY <1>2 DEF PoolRecord
<1> HIDE DEF rec
<1>6. pools' \in [Pool -> PoolRecord] /\ OtherPools(p) /\ pools'[p] = rec
  BY <1>1, <1>4, PoolDid DEF Base
<1>7. pools[p].phase = "live" /\ pools[p].running = TRUE /\ pools[p].freer = "out"
  BY <1>1, UsableIs
<1> QED
  BY <1>1, <1>2, <1>3, <1>5, <1>6, <1>7

LEMMA BaseSetMaxThreads ==
  ASSUME Base, NEW p \in Pool, NEW max \in NewLimits, SetMaxThreads(p, max)
  PROVE  Base'
<1>1. /\ pools' \in [Pool -> PoolRecord] /\ OtherPools(p) /\ Usable(p)
      /\ pools'[p].phase = "live" /\ pools'[p].running = TRUE /\ pools'[p].freer = "out"
      /\ pools'[p].num = pools[p].num /\ pools'[p].queue = pools[p].queue
      /\ pools'[p].toStart \in Nat
      /\ Calm /\ asleep' = asleep /\ fate' = fate /\ failures' = failures
  BY SetMaxThreadsDid
<1>2. PoolInv(p) /\ pools[p].running = TRUE
  BY <1>1, UsableIs DEF Base
<1>3. ~Has(pools'[p].queue, Bogus)
  BY <1>1, <1>2 DEF PoolInv
<1>4. PoolInv(p)'
  BY <1>1, <1>3 DEF PoolInv, Has
<1>5. fate' \in [Task -> Fates] /\ failures' \in Nat
  BY <1>1 DEF Base, Types
<1> QED
  BY <1>1, <1>4, <1>5, BaseCall

\* The record of a pool after a step.
Becomes(p, phase, max, num, running, immediate, waiting, queue, toStart, freer) ==
  /\ pools' \in [Pool -> PoolRecord] /\ OtherPools(p)
  /\ pools'[p].phase = phase /\ pools'[p].max = max /\ pools'[p].num = num
  /\ pools'[p].exclusive = pools[p].exclusive /\ pools'[p].running = running
  /\ pools'[p].immediate = immediate /\ pools'[p].waiting = waiting
  /\ pools'[p].queue = queue /\ pools'[p].toStart = toStart /\ pools'[p].freer = freer

LEMMA Moved ==
  ASSUME NEW S, NEW q \in Seq(S), NEW i \in DOMAIN q
  PROVE  /\ MovedToFront(q, i) \in Seq(S) /\ Len(MovedToFront(q, i)) = Len(q)
         /\ DOMAIN MovedToFront(q, i) = DOMAIN q
         /\ \A j \in DOMAIN q : MovedToFront(q, i)[j] =
              IF j = 1 THEN q[i] ELSE IF j <= i THEN q[j - 1] ELSE q[j]
         /\ \A x : Has(MovedToFront(q, i), x) <=> Has(q, x)
<1> DEFINE m == MovedToFront(q, i)
<1>1. DOMAIN q = 1 .. Len(q) /\ Len(q) \in Nat /\ \A j \in 1 .. Len(q) : q[j] \in S
  BY LenProperties, ElementOfSeq
<1>2. /\ DOMAIN m = 1 .. Len(q)
      /\ \A j \in 1 .. Len(q) : m[j] = IF j = 1 THEN q[i] ELSE IF j <= i THEN q[j - 1] ELSE q[j]
  BY <1>1 DEF MovedToFront
<1>3. \A j \in 1 .. Len(q) : m[j] \in S
  BY <1>1, <1>2
<1>4. m = [j \in 1 .. Len(q) |-> m[j]]
  BY <1>1 DEF MovedToFront
<1> HIDE DEF m
<1>5. [j \in 1 .. Len(q) |-> m[j]] \in Seq(S)
  BY <1>1, <1>3, IsASeq
<1>6. m \in Seq(S)
  BY <1>4, <1>5
<1>7. Len(m) = Len(q)
  BY <1>1, <1>2, <1>6, LenProperties
<1>8. ASSUME NEW x, Has(m, x) PROVE Has(q, x)
  <2>1. PICK j \in 1 .. Len(q) : m[j] = x
    BY <1>2, <1>8 DEF Has
  <2>2. CASE j = 1
    BY <2>1, <2>2, <1>1, <1>2 DEF Has
  <2>3. CASE j # 1 /\ j <= i
    <3>1. j - 1 \in DOMAIN q /\ q[j - 1] = x
      BY <2>1, <2>3, <1>1, <1>2
    <3> QED
      BY <3>1 DEF Has
  <2>4. CASE j # 1 /\ ~(j <= i)
    BY <2>1, <2>4, <1>1, <1>2 DEF Has
  <2> QED
    BY <2>2, <2>3, <2>4
<1>9. ASSUME NEW x, Has(q, x) PROVE Has(m, x)
  <2>1. PICK k \in 1 .. Len(q) : q[k] = x
    BY <1>1, <1>9 DEF Has
  <2>2. CASE k = i
    <3>1. 1 \in DOMAIN m /\ m[1] = x
      BY <2>1, <2>2, <1>1, <1>2
    <3> QED
      BY <3>1 DEF Has
  <2>3. CASE k < i
    <3>1. k + 1 \in DOMAIN m /\ m[k + 1] = q[(k + 1) - 1]
      BY <2>1, <2>3, <1>1, <1>2
    <3>2. (k + 1) - 1 = k
      OBVIOUS
    <3> QED
      BY <3>1, <3>2, <2>1 DEF Has
  <2>4. CASE k > i
    <3>1. k \in DOMAIN m /\ m[k] = q[k]
      BY <2>1, <2>4, <1>1, <1>2
    <3> QED
      BY <3>1, <2>1 DEF Has
  <2> QED
    BY <2>2, <2>3, <2>4, <1>1
<1> QED
  BY <1>1, <1>2, <1>6, <1>7, <1>8, <1>9 DEF m

LEMMA MoveToFrontDid ==
  ASSUME Base, NEW p \in Pool, NEW t \in Task, MoveToFront(p, t)
  PROVE  \E i \in DOMAIN pools[p].queue :
           /\ Becomes(p, "live", pools[p].max, pools[p].num, TRUE, pools[p].immediate,
                      pools[p].waiting, MovedToFront(pools[p].queue, i), 0, "out")
           /\ Usable(p) /\ Calm /\ fate' = fate /\ failures' = failures
           /\ \E X \in Signal(Waiters(p), 1) : asleep' = asleep \ X
<1>1. Types /\ Usable(p) /\ Calm /\ fate' = fate /\ failures' = failures
  BY DEF MoveToFront, Calm, unusedVars, historyVars, Base
<1>2. PICK i \in DOMAIN pools[p].queue :
        pools' = [pools EXCEPT ![p].queue = MovedToFront(pools[p].queue, i)]
  BY DEF MoveToFront
<1>3. \E X \in Signal(Waiters(p), 1) : asleep' = asleep \ X
  BY DEF MoveToFront
<1>4. /\ pools[p].phase = "live" /\ pools[p].running = TRUE /\ pools[p].toStart = 0
      /\ pools[p].freer = "out" /\ pools[p] \in PoolRecord
  BY <1>1, UsableIs, PoolTypes
<1> DEFINE q == MovedToFront(pools[p].queue, i)
<1>5. q \in Seq(Task \cup {Bogus})
  BY <1>1, PoolTypes, Moved
<1> HIDE DEF q
<1> DEFINE rec == [pools[p] EXCEPT !.queue = q]
<1>6. rec \in PoolRecord
  BY <1>4, <1>5 DEF PoolRecord
<1>7. /\ rec.phase = "live" /\ rec.max = pools[p].max /\ rec.num = pools[p].num
      /\ rec.exclusive = pools[p].exclusive /\ rec.running = TRUE
      /\ rec.immediate = pools[p].immediate /\ rec.waiting = pools[p].waiting
      /\ rec.queue = q /\ rec.toStart = 0 /\ rec.freer = "out"
  BY <1>4 DEF PoolRecord
<1>8. pools' = [pools EXCEPT ![p] = rec]
  BY <1>1, <1>2 DEF q, Types
<1> HIDE DEF rec
<1>9. pools' \in [Pool -> PoolRecord] /\ OtherPools(p) /\ pools'[p] = rec
  BY <1>1, <1>6, <1>8, PoolDid
<1>10. Becomes(p, "live", pools[p].max, pools[p].num, TRUE, pools[p].immediate,
                      pools[p].waiting, q, 0, "out")
  BY <1>7, <1>9 DEF Becomes
<1> QED
  BY <1>1, <1>2, <1>3, <1>10 DEF q

LEMMA BaseMoveToFront ==
  ASSUME Base, NEW p \in Pool, NEW t \in Task, MoveToFront(p, t)
  PROVE  Base'
<1>1. PICK i \in DOMAIN pools[p].queue :
        /\ Becomes(p, "live", pools[p].max, pools[p].num, TRUE, pools[p].immediate,
                   pools[p].waiting, MovedToFront(pools[p].queue, i), 0, "out")
        /\ Usable(p) /\ Calm /\ fate' = fate /\ failures' = failures
        /\ \E X \in Signal(Waiters(p), 1) : asleep' = asleep \ X
  BY MoveToFrontDid
<1>2. PoolInv(p) /\ pools[p].running = TRUE /\ pools[p].queue \in Seq(Task \cup {Bogus})
  BY <1>1, UsableIs, PoolTypes DEF Base
<1>3. ~Has(pools'[p].queue, Bogus)
  BY <1>1, <1>2, Moved DEF PoolInv, Becomes
<1>4. PoolInv(p)'
  BY <1>1, <1>3 DEF PoolInv, Has, Becomes
<1>5. fate' \in [Task -> Fates] /\ failures' \in Nat /\ asleep' \subseteq asleep
  BY <1>1 DEF Base, Types
<1>6. pools' \in [Pool -> PoolRecord] /\ OtherPools(p) /\ pools'[p].num = pools[p].num
  BY <1>1 DEF Becomes
<1> QED
  BY <1>1, <1>4, <1>5, <1>6, BaseCall

--------------------------------------------------------------------------------
(* Freeing a pool. *)

\* A pool that g_thread_pool_free is working on.
LEMMA FreeingIs ==
  ASSUME Base, NEW p \in Pool, pools[p].freer \in {"check", "wait", "woken"}
  PROVE  pools[p].phase = "live" /\ pools[p].running = FALSE /\ pools[p].toStart = 0
<1>1. PoolInv(p) /\ pools[p].running \in BOOLEAN /\ pools[p].toStart \in Nat
  BY PoolTypes DEF Base
<1>2. pools[p].phase \in {"none", "new", "live", "freed"}
  BY PoolTypes DEF Base
<1>3. ~pools[p].running
  BY <1>1 DEF PoolInv
<1>4. pools[p].phase # "none"
  BY <1>1 DEF PoolInv, NoPool
<1> QED
  BY <1>1, <1>2, <1>3, <1>4 DEF PoolInv

LEMMA FreeDid ==
  ASSUME Base, NEW p \in Pool, NEW imm \in BOOLEAN, NEW wait \in BOOLEAN, Free(p, imm, wait)
  PROVE  /\ Becomes(p, "live", pools[p].max, pools[p].num, FALSE, imm, wait, pools[p].queue, 0,
                    "check")
         /\ Usable(p) /\ (imm \/ pools[p].max # 0 \/ Length(p) = 0)
         /\ Calm /\ asleep' = asleep /\ fate' = fate /\ failures' = failures
<1> DEFINE rec == [pools[p] EXCEPT !.running = FALSE, !.immediate = imm, !.waiting = wait,
                                   !.freer = "check"]
<1>1. /\ Types /\ Usable(p) /\ (imm \/ pools[p].max # 0 \/ Length(p) = 0)
      /\ pools' = [pools EXCEPT ![p].running = FALSE, ![p].immediate = imm,
                                ![p].waiting = wait, ![p].freer = "check"]
      /\ Calm /\ asleep' = asleep /\ fate' = fate /\ failures' = failures
  BY DEF Free, Calm, unusedVars, historyVars, Base
<1>2. pools' = [pools EXCEPT ![p] = rec]
  BY <1>1 DEF Types
<1>3. pools[p] \in PoolRecord /\ pools[p].phase = "live" /\ pools[p].toStart = 0
  BY <1>1, UsableIs, PoolTypes
<1>4. rec \in PoolRecord
  BY <1>3 DEF PoolRecord, Freer
<1>5. /\ rec.phase = "live" /\ rec.max = pools[p].max /\ rec.num = pools[p].num
      /\ rec.exclusive = pools[p].exclusive /\ rec.running = FALSE
      /\ rec.immediate = imm /\ rec.waiting = wait
      /\ rec.queue = pools[p].queue /\ rec.toStart = 0 /\ rec.freer = "check"
  BY <1>3 DEF PoolRecord
<1> HIDE DEF rec
<1>6. pools' \in [Pool -> PoolRecord] /\ OtherPools(p) /\ pools'[p] = rec
  BY <1>1, <1>2, <1>4, PoolDid
<1> QED
  BY <1>1, <1>5, <1>6 DEF Becomes

LEMMA BaseFree ==
  ASSUME Base, NEW p \in Pool, NEW imm \in BOOLEAN, NEW wait \in BOOLEAN, Free(p, imm, wait)
  PROVE  Base'
<1>1. /\ Becomes(p, "live", pools[p].max, pools[p].num, FALSE, imm, wait, pools[p].queue, 0,
                 "check")
      /\ Usable(p) /\ Calm /\ asleep' = asleep /\ fate' = fate /\ failures' = failures
  BY FreeDid
<1>2. PoolInv(p) /\ pools[p].running = TRUE
  BY <1>1, UsableIs DEF Base
<1>3. ~Has(pools'[p].queue, Bogus)
  BY <1>1, <1>2 DEF PoolInv, Becomes
<1>4. PoolInv(p)'
  BY <1>1, <1>3 DEF PoolInv, Has, Becomes
<1>5. fate' \in [Task -> Fates] /\ failures' \in Nat
  BY <1>1 DEF Base, Types
<1>6. pools' \in [Pool -> PoolRecord] /\ OtherPools(p) /\ pools'[p].num = pools[p].num
  BY <1>1 DEF Becomes
<1> QED
  BY <1>1, <1>4, <1>5, <1>6, BaseCall

\* The call goes to sleep, or wakes up.
LEMMA FreerMoves ==
  ASSUME Base, NEW p \in Pool, NEW freer \in Freer,
         pools[p].freer \in {"check", "wait", "woken"},
         pools' = [pools EXCEPT ![p].freer = freer]
  PROVE  Becomes(p, "live", pools[p].max, pools[p].num, FALSE, pools[p].immediate,
                 pools[p].waiting, pools[p].queue, 0, freer)
<1> DEFINE rec == [pools[p] EXCEPT !.freer = freer]
<1>1. Types /\ pools[p] \in PoolRecord /\ pools' = [pools EXCEPT ![p] = rec]
  BY PoolTypes DEF Base, Types
<1>2. pools[p].phase = "live" /\ pools[p].running = FALSE /\ pools[p].toStart = 0
  BY FreeingIs
<1>3. rec \in PoolRecord
  BY <1>1 DEF PoolRecord
<1>4. /\ rec.phase = "live" /\ rec.max = pools[p].max /\ rec.num = pools[p].num
      /\ rec.exclusive = pools[p].exclusive /\ rec.running = FALSE
      /\ rec.immediate = pools[p].immediate /\ rec.waiting = pools[p].waiting
      /\ rec.queue = pools[p].queue /\ rec.toStart = 0 /\ rec.freer = freer
  BY <1>1, <1>2 DEF PoolRecord
<1> HIDE DEF rec
<1>5. pools' \in [Pool -> PoolRecord] /\ OtherPools(p) /\ pools'[p] = rec
  BY <1>1, <1>3, PoolDid
<1> QED
  BY <1>4, <1>5 DEF Becomes

FreerStep(p, freer) ==
  /\ pools[p].freer \in {"check", "wait", "woken"}
  /\ Becomes(p, "live", pools[p].max, pools[p].num, FALSE, pools[p].immediate,
             pools[p].waiting, pools[p].queue, 0, freer)
  /\ Calm /\ asleep' = asleep /\ fate' = fate /\ failures' = failures

LEMMA FreeWaitsDid ==
  ASSUME Base, NEW p \in Pool, FreeWaits(p)
  PROVE  FreerStep(p, "wait") /\ pools[p].waiting
<1>1. /\ pools[p].freer = "check" /\ pools[p].waiting /\ pools' = [pools EXCEPT ![p].freer = "wait"]
      /\ Calm /\ asleep' = asleep /\ fate' = fate /\ failures' = failures
  BY DEF FreeWaits, Calm, unusedVars, historyVars
<1>2. "wait" \in Freer
  BY DEF Freer
<1> QED
  BY <1>1, <1>2, FreerMoves DEF FreerStep

LEMMA FreeWakesDid ==
  ASSUME Base, NEW p \in Pool, FreeWakes(p)
  PROVE  FreerStep(p, "check")
<1>1. /\ pools[p].freer = "woken" /\ pools' = [pools EXCEPT ![p].freer = "check"]
      /\ Calm /\ asleep' = asleep /\ fate' = fate /\ failures' = failures
  BY DEF FreeWakes, Calm, unusedVars, historyVars
<1>2. "check" \in Freer
  BY DEF Freer
<1> QED
  BY <1>1, <1>2, FreerMoves DEF FreerStep

LEMMA BaseFreerStep ==
  ASSUME Base, NEW p \in Pool, NEW freer \in {"check", "wait"}, FreerStep(p, freer),
         freer = "wait" => pools[p].waiting
  PROVE  Base'
<1>1. /\ Becomes(p, "live", pools[p].max, pools[p].num, FALSE, pools[p].immediate,
                 pools[p].waiting, pools[p].queue, 0, freer)
      /\ Calm /\ asleep' = asleep /\ fate' = fate /\ failures' = failures
  BY DEF FreerStep
<1>2. PoolInv(p)
  BY DEF Base
<1>3. Has(pools'[p].queue, Bogus) => pools'[p].immediate
  BY <1>1, <1>2 DEF PoolInv, Becomes
<1>4. PoolInv(p)'
  BY <1>1, <1>3 DEF PoolInv, Has, Becomes
<1>5. fate' \in [Task -> Fates] /\ failures' \in Nat
  BY <1>1 DEF Base, Types
<1>6. pools' \in [Pool -> PoolRecord] /\ OtherPools(p) /\ pools'[p].num = pools[p].num
  BY <1>1 DEF Becomes
<1> QED
  BY <1>1, <1>4, <1>5, <1>6, BaseCall

\* The fates of the tasks after g_thread_pool_free_internal.
LEMMA ReleasedTypes ==
  ASSUME Types, NEW p \in Pool, NEW q, NEW x, Released(p, q, x)
  PROVE  fate' \in [Task -> Fates]
<1>1. /\ In("lost", p) \in Fates /\ In("freed", p) \in Fates
      /\ fate \in [Task -> Fates]
  BY DEF In, Fates, Types
<1> QED
  BY <1>1 DEF Released

LEMMA FreeEndsDid ==
  ASSUME Base, NEW p \in Pool, FreeEnds(p)
  PROVE  LET stop == pools[p].immediate \/ AllWait(p)
             q == pools[p].queue
         IN  /\ pools[p].freer = "check" /\ (pools[p].waiting => FreeMayGoOn(p))
             /\ Calm /\ failures' = failures /\ fate' \in [Task -> Fates] /\ asleep' \subseteq asleep
             /\ \/ /\ stop /\ pools[p].num = 0 /\ Released(p, q, None) /\ asleep' = asleep
                   /\ Becomes(p, "freed", pools[p].max, pools[p].num, FALSE, pools[p].immediate,
                              pools[p].waiting, <<>>, 0, "done")
                \/ /\ stop /\ pools[p].num # 0 /\ fate' = fate
                   /\ \E X \in Signal(Waiters(p), pools[p].num) : asleep' = asleep \ X
                   /\ Becomes(p, "live", pools[p].max, pools[p].num, FALSE, TRUE,
                              FALSE, q \o [i \in 1 .. pools[p].num |-> Bogus], 0, "done")
                \/ /\ ~stop /\ asleep' = asleep /\ fate' = fate
                   /\ Becomes(p, "live", pools[p].max, pools[p].num, FALSE, pools[p].immediate,
                              FALSE, q, 0, "done")
<1> DEFINE stop == pools[p].immediate \/ AllWait(p)
           q == pools[p].queue
           rec == [pools[p] EXCEPT !.freer = "done"]
<1>1. /\ Types /\ pools[p].freer = "check" /\ (pools[p].waiting => FreeMayGoOn(p))
      /\ Calm /\ failures' = failures
  BY DEF FreeEnds, Calm, unusedVars, Base
<1>2. /\ pools[p].phase = "live" /\ pools[p].running = FALSE /\ pools[p].toStart = 0
      /\ pools[p] \in PoolRecord /\ pools[p].num \in Nat /\ q \in Seq(Task \cup {Bogus})
  BY <1>1, FreeingIs, PoolTypes
<1>3. /\ rec \in PoolRecord /\ rec.phase = "live" /\ rec.max = pools[p].max
      /\ rec.num = pools[p].num
      /\ rec.exclusive = pools[p].exclusive /\ rec.running = FALSE
      /\ rec.immediate = pools[p].immediate /\ rec.waiting = pools[p].waiting
      /\ rec.queue = q /\ rec.toStart = 0 /\ rec.freer = "done"
  BY <1>2 DEF PoolRecord, Freer
<1>4. \/ /\ stop /\ rec.num = 0
         /\ pools' = [pools EXCEPT ![p] = [rec EXCEPT !.phase = "freed", !.queue = <<>>]]
         /\ Released(p, rec.queue, None)
         /\ asleep' = asleep
      \/ /\ stop /\ rec.num # 0
         /\ pools' = [pools EXCEPT ![p] =
                        [Stopped(rec, rec.num) EXCEPT !.waiting = FALSE]]
         /\ \E X \in Signal(Waiters(p), rec.num) : asleep' = asleep \ X
         /\ fate' = fate
      \/ /\ ~stop
         /\ pools' = [pools EXCEPT ![p] = [rec EXCEPT !.waiting = FALSE]]
         /\ asleep' = asleep /\ fate' = fate
  BY DEF FreeEnds
<1> HIDE DEF rec, stop, q
<1>5. ASSUME stop, rec.num = 0, Released(p, rec.queue, None), asleep' = asleep,
             pools' = [pools EXCEPT ![p] = [rec EXCEPT !.phase = "freed", !.queue = <<>>]]
      PROVE  /\ stop /\ pools[p].num = 0 /\ Released(p, q, None) /\ asleep' = asleep
             /\ fate' \in [Task -> Fates]
             /\ Becomes(p, "freed", pools[p].max, pools[p].num, FALSE, pools[p].immediate,
                        pools[p].waiting, <<>>, 0, "done")
  <2> DEFINE new == [rec EXCEPT !.phase = "freed", !.queue = <<>>]
  <2>1. <<>> \in Seq(Task \cup {Bogus})
    BY EmptySeq
  <2>2. new \in PoolRecord
    BY <2>1, <1>3 DEF PoolRecord
  <2>3. /\ new.phase = "freed" /\ new.max = pools[p].max /\ new.num = pools[p].num
        /\ new.exclusive = pools[p].exclusive /\ new.running = FALSE
        /\ new.immediate = pools[p].immediate /\ new.waiting = pools[p].waiting
        /\ new.queue = <<>> /\ new.toStart = 0 /\ new.freer = "done"
    BY <1>3 DEF PoolRecord
  <2> HIDE DEF new
  <2>4. pools' \in [Pool -> PoolRecord] /\ OtherPools(p) /\ pools'[p] = new
    BY <2>2, <1>1, <1>5, PoolDid DEF new
  <2>5. fate' \in [Task -> Fates]
    BY <1>1, <1>5, ReleasedTypes
  <2> QED
    BY <2>3, <2>4, <2>5, <1>3, <1>5 DEF Becomes
<1>6. ASSUME stop, rec.num # 0, fate' = fate,
             \E X \in Signal(Waiters(p), rec.num) : asleep' = asleep \ X,
             pools' = [pools EXCEPT ![p] = [Stopped(rec, rec.num) EXCEPT !.waiting = FALSE]]
      PROVE  /\ stop /\ pools[p].num # 0 /\ fate' = fate
             /\ \E X \in Signal(Waiters(p), pools[p].num) : asleep' = asleep \ X
             /\ Becomes(p, "live", pools[p].max, pools[p].num, FALSE, TRUE,
                        FALSE, q \o [i \in 1 .. pools[p].num |-> Bogus], 0, "done")
  <2> DEFINE fill == q \o [i \in 1 .. pools[p].num |-> Bogus]
             new == [rec EXCEPT !.immediate = TRUE, !.queue = fill, !.waiting = FALSE]
  <2>1. fill \in Seq(Task \cup {Bogus})
    BY <1>2, Filled
  <2>5. pools' = [pools EXCEPT ![p] = new]
    BY <1>6, <1>3 DEF Stopped, PoolRecord
  <2> HIDE DEF fill
  <2>2. new \in PoolRecord
    BY <2>1, <1>3 DEF PoolRecord
  <2>3. /\ new.phase = "live" /\ new.max = pools[p].max /\ new.num = pools[p].num
        /\ new.exclusive = pools[p].exclusive /\ new.running = FALSE
        /\ new.immediate = TRUE /\ new.waiting = FALSE
        /\ new.queue = fill /\ new.toStart = 0 /\ new.freer = "done"
    BY <1>3 DEF PoolRecord
  <2> HIDE DEF new
  <2>4. pools' \in [Pool -> PoolRecord] /\ OtherPools(p) /\ pools'[p] = new
    BY <2>2, <2>5, <1>1, PoolDid
  <2>6. Becomes(p, "live", pools[p].max, pools[p].num, FALSE, TRUE, FALSE, fill, 0, "done")
    BY <2>3, <2>4 DEF Becomes
  <2> QED
    BY <2>6, <1>3, <1>6 DEF fill
<1>7. ASSUME ~stop, asleep' = asleep, fate' = fate,
             pools' = [pools EXCEPT ![p] = [rec EXCEPT !.waiting = FALSE]]
      PROVE  Becomes(p, "live", pools[p].max, pools[p].num, FALSE, pools[p].immediate,
                     FALSE, q, 0, "done")
  <2> DEFINE new == [rec EXCEPT !.waiting = FALSE]
  <2>2. new \in PoolRecord
    BY <1>3 DEF PoolRecord
  <2>3. /\ new.phase = "live" /\ new.max = pools[p].max /\ new.num = pools[p].num
        /\ new.exclusive = pools[p].exclusive /\ new.running = FALSE
        /\ new.immediate = pools[p].immediate /\ new.waiting = FALSE
        /\ new.queue = q /\ new.toStart = 0 /\ new.freer = "done"
    BY <1>3 DEF PoolRecord
  <2> HIDE DEF new
  <2>4. pools' \in [Pool -> PoolRecord] /\ OtherPools(p) /\ pools'[p] = new
    BY <2>2, <1>1, <1>7, PoolDid DEF new
  <2> QED
    BY <2>3, <2>4 DEF Becomes
<1>8. fate \in [Task -> Fates]
  BY <1>1 DEF Types
<1> QED
  BY <1>1, <1>4, <1>5, <1>6, <1>7, <1>8 DEF stop, q

LEMMA BaseFreeEnds ==
  ASSUME Base, NEW p \in Pool, FreeEnds(p)
  PROVE  Base'
<1> DEFINE q == pools[p].queue
           fill == q \o [i \in 1 .. pools[p].num |-> Bogus]
<1>1. /\ Calm /\ failures' = failures /\ fate' \in [Task -> Fates] /\ asleep' \subseteq asleep
      /\ \/ /\ pools[p].num = 0
            /\ Becomes(p, "freed", pools[p].max, pools[p].num, FALSE, pools[p].immediate,
                       pools[p].waiting, <<>>, 0, "done")
         \/ Becomes(p, "live", pools[p].max, pools[p].num, FALSE, TRUE, FALSE, fill, 0, "done")
         \/ Becomes(p, "live", pools[p].max, pools[p].num, FALSE, pools[p].immediate,
                              FALSE, q, 0, "done")
  BY FreeEndsDid
<1>2. PoolInv(p) /\ failures' \in Nat
  BY <1>1 DEF Base, Types
<1> HIDE DEF fill
<1>3. pools' \in [Pool -> PoolRecord] /\ OtherPools(p) /\ pools'[p].num = pools[p].num
  BY <1>1 DEF Becomes
<1>4. PoolInv(p)'
  <2>1. CASE /\ pools[p].num = 0
             /\ Becomes(p, "freed", pools[p].max, pools[p].num, FALSE, pools[p].immediate,
                        pools[p].waiting, <<>>, 0, "done")
    <3>1. ~Has(pools'[p].queue, Bogus)
      BY <2>1, EmptyHas DEF Becomes
    <3> QED
      BY <2>1, <3>1 DEF PoolInv, Has, Becomes
  <2>2. CASE Becomes(p, "live", pools[p].max, pools[p].num, FALSE, TRUE, FALSE, fill, 0, "done")
    BY <2>2 DEF PoolInv, Has, Becomes
  <2>3. CASE Becomes(p, "live", pools[p].max, pools[p].num, FALSE, pools[p].immediate,
                     FALSE, q, 0, "done")
    <3>1. Has(pools'[p].queue, Bogus) => pools'[p].immediate
      BY <2>3, <1>2 DEF PoolInv, Becomes
    <3> QED
      BY <2>3, <3>1 DEF PoolInv, Has, Becomes
  <2> QED
    BY <1>1, <2>1, <2>2, <2>3
<1> QED
  BY <1>1, <1>2, <1>3, <1>4, BaseCall

--------------------------------------------------------------------------------
(* Starting threads. *)

\* The outcomes of g_thread_pool_start_thread: nothing was started, an unused thread is
\* handed the pool, or thread w is created.
Nothing(r) == /\ r.n = 0 /\ r.woken = {} /\ unusedQueue' = unusedQueue /\ threads' = threads
HandsOver(p, r) ==
  /\ r.n = 1 /\ r.woken \in Signal(Idle, 1) /\ unusedQueue' = Append(unusedQueue, p)
  /\ threads' = threads /\ Len(unusedQueue) < Cardinality(Idle)
Creates(p, r, w) ==
  /\ r.n = 1 /\ r.woken = {} /\ unusedQueue' = unusedQueue
  /\ threads' \in [Thread -> ThreadRecord] /\ Others(w) /\ threads[w].at = "none"
  /\ threads'[w].at = "start" /\ threads'[w].pool = p /\ threads'[w].task = None
Keeps == /\ unusedThreads' = unusedThreads /\ maxUnused' = maxUnused /\ killUnused' = killUnused
         /\ serial' = serial /\ setter' = setter

Skips(r) == Nothing(r) /\ r.failed = FALSE /\ failures' = failures
StartsOne(p, r) == /\ ~Enough(p) /\ r.failed = FALSE /\ failures' = failures
                   /\ HandsOver(p, r) \/ \E w \in Thread : Creates(p, r, w)
Fails(p, r) == Nothing(r) /\ r.failed = TRUE /\ MayFail /\ failures' = failures + 1

LEMMA SkipDid ==
  ASSUME Base, Started(NotStarted)
  PROVE  Skips(NotStarted) /\ Keeps
<1>1. failures \in Nat
  BY DEF Base, Types
<1>2. /\ NotStarted.unused = unusedQueue /\ NotStarted.threads = threads /\ NotStarted.n = 0
      /\ NotStarted.woken = {} /\ NotStarted.failed = FALSE
  BY DEF NotStarted
<1>3. /\ unusedQueue' = NotStarted.unused /\ threads' = NotStarted.threads
      /\ failures' = failures + (IF NotStarted.failed THEN 1 ELSE 0) /\ Keeps
  BY DEF Started, Keeps
<1>4. failures' = failures
  BY <1>1, <1>2, <1>3
<1> QED
  BY <1>2, <1>3, <1>4 DEF Skips, Nothing

LEMMA StartDid ==
  ASSUME Base, NEW p \in Pool, NEW r \in StartThread(p), Started(r)
  PROVE  Keeps /\ ((Enough(p) /\ Skips(r)) \/ StartsOne(p, r) \/ Fails(p, r))
<1>1. /\ failures \in Nat /\ threads \in [Thread -> ThreadRecord]
  BY DEF Base, Types
<1>2. /\ unusedQueue' = r.unused /\ threads' = r.threads
      /\ failures' = failures + (IF r.failed THEN 1 ELSE 0) /\ Keeps
  BY DEF Started, Keeps
<1>3. CASE Enough(p)
  <2>1. r = NotStarted
    BY <1>3 DEF StartThread
  <2> QED
    BY <2>1, <1>3, SkipDid
<1>4. CASE ~Enough(p) /\ Len(unusedQueue) < Cardinality(Idle)
  <2>1. PICK X \in Signal(Idle, 1) :
          r = [NotStarted EXCEPT !.unused = Append(unusedQueue, p), !.woken = X, !.n = 1]
    BY <1>4 DEF StartThread
  <2>2. /\ r.unused = Append(unusedQueue, p) /\ r.threads = threads /\ r.n = 1
        /\ r.woken = X /\ r.failed = FALSE
    BY <2>1 DEF NotStarted
  <2>3. failures' = failures
    BY <1>1, <1>2, <2>2
  <2> QED
    BY <2>2, <2>3, <1>2, <1>4 DEF StartsOne, HandsOver
<1>5. CASE ~Enough(p) /\ ~(Len(unusedQueue) < Cardinality(Idle))
  <2>1. \/ \E w \in Unborn : r = [NotStarted EXCEPT
             !.threads[w] = [NoThread EXCEPT !.at = "start", !.pool = p], !.n = 1]
        \/ r = [NotStarted EXCEPT !.failed = TRUE] /\ MayFail
    BY <1>5 DEF StartThread
  <2>2. ASSUME NEW w \in Unborn, r = [NotStarted EXCEPT
               !.threads[w] = [NoThread EXCEPT !.at = "start", !.pool = p], !.n = 1]
        PROVE  StartsOne(p, r)
    <3> DEFINE new == [NoThread EXCEPT !.at = "start", !.pool = p]
    <3>1. w \in Thread /\ threads[w].at = "none"
      BY <2>2 DEF Unborn, At
    <3>2. /\ r.unused = unusedQueue /\ r.n = 1 /\ r.woken = {} /\ r.failed = FALSE
          /\ r.threads = [threads EXCEPT ![w] = new]
      BY <2>2 DEF NotStarted
    <3>3. new \in ThreadRecord /\ new.at = "start" /\ new.pool = p /\ new.task = None
      BY DEF NoThread, ThreadRecord, Places
    <3> HIDE DEF new
    <3>4. threads' \in [Thread -> ThreadRecord] /\ Others(w) /\ threads'[w] = new
      BY <3>1, <3>2, <3>3, <1>1, <1>2 DEF Others
    <3>5. failures' = failures
      BY <1>1, <1>2, <3>2
    <3>6. Creates(p, r, w)
      BY <3>1, <3>2, <3>3, <3>4, <1>2 DEF Creates
    <3> QED
      BY <3>1, <3>2, <3>5, <3>6, <1>5 DEF StartsOne
  <2>3. ASSUME r = [NotStarted EXCEPT !.failed = TRUE], MayFail
        PROVE  Fails(p, r)
    <3>1. /\ r.unused = unusedQueue /\ r.n = 0 /\ r.woken = {} /\ r.failed = TRUE
          /\ r.threads = threads
      BY <2>3 DEF NotStarted
    <3>2. failures' = failures + 1
      BY <1>2, <3>1
    <3> QED
      BY <3>1, <3>2, <2>3, <1>2 DEF Fails, Nothing
  <2> QED
    BY <2>1, <2>2, <2>3, <1>2
<1> QED
  BY <1>3, <1>4, <1>5

LEMMA BaseStart ==
  ASSUME Base, NEW p \in Pool, NEW r, Keeps,
         Nothing(r) \/ HandsOver(p, r) \/ \E w \in Thread : Creates(p, r, w),
         pools' \in [Pool -> PoolRecord], OtherPools(p), PoolInv(p)',
         pools'[p].num = pools[p].num + r.n, asleep' \subseteq asleep,
         fate' \in [Task -> Fates], failures' \in Nat
  PROVE  Base'
<1>1. \A o \in Pool : PoolInv(o)'
  BY PoolInvStep
<1>2. Types /\ pools \in [Pool -> PoolRecord] /\ unusedQueue \in Seq(Pool \cup {Marker})
  BY DEF Base, Types
<1>9. ASSUME NEW o \in Pool PROVE pools[o].num \in Nat /\ Count(unusedQueue, o) \in Nat
  BY <1>2, PoolTypes, CountNat
<1>3. CASE Nothing(r)
  <2>1. threads' = threads /\ unusedQueue' = unusedQueue /\ r.n = 0
    BY <1>3 DEF Nothing
  <2>2. Types'
    BY <2>1 DEF Base, Types, At, Keeps
  <2>3. ASSUME NEW o \in Pool
        PROVE  pools'[o].num + Count(unusedQueue, o) = pools[o].num + Count(unusedQueue', o)
    <3>1. pools'[o].num = pools[o].num
      BY <2>1, <1>9 DEF OtherPools
    <3> QED
      BY <3>1, <2>1
  <2> QED
    BY <1>1, <2>1, <2>2, <2>3, BaseStill DEF Keeps
<1>4. CASE HandsOver(p, r)
  <2>1. threads' = threads /\ unusedQueue' = Append(unusedQueue, p) /\ r.n = 1
    BY <1>4 DEF HandsOver
  <2>2. Append(unusedQueue, p) \in Seq(Pool \cup {Marker})
    BY <1>2, AppendProperties
  <2>3. Types'
    BY <2>1, <2>2 DEF Base, Types, At, Keeps
  <2>4. ASSUME NEW o \in Pool
        PROVE  pools'[o].num + Count(unusedQueue, o) = pools[o].num + Count(unusedQueue', o)
    <3>1. Count(unusedQueue', o) = Count(unusedQueue, o) + Bit(p = o)
      BY <1>2, <2>1, CountAppend
    <3>2. pools'[o].num = pools[o].num + Bit(p = o)
      <4>1. CASE o = p
        BY <4>1, <2>1 DEF Bit
      <4>2. CASE o # p
        BY <4>2, <1>9 DEF Bit, OtherPools
      <4> QED
        BY <4>1, <4>2
    <3>3. Bit(p = o) \in {0, 1}
      BY DEF Bit
    <3> QED
      BY <3>1, <3>2, <3>3, <1>9
  <2> QED
    BY <1>1, <2>1, <2>3, <2>4, BaseStill DEF Keeps
<1>5. ASSUME NEW w \in Thread, Creates(p, r, w) PROVE Base'
  <2>1. /\ threads' \in [Thread -> ThreadRecord] /\ Others(w) /\ unusedQueue' = unusedQueue
        /\ r.n = 1 /\ threads[w].at = "none"
        /\ threads'[w].at = "start" /\ threads'[w].pool = p /\ threads'[w].task = None
    BY <1>5 DEF Creates
  <2>2. w \notin asleep /\ threads[w].pool = None
    BY <2>1 DEF Base, Types, At, PlaceInv, InPool
  <2>3. w \notin asleep' /\ \A v \in asleep' : v = w \/ v \in asleep
    BY <2>2
  <2>4. killUnused' \in Int /\ unusedQueue' \in Seq(Pool \cup {Marker})
    BY <1>2, <2>1 DEF Types, Keeps
  <2>5. Types'
    BY <1>2, <2>1, <2>3, <2>4, TypesStep DEF Keeps
  <2>6. Placed(threads'[w])
    BY <2>1, PoolAssumption DEF Placed, InPool
  <2>7. ASSUME NEW o \in Pool
        PROVE  pools'[o].num + Bit(threads[w].pool = o) + Count(unusedQueue, o) =
                 pools[o].num + Bit(threads'[w].pool = o) + Count(unusedQueue', o)
    <3>1. Bit(threads[w].pool = o) = 0
      BY <2>2, PoolAssumption DEF Bit
    <3>2. pools'[o].num = pools[o].num + Bit(threads'[w].pool = o)
      <4>1. CASE o = p
        BY <4>1, <2>1 DEF Bit
      <4>2. CASE o # p
        BY <4>2, <2>1, <1>9 DEF Bit, OtherPools
      <4> QED
        BY <4>1, <4>2
    <3>3. Bit(threads'[w].pool = o) \in {0, 1}
      BY DEF Bit
    <3> QED
      BY <3>1, <3>2, <3>3, <2>1, <1>9
  <2>8. Bit(threads[w].at \in InGlobal) = 0 /\ Bit(threads'[w].at \in InGlobal) = 0
    BY <2>1 DEF Bit, InGlobal
  <2>9. unusedThreads' = unusedThreads /\ unusedThreads' \in Int
    BY Sizes DEF Base, UnusedInv, Keeps
  <2>10. unusedThreads' + Bit(threads[w].at \in InGlobal) =
           unusedThreads + Bit(threads'[w].at \in InGlobal)
    BY <2>8, <2>9
  <2> QED
    BY <1>1, <2>1, <2>5, <2>6, <2>7, <2>9, <2>10, BaseStep
<1> QED
  BY <1>3, <1>4, <1>5

LEMMA StartNextDid ==
  ASSUME Base, NEW p \in Pool, StartNext(p)
  PROVE  /\ pools[p].toStart > 0 /\ pools[p].running = TRUE /\ pools[p].freer = "out"
         /\ pools[p].phase \in {"new", "live"} /\ fate' = fate
         /\ \E r \in StartThread(p), left \in Nat, phase \in {"new", "live", "freed"} :
              /\ left = IF r.failed THEN 0 ELSE pools[p].toStart - 1
              /\ phase = IF pools[p].phase = "live" \/ left > 0 THEN pools[p].phase
                         ELSE IF r.failed THEN "freed" ELSE "live"
              /\ Becomes(p, phase, pools[p].max, pools[p].num + r.n, TRUE, pools[p].immediate,
                         pools[p].waiting, pools[p].queue, left, "out")
              /\ asleep' = asleep \ r.woken /\ Started(r) /\ r.n \in {0, 1}
<1>1. /\ Types /\ pools[p].toStart > 0 /\ fate' = fate
  BY DEF StartNext, Base
<1>2. PoolInv(p) /\ pools[p] \in PoolRecord /\ pools[p].running \in BOOLEAN
      /\ pools[p].toStart \in Nat /\ pools[p].num \in Nat
  BY <1>1, PoolTypes DEF Base
<1>3. pools[p].running = TRUE /\ pools[p].freer = "out" /\ pools[p].phase \in {"new", "live"}
  BY <1>1, <1>2 DEF PoolInv
<1>4. PICK r \in StartThread(p) :
       LET left == IF r.failed THEN 0 ELSE pools[p].toStart - 1
           phase == IF pools[p].phase = "live" \/ left > 0 THEN pools[p].phase
                    ELSE IF r.failed THEN "freed" ELSE "live"
       IN  /\ pools' = [pools EXCEPT ![p].toStart = left, ![p].num = @ + r.n,
                                     ![p].phase = phase]
           /\ asleep' = asleep \ r.woken
           /\ Started(r)
  BY DEF StartNext
<1> DEFINE left == IF r.failed THEN 0 ELSE pools[p].toStart - 1
           phase == IF pools[p].phase = "live" \/ left > 0 THEN pools[p].phase
                    ELSE IF r.failed THEN "freed" ELSE "live"
<1>5. /\ pools' = [pools EXCEPT ![p].toStart = left, ![p].num = @ + r.n, ![p].phase = phase]
      /\ asleep' = asleep \ r.woken /\ Started(r)
  BY <1>4
<1>6. r.n \in {0, 1}
  BY <1>5, StartDid DEF StartsOne, Fails, Skips, Nothing, HandsOver, Creates
<1>7. left \in Nat /\ phase \in {"new", "live", "freed"}
  BY <1>1, <1>2, <1>3
<1>12. /\ left = IF r.failed THEN 0 ELSE pools[p].toStart - 1
       /\ phase = IF pools[p].phase = "live" \/ left > 0 THEN pools[p].phase
                    ELSE IF r.failed THEN "freed" ELSE "live"
  OBVIOUS
<1> HIDE DEF left, phase
<1> DEFINE num == pools[p].num + r.n
           rec == [pools[p] EXCEPT !.toStart = left, !.num = num, !.phase = phase]
<1>8. pools' = [pools EXCEPT ![p] = rec]
  BY <1>1, <1>2, <1>5 DEF Types, PoolRecord
<1>9. num \in Nat
  BY <1>2, <1>6
<1> HIDE DEF num
<1>10. /\ rec \in PoolRecord
       /\ rec.phase = phase /\ rec.max = pools[p].max /\ rec.num = num
       /\ rec.exclusive = pools[p].exclusive /\ rec.running = TRUE
       /\ rec.immediate = pools[p].immediate /\ rec.waiting = pools[p].waiting
       /\ rec.queue = pools[p].queue /\ rec.toStart = left /\ rec.freer = "out"
  BY <1>2, <1>3, <1>7, <1>9 DEF PoolRecord
<1> HIDE DEF rec
<1>11. pools' \in [Pool -> PoolRecord] /\ OtherPools(p) /\ pools'[p] = rec
  BY <1>1, <1>8, <1>10, PoolDid
<1>13. Becomes(p, phase, pools[p].max, pools[p].num + r.n, TRUE, pools[p].immediate,
               pools[p].waiting, pools[p].queue, left, "out")
  BY <1>10, <1>11 DEF Becomes, num
<1> QED
  BY <1>1, <1>3, <1>5, <1>6, <1>7, <1>12, <1>13

\* g_thread_pool_new_full frees the pool under its threads.
Abandons(p) ==
  /\ Keeps /\ threads' = threads /\ unusedQueue' = unusedQueue /\ asleep' = asleep
  /\ fate' = fate /\ failures' = failures + 1
  /\ pools' \in [Pool -> PoolRecord] /\ OtherPools(p) /\ Abandoned(p)'
  /\ pools'[p].num = pools[p].num /\ pools'[p].queue = pools[p].queue

LEMMA BaseStartNext ==
  ASSUME Base, NEW p \in Pool, StartNext(p)
  PROVE  Base' \/ Abandons(p)
<1>1. /\ pools[p].toStart > 0 /\ pools[p].running = TRUE /\ pools[p].freer = "out"
      /\ pools[p].phase \in {"new", "live"} /\ fate' = fate
  BY StartNextDid
<1>2. PICK r \in StartThread(p), left \in Nat, phase \in {"new", "live", "freed"} :
              /\ left = IF r.failed THEN 0 ELSE pools[p].toStart - 1
              /\ phase = IF pools[p].phase = "live" \/ left > 0 THEN pools[p].phase
                         ELSE IF r.failed THEN "freed" ELSE "live"
              /\ Becomes(p, phase, pools[p].max, pools[p].num + r.n, TRUE, pools[p].immediate,
                         pools[p].waiting, pools[p].queue, left, "out")
              /\ asleep' = asleep \ r.woken /\ Started(r) /\ r.n \in {0, 1}
  BY StartNextDid
<1>3. Keeps /\ ((Enough(p) /\ Skips(r)) \/ StartsOne(p, r) \/ Fails(p, r))
  BY <1>2, StartDid
<1>4. /\ PoolInv(p) /\ fate' \in [Task -> Fates] /\ failures \in Nat /\ pools[p].num \in Nat
      /\ asleep' \subseteq asleep
  BY <1>1, <1>2, PoolTypes DEF Base, Types
<1>5. failures' \in Nat
  BY <1>3, <1>4 DEF Skips, StartsOne, Fails
<1>6. Nothing(r) \/ HandsOver(p, r) \/ \E w \in Thread : Creates(p, r, w)
  BY <1>3 DEF Skips, StartsOne, Fails
<1>7. /\ pools' \in [Pool -> PoolRecord] /\ OtherPools(p) /\ pools'[p].num = pools[p].num + r.n
      /\ pools'[p].phase = phase /\ pools'[p].running = TRUE /\ pools'[p].queue = pools[p].queue
      /\ pools'[p].toStart = left /\ pools'[p].freer = "out"
  BY <1>2 DEF Becomes
<1>13. CASE phase = "freed" /\ pools[p].num > 0
  <2>1. r.failed
    BY <1>1, <1>2, <1>13
  <2>2. Nothing(r) /\ failures' = failures + 1
    BY <2>1, <1>3 DEF Skips, StartsOne, Fails
  <2>3. pools'[p].num = pools[p].num /\ asleep' = asleep
    BY <2>2, <1>2, <1>4, <1>7 DEF Nothing
  <2>4. Abandoned(p)'
    BY <2>3, <1>7, <1>13 DEF Abandoned
  <2> QED
    BY <2>2, <2>3, <2>4, <1>1, <1>3, <1>7 DEF Abandons, Nothing
<1> SUFFICES ASSUME phase # "freed" \/ pools[p].num = 0 PROVE Base'
  BY <1>4, <1>13
<1>8. phase = "freed" => pools[p].num + r.n = 0 /\ pools[p].queue = <<>>
  <2> SUFFICES ASSUME phase = "freed" PROVE pools[p].num + r.n = 0 /\ pools[p].queue = <<>>
    OBVIOUS
  <2>1. pools[p].phase = "new" /\ r.failed
    BY <1>1, <1>2
  <2>2. r.n = 0
    BY <2>1, <1>3 DEF Skips, StartsOne, Fails, Nothing
  <2>3. pools[p].num = 0
    OBVIOUS
  <2> QED
    BY <2>1, <2>2, <2>3, <1>4 DEF PoolInv
<1>9. ~Has(pools'[p].queue, Bogus)
  BY <1>1, <1>4, <1>7 DEF PoolInv
<1>10. phase = "new" => left > 0 /\ pools[p].queue = <<>>
  BY <1>1, <1>2, <1>4 DEF PoolInv
<1>11. left > 0 => phase \in {"new", "live"}
  BY <1>1, <1>2
<1>12. PoolInv(p)'
  BY <1>7, <1>8, <1>9, <1>10, <1>11 DEF PoolInv, Has
<1> QED
  BY <1>3, <1>4, <1>5, <1>6, <1>7, <1>12, BaseStart

LEMMA PushDid ==
  ASSUME Base, NEW p \in Pool, NEW t \in Task, Push(p, t)
  PROVE  /\ Usable(p) /\ fate[t] = New /\ fate' = [fate EXCEPT ![t] = In("queued", p)]
         /\ \E r \in PushStart(p), X \in Signal(Waiters(p), 1) :
              /\ Keeps /\ asleep' = asleep \ (r.woken \cup X)
              /\ \/ Length(p) < 0 /\ Skips(r)
                 \/ Enough(p) /\ Skips(r)
                 \/ StartsOne(p, r)
                 \/ Fails(p, r)
              /\ Becomes(p, "live", pools[p].max, pools[p].num + r.n, TRUE, pools[p].immediate,
                         pools[p].waiting, Append(pools[p].queue, t), 0, "out")
<1>1. Types /\ Usable(p) /\ fate[t] = New /\ fate' = [fate EXCEPT ![t] = In("queued", p)]
  BY DEF Push, Base
<1>2. PICK r \in PushStart(p), X \in Signal(Waiters(p), 1) :
        /\ pools' = [pools EXCEPT ![p].num = @ + r.n, ![p].queue = Append(@, t)]
        /\ asleep' = asleep \ (r.woken \cup X)
        /\ Started(r)
  BY DEF Push, PushSignal
<1>3. Length(p) \in Int
  BY <1>1, LengthType
<1>4. /\ Keeps
      /\ \/ Length(p) < 0 /\ Skips(r)
         \/ Enough(p) /\ Skips(r)
         \/ StartsOne(p, r)
         \/ Fails(p, r)
  <2>1. CASE Length(p) >= 0
    <3>1. r \in StartThread(p)
      BY <2>1, <1>2 DEF PushStart
    <3> QED
      BY <3>1, <1>2, StartDid
  <2>2. CASE ~(Length(p) >= 0)
    <3>1. r = NotStarted /\ Length(p) < 0
      BY <2>2, <1>2, <1>3 DEF PushStart
    <3> QED
      BY <3>1, <1>2, SkipDid
  <2> QED
    BY <2>1, <2>2
<1>5. r.n \in {0, 1}
  BY <1>4 DEF StartsOne, Fails, Skips, Nothing, HandsOver, Creates
<1>6. /\ pools[p].phase = "live" /\ pools[p].running = TRUE /\ pools[p].toStart = 0
      /\ pools[p].freer = "out" /\ pools[p] \in PoolRecord /\ pools[p].num \in Nat
      /\ pools[p].queue \in Seq(Task \cup {Bogus})
  BY <1>1, UsableIs, PoolTypes
<1> DEFINE num == pools[p].num + r.n
           q == Append(pools[p].queue, t)
           rec == [pools[p] EXCEPT !.num = num, !.queue = q]
<1>7. num \in Nat /\ q \in Seq(Task \cup {Bogus})
  BY <1>5, <1>6, AppendProperties
<1>8. pools' = [pools EXCEPT ![p] = rec]
  BY <1>1, <1>2, <1>6 DEF Types, PoolRecord
<1> HIDE DEF num, q
<1>9. /\ rec \in PoolRecord
      /\ rec.phase = "live" /\ rec.max = pools[p].max /\ rec.num = num
      /\ rec.exclusive = pools[p].exclusive /\ rec.running = TRUE
      /\ rec.immediate = pools[p].immediate /\ rec.waiting = pools[p].waiting
      /\ rec.queue = q /\ rec.toStart = 0 /\ rec.freer = "out"
  BY <1>6, <1>7 DEF PoolRecord
<1> HIDE DEF rec
<1>10. pools' \in [Pool -> PoolRecord] /\ OtherPools(p) /\ pools'[p] = rec
  BY <1>1, <1>8, <1>9, PoolDid
<1>11. Becomes(p, "live", pools[p].max, pools[p].num + r.n, TRUE, pools[p].immediate,
               pools[p].waiting, Append(pools[p].queue, t), 0, "out")
  BY <1>9, <1>10 DEF Becomes, num, q
<1> QED
  BY <1>1, <1>2, <1>4, <1>11

LEMMA AppendHas ==
  ASSUME NEW S, NEW q \in Seq(S), NEW y \in S, NEW x
  PROVE  Has(Append(q, y), x) <=> Has(q, x) \/ x = y
<1>1. /\ DOMAIN q = 1 .. Len(q) /\ Len(q) \in Nat
      /\ DOMAIN Append(q, y) = 1 .. (Len(q) + 1)
      /\ \A i \in 1 .. Len(q) : Append(q, y)[i] = q[i]
      /\ Append(q, y)[Len(q) + 1] = y
  BY LenProperties, AppendProperties
<1>2. \A i \in 1 .. (Len(q) + 1) : i \in 1 .. Len(q) \/ i = Len(q) + 1
  BY <1>1
<1>3. Len(q) + 1 \in 1 .. (Len(q) + 1) /\ \A i \in 1 .. Len(q) : i \in 1 .. (Len(q) + 1)
  BY <1>1
<1> QED
  BY <1>1, <1>2, <1>3 DEF Has

LEMMA BasePush ==
  ASSUME Base, NEW p \in Pool, NEW t \in Task, Push(p, t)
  PROVE  Base'
<1>1. Usable(p) /\ fate[t] = New /\ fate' = [fate EXCEPT ![t] = In("queued", p)]
  BY PushDid
<1>2. PICK r \in PushStart(p), X \in Signal(Waiters(p), 1) :
              /\ Keeps /\ asleep' = asleep \ (r.woken \cup X)
              /\ \/ Length(p) < 0 /\ Skips(r)
                 \/ Enough(p) /\ Skips(r)
                 \/ StartsOne(p, r)
                 \/ Fails(p, r)
              /\ Becomes(p, "live", pools[p].max, pools[p].num + r.n, TRUE, pools[p].immediate,
                         pools[p].waiting, Append(pools[p].queue, t), 0, "out")
  BY PushDid
<1>3. /\ PoolInv(p) /\ fate \in [Task -> Fates] /\ failures \in Nat /\ asleep' \subseteq asleep
      /\ pools[p].running = TRUE /\ pools[p].queue \in Seq(Task \cup {Bogus})
  BY <1>1, <1>2, UsableIs, PoolTypes DEF Base, Types
<1>4. In("queued", p) \in Fates
  BY DEF In, Fates
<1>5. fate' \in [Task -> Fates]
  BY <1>1, <1>3, <1>4
<1>6. failures' \in Nat
  BY <1>2, <1>3 DEF Skips, StartsOne, Fails
<1>7. Nothing(r) \/ HandsOver(p, r) \/ \E w \in Thread : Creates(p, r, w)
  BY <1>2 DEF Skips, StartsOne, Fails
<1>8. /\ pools' \in [Pool -> PoolRecord] /\ OtherPools(p) /\ pools'[p].num = pools[p].num + r.n
      /\ pools'[p].phase = "live" /\ pools'[p].running = TRUE
      /\ pools'[p].queue = Append(pools[p].queue, t)
      /\ pools'[p].toStart = 0 /\ pools'[p].freer = "out"
  BY <1>2 DEF Becomes
<1>9. ~Has(pools'[p].queue, Bogus)
  <2>1. ~Has(pools[p].queue, Bogus) /\ t # Bogus
    BY <1>3, PoolAssumption DEF PoolInv
  <2> QED
    BY <2>1, <1>3, <1>8, AppendHas
<1>10. PoolInv(p)'
  BY <1>8, <1>9 DEF PoolInv, Has
<1> QED
  BY <1>2, <1>3, <1>5, <1>6, <1>7, <1>8, <1>10, BaseStart

--------------------------------------------------------------------------------
(* Threads in a pool. *)

\* A pool with a thread in it is there.
LEMMA MemberLive ==
  ASSUME Base, NEW w \in Thread, NEW p \in Pool, threads[w].pool = p
  PROVE  /\ pools[p].num >= 1 /\ pools[p].phase \in {"new", "live"}
         /\ Unlocked(p) => /\ pools[p].phase = "live" /\ pools[p].toStart = 0
                           /\ pools[p].freer # "check"
<1>1. PoolInv(p) /\ pools[p].num = Cardinality(Members(p)) + Count(unusedQueue, p)
  BY DEF Base, CountInv
<1>2. Cardinality(Members(p)) \in Nat /\ Count(unusedQueue, p) \in Nat
  BY Sizes, CountNat DEF Base, Types
<1>3. w \in Members(p)
  BY DEF Members
<1>4. Cardinality(Members(p)) # 0
  BY <1>3, NoMembers
<1>5. pools[p].num >= 1
  BY <1>1, <1>2, <1>4
<1>6. pools[p].phase # "none" /\ pools[p].phase # "freed"
  BY <1>1, <1>5 DEF PoolInv, NoPool
<1>7. pools[p].phase \in {"none", "new", "live", "freed"} /\ pools[p].toStart \in Nat
  BY PoolTypes DEF Base
<1> QED
  BY <1>1, <1>5, <1>6, <1>7 DEF PoolInv, Unlocked

LEMMA TailHas ==
  ASSUME NEW S, NEW q \in Seq(S), q # <<>>, NEW x
  PROVE  Has(q, x) <=> Head(q) = x \/ Has(Tail(q), x)
<1>1. /\ DOMAIN q = 1 .. Len(q) /\ Len(q) \in Nat \ {0}
      /\ DOMAIN Tail(q) = 1 .. (Len(q) - 1)
      /\ \A i \in 1 .. (Len(q) - 1) : Tail(q)[i] = q[i + 1]
      /\ Head(q) = q[1]
  BY LenProperties, HeadTailProperties, EmptySeq
<1>2. ASSUME Has(q, x) PROVE Head(q) = x \/ Has(Tail(q), x)
  <2>1. PICK i \in 1 .. Len(q) : q[i] = x
    BY <1>1, <1>2 DEF Has
  <2>2. CASE i = 1
    BY <2>1, <2>2, <1>1
  <2>3. CASE i # 1
    <3>1. i - 1 \in 1 .. (Len(q) - 1) /\ (i - 1) + 1 = i
      BY <2>3, <1>1
    <3>2. Tail(q)[i - 1] = x
      BY <3>1, <2>1, <1>1
    <3> QED
      BY <3>1, <3>2, <1>1 DEF Has
  <2> QED
    BY <2>2, <2>3
<1>3. ASSUME Head(q) = x PROVE Has(q, x)
  BY <1>1, <1>3 DEF Has
<1>4. ASSUME Has(Tail(q), x) PROVE Has(q, x)
  <2>1. PICK i \in 1 .. (Len(q) - 1) : Tail(q)[i] = x
    BY <1>1, <1>4 DEF Has
  <2>2. i + 1 \in 1 .. Len(q) /\ q[i + 1] = x
    BY <2>1, <1>1
  <2> QED
    BY <2>2, <1>1 DEF Has
<1> QED
  BY <1>2, <1>3, <1>4

\* A thread takes a task to run it.
Begins(w, p) ==
  /\ Runs(p) /\ pools[p].queue # <<>> /\ Head(pools[p].queue) \in Task
  /\ Becomes(p, "live", pools[p].max, pools[p].num, pools[p].running, pools[p].immediate,
             pools[p].waiting, Tail(pools[p].queue), 0, pools[p].freer)
  /\ pools[p].phase = "live" /\ pools[p].toStart = 0
  /\ threads' \in [Thread -> ThreadRecord] /\ Others(w) /\ threads'[w].at = "func"
  /\ threads'[w].pool = p /\ threads'[w].task = Head(pools[p].queue)
  /\ fate' = [fate EXCEPT ![Head(pools[p].queue)] = In("running", p)]
  /\ asleep' = asleep \ {w} /\ failures' = failures
  /\ unusedQueue' = unusedQueue /\ Keeps

LEMMA BeginsDid ==
  ASSUME Base, NEW w \in Thread, NEW p \in Pool, threads[w].pool = p, Unlocked(p),
         pools[p].queue # <<>>, Runs(p), Take(w, p)
  PROVE  Begins(w, p)
<1> DEFINE x == Head(pools[p].queue)
           q == Tail(pools[p].queue)
           rec == [pools[p] EXCEPT !.queue = q]
           new == [threads[w] EXCEPT !.at = "func", !.task = x]
<1>1. /\ pools' = [pools EXCEPT ![p].queue = q]
      /\ threads' = [threads EXCEPT ![w].at = "func", ![w].task = x]
      /\ fate' = [fate EXCEPT ![x] = In("running", p)]
      /\ asleep' = asleep \ {w} /\ failures' = failures
      /\ unusedQueue' = unusedQueue /\ Keeps
  BY DEF Take, Keeps, unusedVars, historyVars
<1>2. /\ Types /\ PoolInv(p) /\ pools[p] \in PoolRecord /\ pools[p].queue \in Seq(Task \cup {Bogus})
      /\ threads \in [Thread -> ThreadRecord]
  BY PoolTypes DEF Base, Types
<1>3. q \in Seq(Task \cup {Bogus}) /\ x \in Task \cup {Bogus}
  BY <1>2, HeadTailProperties
<1>4. Has(pools[p].queue, x)
  BY <1>2, TailHas
<1>5. x \in Task
  BY <1>2, <1>3, <1>4 DEF PoolInv, Runs
<1>6. pools[p].phase = "live" /\ pools[p].toStart = 0
  BY MemberLive
<1>7. pools' = [pools EXCEPT ![p] = rec] /\ threads' = [threads EXCEPT ![w] = new]
  BY <1>1, <1>2 DEF Types
<1> HIDE DEF x, q
<1>8. /\ rec \in PoolRecord
      /\ rec.phase = "live" /\ rec.max = pools[p].max /\ rec.num = pools[p].num
      /\ rec.exclusive = pools[p].exclusive /\ rec.running = pools[p].running
      /\ rec.immediate = pools[p].immediate /\ rec.waiting = pools[p].waiting
      /\ rec.queue = q /\ rec.toStart = 0 /\ rec.freer = pools[p].freer
  BY <1>2, <1>3, <1>6 DEF PoolRecord
<1>9. new \in ThreadRecord /\ new.at = "func" /\ new.pool = p /\ new.task = x
  BY <1>2, <1>5 DEF ThreadRecord, Places
<1> HIDE DEF rec, new
<1>10. pools' \in [Pool -> PoolRecord] /\ OtherPools(p) /\ pools'[p] = rec
  BY <1>2, <1>7, <1>8, PoolDid
<1>11. Becomes(p, "live", pools[p].max, pools[p].num, pools[p].running, pools[p].immediate,
             pools[p].waiting, q, 0, pools[p].freer)
  BY <1>8, <1>10 DEF Becomes
<1>12. threads' \in [Thread -> ThreadRecord] /\ Others(w) /\ threads'[w] = new
  BY <1>2, <1>7, <1>9 DEF Others
<1> QED
  BY <1>1, <1>5, <1>6, <1>9, <1>11, <1>12 DEF Begins, x, q

LEMMA BaseBegins ==
  ASSUME Base, NEW w \in Thread, NEW p \in Pool, threads[w].pool = p,
         threads[w].at \in {"start", "back", "pop"}, Begins(w, p)
  PROVE  Base'
<1>1. /\ Becomes(p, "live", pools[p].max, pools[p].num, pools[p].running, pools[p].immediate,
                 pools[p].waiting, Tail(pools[p].queue), 0, pools[p].freer)
      /\ Head(pools[p].queue) \in Task /\ pools[p].queue # <<>> /\ pools[p].phase = "live"
      /\ threads' \in [Thread -> ThreadRecord] /\ Others(w) /\ threads'[w].at = "func"
      /\ threads'[w].pool = p /\ threads'[w].task = Head(pools[p].queue)
      /\ fate' = [fate EXCEPT ![Head(pools[p].queue)] = In("running", p)]
      /\ asleep' = asleep \ {w} /\ failures' = failures /\ unusedQueue' = unusedQueue /\ Keeps
  BY DEF Begins
<1>2. /\ Types /\ PoolInv(p) /\ pools[p].queue \in Seq(Task \cup {Bogus})
      /\ fate \in [Task -> Fates] /\ failures' \in Nat /\ In("running", p) \in Fates
      /\ unusedQueue' \in Seq(Pool \cup {Marker}) /\ killUnused' \in Int
  BY <1>1, PoolTypes DEF Base, Types, In, Fates, Keeps
<1>3. fate' \in [Task -> Fates]
  BY <1>1, <1>2
<1>4. pools' \in [Pool -> PoolRecord] /\ OtherPools(p)
  BY <1>1 DEF Becomes
<1>5. Types'
  BY <1>1, <1>2, <1>3, <1>4, TypesStep DEF Keeps
<1>6. Placed(threads'[w])
  BY <1>1, PoolAssumption DEF Placed, InPool
<1>7. Has(Tail(pools[p].queue), Bogus) => Has(pools[p].queue, Bogus)
  BY <1>1, <1>2, TailHas
<1>8. PoolInv(p)'
  BY <1>1, <1>2, <1>7 DEF PoolInv, Becomes, Has
<1>9. \A o \in Pool : PoolInv(o)'
  BY <1>4, <1>8, PoolInvStep
<1>10. \A o \in Pool : pools'[o].num = pools[o].num
  BY <1>1, <1>4 DEF Becomes, OtherPools
<1>11. threads'[w].at \in InGlobal <=> threads[w].at \in InGlobal
  BY <1>1 DEF InGlobal
<1>12. unusedThreads' = unusedThreads /\ threads'[w].pool = threads[w].pool
  BY <1>1 DEF Keeps
<1> QED
  BY <1>1, <1>5, <1>6, <1>9, <1>10, <1>11, <1>12, BaseWalk

--------------------------------------------------------------------------------
(* A thread leaves its pool. *)

Leaves(w) ==
  /\ threads' \in [Thread -> ThreadRecord] /\ Others(w) /\ threads'[w].at = "limits"
  /\ threads'[w].pool = None /\ threads'[w].task = None /\ w \notin asleep'
  /\ unusedThreads' = unusedThreads + 1 /\ unusedQueue' = unusedQueue /\ killUnused' = killUnused
  /\ maxUnused' = maxUnused /\ serial' = serial /\ setter' = setter /\ failures' = failures

\* What becomes of the pool p with q in its queue: it is freed, its threads are stopped,
\* g_thread_pool_free is told, or it goes on.
LeftFreed(w, p, q, x) ==
  /\ pools[p].running = FALSE /\ pools[p].waiting = FALSE /\ pools[p].num - 1 = 0
  /\ Released(p, q, x) /\ asleep' = asleep \ {w}
  /\ Becomes(p, "freed", pools[p].max, 0, FALSE, pools[p].immediate, FALSE, <<>>, 0, "done")
LeftStopped(w, p, q, x) ==
  /\ pools[p].running = FALSE /\ pools[p].waiting = FALSE /\ pools[p].num - 1 # 0
  /\ Len(q) - Cardinality(Waiters(p) \ {w}) = - (pools[p].num - 1)
  /\ Released(p, <<>>, x)
  /\ \E X \in Signal(Waiters(p) \ {w}, pools[p].num - 1) : asleep' = asleep \ (X \cup {w})
  /\ Becomes(p, "live", pools[p].max, pools[p].num - 1, FALSE, TRUE, FALSE,
             q \o [i \in 1 .. pools[p].num - 1 |-> Bogus], 0, pools[p].freer)
LeftOn(w, p, q, x) ==
  /\ \/ pools[p].running = TRUE \/ pools[p].waiting = TRUE \/ pools[p].num - 1 # 0
  /\ Released(p, <<>>, x) /\ asleep' = asleep \ {w}
  /\ \E freer \in Freer :
       /\ \/ freer = pools[p].freer
          \/ pools[p].waiting = TRUE /\ pools[p].freer = "wait" /\ freer = "woken"
       /\ Becomes(p, "live", pools[p].max, pools[p].num - 1, pools[p].running, pools[p].immediate,
                  pools[p].waiting, q, 0, freer)
Left(w, p, q, x) == /\ Leaves(w)
                    /\ LeftFreed(w, p, q, x) \/ LeftStopped(w, p, q, x) \/ LeftOn(w, p, q, x)

LEMMA NoSignal ==
  ASSUME NEW S \in SUBSET Thread, NEW X \in Signal(S, 0)
  PROVE  X = {}
<1> DEFINE sleepers == asleep \cap S
<1>1. sleepers \in SUBSET Thread /\ Cardinality(sleepers) \in Nat
  BY ThreadSets
<1>2. X \in SUBSET Thread /\ Cardinality(X) =
        IF 0 < Cardinality(sleepers) THEN 0 ELSE Cardinality(sleepers)
  BY DEF Signal
<1> HIDE DEF sleepers
<1>3. Cardinality(X) = 0
  BY <1>1, <1>2
<1> QED
  BY <1>2, <1>3, EmptySize

\* The place of a thread that leaves.
LEMMA LeavesDid ==
  ASSUME Types, NEW w \in Thread, NEW p, NEW q, NEW x, Leave(w, p, q, x)
  PROVE  Leaves(w)
<1> DEFINE new == [NoThread EXCEPT !.at = "limits"]
<1>1. /\ threads' = [threads EXCEPT ![w] = new] /\ threads \in [Thread -> ThreadRecord]
      /\ unusedThreads' = unusedThreads + 1 /\ unusedQueue' = unusedQueue /\ killUnused' = killUnused
      /\ maxUnused' = maxUnused /\ serial' = serial /\ setter' = setter /\ failures' = failures
      /\ w \notin asleep'
  BY DEF Leave, Types
<1>2. new \in ThreadRecord /\ new.at = "limits" /\ new.pool = None /\ new.task = None
  BY DEF ThreadRecord, NoThread, Places
<1> HIDE DEF new
<1>3. threads' \in [Thread -> ThreadRecord] /\ Others(w) /\ threads'[w] = new
  BY <1>1, <1>2 DEF Others
<1> QED
  BY <1>1, <1>2, <1>3 DEF Leaves

LEMMA LeaveDid ==
  ASSUME Base, NEW w \in Thread, NEW p \in Pool, threads[w].pool = p, Unlocked(p),
         NEW q \in Seq(Task \cup {Bogus}), NEW x, Leave(w, p, q, x)
  PROVE  Left(w, p, q, x)
<1> DEFINE n == pools[p].num - 1
           rec == [pools[p] EXCEPT !.num = @ - 1, !.queue = q]
           others == Waiters(p) \ {w}
           length == Len(q) - Cardinality(others)
           stop == ~rec.running /\ ~rec.waiting /\ rec.num # 0 /\ length = - rec.num
           fill == q \o [i \in 1 .. n |-> Bogus]
<1>1. Types /\ PoolInv(p) /\ Leaves(w)
  BY LeavesDid DEF Base
<1>2. /\ pools[p] \in PoolRecord /\ pools[p].num \in Nat /\ pools[p].freer \in Freer
      /\ pools[p].running \in BOOLEAN /\ pools[p].waiting \in BOOLEAN
      /\ pools[p].immediate \in BOOLEAN
  BY <1>1, PoolTypes
<1>3. /\ pools[p].num >= 1 /\ pools[p].phase = "live" /\ pools[p].toStart = 0
      /\ pools[p].freer # "check"
  BY MemberLive
<1>4. n \in Nat
  BY <1>2, <1>3
<1>5. /\ pools' = [pools EXCEPT ![p] =
           IF LastFrees(rec) THEN [rec EXCEPT !.phase = "freed", !.queue = <<>>]
           ELSE IF stop THEN Stopped(rec, rec.num)
           ELSE IF TellsFreer(rec, length) /\ rec.freer = "wait"
           THEN [rec EXCEPT !.freer = "woken"] ELSE rec]
      /\ Released(p, IF LastFrees(rec) THEN q ELSE <<>>, x)
      /\ \E X \in Signal(others, IF stop THEN rec.num ELSE 0) : asleep' = asleep \ (X \cup {w})
  BY DEF Leave
<1>6. /\ rec = [pools[p] EXCEPT !.num = n, !.queue = q]
  BY <1>2 DEF PoolRecord
<1>7. others \in SUBSET Thread
  BY DEF Waiters
<1>8. fill \in Seq(Task \cup {Bogus})
  BY <1>4, Filled
<1> HIDE DEF n, length, others
<1>9. /\ rec \in PoolRecord /\ rec.phase = "live" /\ rec.max = pools[p].max
      /\ rec.num = n
      /\ rec.exclusive = pools[p].exclusive /\ rec.running = pools[p].running
      /\ rec.immediate = pools[p].immediate /\ rec.waiting = pools[p].waiting
      /\ rec.queue = q /\ rec.toStart = 0 /\ rec.freer = pools[p].freer
  <2> HIDE DEF rec
  <2> QED
    BY <1>2, <1>3, <1>4, <1>6 DEF PoolRecord
<1> HIDE DEF rec
<1>10. LastFrees(rec) <=> pools[p].running = FALSE /\ pools[p].waiting = FALSE /\ n = 0
  BY <1>2, <1>9 DEF LastFrees
<1>11. stop <=> pools[p].running = FALSE /\ pools[p].waiting = FALSE /\ n # 0 /\ length = - n
  BY <1>2, <1>9
<1> HIDE DEF stop, fill
<1>12. ~stop => asleep' = asleep \ {w}
  <2> SUFFICES ASSUME ~stop PROVE asleep' = asleep \ {w}
    OBVIOUS
  <2>1. PICK X \in Signal(others, 0) : asleep' = asleep \ (X \cup {w})
    BY <1>5
  <2>2. X = {}
    BY <1>7, NoSignal
  <2> QED
    BY <2>1, <2>2
<1>13. CASE LastFrees(rec)
  <2> DEFINE new == [rec EXCEPT !.phase = "freed", !.queue = <<>>]
  <2>1. <<>> \in Seq(Task \cup {Bogus})
    BY EmptySeq
  <2>2. pools' = [pools EXCEPT ![p] = new]
    BY <1>5, <1>13
  <2>3. pools[p].freer = "done"
    BY <1>1, <1>2, <1>3, <1>10, <1>13 DEF PoolInv, Freer
  <2>4. /\ new \in PoolRecord /\ new.phase = "freed" /\ new.max = pools[p].max
        /\ new.num = n
        /\ new.exclusive = pools[p].exclusive /\ new.running = pools[p].running
        /\ new.immediate = pools[p].immediate /\ new.waiting = pools[p].waiting
        /\ new.queue = <<>> /\ new.toStart = 0 /\ new.freer = "done"
    BY <1>9, <2>1, <2>3 DEF PoolRecord
  <2> HIDE DEF new
  <2>5. pools' \in [Pool -> PoolRecord] /\ OtherPools(p) /\ pools'[p] = new
    BY <2>2, <2>4, <1>1, PoolDid
  <2>6. Becomes(p, "freed", pools[p].max, 0, FALSE, pools[p].immediate, FALSE, <<>>, 0, "done")
    BY <2>4, <2>5, <1>10, <1>13 DEF Becomes
  <2>7. ~stop
    BY <1>10, <1>11, <1>13
  <2> QED
    BY <2>6, <2>7, <1>1, <1>5, <1>10, <1>12, <1>13 DEF Left, LeftFreed, n
<1>14. CASE ~LastFrees(rec) /\ stop
  <2> DEFINE new == [rec EXCEPT !.immediate = TRUE, !.queue = fill]
  <2>1. Stopped(rec, rec.num) = new
    BY <1>9 DEF Stopped, fill
  <2>2. pools' = [pools EXCEPT ![p] = new]
    BY <1>5, <1>14, <2>1
  <2>4. /\ new \in PoolRecord /\ new.phase = "live" /\ new.max = pools[p].max
        /\ new.num = n
        /\ new.exclusive = pools[p].exclusive /\ new.running = pools[p].running
        /\ new.immediate = TRUE /\ new.waiting = pools[p].waiting
        /\ new.queue = fill /\ new.toStart = 0 /\ new.freer = pools[p].freer
    BY <1>8, <1>9 DEF PoolRecord
  <2> HIDE DEF new
  <2>5. pools' \in [Pool -> PoolRecord] /\ OtherPools(p) /\ pools'[p] = new
    BY <2>2, <2>4, <1>1, PoolDid
  <2>6. Becomes(p, "live", pools[p].max, n, FALSE, TRUE, FALSE, fill, 0, pools[p].freer)
    BY <2>4, <2>5, <1>11, <1>14 DEF Becomes
  <2>7. Released(p, <<>>, x) /\ \E X \in Signal(others, n) : asleep' = asleep \ (X \cup {w})
    BY <1>5, <1>9, <1>14
  <2> QED
    BY <2>6, <2>7, <1>1, <1>11, <1>14 DEF Left, LeftStopped, n, others, length, fill
<1>15. CASE ~LastFrees(rec) /\ ~stop /\ TellsFreer(rec, length) /\ rec.freer = "wait"
  <2> DEFINE new == [rec EXCEPT !.freer = "woken"]
  <2>2. pools' = [pools EXCEPT ![p] = new]
    BY <1>5, <1>15
  <2>4. /\ new \in PoolRecord /\ new.phase = "live" /\ new.max = pools[p].max
        /\ new.num = n
        /\ new.exclusive = pools[p].exclusive /\ new.running = pools[p].running
        /\ new.immediate = pools[p].immediate /\ new.waiting = pools[p].waiting
        /\ new.queue = q /\ new.toStart = 0 /\ new.freer = "woken"
    BY <1>9 DEF PoolRecord, Freer
  <2> HIDE DEF new
  <2>5. pools' \in [Pool -> PoolRecord] /\ OtherPools(p) /\ pools'[p] = new
    BY <2>2, <2>4, <1>1, PoolDid
  <2>6. Becomes(p, "live", pools[p].max, n, pools[p].running, pools[p].immediate,
                pools[p].waiting, q, 0, "woken")
    BY <2>4, <2>5 DEF Becomes
  <2>7. pools[p].waiting = TRUE /\ pools[p].freer = "wait" /\ "woken" \in Freer
    BY <1>2, <1>9, <1>15 DEF TellsFreer, Freer
  <2>8. Released(p, <<>>, x) /\ asleep' = asleep \ {w}
    BY <1>5, <1>12, <1>15
  <2> QED
    BY <2>6, <2>7, <2>8, <1>1 DEF Left, LeftOn, n
<1>16. CASE ~LastFrees(rec) /\ ~stop /\ ~(TellsFreer(rec, length) /\ rec.freer = "wait")
  <2>2. pools' = [pools EXCEPT ![p] = rec]
    BY <1>5, <1>16
  <2>5. pools' \in [Pool -> PoolRecord] /\ OtherPools(p) /\ pools'[p] = rec
    BY <2>2, <1>9, <1>1, PoolDid
  <2>6. Becomes(p, "live", pools[p].max, n, pools[p].running, pools[p].immediate,
                pools[p].waiting, q, 0, pools[p].freer)
    BY <2>5, <1>9 DEF Becomes
  <2>7. pools[p].running = TRUE \/ pools[p].waiting = TRUE \/ n # 0
    BY <1>2, <1>10, <1>16
  <2>8. Released(p, <<>>, x) /\ asleep' = asleep \ {w}
    BY <1>5, <1>12, <1>16
  <2> QED
    BY <2>6, <2>7, <2>8, <1>1, <1>2 DEF Left, LeftOn, n
<1> QED
  BY <1>13, <1>14, <1>15, <1>16

LEMMA BaseLeft ==
  ASSUME Base, NEW w \in Thread, NEW p \in Pool, threads[w].pool = p, Unlocked(p),
         threads[w].at \in {"start", "back", "pop"},
         NEW q \in Seq(Task \cup {Bogus}), Has(q, Bogus) => Has(pools[p].queue, Bogus),
         NEW x, Left(w, p, q, x)
  PROVE  Base'
<1> DEFINE fill == q \o [i \in 1 .. pools[p].num - 1 |-> Bogus]
<1>1. /\ Leaves(w)
      /\ LeftFreed(w, p, q, x) \/ LeftStopped(w, p, q, x) \/ LeftOn(w, p, q, x)
  BY DEF Left
<1>2. Types /\ PoolInv(p)
  BY DEF Base
<1>3. fate' \in [Task -> Fates]
  BY <1>1, <1>2, ReleasedTypes DEF LeftFreed, LeftStopped, LeftOn
<1>4. asleep' \subseteq asleep
  BY <1>1 DEF LeftFreed, LeftStopped, LeftOn
<1>5. pools[p].num \in Nat /\ pools[p].num >= 1 /\ pools[p].phase = "live" /\ pools[p].freer # "check"
  BY <1>2, PoolTypes, MemberLive
<1>6. pools' \in [Pool -> PoolRecord] /\ OtherPools(p) /\ pools'[p].num = pools[p].num - 1
  BY <1>1, <1>5 DEF LeftFreed, LeftStopped, LeftOn, Becomes
<1>7. PoolInv(p)'
  <2>1. CASE LeftFreed(w, p, q, x)
    <3>1. Becomes(p, "freed", pools[p].max, 0, FALSE, pools[p].immediate, FALSE, <<>>, 0, "done")
      BY <2>1 DEF LeftFreed
    <3>2. ~Has(pools'[p].queue, Bogus)
      BY <3>1, EmptyHas DEF Becomes
    <3> QED
      BY <3>1, <3>2 DEF PoolInv, Has, Becomes
  <2>2. CASE LeftStopped(w, p, q, x)
    <3>1. /\ pools[p].running = FALSE /\ pools[p].waiting = FALSE
          /\ Becomes(p, "live", pools[p].max, pools[p].num - 1, FALSE, TRUE, FALSE, fill, 0,
                     pools[p].freer)
      BY <2>2 DEF LeftStopped
    <3> HIDE DEF fill
    <3>2. pools[p].freer # "out" /\ pools[p].freer \notin {"wait", "woken"}
      BY <3>1, <1>2, <1>5 DEF PoolInv
    <3> QED
      BY <3>1, <3>2 DEF PoolInv, Has, Becomes
  <2>3. CASE LeftOn(w, p, q, x)
    <3>1. PICK freer \in Freer :
       /\ \/ freer = pools[p].freer
          \/ pools[p].waiting = TRUE /\ pools[p].freer = "wait" /\ freer = "woken"
       /\ Becomes(p, "live", pools[p].max, pools[p].num - 1, pools[p].running, pools[p].immediate,
                  pools[p].waiting, q, 0, freer)
      BY <2>3 DEF LeftOn
    <3>2. Has(pools'[p].queue, Bogus) => pools'[p].immediate /\ ~pools'[p].running
      BY <3>1, <1>2 DEF PoolInv, Becomes
    <3> QED
      BY <3>1, <3>2, <1>2, <1>5 DEF PoolInv, Has, Becomes
  <2> QED
    BY <1>1, <2>1, <2>2, <2>3
<1>8. \A o \in Pool : PoolInv(o)'
  BY <1>6, <1>7, PoolInvStep
<1>9. /\ threads' \in [Thread -> ThreadRecord] /\ Others(w) /\ threads'[w].at = "limits"
      /\ threads'[w].pool = None /\ threads'[w].task = None /\ w \notin asleep'
      /\ unusedThreads' = unusedThreads + 1 /\ unusedQueue' = unusedQueue
      /\ maxUnused' = maxUnused /\ serial' = serial /\ setter' = setter
      /\ killUnused' \in Int /\ unusedQueue' \in Seq(Pool \cup {Marker}) /\ failures' \in Nat
  BY <1>1, <1>2 DEF Leaves, Types
<1>10. Types'
  BY <1>2, <1>3, <1>4, <1>6, <1>9, TypesStep
<1>11. Placed(threads'[w])
  BY <1>9 DEF Placed, InPool
<1>12. ASSUME NEW o \in Pool
       PROVE  pools'[o].num + Bit(threads[w].pool = o) + Count(unusedQueue, o) =
                pools[o].num + Bit(threads'[w].pool = o) + Count(unusedQueue', o)
  <2>1. pools[o].num \in Nat /\ Count(unusedQueue, o) \in Nat
    BY <1>2, PoolTypes, CountNat DEF Types
  <2>2. Bit(threads'[w].pool = o) = 0
    BY <1>9, PoolAssumption DEF Bit
  <2>3. pools'[o].num + Bit(threads[w].pool = o) = pools[o].num
    <3>1. CASE o = p
      BY <3>1, <1>5, <1>6 DEF Bit
    <3>2. CASE o # p
      BY <3>2, <1>6, <2>1 DEF Bit, OtherPools
    <3> QED
      BY <3>1, <3>2
  <2> QED
    BY <2>1, <2>2, <2>3, <1>9
<1>13. Bit(threads[w].at \in InGlobal) = 0 /\ Bit(threads'[w].at \in InGlobal) = 1
  BY <1>9 DEF Bit, InGlobal
<1>14. unusedThreads \in Nat
  BY Sizes DEF Base, UnusedInv
<1>15. unusedThreads' \in Int /\ unusedThreads' + Bit(threads[w].at \in InGlobal) =
           unusedThreads + Bit(threads'[w].at \in InGlobal)
  BY <1>9, <1>13, <1>14
<1> QED
  BY <1>8, <1>9, <1>10, <1>11, <1>12, <1>15, BaseStep

--------------------------------------------------------------------------------
(* What a thread in a pool does. *)

\* It goes to sleep on the empty queue.
Parks(w, p) ==
  /\ pools[p].queue = <<>> /\ threads' \in [Thread -> ThreadRecord] /\ Others(w)
  /\ threads'[w].at = "pop" /\ threads'[w].pool = p /\ threads'[w].task = threads[w].task
  /\ asleep' = asleep \cup {w} /\ pools' = pools /\ fate' = fate /\ failures' = failures
  /\ unusedQueue' = unusedQueue /\ Keeps

Skipped(p) == IF Head(pools[p].queue) = Bogus THEN None ELSE Head(pools[p].queue)

LeavesSkipping(w, p) ==
  /\ pools[p].queue # <<>> /\ ~Runs(p) /\ Left(w, p, Tail(pools[p].queue), Skipped(p))
LeavesIdle(w, p) ==
  /\ Left(w, p, pools[p].queue, None)
  /\ \/ ~Active(p) /\ threads[w].at \in {"start", "back"}
     \/ pools[p].queue = <<>> /\ ~pools[p].exclusive /\ threads[w].at = "pop"

Popping(w, p) == /\ threads[w].pool = p /\ threads[w].at \in {"start", "back", "pop"} /\ Unlocked(p)
PoolStep(w, p) == /\ Popping(w, p)
                  /\ Parks(w, p) \/ Begins(w, p) \/ LeavesSkipping(w, p) \/ LeavesIdle(w, p)

\* A thread in a pool has one.
LEMMA HasPool ==
  ASSUME Base, NEW w \in Thread, threads[w].at \in InPool
  PROVE  threads[w].pool \in Pool
<1>1. threads[w].pool \in Pool \cup {None} /\ threads[w].pool # None
  BY DEF Base, Types, PlaceInv, ThreadRecord
<1> QED
  BY <1>1

LEMMA TakeDid ==
  ASSUME Base, NEW w \in Thread, NEW p \in Pool, threads[w].pool = p, Unlocked(p),
         pools[p].queue # <<>>, Take(w, p)
  PROVE  Begins(w, p) \/ LeavesSkipping(w, p)
<1>1. CASE Runs(p)
  BY <1>1, BeginsDid
<1>2. CASE ~Runs(p)
  <2>1. Leave(w, p, Tail(pools[p].queue), Skipped(p))
    BY <1>2 DEF Take, Skipped
  <2>2. Tail(pools[p].queue) \in Seq(Task \cup {Bogus})
    BY PoolTypes, HeadTailProperties DEF Base
  <2>3. Left(w, p, Tail(pools[p].queue), Skipped(p))
    BY <2>1, <2>2, LeaveDid
  <2> QED
    BY <2>3, <1>2 DEF LeavesSkipping
<1> QED
  BY <1>1, <1>2

LEMMA NextTaskDid ==
  ASSUME Base, NEW w \in Thread, NextTask(w)
  PROVE  threads[w].pool \in Pool /\ PoolStep(w, threads[w].pool)
<1> DEFINE p == threads[w].pool
<1>1. threads[w].at \in {"start", "back"} /\ Unlocked(p)
  BY DEF NextTask
<1>2. p \in Pool
  BY <1>1, HasPool DEF InPool
<1>3. Popping(w, p)
  BY <1>1 DEF Popping
<1>4. \/ Active(p) /\ pools[p].queue # <<>> /\ Take(w, p)
      \/ /\ Active(p) /\ pools[p].queue = <<>>
         /\ Go(w, "pop") /\ asleep' = asleep \cup {w}
         /\ UNCHANGED <<pools, unusedVars, fate, historyVars>>
      \/ ~Active(p) /\ Leave(w, p, pools[p].queue, None)
  BY DEF NextTask
<1> HIDE DEF p
<1>5. threads[w].pool = p
  BY DEF p
<1>6. CASE pools[p].queue # <<>> /\ Take(w, p)
  <2>1. Begins(w, p) \/ LeavesSkipping(w, p)
    BY <1>1, <1>2, <1>5, <1>6, TakeDid
  <2> QED
    BY <2>1, <1>2, <1>3, <1>5 DEF PoolStep
<1>7. CASE /\ pools[p].queue = <<>> /\ Go(w, "pop") /\ asleep' = asleep \cup {w}
           /\ UNCHANGED <<pools, unusedVars, fate, historyVars>>
  <2>1. "pop" \in Places
    BY DEF Places
  <2>2. /\ threads' \in [Thread -> ThreadRecord] /\ Others(w) /\ threads'[w].at = "pop"
        /\ threads'[w].pool = threads[w].pool /\ threads'[w].task = threads[w].task
    BY <2>1, <1>7, GoDid DEF Base
  <2>3. Parks(w, p)
    BY <2>2, <1>5, <1>7 DEF Parks, unusedVars, historyVars, Keeps
  <2> QED
    BY <2>3, <1>2, <1>3, <1>5 DEF PoolStep
<1>8. CASE ~Active(p) /\ Leave(w, p, pools[p].queue, None)
  <2>1. pools[p].queue \in Seq(Task \cup {Bogus})
    BY <1>2, PoolTypes DEF Base
  <2>2. Left(w, p, pools[p].queue, None)
    BY <2>1, <1>1, <1>2, <1>5, <1>8, LeaveDid
  <2>3. LeavesIdle(w, p)
    BY <2>2, <1>1, <1>8 DEF LeavesIdle
  <2> QED
    BY <2>3, <1>2, <1>3, <1>5 DEF PoolStep
<1> QED
  BY <1>4, <1>6, <1>7, <1>8

LEMMA PopWakesDid ==
  ASSUME Base, NEW w \in Thread, PopWakes(w)
  PROVE  threads[w].pool \in Pool /\ PoolStep(w, threads[w].pool)
<1> DEFINE p == threads[w].pool
<1>1. threads[w].at = "pop" /\ Unlocked(p)
  BY DEF PopWakes, At
<1>2. p \in Pool
  BY <1>1, HasPool DEF InPool
<1>3. Popping(w, p)
  BY <1>1 DEF Popping
<1>4. \/ /\ pools[p].queue = <<>>
         /\ asleep' = asleep \cup {w}
         /\ UNCHANGED <<pools, threads, unusedVars, fate, historyVars>>
      \/ pools[p].queue # <<>> /\ Take(w, p)
  BY DEF PopWakes
<1> HIDE DEF p
<1>5. threads[w].pool = p
  BY DEF p
<1>6. CASE pools[p].queue # <<>> /\ Take(w, p)
  <2>1. Begins(w, p) \/ LeavesSkipping(w, p)
    BY <1>1, <1>2, <1>5, <1>6, TakeDid
  <2> QED
    BY <2>1, <1>2, <1>3, <1>5 DEF PoolStep
<1>7. CASE /\ pools[p].queue = <<>> /\ asleep' = asleep \cup {w}
           /\ UNCHANGED <<pools, threads, unusedVars, fate, historyVars>>
  <2>1. threads' = threads /\ threads' \in [Thread -> ThreadRecord]
    BY <1>7 DEF Base, Types
  <2>2. Others(w)
    BY <2>1 DEF Others
  <2>3. Parks(w, p)
    BY <2>1, <2>2, <1>1, <1>5, <1>7 DEF Parks, unusedVars, historyVars, Keeps
  <2> QED
    BY <2>3, <1>2, <1>3, <1>5 DEF PoolStep
<1> QED
  BY <1>4, <1>6, <1>7

LEMMA PopTimesOutDid ==
  ASSUME Base, NEW w \in Thread, PopTimesOut(w)
  PROVE  threads[w].pool \in Pool /\ PoolStep(w, threads[w].pool)
<1> DEFINE p == threads[w].pool
<1>1. threads[w].at = "pop" /\ Unlocked(p) /\ ~pools[p].exclusive
  BY DEF PopTimesOut, At
<1>2. p \in Pool
  BY <1>1, HasPool DEF InPool
<1>3. Popping(w, p)
  BY <1>1 DEF Popping
<1>4. \/ pools[p].queue = <<>> /\ Leave(w, p, <<>>, None)
      \/ pools[p].queue # <<>> /\ Take(w, p)
  BY DEF PopTimesOut
<1> HIDE DEF p
<1>5. threads[w].pool = p
  BY DEF p
<1>6. CASE pools[p].queue # <<>> /\ Take(w, p)
  <2>1. Begins(w, p) \/ LeavesSkipping(w, p)
    BY <1>1, <1>2, <1>5, <1>6, TakeDid
  <2> QED
    BY <2>1, <1>2, <1>3, <1>5 DEF PoolStep
<1>7. CASE pools[p].queue = <<>> /\ Leave(w, p, <<>>, None)
  <2>1. <<>> \in Seq(Task \cup {Bogus})
    BY EmptySeq
  <2>2. Left(w, p, <<>>, None)
    BY <2>1, <1>1, <1>2, <1>5, <1>7, LeaveDid
  <2>3. LeavesIdle(w, p)
    BY <2>2, <1>1, <1>7 DEF LeavesIdle
  <2> QED
    BY <2>3, <1>2, <1>3, <1>5 DEF PoolStep
<1> QED
  BY <1>4, <1>6, <1>7

LEMMA BaseParks ==
  ASSUME Base, NEW w \in Thread, NEW p \in Pool, Popping(w, p), Parks(w, p)
  PROVE  Base'
<1>1. /\ threads' \in [Thread -> ThreadRecord] /\ Others(w)
      /\ threads'[w].at = "pop" /\ threads'[w].pool = p /\ threads'[w].task = threads[w].task
      /\ asleep' = asleep \cup {w} /\ pools' = pools /\ fate' = fate /\ failures' = failures
      /\ unusedQueue' = unusedQueue /\ Keeps
      /\ threads[w].pool = p /\ threads[w].at \in {"start", "back", "pop"}
  BY DEF Parks, Popping
<1>2. /\ Types /\ pools' \in [Pool -> PoolRecord] /\ fate' \in [Task -> Fates] /\ failures' \in Nat
      /\ unusedQueue' \in Seq(Pool \cup {Marker}) /\ killUnused' \in Int
  BY <1>1 DEF Base, Types, Keeps
<1>3. Types'
  BY <1>1, <1>2, TypesStep DEF Keeps
<1>4. threads[w].task = None
  BY <1>1 DEF Base, PlaceInv
<1>5. Placed(threads'[w])
  BY <1>1, <1>4, PoolAssumption DEF Placed, InPool
<1>6. threads'[w].at \in InGlobal <=> threads[w].at \in InGlobal
  BY <1>1 DEF InGlobal
<1>7. \A o \in Pool : PoolInv(o)'
  BY <1>1, PoolsKept
<1>8. \A o \in Pool : pools'[o].num = pools[o].num
  BY <1>1
<1>9. unusedThreads' = unusedThreads /\ threads'[w].pool = threads[w].pool
  BY <1>1 DEF Keeps
<1> QED
  BY <1>1, <1>3, <1>5, <1>6, <1>7, <1>8, <1>9, BaseWalk

LEMMA BasePoolStep ==
  ASSUME Base, NEW w \in Thread, NEW p \in Pool, PoolStep(w, p)
  PROVE  Base'
<1>1. /\ Popping(w, p) /\ threads[w].pool = p /\ threads[w].at \in {"start", "back", "pop"}
      /\ Unlocked(p)
  BY DEF PoolStep, Popping
<1>2. pools[p].queue \in Seq(Task \cup {Bogus})
  BY PoolTypes DEF Base
<1>3. CASE Parks(w, p)
  BY <1>1, <1>3, BaseParks
<1>4. CASE Begins(w, p)
  BY <1>1, <1>4, BaseBegins
<1>5. CASE LeavesSkipping(w, p)
  <2>1. pools[p].queue # <<>> /\ Left(w, p, Tail(pools[p].queue), Skipped(p))
    BY <1>5 DEF LeavesSkipping
  <2>2. Tail(pools[p].queue) \in Seq(Task \cup {Bogus})
    BY <1>2, <2>1, HeadTailProperties
  <2>3. Has(Tail(pools[p].queue), Bogus) => Has(pools[p].queue, Bogus)
    BY <1>2, <2>1, TailHas
  <2> QED
    BY <1>1, <2>1, <2>2, <2>3, BaseLeft
<1>6. CASE LeavesIdle(w, p)
  <2>1. Left(w, p, pools[p].queue, None)
    BY <1>6 DEF LeavesIdle
  <2> QED
    BY <1>1, <1>2, <2>1, BaseLeft
<1> QED
  BY <1>3, <1>4, <1>5, <1>6 DEF PoolStep

\* A task has been run.
LEMMA FuncReturnsDid ==
  ASSUME Base, NEW w \in Thread, FuncReturns(w)
  PROVE  /\ threads[w].at = "func" /\ threads[w].pool \in Pool /\ threads[w].task \in Task
         /\ threads' \in [Thread -> ThreadRecord] /\ Others(w) /\ threads'[w].at = "back"
         /\ threads'[w].pool = threads[w].pool /\ threads'[w].task = None
         /\ fate' = [fate EXCEPT ![threads[w].task] = In("done", threads[w].pool)]
         /\ pools' = pools /\ asleep' = asleep /\ failures' = failures
         /\ unusedQueue' = unusedQueue /\ Keeps
<1> DEFINE new == [threads[w] EXCEPT !.at = "back", !.task = None]
<1>1. /\ threads[w].at = "func"
      /\ threads' = [threads EXCEPT ![w].at = "back", ![w].task = None]
      /\ fate' = [fate EXCEPT ![threads[w].task] = In("done", threads[w].pool)]
      /\ pools' = pools /\ asleep' = asleep /\ failures' = failures
      /\ unusedQueue' = unusedQueue /\ Keeps
  BY DEF FuncReturns, At, unusedVars, historyVars, Keeps
<1>2. threads \in [Thread -> ThreadRecord] /\ threads[w].task # None
  BY <1>1 DEF Base, Types, PlaceInv
<1>3. threads[w].pool \in Pool
  BY <1>1, HasPool DEF InPool
<1>4. threads[w].task \in Task
  BY <1>2 DEF ThreadRecord
<1>5. threads' = [threads EXCEPT ![w] = new]
  BY <1>1, <1>2
<1>6. new \in ThreadRecord /\ new.at = "back" /\ new.pool = threads[w].pool /\ new.task = None
  BY <1>2 DEF ThreadRecord, Places
<1> HIDE DEF new
<1>7. threads' \in [Thread -> ThreadRecord] /\ Others(w) /\ threads'[w] = new
  BY <1>2, <1>5, <1>6 DEF Others
<1> QED
  BY <1>1, <1>3, <1>4, <1>6, <1>7

LEMMA BaseFuncReturns ==
  ASSUME Base, NEW w \in Thread, FuncReturns(w)
  PROVE  Base'
<1>1. /\ threads[w].at = "func" /\ threads[w].pool \in Pool /\ threads[w].task \in Task
      /\ threads' \in [Thread -> ThreadRecord] /\ Others(w) /\ threads'[w].at = "back"
      /\ threads'[w].pool = threads[w].pool /\ threads'[w].task = None
      /\ fate' = [fate EXCEPT ![threads[w].task] = In("done", threads[w].pool)]
      /\ pools' = pools /\ asleep' = asleep /\ failures' = failures
      /\ unusedQueue' = unusedQueue /\ Keeps
  BY FuncReturnsDid
<1>2. /\ Types /\ pools' \in [Pool -> PoolRecord] /\ fate \in [Task -> Fates] /\ failures' \in Nat
      /\ unusedQueue' \in Seq(Pool \cup {Marker}) /\ killUnused' \in Int
      /\ w \notin asleep /\ In("done", threads[w].pool) \in Fates
  BY <1>1 DEF Base, Types, Keeps, At, In, Fates
<1>3. fate' \in [Task -> Fates]
  BY <1>1, <1>2
<1>4. Types'
  BY <1>1, <1>2, <1>3, TypesStep DEF Keeps
<1>5. Placed(threads'[w])
  BY <1>1, PoolAssumption DEF Placed, InPool
<1>6. threads'[w].at \in InGlobal <=> threads[w].at \in InGlobal
  BY <1>1 DEF InGlobal
<1>7. \A o \in Pool : PoolInv(o)'
  BY <1>1, PoolsKept
<1>8. \A o \in Pool : pools'[o].num = pools[o].num
  BY <1>1
<1>9. unusedThreads' = unusedThreads
  BY <1>1 DEF Keeps
<1> QED
  BY <1>1, <1>4, <1>5, <1>6, <1>7, <1>8, <1>9, BaseWalk

--------------------------------------------------------------------------------
(* Pools live as long as anybody can reach them. *)

LEMMA BaseInit == Init => Base
<1> SUFFICES ASSUME Init PROVE Base
  OBVIOUS
<1>1. <<>> \in Seq(Task \cup {Bogus}) /\ <<>> \in Seq(Pool \cup {Marker})
  BY EmptySeq
<1>2. NoPool \in PoolRecord /\ NoThread \in ThreadRecord /\ NoSetter \in SetterRecord
  BY <1>1 DEF NoPool, PoolRecord, NoThread, ThreadRecord, NoSetter, SetterRecord, Freer, Places
<1>3. New \in Fates
  BY DEF Fates
<1>4. Types
  BY <1>1, <1>2, <1>3 DEF Init, Types
<1>5. PlaceInv
  BY DEF Init, PlaceInv, NoThread, InPool
<1>6. Global = {}
  BY DEF Init, Global, NoThread, InGlobal
<1>7. UnusedInv
  BY <1>6, FS_EmptySet DEF Init, UnusedInv
<1>8. ASSUME NEW p \in Pool PROVE PoolInv(p) /\ CountInv(p)
  <2>1. pools[p] = NoPool
    BY DEF Init
  <2>2. ~Has(pools[p].queue, Bogus)
    BY <2>1, EmptyHas DEF NoPool
  <2>3. PoolInv(p)
    BY <2>1, <2>2 DEF PoolInv, NoPool
  <2>4. Members(p) = {}
    BY PoolAssumption DEF Init, Members, NoThread
  <2>5. Cardinality(Members(p)) = 0 /\ Count(unusedQueue, p) = 0
    BY <2>4, FS_EmptySet, CountEmpty DEF Init
  <2>6. CountInv(p)
    BY <2>1, <2>5 DEF CountInv, NoPool
  <2> QED
    BY <2>3, <2>6
<1> QED
  BY <1>4, <1>5, <1>7, <1>8 DEF Base

LEMMA BaseNext ==
  ASSUME Base, [Next]_vars
  PROVE  Base' \/ \E p \in Pool : Abandons(p)
<1>1. CASE UNCHANGED vars
  <2>1. /\ pools' = pools /\ threads' = threads /\ asleep' = asleep /\ unusedQueue' = unusedQueue
        /\ unusedThreads' = unusedThreads /\ maxUnused' = maxUnused /\ killUnused' = killUnused
        /\ serial' = serial /\ setter' = setter /\ fate' = fate /\ failures' = failures
    BY <1>1 DEF vars, unusedVars, historyVars
  <2>2. Types'
    BY <2>1 DEF Base, Types, At
  <2>3. \A p \in Pool : PoolInv(p)'
    BY <2>1, PoolsKept
  <2>4. \A p \in Pool : pools'[p].num + Count(unusedQueue, p) =
           pools[p].num + Count(unusedQueue', p)
    BY <2>1
  <2> QED
    BY <2>1, <2>2, <2>3, <2>4, BaseStill
<1>2. ASSUME NEW p \in Pool, Client(p) PROVE Base'
  <2>1. ASSUME NEW max \in Limits, NEW exclusive \in BOOLEAN, NewFull(p, max, exclusive) PROVE Base'
    BY <2>1, BaseNewFull
  <2>2. ASSUME NEW max \in NewLimits, SetMaxThreads(p, max) PROVE Base'
    BY <2>2, BaseSetMaxThreads
  <2>3. ASSUME NEW t \in Task, Push(p, t) PROVE Base'
    BY <2>3, BasePush
  <2>4. ASSUME NEW t \in Task, MoveToFront(p, t) PROVE Base'
    BY <2>4, BaseMoveToFront
  <2>5. ASSUME NEW imm \in BOOLEAN, NEW wait \in BOOLEAN, Free(p, imm, wait) PROVE Base'
    BY <2>5, BaseFree
  <2> QED
    BY <1>2, <2>1, <2>2, <2>3, <2>4, <2>5 DEF Client
<1>3. ASSUME NEW p \in Pool, Call(p) PROVE Base' \/ Abandons(p)
  <2>1. CASE StartNext(p)
    BY <2>1, BaseStartNext
  <2>2. CASE FreeWaits(p)
    <3>1. FreerStep(p, "wait") /\ pools[p].waiting
      BY <2>2, FreeWaitsDid
    <3> QED
      BY <3>1, BaseFreerStep
  <2>3. CASE FreeWakes(p)
    <3>1. FreerStep(p, "check")
      BY <2>3, FreeWakesDid
    <3> QED
      BY <3>1, BaseFreerStep
  <2>4. CASE FreeEnds(p)
    BY <2>4, BaseFreeEnds
  <2> QED
    BY <1>3, <2>1, <2>2, <2>3, <2>4 DEF Call
<1>4. ASSUME NEW w \in Thread, Work(w) \/ Expire(w) PROVE Base'
  <2>1. CASE NextTask(w)
    BY <2>1, NextTaskDid, BasePoolStep
  <2>2. CASE FuncReturns(w)
    BY <2>2, BaseFuncReturns
  <2>3. CASE PopWakes(w)
    BY <2>3, PopWakesDid, BasePoolStep
  <2>4. CASE PopTimesOut(w)
    BY <2>4, PopTimesOutDid, BasePoolStep
  <2>5. CASE ReadLimits(w)
    BY <2>5, BaseReadLimits
  <2>6. CASE ReadSerial(w)
    BY <2>6, BaseReadSerial
  <2>7. CASE CheckLimit(w)
    BY <2>7, BaseCheckLimit
  <2>8. CASE IdlePop(w)
    BY <2>8, BaseIdlePop
  <2>9. CASE IdleTimesOut(w)
    BY <2>9, BaseIdleTimesOut
  <2>10. CASE HandleMarker(w)
    BY <2>10, BaseHandleMarker
  <2>11. CASE LeaveIdle(w)
    BY <2>11, BaseLeaveIdle
  <2> QED
    BY <1>4, <2>1, <2>2, <2>3, <2>4, <2>5, <2>6, <2>7, <2>8, <2>9, <2>10, <2>11 DEF Work, Expire
<1>5. ASSUME NEW m \in UnusedLimits, SetMaxUnused(m) PROVE Base'
  BY <1>5, BaseSetMaxUnused
<1>6. CASE SetterStep
  BY <1>6, BaseSetterStep
<1> QED
  BY <1>1, <1>2, <1>3, <1>4, <1>5, <1>6 DEF Next

\* When a pool was abandoned nothing happens any more.
LEMMA AbandonedStays ==
  ASSUME ~Sound, [Next]_vars
  PROVE  UNCHANGED vars
  BY DEF Next

LEMMA AbandonsUnsound ==
  ASSUME NEW p \in Pool, Abandons(p)
  PROVE  ~Sound'
  BY DEF Abandons, Sound

LEMMA BasePoolLives == Base => PoolLives
<1> SUFFICES ASSUME Base PROVE PoolLives
  OBVIOUS
<1>1. unusedThreads \in Nat
  BY Sizes DEF Base, UnusedInv
<1>2. TypeOK
  BY <1>1 DEF Base, Types, TypeOK, SetterRecord
<1>3. ThreadsCounted
  BY DEF Base, CountInv, ThreadsCounted
<1>4. ASSUME NEW p \in Pool, pools[p].phase = "freed"
      PROVE  Members(p) = {} /\ Count(unusedQueue, p) = 0 /\ pools[p].freer \in {"out", "done"}
  <2>1. /\ pools[p].num = 0 /\ pools[p].freer \in {"out", "done"}
        /\ pools[p].num = Cardinality(Members(p)) + Count(unusedQueue, p)
    BY <1>4 DEF Base, PoolInv, CountInv
  <2>2. Cardinality(Members(p)) \in Nat /\ Count(unusedQueue, p) \in Nat
    BY Sizes, CountNat DEF Base, Types
  <2>3. Cardinality(Members(p)) = 0 /\ Count(unusedQueue, p) = 0
    BY <2>1, <2>2
  <2> QED
    BY <2>1, <2>3, NoMembers
<1> QED
  BY <1>2, <1>3, <1>4 DEF PoolLives, NoUseAfterFree

LEMMA AbandonsLives ==
  ASSUME Base, NEW p \in Pool, Abandons(p)
  PROVE  PoolLives'
<1>1. /\ PoolLives /\ Keeps /\ threads' = threads /\ unusedQueue' = unusedQueue /\ asleep' = asleep
      /\ pools' \in [Pool -> PoolRecord] /\ OtherPools(p) /\ Abandoned(p)'
      /\ pools'[p].num = pools[p].num
  BY BasePoolLives DEF Abandons
<1>2. TypeOK'
  BY <1>1 DEF PoolLives, TypeOK, At, Keeps
<1>3. \A o \in Pool : pools'[o].num = pools[o].num /\ Members(o)' = Members(o)
  BY <1>1 DEF OtherPools, Members
<1>4. ThreadsCounted'
  BY <1>1, <1>3 DEF PoolLives, ThreadsCounted
<1>5. ASSUME NEW o \in Pool, pools'[o].phase = "freed", ~Abandoned(o)'
      PROVE  /\ Members(o)' = {} /\ Count(unusedQueue', o) = 0
             /\ pools'[o].freer \in {"out", "done"}
  <2>1. pools'[o] = pools[o]
    BY <1>1, <1>5 DEF OtherPools
  <2> QED
    BY <2>1, <1>1, <1>3, <1>5 DEF PoolLives, NoUseAfterFree, Abandoned
<1> QED
  BY <1>2, <1>4, <1>5 DEF PoolLives, NoUseAfterFree

\* A pool lives as long as anybody can reach it: num_threads counts the threads of the
\* pool and those it was promised, and no thread, entry or call refers to a freed pool, but
\* for an exclusive pool that g_thread_pool_new_full frees when a thread cannot be created.
THEOREM PoolsLive == Spec => []PoolLives
<1>1. Init => Base
  BY BaseInit
<1>2. Base /\ [Next]_vars => Base' \/ (~Sound /\ PoolLives)'
  <2> SUFFICES ASSUME Base, NEW p \in Pool, Abandons(p) PROVE (~Sound /\ PoolLives)'
    BY BaseNext
  <2>1. ~Sound' /\ PoolLives'
    BY AbandonsUnsound, AbandonsLives
  <2> QED
    BY <2>1
<1>3. ~Sound /\ PoolLives /\ [Next]_vars => (~Sound /\ PoolLives)'
  <2> SUFFICES ASSUME ~Sound, PoolLives, [Next]_vars PROVE (~Sound /\ PoolLives)'
    OBVIOUS
  <2>1. UNCHANGED vars
    BY AbandonedStays
  <2> QED
    BY <2>1 DEF vars, unusedVars, Sound, Abandoned, PoolLives, TypeOK, At, ThreadsCounted,
                NoUseAfterFree, Members
<1>4. Base => PoolLives
  BY BasePoolLives
<1> QED
  BY <1>1, <1>2, <1>3, <1>4, PTL DEF Spec

--------------------------------------------------------------------------------
(* Tasks, queues and the threads that run them. *)

LEMMA InIs ==
  ASSUME NEW a, NEW b, NEW p, NEW o
  PROVE  (In(a, p) = In(b, o)) <=> (a = b /\ p = o)
  BY DEF In

LEMMA NewIs ==
  ASSUME NEW a, NEW p
  PROVE  New # In(a, p)
  BY DEF New, In

LEMMA UniqueTail ==
  ASSUME NEW q \in Seq(Task \cup {Bogus}), q # <<>>, Unique(q)
  PROVE  Unique(Tail(q)) /\ (Head(q) \in Task => ~Has(Tail(q), Head(q)))
<1>1. /\ DOMAIN q = 1 .. Len(q) /\ Len(q) \in Nat \ {0}
      /\ DOMAIN Tail(q) = 1 .. (Len(q) - 1)
      /\ \A i \in 1 .. (Len(q) - 1) : Tail(q)[i] = q[i + 1]
      /\ Head(q) = q[1]
  BY LenProperties, HeadTailProperties, EmptySeq
<1>2. \A i \in 1 .. (Len(q) - 1) : i + 1 \in 1 .. Len(q) /\ 1 # i + 1 /\ 1 \in 1 .. Len(q)
  BY <1>1
<1>3. ASSUME NEW i \in DOMAIN Tail(q), NEW j \in DOMAIN Tail(q), Tail(q)[i] \in Task,
             Tail(q)[i] = Tail(q)[j]
      PROVE  i = j
  <2>1. i + 1 \in DOMAIN q /\ j + 1 \in DOMAIN q /\ q[i + 1] \in Task /\ q[i + 1] = q[j + 1]
    BY <1>1, <1>2, <1>3
  <2>2. i + 1 = j + 1 /\ i \in Int /\ j \in Int
    BY <2>1, <1>1 DEF Unique
  <2> QED
    BY <2>2
<1>4. ASSUME Head(q) \in Task, Has(Tail(q), Head(q)) PROVE FALSE
  <2>1. PICK i \in 1 .. (Len(q) - 1) : Tail(q)[i] = Head(q)
    BY <1>1, <1>4 DEF Has
  <2>2. q[1] \in Task /\ q[1] = q[i + 1] /\ 1 \in DOMAIN q /\ i + 1 \in DOMAIN q
    BY <2>1, <1>1, <1>2, <1>4
  <2> QED
    BY <2>1, <2>2, <1>2 DEF Unique
<1> QED
  BY <1>3, <1>4 DEF Unique

LEMMA UniqueAppend ==
  ASSUME NEW q \in Seq(Task \cup {Bogus}), NEW t \in Task, Unique(q), ~Has(q, t)
  PROVE  Unique(Append(q, t))
<1>1. /\ DOMAIN q = 1 .. Len(q) /\ Len(q) \in Nat
      /\ DOMAIN Append(q, t) = 1 .. (Len(q) + 1)
      /\ \A i \in 1 .. Len(q) : Append(q, t)[i] = q[i]
      /\ Append(q, t)[Len(q) + 1] = t
  BY LenProperties, AppendProperties
<1>2. \A i \in 1 .. (Len(q) + 1) : i \in 1 .. Len(q) \/ i = Len(q) + 1
  BY <1>1
<1> QED
  BY <1>1, <1>2 DEF Unique, Has

LEMMA UniqueMoved ==
  ASSUME NEW q \in Seq(Task \cup {Bogus}), NEW k \in DOMAIN q, Unique(q)
  PROVE  Unique(MovedToFront(q, k))
<1> DEFINE m == MovedToFront(q, k)
           f(j) == IF j = 1 THEN k ELSE IF j <= k THEN j - 1 ELSE j
<1>1. /\ DOMAIN m = DOMAIN q
      /\ \A j \in DOMAIN q : m[j] = IF j = 1 THEN q[k] ELSE IF j <= k THEN q[j - 1] ELSE q[j]
  BY Moved
<1>2. DOMAIN q = 1 .. Len(q) /\ Len(q) \in Nat
  BY LenProperties
<1> HIDE DEF m
<1>3. \A j \in DOMAIN q : f(j) \in DOMAIN q /\ m[j] = q[f(j)]
  BY <1>1, <1>2
<1>4. \A i, j \in DOMAIN q : f(i) = f(j) => i = j
  BY <1>2
<1> HIDE DEF f
<1>5. Unique(m)
  BY <1>1, <1>3, <1>4 DEF Unique
<1> QED
  BY <1>5 DEF m

LEMMA BogusFilled ==
  ASSUME NEW q \in Seq(Task \cup {Bogus}), NEW n \in Nat
  PROVE  LET r == q \o [i \in 1 .. n |-> Bogus]
         IN  /\ Unique(q) => Unique(r)
             /\ \A t \in Task : Has(r, t) <=> Has(q, t)
<1> DEFINE r == q \o [i \in 1 .. n |-> Bogus]
<1>1. /\ DOMAIN q = 1 .. Len(q) /\ DOMAIN r = 1 .. (Len(q) + n) /\ Len(q) \in Nat
      /\ \A i \in 1 .. Len(q) : r[i] = q[i]
      /\ \A i \in Len(q) + 1 .. Len(q) + n : r[i] = Bogus
  BY Filled
<1> HIDE DEF r
<1>2. \A i \in DOMAIN r : r[i] \in Task => i \in DOMAIN q /\ r[i] = q[i]
  BY <1>1, PoolAssumption
<1>3. \A i \in DOMAIN q : i \in DOMAIN r /\ r[i] = q[i]
  BY <1>1
<1>4. Unique(q) => Unique(r)
  BY <1>2 DEF Unique
<1>5. ASSUME NEW t \in Task PROVE Has(r, t) <=> Has(q, t)
  BY <1>2, <1>3 DEF Has
<1> QED
  BY <1>4, <1>5 DEF r

LEMMA UniqueEmpty == Unique(<<>>)
  BY DEF Unique

--------------------------------------------------------------------------------
(* What a step leaves alone. *)

LEMMA RunKept ==
  ASSUME Base, RunInv,
         \A v \in Thread : threads'[v].at = "func" <=> threads[v].at = "func",
         \A v \in Thread : threads[v].at = "func" => threads'[v] = threads[v],
         \A t \in Task, p \in Pool : fate'[t] = In("running", p) <=> fate[t] = In("running", p)
  PROVE  RunInv'
<1>1. ASSUME NEW w \in Thread, threads'[w].at = "func"
      PROVE  fate'[threads'[w].task] = In("running", threads'[w].pool)
  <2>1. threads[w].at = "func" /\ threads'[w] = threads[w]
    BY <1>1
  <2>2. threads[w].pool \in Pool
    BY <2>1, HasPool DEF InPool
  <2>3. threads[w].task \in Task
    BY <2>1 DEF Base, PlaceInv, Types, ThreadRecord
  <2>4. fate[threads[w].task] = In("running", threads[w].pool)
    BY <2>1 DEF RunInv
  <2> QED
    BY <2>1, <2>2, <2>3, <2>4
<1>2. ASSUME NEW v \in Thread, NEW w \in Thread, threads'[v].at = "func", threads'[w].at = "func",
             threads'[v].task = threads'[w].task
      PROVE  v = w
  BY <1>2 DEF RunInv
<1>3. ASSUME NEW t \in Task, NEW p \in Pool, fate'[t] = In("running", p)
      PROVE  \E w \in Thread : Runner(w, t, p)'
  <2>1. PICK w \in Thread : Runner(w, t, p)
    BY <1>3 DEF RunInv
  <2>2. threads'[w] = threads[w]
    BY <2>1 DEF Runner
  <2>3. Runner(w, t, p)'
    BY <2>1, <2>2 DEF Runner
  <2> QED
    BY <2>3
<1> QED
  BY <1>1, <1>2, <1>3 DEF RunInv

LEMMA WaitersKept ==
  ASSUME NEW w \in Thread, Others(w), NEW o, ~Waits(threads[w], o), ~Waits(threads'[w], o)
  PROVE  Waiters(o)' = Waiters(o)
<1>1. ASSUME NEW v \in Thread PROVE Waits(threads'[v], o) <=> Waits(threads[v], o)
  BY DEF Others
<1>2. Waiters(o) = {v \in Thread : Waits(threads[v], o)}
  BY DEF Waiters, At, Waits
<1>3. Waiters(o)' = {v \in Thread : Waits(threads'[v], o)}
  BY DEF Waiters, At, Waits
<1> QED
  BY <1>1, <1>2, <1>3

\* Tasks, from what a step does to one pool.
LEMMA TasksStep ==
  ASSUME Tasks, NEW p \in Pool, OtherPools(p), RunInv', QueueInv(p)', FrozenInv(p)',
         \A o \in Pool \ {p} : Waiters(o)' = Waiters(o),
         \A t \in Task, o \in Pool \ {p} : fate'[t] = In("queued", o) <=> fate[t] = In("queued", o)
  PROVE  Tasks'
<1> SUFFICES ASSUME NEW o \in Pool \ {p} PROVE QueueInv(o)' /\ FrozenInv(o)'
  BY DEF Tasks
<1>1. pools'[o] = pools[o] /\ Waiters(o)' = Waiters(o) /\ QueueInv(o) /\ FrozenInv(o)
  BY DEF OtherPools, Tasks
<1>2. QueueInv(o)'
  BY <1>1 DEF QueueInv, Unique, Has
<1>3. FrozenInv(o)'
  BY <1>1 DEF FrozenInv
<1> QED
  BY <1>2, <1>3

LEMMA TasksCall ==
  ASSUME Base, Tasks, NEW p \in Pool, OtherPools(p), threads' = threads, fate' = fate,
         QueueInv(p)', FrozenInv(p)'
  PROVE  Tasks'
<1>1. RunInv'
  BY RunKept DEF Tasks
<1>2. \A o \in Pool \ {p} : Waiters(o)' = Waiters(o)
  BY ThreadsKept
<1> QED
  BY <1>1, <1>2, TasksStep

LEMMA TasksStill ==
  ASSUME Tasks, pools' = pools, threads' = threads, fate' = fate
  PROVE  Tasks'
<1>1. RunInv'
  BY DEF Tasks, RunInv, Runner
<1>2. ASSUME NEW p \in Pool PROVE QueueInv(p)' /\ FrozenInv(p)'
  <2>1. QueueInv(p) /\ FrozenInv(p) /\ Waiters(p)' = Waiters(p)
    BY ThreadsKept DEF Tasks
  <2> QED
    BY <2>1 DEF QueueInv, FrozenInv, Unique, Has
<1> QED
  BY <1>1, <1>2 DEF Tasks

LEMMA TasksUnnoticed ==
  ASSUME Base, Tasks, NEW w \in Thread, Unnoticed(w)
  PROVE  Tasks'
<1>1. /\ Others(w) /\ pools' = pools /\ fate' = fate
      /\ threads[w].at \notin {"func", "pop"} /\ threads'[w].at \notin {"func", "pop"}
  BY DEF Unnoticed, InGlobal
<1>2. /\ \A v \in Thread : threads'[v].at = "func" <=> threads[v].at = "func"
      /\ \A v \in Thread : threads[v].at = "func" => threads'[v] = threads[v]
  BY <1>1 DEF Others
<1>3. RunInv'
  BY <1>1, <1>2, RunKept DEF Tasks
<1>4. ASSUME NEW p \in Pool PROVE QueueInv(p)' /\ FrozenInv(p)'
  <2>1. QueueInv(p) /\ FrozenInv(p)
    BY DEF Tasks
  <2>2. Waiters(p)' = Waiters(p)
    BY <1>1, WaitersKept DEF Waits
  <2> QED
    BY <2>1, <2>2, <1>1 DEF QueueInv, FrozenInv, Unique, Has
<1> QED
  BY <1>3, <1>4 DEF Tasks

--------------------------------------------------------------------------------
(* The actions. *)

LEMMA TasksNewFull ==
  ASSUME Base, Tasks, NEW p \in Pool, NEW max \in Limits, NEW exclusive \in BOOLEAN,
         NewFull(p, max, exclusive)
  PROVE  Tasks'
<1>1. /\ OtherPools(p) /\ threads' = threads /\ fate' = fate /\ pools[p] = NoPool
      /\ pools'[p].running = TRUE /\ pools'[p].queue = <<>>
  BY NewFullDid DEF Calm
<1>2. QueueInv(p) /\ pools[p].queue = <<>>
  BY <1>1 DEF Tasks, NoPool
<1>3. QueueInv(p)'
  BY <1>1, <1>2 DEF QueueInv, Unique, Has
<1>4. FrozenInv(p)'
  BY <1>1 DEF FrozenInv
<1> QED
  BY <1>1, <1>3, <1>4, TasksCall

LEMMA TasksSetMaxThreads ==
  ASSUME Base, Tasks, NEW p \in Pool, NEW max \in NewLimits, SetMaxThreads(p, max)
  PROVE  Tasks'
<1>1. /\ OtherPools(p) /\ threads' = threads /\ fate' = fate
      /\ pools'[p].running = TRUE /\ pools'[p].queue = pools[p].queue
  BY SetMaxThreadsDid DEF Calm
<1>2. QueueInv(p)
  BY DEF Tasks
<1>3. QueueInv(p)'
  BY <1>1, <1>2 DEF QueueInv, Unique, Has
<1>4. FrozenInv(p)'
  BY <1>1 DEF FrozenInv
<1> QED
  BY <1>1, <1>3, <1>4, TasksCall

LEMMA TasksMoveToFront ==
  ASSUME Base, Tasks, NEW p \in Pool, NEW t \in Task, MoveToFront(p, t)
  PROVE  Tasks'
<1>1. PICK i \in DOMAIN pools[p].queue :
        /\ Becomes(p, "live", pools[p].max, pools[p].num, TRUE, pools[p].immediate,
                   pools[p].waiting, MovedToFront(pools[p].queue, i), 0, "out")
        /\ Calm /\ fate' = fate
  BY MoveToFrontDid
<1> DEFINE m == MovedToFront(pools[p].queue, i)
<1>2. /\ OtherPools(p) /\ pools'[p].running = TRUE /\ pools'[p].queue = m
      /\ threads' = threads /\ fate' = fate
  BY <1>1 DEF Becomes, Calm
<1>3. QueueInv(p) /\ pools[p].queue \in Seq(Task \cup {Bogus})
  BY PoolTypes DEF Tasks, Base
<1>4. Unique(m)
  BY <1>3, UniqueMoved DEF QueueInv
<1>5. \A x \in Task : Has(m, x) <=> Has(pools[p].queue, x)
  BY <1>3, Moved
<1> HIDE DEF m
<1>6. \A x \in Task : fate'[x] = In("queued", p) <=> Has(pools'[p].queue, x)
  BY <1>2, <1>3, <1>5 DEF QueueInv
<1>7. QueueInv(p)'
  BY <1>2, <1>4, <1>6 DEF QueueInv, Unique, Has
<1>8. FrozenInv(p)'
  BY <1>2 DEF FrozenInv
<1> QED
  BY <1>2, <1>7, <1>8, TasksCall

LEMMA TasksFree ==
  ASSUME Base, Tasks, NEW p \in Pool, NEW imm \in BOOLEAN, NEW wait \in BOOLEAN,
         Free(p, imm, wait)
  PROVE  Tasks'
<1>1. /\ Becomes(p, "live", pools[p].max, pools[p].num, FALSE, imm, wait, pools[p].queue, 0,
                 "check")
      /\ (imm \/ pools[p].max # 0 \/ Length(p) = 0) /\ Calm /\ fate' = fate
  BY FreeDid
<1>2. /\ OtherPools(p) /\ pools'[p].immediate = imm /\ pools'[p].queue = pools[p].queue
      /\ pools'[p].max = pools[p].max /\ threads' = threads /\ fate' = fate
  BY <1>1 DEF Becomes, Calm
<1>3. QueueInv(p)
  BY DEF Tasks
<1>4. QueueInv(p)'
  BY <1>2, <1>3 DEF QueueInv, Unique, Has
<1>5. Waiters(p)' = Waiters(p) /\ Len(pools[p].queue) \in Nat /\ Cardinality(Waiters(p)) \in Nat
  BY <1>2, ThreadsKept, PoolTypes, Sizes DEF Base
<1>6. Length(p) = 0 => Len(pools[p].queue) <= Cardinality(Waiters(p))
  BY <1>5 DEF Length
<1>7. FrozenInv(p)'
  BY <1>1, <1>2, <1>5, <1>6 DEF FrozenInv
<1> QED
  BY <1>2, <1>4, <1>7, TasksCall

LEMMA TasksFreerStep ==
  ASSUME Base, Tasks, NEW p \in Pool, NEW freer, FreerStep(p, freer)
  PROVE  Tasks'
<1>1. /\ OtherPools(p) /\ pools'[p].immediate = pools[p].immediate
      /\ pools'[p].queue = pools[p].queue /\ pools'[p].running = FALSE
      /\ pools'[p].max = pools[p].max /\ threads' = threads /\ fate' = fate
      /\ pools[p].freer \in {"check", "wait", "woken"}
  BY DEF FreerStep, Becomes, Calm
<1>2. QueueInv(p) /\ FrozenInv(p) /\ Waiters(p)' = Waiters(p)
  BY <1>1, ThreadsKept DEF Tasks
<1>3. QueueInv(p)'
  BY <1>1, <1>2 DEF QueueInv, Unique, Has
<1>4. pools[p].phase = "live" /\ pools[p].running = FALSE
  BY <1>1, FreeingIs
<1>5. FrozenInv(p)'
  BY <1>1, <1>2, <1>4 DEF FrozenInv
<1> QED
  BY <1>1, <1>3, <1>5, TasksCall


\* A thread that is started runs nothing yet and waits for nothing.
LEMMA StartedQuiet ==
  ASSUME Base, NEW p \in Pool, NEW r,
         Nothing(r) \/ HandsOver(p, r) \/ \E w \in Thread : Creates(p, r, w)
  PROVE  /\ \A v \in Thread : threads'[v].at = "func" <=> threads[v].at = "func"
         /\ \A v \in Thread : threads[v].at = "func" => threads'[v] = threads[v]
         /\ \A o : Waiters(o)' = Waiters(o)
<1>1. CASE threads' = threads
  <2>1. \A o : Waiters(o)' = Waiters(o)
    BY <1>1, ThreadsKept
  <2> QED
    BY <1>1, <2>1
<1>2. ASSUME NEW w \in Thread, Creates(p, r, w)
      PROVE  /\ \A v \in Thread : threads'[v].at = "func" <=> threads[v].at = "func"
             /\ \A v \in Thread : threads[v].at = "func" => threads'[v] = threads[v]
             /\ \A o : Waiters(o)' = Waiters(o)
  <2>1. Others(w) /\ threads[w].at = "none" /\ threads'[w].at = "start"
    BY <1>2 DEF Creates
  <2>2. \A v \in Thread : threads'[v].at = "func" <=> threads[v].at = "func"
    BY <2>1 DEF Others
  <2>3. \A v \in Thread : threads[v].at = "func" => threads'[v] = threads[v]
    BY <2>1 DEF Others
  <2>4. \A o : Waiters(o)' = Waiters(o)
    BY <2>1, WaitersKept DEF Waits
  <2> QED
    BY <2>2, <2>3, <2>4
<1> QED
  BY <1>1, <1>2 DEF Nothing, HandsOver

LEMMA TasksStartNext ==
  ASSUME Base, Tasks, NEW p \in Pool, StartNext(p)
  PROVE  Tasks'
<1>1. fate' = fate
  BY StartNextDid
<1>2. PICK r \in StartThread(p), left \in Nat, phase \in {"new", "live", "freed"} :
              /\ Becomes(p, phase, pools[p].max, pools[p].num + r.n, TRUE, pools[p].immediate,
                         pools[p].waiting, pools[p].queue, left, "out")
              /\ Started(r)
  BY StartNextDid
<1>3. Nothing(r) \/ HandsOver(p, r) \/ \E w \in Thread : Creates(p, r, w)
  BY <1>2, StartDid DEF Skips, StartsOne, Fails
<1>4. /\ \A v \in Thread : threads'[v].at = "func" <=> threads[v].at = "func"
      /\ \A v \in Thread : threads[v].at = "func" => threads'[v] = threads[v]
      /\ \A o : Waiters(o)' = Waiters(o)
  BY <1>3, StartedQuiet
<1>5. RunInv'
  BY <1>1, <1>4, RunKept DEF Tasks
<1>6. OtherPools(p) /\ pools'[p].running = TRUE /\ pools'[p].queue = pools[p].queue
  BY <1>2 DEF Becomes
<1>7. QueueInv(p)
  BY DEF Tasks
<1>8. QueueInv(p)'
  BY <1>1, <1>6, <1>7 DEF QueueInv, Unique, Has
<1>9. FrozenInv(p)'
  BY <1>6 DEF FrozenInv
<1> QED
  BY <1>1, <1>4, <1>5, <1>6, <1>8, <1>9, TasksStep

\* A task whose fate alone changes, to something in p.
LEMMA FateStep ==
  ASSUME Types, NEW p \in Pool, NEW t \in Task, NEW step, fate' = [fate EXCEPT ![t] = In(step, p)]
  PROVE  /\ fate'[t] = In(step, p) /\ \A s \in Task \ {t} : fate'[s] = fate[s]
  BY DEF Types

LEMMA TasksPush ==
  ASSUME Base, Tasks, NEW p \in Pool, NEW t \in Task, Push(p, t)
  PROVE  Tasks'
<1>1. fate[t] = New /\ fate' = [fate EXCEPT ![t] = In("queued", p)]
  BY PushDid
<1>2. PICK r \in PushStart(p), X \in Signal(Waiters(p), 1) :
              /\ \/ Length(p) < 0 /\ Skips(r)
                 \/ Enough(p) /\ Skips(r)
                 \/ StartsOne(p, r)
                 \/ Fails(p, r)
              /\ Becomes(p, "live", pools[p].max, pools[p].num + r.n, TRUE, pools[p].immediate,
                         pools[p].waiting, Append(pools[p].queue, t), 0, "out")
  BY PushDid
<1>3. Nothing(r) \/ HandsOver(p, r) \/ \E w \in Thread : Creates(p, r, w)
  BY <1>2 DEF Skips, StartsOne, Fails
<1>4. /\ \A v \in Thread : threads'[v].at = "func" <=> threads[v].at = "func"
      /\ \A v \in Thread : threads[v].at = "func" => threads'[v] = threads[v]
      /\ \A o : Waiters(o)' = Waiters(o)
  BY <1>3, StartedQuiet
<1>5. fate'[t] = In("queued", p) /\ \A s \in Task \ {t} : fate'[s] = fate[s]
  BY <1>1, FateStep DEF Base
<1>6. \A s \in Task, o \in Pool : fate'[s] = In("running", o) <=> fate[s] = In("running", o)
  <2> SUFFICES ASSUME NEW s \in Task, NEW o \in Pool
               PROVE  fate'[s] = In("running", o) <=> fate[s] = In("running", o)
    OBVIOUS
  <2>1. CASE s = t
    BY <2>1, <1>1, <1>5, InIs, NewIs
  <2>2. CASE s # t
    BY <2>2, <1>5
  <2> QED
    BY <2>1, <2>2
<1>7. RunInv'
  BY <1>4, <1>6, RunKept DEF Tasks
<1>8. \A s \in Task, o \in Pool \ {p} : fate'[s] = In("queued", o) <=> fate[s] = In("queued", o)
  <2> SUFFICES ASSUME NEW s \in Task, NEW o \in Pool \ {p}
               PROVE  fate'[s] = In("queued", o) <=> fate[s] = In("queued", o)
    OBVIOUS
  <2>1. CASE s = t
    BY <2>1, <1>1, <1>5, InIs, NewIs
  <2>2. CASE s # t
    BY <2>2, <1>5
  <2> QED
    BY <2>1, <2>2
<1>9. OtherPools(p) /\ pools'[p].running = TRUE /\ pools'[p].queue = Append(pools[p].queue, t)
  BY <1>2 DEF Becomes
<1>10. QueueInv(p) /\ pools[p].queue \in Seq(Task \cup {Bogus})
  BY PoolTypes DEF Tasks, Base
<1>11. ~Has(pools[p].queue, t)
  BY <1>1, <1>10, NewIs DEF QueueInv
<1>12. Unique(pools'[p].queue)
  BY <1>9, <1>10, <1>11, UniqueAppend DEF QueueInv
<1>13. ASSUME NEW s \in Task PROVE fate'[s] = In("queued", p) <=> Has(pools'[p].queue, s)
  <2>1. Has(pools'[p].queue, s) <=> Has(pools[p].queue, s) \/ s = t
    BY <1>9, <1>10, AppendHas
  <2>2. fate[s] = In("queued", p) <=> Has(pools[p].queue, s)
    BY <1>10 DEF QueueInv
  <2> QED
    BY <2>1, <2>2, <1>5
<1>14. QueueInv(p)'
  BY <1>12, <1>13 DEF QueueInv, Unique, Has
<1>15. FrozenInv(p)'
  BY <1>9 DEF FrozenInv
<1> QED
  BY <1>4, <1>7, <1>8, <1>9, <1>14, <1>15, TasksStep

\* Tasks that leave the queue of p: x, which was popped, and q, which is what is left.
Emptied(p, q, x) ==
  /\ q \in Seq(Task \cup {Bogus}) /\ Unique(q)
  /\ \A t \in Task : Has(pools[p].queue, t) <=> t = x \/ Has(q, t)
  /\ x \in Task => ~Has(q, x)

LEMMA EmptiedWhole ==
  ASSUME Base, Tasks, NEW p \in Pool
  PROVE  Emptied(p, pools[p].queue, None)
<1>1. QueueInv(p) /\ pools[p].queue \in Seq(Task \cup {Bogus}) /\ None \notin Task
  BY PoolTypes, PoolAssumption DEF Tasks, Base
<1> QED
  BY <1>1 DEF Emptied, QueueInv

LEMMA EmptiedTail ==
  ASSUME Base, Tasks, NEW p \in Pool, pools[p].queue # <<>>
  PROVE  Emptied(p, Tail(pools[p].queue), Skipped(p))
<1> DEFINE q == pools[p].queue
<1>1. Unique(q) /\ q \in Seq(Task \cup {Bogus}) /\ None \notin Task /\ Bogus \notin Task
  BY PoolTypes, PoolAssumption DEF Tasks, Base, QueueInv
<1>2. Tail(q) \in Seq(Task \cup {Bogus}) /\ Head(q) \in Task \cup {Bogus}
  BY <1>1, HeadTailProperties
<1>3. Unique(Tail(q)) /\ (Head(q) \in Task => ~Has(Tail(q), Head(q)))
  BY <1>1, UniqueTail
<1>4. \A t \in Task : Has(q, t) <=> Head(q) = t \/ Has(Tail(q), t)
  BY <1>1, TailHas
<1>5. \A t \in Task : t = Skipped(p) <=> Head(q) = t
  BY <1>1, <1>2 DEF Skipped
<1>6. Skipped(p) \in Task => Skipped(p) = Head(q)
  BY <1>1 DEF Skipped
<1> HIDE DEF q
<1>7. \A t \in Task : Has(q, t) <=> t = Skipped(p) \/ Has(Tail(q), t)
  BY <1>4, <1>5
<1>8. Skipped(p) \in Task => ~Has(Tail(q), Skipped(p))
  BY <1>3, <1>6
<1> QED
  BY <1>2, <1>3, <1>7, <1>8 DEF Emptied, q

LEMMA ReleasedIs ==
  ASSUME NEW p, NEW q \in Seq(Task \cup {Bogus}), NEW x, Released(p, q, x), NEW t \in Task
  PROVE  fate'[t] = IF t = x THEN In("lost", p) ELSE IF Has(q, t) THEN In("freed", p) ELSE fate[t]
<1>1. Count(q, t) > 0 <=> Has(q, t)
  BY CountHas
<1> QED
  BY <1>1 DEF Released

LEMMA SkippedIs ==
  ASSUME NEW p, NEW x, Released(p, <<>>, x), NEW t \in Task
  PROVE  fate'[t] = IF t = x THEN In("lost", p) ELSE fate[t]
<1>1. <<>> \in Seq(Task \cup {Bogus}) /\ ~Has(<<>>, t)
  BY EmptySeq, EmptyHas
<1>2. fate'[t] = IF t = x THEN In("lost", p) ELSE IF Has(<<>>, t) THEN In("freed", p) ELSE fate[t]
  BY <1>1, ReleasedIs
<1> QED
  BY <1>1, <1>2

\* The other pools and the running tasks are not concerned.
LEMMA ReleasedOwn ==
  ASSUME Tasks, NEW p \in Pool, NEW q, NEW x, Emptied(p, q, x),
         \A t \in Task : fate'[t] = fate[t] \/ ((t = x \/ Has(q, t))
                           /\ fate'[t] \in {In("lost", p), In("freed", p)})
  PROVE  /\ \A t \in Task, o \in Pool : fate'[t] = In("running", o) <=> fate[t] = In("running", o)
         /\ \A t \in Task, o \in Pool \ {p} :
              fate'[t] = In("queued", o) <=> fate[t] = In("queued", o)
<1>1. ASSUME NEW t \in Task, fate'[t] # fate[t]
      PROVE  fate[t] = In("queued", p) /\ fate'[t] \in {In("lost", p), In("freed", p)}
  <2>1. (t = x \/ Has(q, t)) /\ fate'[t] \in {In("lost", p), In("freed", p)}
    BY <1>1
  <2>2. Has(pools[p].queue, t)
    BY <2>1 DEF Emptied
  <2>3. QueueInv(p)
    BY DEF Tasks
  <2> QED
    BY <2>1, <2>2, <2>3 DEF QueueInv
<1>2. ASSUME NEW t \in Task, NEW o \in Pool
      PROVE  fate'[t] = In("running", o) <=> fate[t] = In("running", o)
  <2>1. CASE fate'[t] = fate[t]
    BY <2>1
  <2>2. CASE fate'[t] # fate[t]
    BY <2>2, <1>1, InIs
  <2> QED
    BY <2>1, <2>2
<1>3. ASSUME NEW t \in Task, NEW o \in Pool \ {p}
      PROVE  fate'[t] = In("queued", o) <=> fate[t] = In("queued", o)
  <2>1. CASE fate'[t] = fate[t]
    BY <2>1
  <2>2. CASE fate'[t] # fate[t]
    BY <2>2, <1>1, InIs
  <2> QED
    BY <2>1, <2>2
<1> QED
  BY <1>2, <1>3

\* The pool itself has lost its tasks, or only x.
LEMMA FreedQueue ==
  ASSUME Tasks, NEW p \in Pool, NEW q, NEW x, Emptied(p, q, x), Released(p, q, x),
         pools'[p].queue = <<>>
  PROVE  QueueInv(p)'
<1>1. ASSUME NEW t \in Task PROVE fate'[t] = In("queued", p) <=> Has(pools'[p].queue, t)
  <2>1. ~Has(pools'[p].queue, t)
    BY EmptyHas
  <2>4. q \in Seq(Task \cup {Bogus})
    BY DEF Emptied
  <2>2. fate'[t] = IF t = x THEN In("lost", p) ELSE IF Has(q, t) THEN In("freed", p) ELSE fate[t]
    BY <2>4, ReleasedIs
  <2>3. fate[t] = In("queued", p) <=> t = x \/ Has(q, t)
    BY DEF Emptied, Tasks, QueueInv
  <2> QED
    BY <2>1, <2>2, <2>3, InIs
<1>2. Unique(pools'[p].queue)
  BY UniqueEmpty
<1> QED
  BY <1>1, <1>2 DEF QueueInv, Unique, Has

LEMMA LeftQueue ==
  ASSUME Tasks, NEW p \in Pool, NEW q, NEW x, Emptied(p, q, x), Released(p, <<>>, x),
         Unique(pools'[p].queue), \A t \in Task : Has(pools'[p].queue, t) <=> Has(q, t)
  PROVE  QueueInv(p)'
<1>1. ASSUME NEW t \in Task PROVE fate'[t] = In("queued", p) <=> Has(pools'[p].queue, t)
  <2>1. fate'[t] = IF t = x THEN In("lost", p) ELSE fate[t]
    BY SkippedIs
  <2>2. fate[t] = In("queued", p) <=> t = x \/ Has(q, t)
    BY DEF Emptied, Tasks, QueueInv
  <2>3. t = x => ~Has(q, t)
    BY DEF Emptied
  <2>4. Has(pools'[p].queue, t) <=> Has(q, t)
    OBVIOUS
  <2> QED
    BY <2>1, <2>2, <2>3, <2>4, InIs
<1> QED
  BY <1>1 DEF QueueInv, Unique, Has

LEMMA TasksFreeEnds ==
  ASSUME Base, Tasks, NEW p \in Pool, FreeEnds(p)
  PROVE  Tasks'
<1> DEFINE q == pools[p].queue
           fill == q \o [i \in 1 .. pools[p].num |-> Bogus]
<1>1. /\ Calm
      /\ \/ /\ Released(p, q, None)
            /\ Becomes(p, "freed", pools[p].max, pools[p].num, FALSE, pools[p].immediate,
                       pools[p].waiting, <<>>, 0, "done")
         \/ /\ fate' = fate
            /\ Becomes(p, "live", pools[p].max, pools[p].num, FALSE, TRUE, FALSE, fill, 0, "done")
         \/ /\ fate' = fate
            /\ Becomes(p, "live", pools[p].max, pools[p].num, FALSE, pools[p].immediate,
                              FALSE, q, 0, "done")
      /\ pools[p].freer = "check"
  BY FreeEndsDid
<1>2. /\ QueueInv(p) /\ FrozenInv(p) /\ q \in Seq(Task \cup {Bogus}) /\ pools[p].num \in Nat
      /\ threads' = threads /\ Waiters(p)' = Waiters(p)
      /\ pools[p].phase = "live" /\ pools[p].running = FALSE
  BY <1>1, PoolTypes, ThreadsKept, FreeingIs DEF Base, Tasks, Calm
<1>3. (Unique(q) => Unique(fill)) /\ \A t \in Task : Has(fill, t) <=> Has(q, t)
  BY <1>2, BogusFilled
<1> HIDE DEF fill
<1>4. OtherPools(p)
  BY <1>1 DEF Becomes
<1>5. CASE /\ Released(p, q, None)
           /\ Becomes(p, "freed", pools[p].max, pools[p].num, FALSE, pools[p].immediate,
                      pools[p].waiting, <<>>, 0, "done")
  <2>1. Emptied(p, q, None)
    BY EmptiedWhole
  <2>2. pools'[p].queue = <<>> /\ pools'[p].phase = "freed"
    BY <1>5 DEF Becomes
  <2>3. QueueInv(p)'
    BY <1>5, <2>1, <2>2, FreedQueue
  <2>4. FrozenInv(p)'
    BY <2>2 DEF FrozenInv
  <2>5. ASSUME NEW t \in Task
        PROVE  fate'[t] = fate[t] \/ ((t = None \/ Has(q, t))
                           /\ fate'[t] \in {In("lost", p), In("freed", p)})
    <3> HIDE DEF q
    <3>2. q \in Seq(Task \cup {Bogus}) /\ Released(p, q, None)
      BY <1>2, <1>5
    <3>1. fate'[t] = IF t = None THEN In("lost", p) ELSE IF Has(q, t) THEN In("freed", p) ELSE fate[t]
      BY <3>2, ReleasedIs
    <3> QED
      BY <3>1
  <2>6. /\ \A t \in Task, o \in Pool : fate'[t] = In("running", o) <=> fate[t] = In("running", o)
        /\ \A t \in Task, o \in Pool \ {p} :
              fate'[t] = In("queued", o) <=> fate[t] = In("queued", o)
    BY <2>1, <2>5, ReleasedOwn
  <2>7. RunInv'
    BY <1>2, <2>6, RunKept DEF Tasks
  <2>8. \A o \in Pool \ {p} : Waiters(o)' = Waiters(o)
    BY <1>2, ThreadsKept
  <2> QED
    BY <1>4, <2>3, <2>4, <2>6, <2>7, <2>8, TasksStep
<1>6. CASE /\ fate' = fate
           /\ Becomes(p, "live", pools[p].max, pools[p].num, FALSE, TRUE, FALSE, fill, 0, "done")
  <2>1. pools'[p].queue = fill /\ pools'[p].immediate = TRUE
    BY <1>6 DEF Becomes
  <2>2. Unique(pools'[p].queue) /\ \A t \in Task : fate'[t] = In("queued", p) <=> Has(pools'[p].queue, t)
    BY <1>2, <1>3, <1>6, <2>1 DEF QueueInv
  <2>3. QueueInv(p)'
    BY <2>2 DEF QueueInv, Unique, Has
  <2>4. FrozenInv(p)'
    BY <2>1 DEF FrozenInv
  <2> QED
    BY <1>2, <1>4, <1>6, <2>3, <2>4, TasksCall
<1>7. CASE /\ fate' = fate
           /\ Becomes(p, "live", pools[p].max, pools[p].num, FALSE, pools[p].immediate,
                              FALSE, q, 0, "done")
  <2>1. /\ pools'[p].queue = pools[p].queue /\ pools'[p].immediate = pools[p].immediate
        /\ pools'[p].max = pools[p].max
    BY <1>7 DEF Becomes
  <2>3. QueueInv(p)'
    BY <1>2, <1>7, <2>1 DEF QueueInv, Unique, Has
  <2>4. FrozenInv(p)'
    BY <1>2, <2>1 DEF FrozenInv
  <2> QED
    BY <1>2, <1>4, <1>7, <2>3, <2>4, TasksCall
<1> QED
  BY <1>1, <1>5, <1>6, <1>7


LEMMA TasksParks ==
  ASSUME Base, Tasks, NEW w \in Thread, NEW p \in Pool, Popping(w, p), Parks(w, p)
  PROVE  Tasks'
<1>1. /\ Others(w) /\ threads'[w].at = "pop" /\ threads'[w].pool = p
      /\ pools' = pools /\ fate' = fate /\ pools[p].queue = <<>>
      /\ threads[w].pool = p /\ threads[w].at \in {"start", "back", "pop"}
  BY DEF Parks, Popping
<1>2. /\ \A v \in Thread : threads'[v].at = "func" <=> threads[v].at = "func"
      /\ \A v \in Thread : threads[v].at = "func" => threads'[v] = threads[v]
  BY <1>1 DEF Others
<1>3. RunInv'
  BY <1>1, <1>2, RunKept DEF Tasks
<1>4. ASSUME NEW o \in Pool \ {p} PROVE Waiters(o)' = Waiters(o)
  BY <1>1, WaitersKept DEF Waits
<1>5. QueueInv(p)'
  BY <1>1 DEF Tasks, QueueInv, Unique, Has
<1>6. Len(pools'[p].queue) = 0
  BY <1>1, EmptySeq
<1>7. Cardinality(Waiters(p)') \in Nat
  <2>1. Waiters(p)' \in SUBSET Thread
    BY DEF Waiters
  <2> QED
    BY <2>1, ThreadSets
<1>8. FrozenInv(p)'
  BY <1>6, <1>7 DEF FrozenInv
<1>9. OtherPools(p)
  BY <1>1 DEF OtherPools
<1> QED
  BY <1>1, <1>3, <1>4, <1>5, <1>8, <1>9, TasksStep

\* A thread that takes something or leaves: one waits less, if it did.
LEMMA WaitersLess ==
  ASSUME NEW w \in Thread, Others(w), NEW p, threads[w].pool = p, ~Waits(threads'[w], p)
  PROVE  /\ Waiters(p)' = Waiters(p) \ {w}
         /\ threads[w].at # "pop" => Cardinality(Waiters(p)') = Cardinality(Waiters(p))
         /\ threads[w].at = "pop" => Cardinality(Waiters(p)') = Cardinality(Waiters(p)) - 1
<1>1. Cardinality(Waiters(p)') =
        Cardinality(Waiters(p)) + Bit(Waits(threads'[w], p)) - Bit(Waits(threads[w], p))
  BY WaitersStep
<1>2. Bit(Waits(threads'[w], p)) = 0 /\ Bit(Waits(threads[w], p)) = Bit(threads[w].at = "pop")
  BY DEF Bit, Waits
<1>3. /\ threads[w].at # "pop" => Bit(threads[w].at = "pop") = 0
      /\ threads[w].at = "pop" => Bit(threads[w].at = "pop") = 1
  BY DEF Bit
<1>4. Cardinality(Waiters(p)) \in Nat
  BY Sizes
<1>5. Waiters(p)' = Waiters(p) \ {w}
  <2>1. ASSUME NEW v \in Thread
        PROVE  Waits(threads'[v], p) <=> Waits(threads[v], p) /\ v # w
    BY DEF Others
  <2>2. Waiters(p) = {v \in Thread : Waits(threads[v], p)}
    BY DEF Waiters, At, Waits
  <2>3. Waiters(p)' = {v \in Thread : Waits(threads'[v], p)}
    BY DEF Waiters, At, Waits
  <2> QED
    BY <2>1, <2>2, <2>3
<1> QED
  BY <1>1, <1>2, <1>3, <1>4, <1>5

LEMMA TailLength ==
  ASSUME NEW q \in Seq(Task \cup {Bogus}), q # <<>>
  PROVE  /\ Len(q) \in Nat \ {0} /\ Len(Tail(q)) = Len(q) - 1
  BY LenProperties, HeadTailProperties, EmptySeq

LEMMA TasksBegins ==
  ASSUME Base, Tasks, NEW w \in Thread, NEW p \in Pool, Popping(w, p), Begins(w, p)
  PROVE  Tasks'
<1> DEFINE q == pools[p].queue
           x == Head(q)
<1>1. /\ Becomes(p, "live", pools[p].max, pools[p].num, pools[p].running, pools[p].immediate,
                 pools[p].waiting, Tail(q), 0, pools[p].freer)
      /\ x \in Task /\ q # <<>> /\ pools[p].phase = "live"
      /\ Others(w) /\ threads'[w].at = "func"
      /\ threads'[w].pool = p /\ threads'[w].task = x
      /\ fate' = [fate EXCEPT ![x] = In("running", p)]
  BY DEF Begins
<1>2. threads[w].pool = p /\ threads[w].at \in {"start", "back", "pop"}
  BY DEF Popping
<1>3. Emptied(p, Tail(q), x)
  <2>1. Skipped(p) = x
    BY <1>1, PoolAssumption DEF Skipped
  <2> QED
    BY <2>1, <1>1, EmptiedTail
<1>4. QueueInv(p) /\ FrozenInv(p) /\ RunInv /\ q \in Seq(Task \cup {Bogus})
  BY PoolTypes DEF Tasks, Base
<1>5. /\ OtherPools(p) /\ pools'[p].queue = Tail(q) /\ pools'[p].running = pools[p].running
      /\ pools'[p].immediate = pools[p].immediate /\ pools'[p].max = pools[p].max
  BY <1>1 DEF Becomes
<1>10. Len(q) \in Nat \ {0} /\ Len(Tail(q)) = Len(q) - 1
  BY <1>1, <1>4, TailLength
<1>6. fate[x] = In("queued", p)
  BY <1>1, <1>3, <1>4 DEF Emptied, QueueInv
<1>7. fate'[x] = In("running", p) /\ \A s \in Task \ {x} : fate'[s] = fate[s]
  BY <1>1, FateStep DEF Base
<1>11. Unique(Tail(q)) /\ \A s \in Task : Has(q, s) <=> s = x \/ Has(Tail(q), s)
  BY <1>3 DEF Emptied
<1>12. ~Has(Tail(q), x)
  BY <1>1, <1>3 DEF Emptied
<1> HIDE DEF q, x
<1>8. ASSUME NEW s \in Task PROVE fate'[s] = In("queued", p) <=> Has(pools'[p].queue, s)
  <2>1. CASE s = x
    BY <2>1, <1>5, <1>7, <1>12, InIs
  <2>2. CASE s # x
    BY <2>2, <1>4, <1>5, <1>7, <1>11 DEF QueueInv, q
  <2> QED
    BY <2>1, <2>2
<1>9. QueueInv(p)'
  BY <1>5, <1>8, <1>11 DEF QueueInv, Unique, Has
<1>13. FrozenInv(p)'
  <2>1. /\ threads[w].at # "pop" => Cardinality(Waiters(p)') = Cardinality(Waiters(p))
        /\ threads[w].at = "pop" => Cardinality(Waiters(p)') = Cardinality(Waiters(p)) - 1
    BY <1>1, <1>2, WaitersLess DEF Waits
  <2>2. Cardinality(Waiters(p)) \in Nat
    BY Sizes
  <2>3. Len(q) <= Cardinality(Waiters(p)) => Len(pools'[p].queue) <= Cardinality(Waiters(p)')
    BY <2>1, <2>2, <1>5, <1>10
  <2> QED
    BY <2>3, <1>1, <1>4, <1>5 DEF FrozenInv, q
<1>14. ASSUME NEW o \in Pool \ {p} PROVE Waiters(o)' = Waiters(o)
  BY <1>1, <1>2, WaitersKept DEF Waits
<1>15. \A s \in Task, o \in Pool \ {p} : fate'[s] = In("queued", o) <=> fate[s] = In("queued", o)
  <2> SUFFICES ASSUME NEW s \in Task, NEW o \in Pool \ {p}
               PROVE  fate'[s] = In("queued", o) <=> fate[s] = In("queued", o)
    OBVIOUS
  <2>1. CASE s = x
    BY <2>1, <1>6, <1>7, InIs
  <2>2. CASE s # x
    BY <2>2, <1>7
  <2> QED
    BY <2>1, <2>2
<1>16. ASSUME NEW v \in Thread \ {w}
       PROVE  /\ threads'[v] = threads[v]
              /\ threads[v].at = "func" =>
                   /\ threads[v].task \in Task \ {x} /\ threads[v].pool \in Pool
                   /\ fate[threads[v].task] = In("running", threads[v].pool)
  <2>1. threads'[v] = threads[v]
    BY <1>1 DEF Others
  <2>2. ASSUME threads[v].at = "func"
        PROVE  /\ threads[v].task \in Task \ {x} /\ threads[v].pool \in Pool
               /\ fate[threads[v].task] = In("running", threads[v].pool)
    <3>1. threads[v].task \in Task
      BY <2>2 DEF Base, Types, PlaceInv, ThreadRecord
    <3>2. fate[threads[v].task] = In("running", threads[v].pool)
      BY <2>2, <1>4 DEF RunInv
    <3>3. threads[v].pool \in Pool
      BY <2>2, HasPool DEF InPool
    <3>4. threads[v].task # x
      BY <3>2, <1>6, InIs
    <3> QED
      BY <3>1, <3>2, <3>3, <3>4
  <2> QED
    BY <2>1, <2>2
<1>17. ASSUME NEW v \in Thread, threads'[v].at = "func"
       PROVE  fate'[threads'[v].task] = In("running", threads'[v].pool)
  <2>1. CASE v = w
    BY <2>1, <1>1, <1>7
  <2>2. CASE v # w
    BY <2>2, <1>7, <1>16, <1>17
  <2> QED
    BY <2>1, <2>2
<1>18. ASSUME NEW u \in Thread, NEW v \in Thread, threads'[u].at = "func", threads'[v].at = "func",
              threads'[u].task = threads'[v].task
       PROVE  u = v
  <2>1. CASE u = w /\ v # w
    BY <2>1, <1>1, <1>16, <1>18
  <2>2. CASE u # w /\ v = w
    BY <2>2, <1>1, <1>16, <1>18
  <2>3. CASE u # w /\ v # w
    BY <2>3, <1>4, <1>16, <1>18 DEF RunInv
  <2> QED
    BY <2>1, <2>2, <2>3
<1>19. ASSUME NEW s \in Task, NEW o \in Pool, fate'[s] = In("running", o)
       PROVE  \E v \in Thread : Runner(v, s, o)'
  <2>1. CASE s = x
    <3>1. o = p
      BY <2>1, <1>7, <1>19, InIs
    <3>2. Runner(w, s, o)'
      BY <2>1, <3>1, <1>1 DEF Runner
    <3> QED
      BY <3>2
  <2>2. CASE s # x
    <3>1. PICK v \in Thread : Runner(v, s, o)
      BY <2>2, <1>4, <1>7, <1>19 DEF RunInv
    <3>2. v # w
      BY <3>1, <1>2 DEF Runner
    <3>3. Runner(v, s, o)'
      BY <3>1, <3>2, <1>16 DEF Runner
    <3> QED
      BY <3>3
  <2> QED
    BY <2>1, <2>2
<1>20. RunInv'
  BY <1>17, <1>18, <1>19 DEF RunInv
<1> QED
  BY <1>5, <1>9, <1>13, <1>14, <1>15, <1>20, TasksStep

LEMMA TasksFuncReturns ==
  ASSUME Base, Tasks, NEW w \in Thread, FuncReturns(w)
  PROVE  Tasks'
<1> DEFINE x == threads[w].task
           p == threads[w].pool
<1>1. /\ threads[w].at = "func" /\ p \in Pool /\ x \in Task
      /\ Others(w) /\ threads'[w].at = "back"
      /\ fate' = [fate EXCEPT ![x] = In("done", p)] /\ pools' = pools
  BY FuncReturnsDid
<1>2. RunInv /\ QueueInv(p) /\ fate[x] = In("running", p)
  BY <1>1 DEF Tasks, RunInv
<1>3. fate'[x] = In("done", p) /\ \A s \in Task \ {x} : fate'[s] = fate[s]
  BY <1>1, FateStep DEF Base
<1>4. ASSUME NEW v \in Thread, threads'[v].at = "func"
      PROVE  v # w /\ threads'[v] = threads[v] /\ threads[v].task \in Task \ {x}
  <2>1. v # w /\ threads'[v] = threads[v]
    BY <1>1, <1>4 DEF Others
  <2>2. threads[v].task \in Task
    BY <2>1, <1>4 DEF Base, Types, PlaceInv, ThreadRecord
  <2>3. threads[v].task # threads[w].task
    BY <2>1, <1>1, <1>2, <1>4 DEF RunInv
  <2> QED
    BY <2>1, <2>2, <2>3
<1> HIDE DEF x, p
<1>5. ASSUME NEW v \in Thread, threads'[v].at = "func"
      PROVE  fate'[threads'[v].task] = In("running", threads'[v].pool)
  BY <1>2, <1>3, <1>4, <1>5 DEF RunInv
<1>6. ASSUME NEW u \in Thread, NEW v \in Thread, threads'[u].at = "func", threads'[v].at = "func",
              threads'[u].task = threads'[v].task
      PROVE  u = v
  BY <1>2, <1>4, <1>6 DEF RunInv
<1>7. ASSUME NEW s \in Task, NEW o \in Pool, fate'[s] = In("running", o)
      PROVE  \E v \in Thread : Runner(v, s, o)'
  <2>1. s # x
    BY <1>3, <1>7, InIs
  <2>2. PICK v \in Thread : Runner(v, s, o)
    BY <2>1, <1>2, <1>3, <1>7 DEF RunInv
  <2>3. v # w
    BY <2>1, <2>2 DEF Runner, x
  <2>4. Runner(v, s, o)'
    BY <2>2, <2>3, <1>1 DEF Runner, Others
  <2> QED
    BY <2>4
<1>8. RunInv'
  BY <1>5, <1>6, <1>7 DEF RunInv
<1>9. \A s \in Task, o \in Pool : fate'[s] = In("queued", o) <=> fate[s] = In("queued", o)
  <2> SUFFICES ASSUME NEW s \in Task, NEW o \in Pool
               PROVE  fate'[s] = In("queued", o) <=> fate[s] = In("queued", o)
    OBVIOUS
  <2>1. CASE s = x
    BY <2>1, <1>2, <1>3, InIs
  <2>2. CASE s # x
    BY <2>2, <1>3
  <2> QED
    BY <2>1, <2>2
<1>10. ASSUME NEW o \in Pool PROVE QueueInv(o)' /\ FrozenInv(o)'
  <2>1. QueueInv(o) /\ FrozenInv(o)
    BY DEF Tasks
  <2>2. Waiters(o)' = Waiters(o)
    BY <1>1, WaitersKept DEF Waits
  <2>3. QueueInv(o)'
    BY <2>1, <1>1, <1>9 DEF QueueInv, Unique, Has
  <2>4. FrozenInv(o)'
    BY <2>1, <2>2, <1>1 DEF FrozenInv
  <2> QED
    BY <2>3, <2>4
<1> QED
  BY <1>8, <1>10 DEF Tasks

LEMMA ReleasedSome ==
  ASSUME NEW p, NEW q \in Seq(Task \cup {Bogus}), NEW x,
         Released(p, q, x) \/ Released(p, <<>>, x)
  PROVE  \A t \in Task : fate'[t] = fate[t] \/ ((t = x \/ Has(q, t))
                           /\ fate'[t] \in {In("lost", p), In("freed", p)})
<1> SUFFICES ASSUME NEW t \in Task
             PROVE  fate'[t] = fate[t] \/ ((t = x \/ Has(q, t))
                           /\ fate'[t] \in {In("lost", p), In("freed", p)})
  OBVIOUS
<1>1. CASE Released(p, q, x)
  <2>1. fate'[t] = IF t = x THEN In("lost", p) ELSE IF Has(q, t) THEN In("freed", p) ELSE fate[t]
    BY <1>1, ReleasedIs
  <2> QED
    BY <2>1
<1>2. CASE Released(p, <<>>, x)
  <2>1. fate'[t] = IF t = x THEN In("lost", p) ELSE fate[t]
    BY <1>2, SkippedIs
  <2> QED
    BY <2>1
<1> QED
  BY <1>1, <1>2

LEMMA TasksLeft ==
  ASSUME Base, Tasks, NEW w \in Thread, NEW p \in Pool, Popping(w, p), NEW q, NEW x,
         Emptied(p, q, x), Left(w, p, q, x),
         \/ pools[p].immediate
         \/ q = pools[p].queue /\ (threads[w].at # "pop" \/ q = <<>>)
  PROVE  Tasks'
<1> DEFINE fill == q \o [i \in 1 .. pools[p].num - 1 |-> Bogus]
<1>1. /\ Leaves(w)
      /\ LeftFreed(w, p, q, x) \/ LeftStopped(w, p, q, x) \/ LeftOn(w, p, q, x)
  BY DEF Left
<1>2. /\ Others(w) /\ threads'[w].at = "limits" /\ threads[w].pool = p
      /\ threads[w].at \in {"start", "back", "pop"} /\ Unlocked(p)
  BY <1>1 DEF Leaves, Popping
<1>3. q \in Seq(Task \cup {Bogus}) /\ Unique(q)
  BY DEF Emptied
<1>4. OtherPools(p)
  BY <1>1 DEF LeftFreed, LeftStopped, LeftOn, Becomes
<1>5. \A t \in Task : fate'[t] = fate[t] \/ ((t = x \/ Has(q, t))
                           /\ fate'[t] \in {In("lost", p), In("freed", p)})
  <2>1. Released(p, q, x) \/ Released(p, <<>>, x)
    BY <1>1 DEF LeftFreed, LeftStopped, LeftOn
  <2> QED
    BY <1>3, <2>1, ReleasedSome
<1>6. /\ \A t \in Task, o \in Pool : fate'[t] = In("running", o) <=> fate[t] = In("running", o)
      /\ \A t \in Task, o \in Pool \ {p} :
              fate'[t] = In("queued", o) <=> fate[t] = In("queued", o)
  BY <1>5, ReleasedOwn
<1>7. /\ \A v \in Thread : threads'[v].at = "func" <=> threads[v].at = "func"
      /\ \A v \in Thread : threads[v].at = "func" => threads'[v] = threads[v]
  BY <1>2 DEF Others
<1>8. RunInv'
  BY <1>6, <1>7, RunKept DEF Tasks
<1>9. ASSUME NEW o \in Pool \ {p} PROVE Waiters(o)' = Waiters(o)
  BY <1>2, WaitersKept DEF Waits
<1>10. pools[p].num \in Nat /\ pools[p].num >= 1 /\ FrozenInv(p) /\ pools[p].phase = "live"
  BY <1>2, PoolTypes, MemberLive DEF Base, Tasks
<1>11. (Unique(q) => Unique(fill)) /\ \A t \in Task : Has(fill, t) <=> Has(q, t)
  <2>1. pools[p].num - 1 \in Nat
    BY <1>10
  <2> QED
    BY <2>1, <1>3, BogusFilled
<1>12. QueueInv(p)' /\ FrozenInv(p)'
  <2>1. CASE LeftFreed(w, p, q, x)
    <3>1. Released(p, q, x) /\ pools'[p].queue = <<>> /\ pools'[p].phase = "freed"
      BY <2>1 DEF LeftFreed, Becomes
    <3>2. QueueInv(p)'
      BY <3>1, FreedQueue
    <3>3. FrozenInv(p)'
      BY <3>1 DEF FrozenInv
    <3> QED
      BY <3>2, <3>3
  <2>2. CASE LeftStopped(w, p, q, x)
    <3>1. Released(p, <<>>, x) /\ pools'[p].queue = fill /\ pools'[p].immediate = TRUE
      BY <2>2 DEF LeftStopped, Becomes
    <3> HIDE DEF fill
    <3>2. Unique(pools'[p].queue) /\ \A t \in Task : Has(pools'[p].queue, t) <=> Has(q, t)
      BY <3>1, <1>3, <1>11
    <3>3. QueueInv(p)'
      BY <3>1, <3>2, LeftQueue
    <3>4. FrozenInv(p)'
      BY <3>1 DEF FrozenInv
    <3> QED
      BY <3>3, <3>4
  <2>3. CASE LeftOn(w, p, q, x)
    <3>1. /\ Released(p, <<>>, x) /\ pools'[p].queue = q /\ pools'[p].immediate = pools[p].immediate
          /\ pools'[p].running = pools[p].running /\ pools'[p].max = pools[p].max
      BY <2>3 DEF LeftOn, Becomes
    <3>2. Unique(pools'[p].queue) /\ \A t \in Task : Has(pools'[p].queue, t) <=> Has(q, t)
      BY <3>1, <1>3
    <3>3. QueueInv(p)'
      BY <3>1, <3>2, LeftQueue
    <3>4. threads[w].at # "pop" => Cardinality(Waiters(p)') = Cardinality(Waiters(p))
      BY <1>2, WaitersLess DEF Waits
    <3>5. Waiters(p)' \in SUBSET Thread
      BY DEF Waiters
    <3>6. Cardinality(Waiters(p)') \in Nat
      BY <3>5, ThreadSets
    <3>7. CASE pools[p].immediate
      BY <3>1, <3>3, <3>7 DEF FrozenInv
    <3>8. CASE q = <<>>
      <4>1. Len(pools'[p].queue) = 0
        BY <3>1, <3>8, EmptySeq
      <4> QED
        BY <3>3, <3>6, <4>1 DEF FrozenInv
    <3>9. CASE q = pools[p].queue /\ threads[w].at # "pop"
      BY <3>1, <3>3, <3>4, <3>9, <1>10 DEF FrozenInv
    <3> QED
      BY <3>7, <3>8, <3>9
  <2> QED
    BY <1>1, <2>1, <2>2, <2>3
<1> QED
  BY <1>4, <1>6, <1>8, <1>9, <1>12, TasksStep

\* Both ways to leave a pool.
LEMMA LeavesIs ==
  ASSUME Base, Tasks, NEW w \in Thread, NEW p \in Pool,
         LeavesSkipping(w, p) \/ LeavesIdle(w, p)
  PROVE  \E q, x : /\ Emptied(p, q, x) /\ Left(w, p, q, x)
                   /\ \/ pools[p].immediate /\ ~pools[p].running
                      \/ /\ q = pools[p].queue /\ x = None
                         /\ \/ ~Active(p) /\ threads[w].at \in {"start", "back"}
                            \/ q = <<>> /\ ~pools[p].exclusive /\ threads[w].at = "pop"
<1>1. CASE LeavesSkipping(w, p)
  <2>1. /\ pools[p].queue # <<>> /\ Left(w, p, Tail(pools[p].queue), Skipped(p))
        /\ pools[p].immediate /\ ~pools[p].running
    BY <1>1 DEF LeavesSkipping, Runs
  <2>2. Emptied(p, Tail(pools[p].queue), Skipped(p))
    BY <2>1, EmptiedTail
  <2> QED
    BY <2>1, <2>2
<1>2. CASE LeavesIdle(w, p)
  <2>1. Emptied(p, pools[p].queue, None)
    BY EmptiedWhole
  <2> QED
    BY <2>1, <1>2 DEF LeavesIdle
<1> QED
  BY <1>1, <1>2

LEMMA TasksPoolStep ==
  ASSUME Base, Tasks, NEW w \in Thread, NEW p \in Pool, PoolStep(w, p)
  PROVE  Tasks'
<1>1. Popping(w, p)
  BY DEF PoolStep
<1>2. CASE Parks(w, p)
  BY <1>1, <1>2, TasksParks
<1>3. CASE Begins(w, p)
  BY <1>1, <1>3, TasksBegins
<1>4. CASE LeavesSkipping(w, p) \/ LeavesIdle(w, p)
  <2>1. PICK q, x : /\ Emptied(p, q, x) /\ Left(w, p, q, x)
                    /\ \/ pools[p].immediate /\ ~pools[p].running
                       \/ /\ q = pools[p].queue /\ x = None
                          /\ \/ ~Active(p) /\ threads[w].at \in {"start", "back"}
                             \/ q = <<>> /\ ~pools[p].exclusive /\ threads[w].at = "pop"
    BY <1>4, LeavesIs
  <2>2. \/ pools[p].immediate
        \/ q = pools[p].queue /\ (threads[w].at # "pop" \/ q = <<>>)
    BY <2>1
  <2> QED
    BY <1>1, <2>1, <2>2, TasksLeft
<1> QED
  BY <1>2, <1>3, <1>4 DEF PoolStep

--------------------------------------------------------------------------------
(* Steps in the global pool, in three kinds. *)

\* n markers are pushed, and n threads signalled.
Marked(n) ==
  /\ Len(unusedQueue') = Len(unusedQueue) + n
  /\ \A i \in DOMAIN unusedQueue' : unusedQueue'[i] \in Pool =>
       i \in DOMAIN unusedQueue /\ unusedQueue[i] = unusedQueue'[i]
  /\ \A p \in Pool : Count(unusedQueue', p) = Count(unusedQueue, p)
  /\ \E X \in Signal(Idle, n) : asleep' = asleep \ X

Stays == /\ threads' = threads /\ pools' = pools /\ fate' = fate /\ failures' = failures
         /\ \E n \in Nat : Marked(n)

\* The thread goes on, takes the first of the queue, or goes to sleep or ends there.
Walks(w) ==
  /\ Unnoticed(w) /\ threads[w].at # "idle" /\ threads'[w].at # "idle"
  /\ threads'[w].pool = threads[w].pool
  /\ threads[w].at \in {"got", "start"} <=> threads'[w].at \in {"got", "start"}
  /\ \E n \in Nat : Marked(n)
Takes(w) ==
  /\ Unnoticed(w) /\ threads[w].at \in {"enter", "idle"} /\ threads[w].pool = None
  /\ unusedQueue # <<>> /\ unusedQueue' = Tail(unusedQueue) /\ asleep' = asleep \ {w}
  /\ \/ Head(unusedQueue) = Marker /\ threads'[w].at = "marker" /\ threads'[w].pool = None
     \/ /\ Head(unusedQueue) \in Pool /\ threads'[w].at = "got"
        /\ threads'[w].pool = Head(unusedQueue)
Rests(w) ==
  /\ Unnoticed(w) /\ threads[w].at \in {"enter", "idle"} /\ threads'[w].at \in {"idle", "quit"}
  /\ threads'[w].pool = threads[w].pool
  /\ unusedQueue = <<>> /\ unusedQueue' = <<>> /\ \A v \in asleep' : v \in asleep \/ v = w
GlobalMove(w) == Walks(w) \/ Takes(w) \/ Rests(w)

LEMMA MarkedNone ==
  ASSUME Types, unusedQueue' = unusedQueue, asleep' = asleep
  PROVE  \E n \in Nat : Marked(n)
<1>1. Cardinality({}) = 0
  BY FS_EmptySet
<1>2. asleep \cap Idle \in SUBSET Thread
  BY DEF Idle
<1>3. Cardinality(asleep \cap Idle) \in Nat
  BY <1>2, ThreadSets
<1>4. {} \in Signal(Idle, 0)
  BY <1>1, <1>3 DEF Signal
<1>5. asleep' = asleep \ {}
  OBVIOUS
<1>6. Len(unusedQueue) \in Nat
  BY LenProperties DEF Types
<1>7. Len(unusedQueue') = Len(unusedQueue) + 0
  BY <1>6
<1>8. Marked(0)
  BY <1>4, <1>5, <1>7 DEF Marked
<1> QED
  BY <1>8

LEMMA MarkedOne ==
  ASSUME Types, unusedQueue' = Append(unusedQueue, Marker),
         \E X \in Signal(Idle, 1) : asleep' = asleep \ X
  PROVE  \E n \in Nat : Marked(n)
<1>1. /\ DOMAIN unusedQueue = 1 .. Len(unusedQueue) /\ Len(unusedQueue) \in Nat
      /\ DOMAIN unusedQueue' = 1 .. (Len(unusedQueue) + 1)
      /\ Len(unusedQueue') = Len(unusedQueue) + 1
      /\ \A i \in 1 .. Len(unusedQueue) : unusedQueue'[i] = unusedQueue[i]
      /\ unusedQueue'[Len(unusedQueue) + 1] = Marker
  BY LenProperties, AppendProperties DEF Types
<1>2. \A i \in 1 .. (Len(unusedQueue) + 1) : i \in 1 .. Len(unusedQueue) \/ i = Len(unusedQueue) + 1
  BY <1>1
<1>3. \A i \in DOMAIN unusedQueue' : unusedQueue'[i] \in Pool =>
        i \in DOMAIN unusedQueue /\ unusedQueue[i] = unusedQueue'[i]
  BY <1>1, <1>2, PoolAssumption
<1>4. \A p \in Pool : Count(unusedQueue', p) = Count(unusedQueue, p)
  BY MarkerCounts
<1>5. Marked(1)
  BY <1>1, <1>3, <1>4 DEF Marked
<1> QED
  BY <1>5

LEMMA MarkersCount ==
  ASSUME Types, NEW n \in Nat, NEW p \in Pool
  PROVE  Count(unusedQueue \o [i \in 1 .. n |-> Marker], p) = Count(unusedQueue, p)
<1>1. p # Marker
  BY PoolAssumption
<1>2. unusedQueue \in Seq(Pool \cup {Marker})
  BY DEF Types
<1> QED
  BY <1>1, <1>2, CountFilled

LEMMA MarkedMore ==
  ASSUME Types, NEW n \in Nat, unusedQueue' = unusedQueue \o [i \in 1 .. n |-> Marker],
         \E X \in Signal(Idle, n) : asleep' = asleep \ X
  PROVE  Marked(n)
<1>1. /\ DOMAIN unusedQueue = 1 .. Len(unusedQueue) /\ Len(unusedQueue) \in Nat
      /\ DOMAIN unusedQueue' = 1 .. (Len(unusedQueue) + n)
      /\ Len(unusedQueue') = Len(unusedQueue) + n
      /\ \A i \in 1 .. Len(unusedQueue) : unusedQueue'[i] = unusedQueue[i]
      /\ \A i \in Len(unusedQueue) + 1 .. Len(unusedQueue) + n : unusedQueue'[i] = Marker
  BY Filled DEF Types
<1>2. \A i \in DOMAIN unusedQueue' : unusedQueue'[i] \in Pool =>
        i \in DOMAIN unusedQueue /\ unusedQueue[i] = unusedQueue'[i]
  BY <1>1, PoolAssumption
<1>3. ASSUME NEW p \in Pool PROVE Count(unusedQueue', p) = Count(unusedQueue, p)
  BY MarkersCount
<1> QED
  BY <1>1, <1>2, <1>3 DEF Marked

LEMMA StaysDid ==
  ASSUME Base,
         \/ UNCHANGED vars
         \/ SetterStep
         \/ \E m \in UnusedLimits : SetMaxUnused(m)
  PROVE  Stays
<1>1. Types /\ UnusedInv
  BY DEF Base
<1>2. CASE UNCHANGED vars
  <2>1. /\ pools' = pools /\ threads' = threads /\ asleep' = asleep /\ unusedQueue' = unusedQueue
        /\ fate' = fate /\ failures' = failures
    BY <1>2 DEF vars, unusedVars, historyVars
  <2> QED
    BY <1>1, <2>1, MarkedNone DEF Stays
<1>3. CASE SetterStep
  <2>1. /\ pools' = pools /\ threads' = threads /\ fate' = fate /\ failures' = failures
        /\ \/ unusedQueue' = unusedQueue /\ asleep' = asleep
           \/ \E n \in Nat : /\ unusedQueue' = unusedQueue \o [i \in 1 .. n |-> Marker]
                             /\ \E X \in Signal(Idle, n) : asleep' = asleep \ X
    BY <1>1, <1>3, SetterStepDid
  <2>2. CASE unusedQueue' = unusedQueue /\ asleep' = asleep
    BY <1>1, <2>1, <2>2, MarkedNone DEF Stays
  <2>3. ASSUME NEW n \in Nat, unusedQueue' = unusedQueue \o [i \in 1 .. n |-> Marker],
               \E X \in Signal(Idle, n) : asleep' = asleep \ X
        PROVE  Stays
    <3>1. Marked(n)
      BY <1>1, <2>3, MarkedMore
    <3> QED
      BY <2>1, <3>1 DEF Stays
  <2> QED
    BY <2>1, <2>2, <2>3
<1>4. ASSUME NEW m \in UnusedLimits, SetMaxUnused(m) PROVE Stays
  <2>1. /\ pools' = pools /\ threads' = threads /\ asleep' = asleep /\ unusedQueue' = unusedQueue
        /\ fate' = fate /\ failures' = failures
    BY <1>4 DEF SetMaxUnused
  <2> QED
    BY <1>1, <2>1, MarkedNone DEF Stays
<1> QED
  BY <1>2, <1>3, <1>4

LEMMA LocalWalks ==
  ASSUME NEW w \in Thread, NEW from, NEW to, LocalStep(w, from, to), from # "idle", to # "idle",
         from \in {"got", "start"} <=> to \in {"got", "start"}, \E n \in Nat : Marked(n)
  PROVE  Walks(w)
  BY DEF LocalStep, Walks

LEMMA WalksDid ==
  ASSUME Base, NEW w \in Thread,
         ReadLimits(w) \/ ReadSerial(w) \/ CheckLimit(w) \/ HandleMarker(w) \/ LeaveIdle(w)
  PROVE  Walks(w)
<1>1. Types
  BY DEF Base
<1>2. CASE ReadLimits(w)
  <2>1. /\ LocalStep(w, "limits", "serial") \/ LocalStep(w, "update", "check")
        /\ unusedQueue' = unusedQueue /\ asleep' = asleep
    BY <1>1, <1>2, ReadLimitsDid DEF ReadLimits, unusedVars
  <2>2. \E n \in Nat : Marked(n)
    BY <1>1, <2>1, MarkedNone
  <2> QED
    BY <2>1, <2>2, LocalWalks
<1>3. CASE ReadSerial(w)
  <2>1. LocalStep(w, "serial", "check") /\ unusedQueue' = unusedQueue /\ asleep' = asleep
    BY <1>1, <1>3, ReadSerialDid DEF ReadSerial, unusedVars
  <2>2. \E n \in Nat : Marked(n)
    BY <1>1, <2>1, MarkedNone
  <2> QED
    BY <2>1, <2>2, LocalWalks
<1>4. CASE CheckLimit(w)
  <2>1. /\ LocalStep(w, "check", "quit") \/ LocalStep(w, "check", "enter")
        /\ unusedQueue' = unusedQueue /\ asleep' = asleep
    BY <1>1, <1>4, CheckLimitDid DEF CheckLimit, unusedVars
  <2>2. \E n \in Nat : Marked(n)
    BY <1>1, <2>1, MarkedNone
  <2> QED
    BY <2>1, <2>2, LocalWalks
<1>5. CASE HandleMarker(w)
  <2>1. /\ MarkerStep(w)
        /\ \/ unusedQueue' = unusedQueue /\ asleep' = asleep
           \/ /\ unusedQueue' = Append(unusedQueue, Marker)
              /\ \E X \in Signal(Idle, 1) : asleep' = asleep \ X
    BY <1>1, <1>5, HandleMarkerDid
  <2>2. \E n \in Nat : Marked(n)
    BY <1>1, <2>1, MarkedNone, MarkedOne
  <2> QED
    BY <2>1, <2>2, LocalWalks DEF MarkerStep
<1>6. CASE LeaveIdle(w)
  <2>1. /\ Unnoticed(w) /\ asleep' = asleep /\ threads'[w].pool = threads[w].pool
        /\ \/ threads[w].at = "quit" /\ threads'[w].at = "none"
           \/ threads[w].at = "got" /\ threads'[w].at = "start"
    BY <1>6, LeaveIdleDid
  <2>2. unusedQueue' = unusedQueue
    BY <1>6 DEF LeaveIdle
  <2>3. \E n \in Nat : Marked(n)
    BY <1>1, <2>1, <2>2, MarkedNone
  <2> QED
    BY <2>1, <2>3 DEF Walks
<1> QED
  BY <1>2, <1>3, <1>4, <1>5, <1>6

LEMMA RestsDid ==
  ASSUME Base, NEW w \in Thread, NEW to \in {"idle", "quit"}, threads[w].at \in {"enter", "idle"},
         Go(w, to), asleep' = IF to = "idle" THEN asleep \cup {w} ELSE asleep \ {w},
         UNCHANGED unusedVars, pools' = pools, fate' = fate, failures' = failures,
         unusedQueue = <<>>
  PROVE  Rests(w)
<1>1. LocalStep(w, threads[w].at, to)
  BY BaseIdleMove
<1>2. unusedQueue' = <<>> /\ \A v \in asleep' : v \in asleep \/ v = w
  BY DEF unusedVars
<1> QED
  BY <1>1, <1>2 DEF Rests, LocalStep

LEMMA TakesDid ==
  ASSUME Base, NEW w \in Thread, threads[w].at \in {"enter", "idle"}, TakePool(w),
         pools' = pools, fate' = fate, failures' = failures
  PROVE  Takes(w)
<1>1. /\ Unnoticed(w) /\ unusedQueue # <<>> /\ unusedQueue' = Tail(unusedQueue)
      /\ asleep' = asleep \ {w} /\ threads[w].pool = None
      /\ \/ Head(unusedQueue) = Marker /\ threads'[w].at = "marker" /\ threads'[w].pool = None
         \/ /\ Head(unusedQueue) \in Pool /\ threads'[w].at = "got"
            /\ threads'[w].pool = Head(unusedQueue)
  BY TakePoolDid
<1> QED
  BY <1>1 DEF Takes

LEMMA GlobalMoveDid ==
  ASSUME Base, NEW w \in Thread,
         \/ ReadLimits(w) \/ ReadSerial(w) \/ CheckLimit(w) \/ HandleMarker(w) \/ LeaveIdle(w)
         \/ IdlePop(w) \/ IdleTimesOut(w)
  PROVE  GlobalMove(w)
<1>1. CASE ReadLimits(w) \/ ReadSerial(w) \/ CheckLimit(w) \/ HandleMarker(w) \/ LeaveIdle(w)
  BY <1>1, WalksDid DEF GlobalMove
<1>2. CASE IdlePop(w)
  <2>1. pools' = pools /\ fate' = fate /\ failures' = failures
    BY <1>2 DEF IdlePop, historyVars
  <2>2. CASE threads[w].at \in {"enter", "idle"} /\ TakePool(w)
    BY <2>1, <2>2, TakesDid DEF GlobalMove
  <2>3. CASE /\ threads[w].at \in {"enter", "idle"} /\ unusedQueue = <<>> /\ Go(w, "idle")
             /\ asleep' = asleep \cup {w} /\ UNCHANGED unusedVars
    BY <2>1, <2>3, RestsDid DEF GlobalMove
  <2> QED
    BY <1>2, <2>2, <2>3 DEF IdlePop, At
<1>3. CASE IdleTimesOut(w)
  <2>1. pools' = pools /\ fate' = fate /\ failures' = failures /\ threads[w].at = "idle"
    BY <1>3 DEF IdleTimesOut, historyVars, At
  <2>2. CASE TakePool(w)
    BY <2>1, <2>2, TakesDid DEF GlobalMove
  <2>3. CASE unusedQueue = <<>> /\ Go(w, "quit") /\ asleep' = asleep \ {w} /\ UNCHANGED unusedVars
    BY <2>1, <2>3, RestsDid DEF GlobalMove
  <2> QED
    BY <1>3, <2>2, <2>3 DEF IdleTimesOut
<1> QED
  BY <1>1, <1>2, <1>3

--------------------------------------------------------------------------------
(* A step, by kinds. *)

CallStep(p) ==
  \/ \E max \in Limits, exclusive \in BOOLEAN : NewFull(p, max, exclusive)
  \/ \E max \in NewLimits : SetMaxThreads(p, max)
  \/ \E t \in Task : Push(p, t)
  \/ \E t \in Task : MoveToFront(p, t)
  \/ \E imm, wait \in BOOLEAN : Free(p, imm, wait)
  \/ StartNext(p)
  \/ FreerStep(p, "wait")
  \/ FreerStep(p, "check")
  \/ FreeEnds(p)

LEMMA StepKinds ==
  ASSUME Base, [Next]_vars
  PROVE  \/ Stays
         \/ \E p \in Pool : CallStep(p)
         \/ \E w \in Thread : GlobalMove(w)
         \/ \E w \in Thread, p \in Pool : PoolStep(w, p)
         \/ \E w \in Thread : FuncReturns(w)
<1>1. CASE UNCHANGED vars \/ SetterStep \/ \E m \in UnusedLimits : SetMaxUnused(m)
  BY <1>1, StaysDid
<1>2. ASSUME NEW p \in Pool, Client(p) \/ Call(p) PROVE CallStep(p)
  <2>1. FreeWaits(p) => FreerStep(p, "wait")
    BY FreeWaitsDid
  <2>2. FreeWakes(p) => FreerStep(p, "check")
    BY FreeWakesDid
  <2> QED
    BY <1>2, <2>1, <2>2 DEF Client, Call, CallStep
<1>3. ASSUME NEW w \in Thread, Work(w) \/ Expire(w)
      PROVE  GlobalMove(w) \/ FuncReturns(w) \/ \E p \in Pool : PoolStep(w, p)
  <2>1. NextTask(w) => \E p \in Pool : PoolStep(w, p)
    BY NextTaskDid
  <2>2. PopWakes(w) => \E p \in Pool : PoolStep(w, p)
    BY PopWakesDid
  <2>3. PopTimesOut(w) => \E p \in Pool : PoolStep(w, p)
    BY PopTimesOutDid
  <2>4. (\/ ReadLimits(w) \/ ReadSerial(w) \/ CheckLimit(w) \/ HandleMarker(w) \/ LeaveIdle(w)
         \/ IdlePop(w) \/ IdleTimesOut(w)) => GlobalMove(w)
    BY GlobalMoveDid
  <2> QED
    BY <1>3, <2>1, <2>2, <2>3, <2>4 DEF Work, Expire
<1> QED
  BY <1>1, <1>2, <1>3 DEF Next

LEMMA TasksInit == Init => Tasks
<1> SUFFICES ASSUME Init PROVE Tasks
  OBVIOUS
<1>1. \A t \in Task : fate[t] = New
  BY DEF Init
<1>2. \A w \in Thread : threads[w].at = "none"
  BY DEF Init, NoThread
<1>3. RunInv
  BY <1>1, <1>2, NewIs DEF RunInv
<1>4. ASSUME NEW p \in Pool PROVE QueueInv(p) /\ FrozenInv(p)
  <2>1. pools[p] = NoPool /\ pools[p].queue = <<>> /\ pools[p].phase = "none"
    BY DEF Init, NoPool
  <2>2. QueueInv(p)
    BY <1>1, <2>1, NewIs, EmptyHas, UniqueEmpty DEF QueueInv
  <2>3. FrozenInv(p)
    BY <2>1 DEF FrozenInv
  <2> QED
    BY <2>2, <2>3
<1> QED
  BY <1>3, <1>4 DEF Tasks

LEMMA TasksNext ==
  ASSUME Base, Tasks, [Next]_vars
  PROVE  Tasks'
<1>1. CASE Stays
  BY <1>1, TasksStill DEF Stays
<1>2. ASSUME NEW p \in Pool, CallStep(p) PROVE Tasks'
  <2>1. ASSUME NEW max \in Limits, NEW exclusive \in BOOLEAN, NewFull(p, max, exclusive) PROVE Tasks'
    BY <2>1, TasksNewFull
  <2>2. ASSUME NEW max \in NewLimits, SetMaxThreads(p, max) PROVE Tasks'
    BY <2>2, TasksSetMaxThreads
  <2>3. ASSUME NEW t \in Task, Push(p, t) PROVE Tasks'
    BY <2>3, TasksPush
  <2>4. ASSUME NEW t \in Task, MoveToFront(p, t) PROVE Tasks'
    BY <2>4, TasksMoveToFront
  <2>5. ASSUME NEW imm \in BOOLEAN, NEW wait \in BOOLEAN, Free(p, imm, wait) PROVE Tasks'
    BY <2>5, TasksFree
  <2>6. CASE StartNext(p)
    BY <2>6, TasksStartNext
  <2>7. CASE FreerStep(p, "wait") \/ FreerStep(p, "check")
    BY <2>7, TasksFreerStep
  <2>8. CASE FreeEnds(p)
    BY <2>8, TasksFreeEnds
  <2> QED
    BY <1>2, <2>1, <2>2, <2>3, <2>4, <2>5, <2>6, <2>7, <2>8 DEF CallStep
<1>3. ASSUME NEW w \in Thread, GlobalMove(w) PROVE Tasks'
  <2>1. Unnoticed(w)
    BY <1>3 DEF GlobalMove, Walks, Takes, Rests
  <2> QED
    BY <2>1, TasksUnnoticed
<1>4. ASSUME NEW w \in Thread, NEW p \in Pool, PoolStep(w, p) PROVE Tasks'
  BY <1>4, TasksPoolStep
<1>5. ASSUME NEW w \in Thread, FuncReturns(w) PROVE Tasks'
  BY <1>5, TasksFuncReturns
<1> QED
  BY <1>1, <1>2, <1>3, <1>4, <1>5, StepKinds

--------------------------------------------------------------------------------
(* Signals. *)

\* Of the threads in S, as many are not in A as can take n items.
Alert(S, A, n) == Cardinality(S \ A) >= Least(n, Cardinality(S))
PoolAlert(p) == Alert(Waiters(p), asleep, Len(pools[p].queue))
IdleAlert == Alert(Idle, asleep, Len(unusedQueue))

LEMMA AlertIs == NoLostSignal <=> IdleAlert /\ \A p \in Pool : PoolAlert(p)
  BY DEF NoLostSignal, IdleAlert, PoolAlert, Alert, Awake

LEMMA AlertNone ==
  ASSUME NEW S \in SUBSET Thread, NEW A
  PROVE  Alert(S, A, 0)
<1>1. S \ A \in SUBSET Thread
  OBVIOUS
<1>2. Cardinality(S) \in Nat /\ Cardinality(S \ A) \in Nat
  BY <1>1, ThreadSets
<1> QED
  BY <1>2 DEF Alert, Least

LEMMA AlertFewer ==
  ASSUME NEW S \in SUBSET Thread, NEW A, NEW B, NEW n \in Nat, NEW m \in Nat,
         Alert(S, A, n), m <= n, \A v \in S : v \in B => v \in A
  PROVE  Alert(S, B, m)
<1>1. S \ A \in SUBSET (S \ B) /\ S \ B \in SUBSET Thread /\ S \ A \in SUBSET Thread
  OBVIOUS
<1>2. Cardinality(S \ A) <= Cardinality(S \ B)
  BY <1>1, SubsetSize
<1>3. Cardinality(S) \in Nat /\ Cardinality(S \ A) \in Nat /\ Cardinality(S \ B) \in Nat
  BY <1>1, ThreadSets
<1> QED
  BY <1>2, <1>3 DEF Alert, Least

\* k signals make up for k items.
LEMMA AlertSignal ==
  ASSUME NEW S \in SUBSET Thread, NEW n \in Nat, NEW k \in Nat,
         Alert(S, asleep, n), NEW X \in Signal(S, k)
  PROVE  Alert(S, asleep \ X, n + k)
<1> DEFINE sleepers == asleep \cap S
           awake == S \ asleep
           up == S \ (asleep \ X)
<1>1. X \in SUBSET sleepers /\ Cardinality(X) =
        IF k < Cardinality(sleepers) THEN k ELSE Cardinality(sleepers)
  BY DEF Signal
<1>2. /\ sleepers \in SUBSET S /\ awake \in SUBSET Thread /\ up \in SUBSET Thread
      /\ X \in SUBSET up /\ sleepers \in SUBSET Thread
      /\ S \ sleepers = awake /\ up \ X = awake
  BY <1>1
<1>3. /\ Cardinality(awake) = Cardinality(S) - Cardinality(sleepers)
      /\ Cardinality(awake) = Cardinality(up) - Cardinality(X)
  BY <1>2, PartSize
<1>4. /\ Cardinality(S) \in Nat /\ Cardinality(awake) \in Nat /\ Cardinality(up) \in Nat
      /\ Cardinality(sleepers) \in Nat
  BY <1>2, ThreadSets
<1>5. Cardinality(awake) >= Least(n, Cardinality(S))
  BY DEF Alert
<1> HIDE DEF sleepers, awake, up
<1>6. Cardinality(up) >= Least(n + k, Cardinality(S))
  BY <1>1, <1>3, <1>4, <1>5 DEF Least
<1> QED
  BY <1>6 DEF Alert, up

\* A thread goes, and takes an item with it if it waited.
LEMMA AlertGone ==
  ASSUME NEW S \in SUBSET Thread, NEW A, NEW w \in Thread, NEW n \in Nat, NEW m \in Nat,
         Alert(S, A, n), m <= n, w \in S => m = 0 \/ m <= n - 1
  PROVE  Alert(S \ {w}, A \ {w}, m)
<1>1. CASE w \notin S
  <2>1. S \ {w} = S
    BY <1>1
  <2>2. \A v \in S : v \in A \ {w} => v \in A
    OBVIOUS
  <2>3. Alert(S, A \ {w}, m)
    BY <2>2, AlertFewer
  <2> QED
    BY <2>1, <2>3
<1>2. CASE w \in S /\ m = 0
  <2>1. S \ {w} \in SUBSET Thread
    OBVIOUS
  <2>2. Alert(S \ {w}, A \ {w}, 0)
    BY <2>1, AlertNone
  <2> QED
    BY <1>2, <2>2
<1>3. CASE w \in S /\ m <= n - 1
  <2> DEFINE T == S \ {w}
             up == (S \ {w}) \ (A \ {w})
             awake == S \ A
  <2>1. /\ T \in SUBSET Thread /\ up \in SUBSET Thread /\ awake \in SUBSET Thread
        /\ {w} \in SUBSET S /\ {w} \in SUBSET Thread
    BY <1>3
  <2>2. Cardinality({w}) = 1
    BY FS_Singleton
  <2>3. Cardinality(T) = Cardinality(S) - 1
    BY <2>1, <2>2, PartSize
  <2>4. /\ Cardinality(T) \in Nat /\ Cardinality(up) \in Nat /\ Cardinality(awake) \in Nat
        /\ Cardinality(S) \in Nat
    BY <2>1, ThreadSets
  <2>5. Cardinality(awake) <= Cardinality(up) + 1
    <3>1. \A v \in Thread \ {w} : v \in awake <=> v \in up
      BY <1>3
    <3> HIDE DEF awake, up
    <3>2. Cardinality(up) = Cardinality(awake) + Bit(w \in up) - Bit(w \in awake)
      BY <2>1, <3>1, SetStep
    <3>3. Bit(w \in up) \in {0, 1} /\ Bit(w \in awake) \in {0, 1}
      BY DEF Bit
    <3> QED
      BY <2>4, <3>2, <3>3
  <2>6. Cardinality(awake) >= Least(n, Cardinality(S))
    BY DEF Alert
  <2> HIDE DEF T, up, awake
  <2>7. Cardinality(up) >= Least(m, Cardinality(T))
    BY <1>3, <2>3, <2>4, <2>5, <2>6 DEF Least
  <2> QED
    BY <2>7 DEF Alert, up, T
<1> QED
  BY <1>1, <1>2, <1>3

LEMMA IdleKept ==
  ASSUME NEW w \in Thread, Others(w), threads[w].at # "idle", threads'[w].at # "idle"
  PROVE  Idle' = Idle
<1>1. Idle = {v \in Thread : threads[v].at = "idle"} /\ Idle' = {v \in Thread : threads'[v].at = "idle"}
  BY DEF Idle, At
<1>2. \A v \in Thread : threads'[v].at = "idle" <=> threads[v].at = "idle"
  BY DEF Others
<1> QED
  BY <1>1, <1>2

LEMMA QueueTypes ==
  ASSUME Types
  PROVE  /\ unusedQueue \in Seq(Pool \cup {Marker}) /\ Len(unusedQueue) \in Nat
         /\ DOMAIN unusedQueue = 1 .. Len(unusedQueue)
         /\ Idle \in SUBSET Thread /\ Idle' \in SUBSET Thread
         /\ \A p : Waiters(p) \in SUBSET Thread /\ Waiters(p)' \in SUBSET Thread
<1>1. unusedQueue \in Seq(Pool \cup {Marker})
  BY DEF Types
<1>2. Len(unusedQueue) \in Nat /\ DOMAIN unusedQueue = 1 .. Len(unusedQueue)
  BY <1>1, LenProperties
<1>3. Idle \in SUBSET Thread /\ Idle' \in SUBSET Thread
  BY DEF Idle
<1>4. \A p : Waiters(p) \in SUBSET Thread /\ Waiters(p)' \in SUBSET Thread
  BY DEF Waiters
<1> QED
  BY <1>1, <1>2, <1>3, <1>4

\* A pool whose queue and waiting threads stay.
LEMMA PoolAlertKept ==
  ASSUME Types, NEW p \in Pool, PoolAlert(p), Waiters(p)' = Waiters(p),
         Len(pools'[p].queue) = Len(pools[p].queue),
         \A v \in asleep' : v \in asleep \/ v \notin Waiters(p)
  PROVE  PoolAlert(p)'
<1>1. Waiters(p) \in SUBSET Thread /\ Len(pools[p].queue) \in Nat
  BY QueueTypes, PoolTypes
<1>2. Alert(Waiters(p), asleep, Len(pools[p].queue))
  BY DEF PoolAlert
<1>3. \A v \in Waiters(p) : v \in asleep' => v \in asleep
  OBVIOUS
<1> HIDE DEF Waiters
<1>4. Alert(Waiters(p), asleep', Len(pools[p].queue))
  BY <1>1, <1>2, <1>3, AlertFewer
<1>5. Alert(Waiters(p)', asleep', Len(pools'[p].queue))
  BY <1>4
<1> QED
  BY <1>5 DEF PoolAlert, Alert

LEMMA IdleAlertKept ==
  ASSUME Types, IdleAlert, Idle' = Idle, unusedQueue' = unusedQueue,
         \A v \in asleep' : v \in asleep \/ v \notin Idle
  PROVE  IdleAlert'
<1>1. Idle \in SUBSET Thread /\ Len(unusedQueue) \in Nat
  BY QueueTypes
<1>2. Alert(Idle, asleep, Len(unusedQueue))
  BY DEF IdleAlert
<1>3. \A v \in Idle : v \in asleep' => v \in asleep
  OBVIOUS
<1>4. Alert(Idle, asleep', Len(unusedQueue))
  BY <1>1, <1>2, <1>3, AlertFewer
<1>5. Alert(Idle', asleep', Len(unusedQueue'))
  BY <1>4
<1> QED
  BY <1>5 DEF IdleAlert, Alert

LEMMA HandOverKept ==
  ASSUME HandOverReached, Idle' = Idle, unusedQueue' = unusedQueue
  PROVE  HandOverReached'
  BY DEF HandOverReached
--------------------------------------------------------------------------------
(* Work conservation. *)

LEMMA ComingIs ==
  ASSUME Types, NEW p
  PROVE  /\ Coming(p) = Cardinality(Arriving(p)) + Count(unusedQueue, p)
         /\ Cardinality(Arriving(p)) \in Nat /\ Count(unusedQueue, p) \in Nat /\ Coming(p) \in Nat
<1>1. Coming(p) = Cardinality(Arriving(p)) + Count(unusedQueue, p)
  BY DEF Coming, Arriving
<1>2. Cardinality(Arriving(p)) \in Nat
  BY Sizes
<1>3. Count(unusedQueue, p) \in Nat
  BY CountNat DEF Types
<1> QED
  BY <1>1, <1>2, <1>3

\* A pool that stays as it is, with as many threads that wait and come.
LEMMA ConservingKept ==
  ASSUME Types, Types', NEW p \in Pool, ConservingInv(p), pools'[p] = pools[p],
         failures' >= failures,
         Cardinality(Waiters(p)') = Cardinality(Waiters(p)), Coming(p)' = Coming(p)
  PROVE  ConservingInv(p)'
<1>1. Length(p)' = Length(p)
  BY DEF Length
<1>2. failures \in Nat /\ failures' \in Nat
  BY DEF Types
<1>3. failures' = 0 => failures = 0
  BY <1>2
<1>4. Enough(p)' <=> Enough(p)
  BY DEF Enough
<1> HIDE DEF Length, Coming, Enough
<1> QED
  BY <1>1, <1>3, <1>4 DEF ConservingInv

LEMMA NotRunning ==
  ASSUME NEW p \in Pool, pools'[p].running = FALSE
  PROVE  ConservingInv(p)'
  BY DEF ConservingInv

LEMMA ServedStep ==
  ASSUME HandOverReached', IdleAlert', \A p \in Pool : PoolAlert(p)',
         \A p \in Pool : ConservingInv(p)'
  PROVE  Served'
<1>1. NoLostSignal'
  BY DEF NoLostSignal, IdleAlert, PoolAlert, Alert, Awake
<1> QED
  BY <1>1 DEF Served

LEMMA ServedParts ==
  ASSUME Served
  PROVE  HandOverReached /\ IdleAlert /\ \A p \in Pool : PoolAlert(p) /\ ConservingInv(p)
  BY AlertIs DEF Served

--------------------------------------------------------------------------------
(* Ways for a pool to have the threads it needs. *)

LEMMA PrimedTypes ==
  ASSUME Types', NEW p \in Pool
  PROVE  /\ pools'[p].max \in Int /\ pools'[p].num \in Nat /\ pools'[p].toStart \in Nat
         /\ pools'[p].exclusive \in BOOLEAN /\ Length(p)' \in Int /\ Coming(p)' \in Nat
         /\ Len(pools'[p].queue) \in Nat /\ failures' \in Nat
<1>1. \A max \in Limits \cup NewLimits \cup {0} : max \in Int
  BY PoolAssumption
<1>2. pools'[p] \in PoolRecord
  BY DEF Types
<1>3. /\ pools'[p].max \in Limits \cup NewLimits \cup {0} /\ pools'[p].num \in Nat
      /\ pools'[p].toStart \in Nat /\ pools'[p].exclusive \in BOOLEAN
      /\ pools'[p].queue \in Seq(Task \cup {Bogus})
  BY <1>2 DEF PoolRecord
<1>4. Len(pools'[p].queue) \in Nat
  BY <1>3, LenProperties
<1>5. /\ Waiters(p)' \in SUBSET Thread /\ Arriving(p)' \in SUBSET Thread
  BY DEF Waiters, Arriving, Members
<1>6. Cardinality(Waiters(p)') \in Nat /\ Cardinality(Arriving(p)') \in Nat
  BY <1>5, ThreadSets
<1>7. Length(p)' \in Int
  BY <1>4, <1>6 DEF Length
<1>8. unusedQueue' \in Seq(Pool \cup {Marker}) /\ failures' \in Nat
  BY DEF Types
<1>9. Count(unusedQueue', p) \in Nat
  BY <1>8, CountNat
<1>10. Coming(p)' = Cardinality(Arriving(p)') + Count(unusedQueue', p)
  BY DEF Coming, Arriving, Count
<1>11. Coming(p)' \in Nat
  BY <1>6, <1>9, <1>10
<1> QED
  BY <1>1, <1>3, <1>4, <1>7, <1>8, <1>11

LEMMA ConservingFull ==
  ASSUME Types', NEW p \in Pool, Enough(p)'
  PROVE  ConservingInv(p)'
<1>1. pools'[p].max # -1 /\ pools'[p].num >= pools'[p].max
  BY DEF Enough
<1>2. pools'[p].max \in Int /\ pools'[p].num \in Nat /\ pools'[p].toStart \in Nat
  BY PrimedTypes
<1>3. pools'[p].num + pools'[p].toStart >= pools'[p].max
  BY <1>1, <1>2
<1> QED
  BY <1>1, <1>3 DEF ConservingInv

LEMMA ConservingExclusive ==
  ASSUME NEW p \in Pool, pools'[p].exclusive = TRUE, pools'[p].max # -1,
         pools'[p].num + pools'[p].toStart >= pools'[p].max
  PROVE  ConservingInv(p)'
  BY DEF ConservingInv

LEMMA ConservingShort ==
  ASSUME Types', NEW p \in Pool, pools'[p].exclusive = FALSE,
         Length(p)' <= pools'[p].toStart
  PROVE  ConservingInv(p)'
<1>1. Length(p)' \in Int /\ Coming(p)' \in Nat /\ pools'[p].toStart \in Nat
  BY PrimedTypes
<1>2. ~(Length(p)' > Coming(p)' + pools'[p].toStart)
  BY <1>1
<1> HIDE DEF Length, Coming
<1> QED
  BY <1>2 DEF ConservingInv

\* The tasks become no more, compared with the threads.
LEMMA ConservingMore ==
  ASSUME Types, Types', NEW p \in Pool, ConservingInv(p), failures' >= failures,
         pools[p].phase \in {"new", "live"}, pools[p].running = TRUE,
         pools'[p].exclusive = pools[p].exclusive, pools'[p].max = pools[p].max,
         pools'[p].num >= pools[p].num,
         pools'[p].num + pools'[p].toStart >= pools[p].num + pools[p].toStart,
         \/ pools[p].exclusive
         \/ Length(p)' - (Coming(p)' + pools'[p].toStart)
              <= Length(p) - (Coming(p) + pools[p].toStart)
  PROVE  ConservingInv(p)'
<1>1. /\ Length(p)' \in Int /\ Coming(p)' \in Nat /\ pools'[p].toStart \in Nat
      /\ pools'[p].num \in Nat /\ pools'[p].max \in Int /\ failures' \in Nat
  BY PrimedTypes
<1>2. Length(p) \in Int /\ Coming(p) \in Nat /\ pools[p].toStart \in Nat /\ pools[p].num \in Nat
  BY LengthType, ComingIs, PoolTypes
<1>3. failures \in Nat
  BY DEF Types
<1>4. failures' = 0 => failures = 0
  BY <1>1, <1>3
<1>5. Enough(p) => Enough(p)'
  BY <1>1, <1>2 DEF Enough
<1>6. CASE pools[p].exclusive /\ failures' = 0
  <2>1. pools[p].max # -1 /\ pools[p].num + pools[p].toStart >= pools[p].max
    BY <1>4, <1>6 DEF ConservingInv
  <2>2. pools'[p].num + pools'[p].toStart >= pools'[p].max
    BY <1>1, <1>2, <2>1
  <2>3. pools'[p].exclusive = TRUE
    BY <1>6, PoolTypes
  <2> QED
    BY <2>1, <2>2, <2>3, ConservingExclusive
<1>7. CASE ~pools[p].exclusive /\ failures' = 0
  <2>1. Length(p) > Coming(p) + pools[p].toStart => Enough(p)
    BY <1>4, <1>7 DEF ConservingInv
  <2> HIDE DEF Length, Coming, Enough
  <2>2. Length(p)' > Coming(p)' + pools'[p].toStart => Enough(p)'
    BY <1>1, <1>2, <1>5, <1>7, <2>1
  <2> QED
    BY <1>7, <2>2 DEF ConservingInv
<1>8. CASE failures' # 0
  BY <1>8 DEF ConservingInv
<1> QED
  BY <1>6, <1>7, <1>8

--------------------------------------------------------------------------------
(* Pools that a step does not touch. *)

LEMMA ArrivingKept ==
  ASSUME NEW w \in Thread, Others(w), NEW o, ~Arrives(threads[w], o), ~Arrives(threads'[w], o)
  PROVE  Cardinality(Arriving(o)') = Cardinality(Arriving(o))
<1>1. Cardinality(Arriving(o)') = Cardinality(Arriving(o))
           + Bit(Arrives(threads'[w], o)) - Bit(Arrives(threads[w], o))
  BY ArrivingStep
<1>2. Bit(Arrives(threads'[w], o)) = 0 /\ Bit(Arrives(threads[w], o)) = 0
  BY DEF Bit
<1>3. Cardinality(Arriving(o)) \in Nat
  BY Sizes
<1> QED
  BY <1>1, <1>2, <1>3

LEMMA ComingKept ==
  ASSUME Types, Types', NEW o, Cardinality(Arriving(o)') = Cardinality(Arriving(o)),
         Count(unusedQueue', o) = Count(unusedQueue, o)
  PROVE  Coming(o)' = Coming(o)
<1>1. Coming(o) = Cardinality(Arriving(o)) + Count(unusedQueue, o)
  BY ComingIs
<1>2. Coming(o)' = Cardinality(Arriving(o)') + Count(unusedQueue', o)
  BY DEF Coming, Arriving, Count
<1> QED
  BY <1>1, <1>2

LEMMA OtherServed ==
  ASSUME Base, Base', NEW w \in Thread, Others(w), NEW o \in Pool, PoolAlert(o),
         ConservingInv(o), pools'[o] = pools[o], threads[w].pool # o, threads'[w].pool # o,
         Count(unusedQueue', o) = Count(unusedQueue, o), failures' >= failures,
         \A v \in asleep' : v \in asleep \/ v = w
  PROVE  PoolAlert(o)' /\ ConservingInv(o)'
<1>1. Types /\ Types'
  BY DEF Base
<1>2. Waiters(o)' = Waiters(o)
  <2>1. ~Waits(threads[w], o) /\ ~Waits(threads'[w], o)
    BY DEF Waits
  <2> QED
    BY <2>1, WaitersKept
<1>3. Coming(o)' = Coming(o)
  <2>1. ~Arrives(threads[w], o) /\ ~Arrives(threads'[w], o)
    BY DEF Arrives
  <2>2. Cardinality(Arriving(o)') = Cardinality(Arriving(o))
    BY <2>1, ArrivingKept
  <2> QED
    BY <1>1, <2>2, ComingKept
<1>4. w \notin Waiters(o)
  BY DEF Waiters
<1>5. \A v \in asleep' : v \in asleep \/ v \notin Waiters(o)
  BY <1>4
<1>6. PoolAlert(o)'
  BY <1>1, <1>2, <1>5, PoolAlertKept
<1>7. Cardinality(Waiters(o)') = Cardinality(Waiters(o))
  BY <1>2
<1>8. ConservingInv(o)'
  BY <1>1, <1>3, <1>7, ConservingKept
<1> QED
  BY <1>6, <1>8

LEMMA OtherServedStill ==
  ASSUME Base, Base', threads' = threads, NEW o \in Pool, PoolAlert(o),
         ConservingInv(o), pools'[o] = pools[o],
         Count(unusedQueue', o) = Count(unusedQueue, o), failures' >= failures,
         \A v \in asleep' : v \in asleep
  PROVE  PoolAlert(o)' /\ ConservingInv(o)'
<1>1. Types /\ Types'
  BY DEF Base
<1>2. Waiters(o)' = Waiters(o) /\ Arriving(o)' = Arriving(o)
  BY ThreadsKept
<1>3. Coming(o)' = Coming(o)
  <2>1. Cardinality(Arriving(o)') = Cardinality(Arriving(o))
    BY <1>2
  <2> QED
    BY <1>1, <2>1, ComingKept
<1>4. \A v \in asleep' : v \in asleep \/ v \notin Waiters(o)
  OBVIOUS
<1>5. PoolAlert(o)'
  BY <1>1, <1>2, <1>4, PoolAlertKept
<1>6. Cardinality(Waiters(o)') = Cardinality(Waiters(o))
  BY <1>2
<1>7. ConservingInv(o)'
  BY <1>1, <1>3, <1>6, ConservingKept
<1> QED
  BY <1>5, <1>7

\* A step of a thread in its pool.
LEMMA ServedInPool ==
  ASSUME Base, Base', Served, NEW w \in Thread, Others(w), NEW p \in Pool, OtherPools(p),
         threads[w].pool \in {p, None}, threads'[w].pool \in {p, None},
         threads[w].at # "idle", threads'[w].at # "idle", unusedQueue' = unusedQueue,
         failures' >= failures, \A v \in asleep' : v \in asleep \/ v = w,
         PoolAlert(p)', ConservingInv(p)'
  PROVE  Served'
<1>1. Types /\ HandOverReached /\ IdleAlert /\ \A o \in Pool : PoolAlert(o) /\ ConservingInv(o)
  BY ServedParts DEF Base
<1>2. Idle' = Idle
  BY IdleKept
<1>3. HandOverReached'
  BY <1>1, <1>2, HandOverKept
<1>4. w \notin Idle
  BY DEF Idle, At
<1>5. \A v \in asleep' : v \in asleep \/ v \notin Idle
  BY <1>4
<1>6. IdleAlert'
  BY <1>1, <1>2, <1>5, IdleAlertKept
<1>7. ASSUME NEW o \in Pool, o # p PROVE PoolAlert(o)' /\ ConservingInv(o)'
  <2>1. o # None
    BY PoolAssumption
  <2>2. threads[w].pool # o /\ threads'[w].pool # o
    BY <1>7, <2>1
  <2>3. pools'[o] = pools[o]
    BY <1>7 DEF OtherPools
  <2>4. Count(unusedQueue', o) = Count(unusedQueue, o)
    OBVIOUS
  <2>5. PoolAlert(o) /\ ConservingInv(o)
    BY <1>1
  <2> QED
    BY <2>2, <2>3, <2>4, <2>5, OtherServed
<1>8. \A o \in Pool : PoolAlert(o)' /\ ConservingInv(o)'
  BY <1>7
<1> QED
  BY <1>3, <1>6, <1>8, ServedStep

\* A call that starts no threads.
LEMMA ServedCall ==
  ASSUME Base, Base', Served, NEW p \in Pool, OtherPools(p), threads' = threads,
         unusedQueue' = unusedQueue, failures' >= failures, asleep' \subseteq asleep,
         PoolAlert(p)', ConservingInv(p)'
  PROVE  Served'
<1>1. Types /\ HandOverReached /\ IdleAlert /\ \A o \in Pool : PoolAlert(o) /\ ConservingInv(o)
  BY ServedParts DEF Base
<1>2. Idle' = Idle
  BY ThreadsKept
<1>3. HandOverReached'
  BY <1>1, <1>2, HandOverKept
<1>4. IdleAlert'
  <2>1. \A v \in asleep' : v \in asleep \/ v \notin Idle
    OBVIOUS
  <2> QED
    BY <1>1, <1>2, <2>1, IdleAlertKept
<1>5. ASSUME NEW o \in Pool, o # p PROVE PoolAlert(o)' /\ ConservingInv(o)'
  <2>1. pools'[o] = pools[o]
    BY <1>5 DEF OtherPools
  <2>2. Count(unusedQueue', o) = Count(unusedQueue, o)
    OBVIOUS
  <2>3. PoolAlert(o) /\ ConservingInv(o)
    BY <1>1
  <2>4. \A v \in asleep' : v \in asleep
    OBVIOUS
  <2> QED
    BY <2>1, <2>2, <2>3, <2>4, OtherServedStill
<1>6. \A o \in Pool : PoolAlert(o)' /\ ConservingInv(o)'
  BY <1>5
<1> QED
  BY <1>3, <1>4, <1>6, ServedStep

--------------------------------------------------------------------------------
(* Calls that start no threads. *)

LEMMA StillAlert ==
  ASSUME Types, Served, NEW p \in Pool, threads' = threads, asleep' \subseteq asleep,
         Len(pools'[p].queue) = Len(pools[p].queue)
  PROVE  PoolAlert(p)'
<1>1. PoolAlert(p)
  BY ServedParts
<1>2. Waiters(p)' = Waiters(p)
  BY ThreadsKept
<1>3. \A v \in asleep' : v \in asleep \/ v \notin Waiters(p)
  OBVIOUS
<1> QED
  BY <1>1, <1>2, <1>3, PoolAlertKept

LEMMA EmptyAlert ==
  ASSUME NEW p \in Pool, pools'[p].queue = <<>>
  PROVE  PoolAlert(p)'
<1>1. Waiters(p)' \in SUBSET Thread
  BY DEF Waiters
<1>2. Len(pools'[p].queue) = 0
  OBVIOUS
<1>3. Alert(Waiters(p)', asleep', 0)
  BY <1>1, AlertNone
<1> QED
  BY <1>2, <1>3 DEF PoolAlert, Alert

LEMMA EmptyShort ==
  ASSUME NEW p \in Pool, pools'[p].queue = <<>>
  PROVE  Length(p)' <= 0
<1>1. Waiters(p)' \in SUBSET Thread
  BY DEF Waiters
<1>2. Cardinality(Waiters(p)') \in Nat
  BY <1>1, ThreadSets
<1>3. Len(pools'[p].queue) = 0
  OBVIOUS
<1> QED
  BY <1>2, <1>3 DEF Length

LEMMA NoMoreFailures == ASSUME Types, failures' = failures PROVE failures' >= failures
  BY DEF Types

LEMMA ServedNewFull ==
  ASSUME Base, Base', Served, NEW p \in Pool, NEW max \in Limits, NEW exclusive \in BOOLEAN,
         NewFull(p, max, exclusive)
  PROVE  Served'
<1>1. /\ OtherPools(p) /\ pools'[p].max = max /\ pools'[p].exclusive = exclusive
      /\ pools'[p].queue = <<>> /\ pools'[p].num = 0
      /\ pools'[p].toStart = IF exclusive THEN max ELSE 0
      /\ (exclusive => max # -1 /\ max \in Nat)
      /\ Calm /\ asleep' = asleep /\ failures' = failures
  BY NewFullDid
<1>2. Types /\ Types'
  BY DEF Base
<1>3. PoolAlert(p)'
  BY <1>1, EmptyAlert
<1>4. ConservingInv(p)'
  <2>1. CASE exclusive
    <3>1. pools'[p].num + pools'[p].toStart >= pools'[p].max
      BY <1>1, <2>1
    <3> QED
      BY <1>1, <2>1, <3>1, ConservingExclusive
  <2>2. CASE ~exclusive
    <3>1. Length(p)' <= pools'[p].toStart
      BY <1>1, <2>2, EmptyShort
    <3> QED
      BY <1>1, <1>2, <2>2, <3>1, ConservingShort
  <2> QED
    BY <2>1, <2>2
<1>5. failures' >= failures
  BY <1>1, <1>2, NoMoreFailures
<1>6. threads' = threads /\ unusedQueue' = unusedQueue /\ asleep' \subseteq asleep
  BY <1>1 DEF Calm
<1> QED
  BY <1>1, <1>3, <1>4, <1>5, <1>6, ServedCall

LEMMA ServedSetMaxThreads ==
  ASSUME Base, Base', Served, NEW p \in Pool, NEW max \in NewLimits, SetMaxThreads(p, max)
  PROVE  Served'
<1>1. /\ OtherPools(p) /\ pools'[p].max = max /\ (pools[p].exclusive => max # -1)
      /\ pools'[p].exclusive = pools[p].exclusive /\ pools'[p].queue = pools[p].queue
      /\ pools[p].exclusive => pools'[p].num + pools'[p].toStart >= max
      /\ ~pools[p].exclusive => pools'[p].toStart >= Length(p)
      /\ Calm /\ asleep' = asleep /\ failures' = failures
  BY SetMaxThreadsDid
<1>2. Types /\ Types'
  BY DEF Base
<1>3. threads' = threads /\ unusedQueue' = unusedQueue /\ asleep' \subseteq asleep
  BY <1>1 DEF Calm
<1>4. PoolAlert(p)'
  BY <1>1, <1>2, <1>3, StillAlert
<1>5. pools[p].exclusive \in BOOLEAN
  BY <1>2, PoolTypes
<1>6. ConservingInv(p)'
  <2>1. CASE pools[p].exclusive = TRUE
    BY <1>1, <2>1, ConservingExclusive
  <2>2. CASE pools[p].exclusive = FALSE
    <3>1. Waiters(p)' = Waiters(p)
      BY <1>3, ThreadsKept
    <3>2. Length(p)' = Length(p)
      BY <1>1, <3>1 DEF Length
    <3>3. Length(p)' \in Int /\ pools'[p].toStart \in Nat
      BY <1>2, PrimedTypes
    <3> HIDE DEF Length
    <3>4. Length(p)' <= pools'[p].toStart
      BY <1>1, <2>2, <3>2, <3>3
    <3> QED
      BY <1>1, <1>2, <2>2, <3>4, ConservingShort
  <2> QED
    BY <1>5, <2>1, <2>2
<1>7. failures' >= failures
  BY <1>1, <1>2, NoMoreFailures
<1> QED
  BY <1>1, <1>3, <1>4, <1>6, <1>7, ServedCall

LEMMA ServedMoveToFront ==
  ASSUME Base, Base', Served, NEW p \in Pool, NEW t \in Task, MoveToFront(p, t)
  PROVE  Served'
<1>1. PICK i \in DOMAIN pools[p].queue :
           /\ Becomes(p, "live", pools[p].max, pools[p].num, TRUE, pools[p].immediate,
                      pools[p].waiting, MovedToFront(pools[p].queue, i), 0, "out")
           /\ Usable(p) /\ Calm /\ fate' = fate /\ failures' = failures
           /\ \E X \in Signal(Waiters(p), 1) : asleep' = asleep \ X
  BY MoveToFrontDid
<1>2. Types /\ Types' /\ ConservingInv(p)
  BY ServedParts DEF Base
<1>3. threads' = threads /\ unusedQueue' = unusedQueue /\ asleep' \subseteq asleep
  BY <1>1 DEF Calm
<1>4. /\ OtherPools(p) /\ pools'[p].queue = MovedToFront(pools[p].queue, i)
      /\ pools'[p].max = pools[p].max /\ pools'[p].num = pools[p].num
      /\ pools'[p].exclusive = pools[p].exclusive /\ pools'[p].toStart = 0
  BY <1>1 DEF Becomes
<1>5. pools[p].queue \in Seq(Task \cup {Bogus})
  BY <1>2, PoolTypes
<1>6. Len(pools'[p].queue) = Len(pools[p].queue)
  BY <1>4, <1>5, Moved
<1>7. PoolAlert(p)'
  BY <1>2, <1>3, <1>6, StillAlert
<1>8. pools[p].phase = "live" /\ pools[p].running = TRUE /\ pools[p].toStart = 0
  BY <1>1, UsableIs
<1>9. failures' >= failures
  BY <1>1, <1>2, NoMoreFailures
<1>10. Length(p)' = Length(p) /\ Coming(p)' = Coming(p)
  <2>1. Waiters(p)' = Waiters(p) /\ Arriving(p)' = Arriving(p)
    BY <1>3, ThreadsKept
  <2>2. Cardinality(Arriving(p)') = Cardinality(Arriving(p))
    BY <2>1
  <2>3. Coming(p)' = Coming(p)
    BY <1>2, <1>3, <2>2, ComingKept
  <2>4. Length(p)' = Length(p)
    BY <1>6, <2>1 DEF Length
  <2> QED
    BY <2>3, <2>4
<1>11. pools[p].num \in Nat /\ Length(p) \in Int /\ Coming(p) \in Nat
  BY <1>2, PoolTypes, LengthType, ComingIs
<1>12. ConservingInv(p)'
  <2> HIDE DEF Length, Coming
  <2>1. /\ pools'[p].num >= pools[p].num
        /\ pools'[p].num + pools'[p].toStart >= pools[p].num + pools[p].toStart
        /\ Length(p)' - (Coming(p)' + pools'[p].toStart) <= Length(p) - (Coming(p) + pools[p].toStart)
    BY <1>4, <1>8, <1>10, <1>11
  <2> QED
    BY <1>2, <1>4, <1>8, <1>9, <2>1, ConservingMore
<1> QED
  BY <1>3, <1>4, <1>7, <1>9, <1>12, ServedCall

\* A pool that is no longer running, with its queue as it is.
LEMMA ServedStopped ==
  ASSUME Base, Base', Served, NEW p \in Pool, OtherPools(p), Calm, failures' = failures,
         asleep' \subseteq asleep, pools'[p].running = FALSE, PoolAlert(p)'
  PROVE  Served'
<1>1. Types
  BY DEF Base
<1>2. failures' >= failures
  BY <1>1, NoMoreFailures
<1>3. threads' = threads /\ unusedQueue' = unusedQueue
  BY DEF Calm
<1>4. ConservingInv(p)'
  BY NotRunning
<1> QED
  BY <1>2, <1>3, <1>4, ServedCall

LEMMA ServedFree ==
  ASSUME Base, Base', Served, NEW p \in Pool, NEW imm \in BOOLEAN, NEW wait \in BOOLEAN,
         Free(p, imm, wait)
  PROVE  Served'
<1>1. /\ Becomes(p, "live", pools[p].max, pools[p].num, FALSE, imm, wait, pools[p].queue, 0,
                 "check")
      /\ Calm /\ asleep' = asleep /\ failures' = failures
  BY FreeDid
<1>2. /\ OtherPools(p) /\ pools'[p].running = FALSE /\ threads' = threads
      /\ Len(pools'[p].queue) = Len(pools[p].queue) /\ asleep' \subseteq asleep
  BY <1>1 DEF Becomes, Calm
<1>3. Types
  BY DEF Base
<1>4. PoolAlert(p)'
  BY <1>2, <1>3, StillAlert
<1> QED
  BY <1>1, <1>2, <1>4, ServedStopped

LEMMA ServedFreerStep ==
  ASSUME Base, Base', Served, NEW p \in Pool, NEW freer, FreerStep(p, freer)
  PROVE  Served'
<1>1. /\ OtherPools(p) /\ pools'[p].running = FALSE /\ threads' = threads /\ Calm
      /\ Len(pools'[p].queue) = Len(pools[p].queue) /\ asleep' \subseteq asleep
      /\ failures' = failures
  BY DEF FreerStep, Becomes, Calm
<1>2. Types
  BY DEF Base
<1>3. PoolAlert(p)'
  BY <1>1, <1>2, StillAlert
<1> QED
  BY <1>1, <1>3, ServedStopped

\* Bogus items are pushed, and as many threads signalled.
LEMMA FilledAlert ==
  ASSUME Types, NEW p \in Pool, NEW S \in SUBSET Thread, Waiters(p)' = S,
         NEW q \in Seq(Task \cup {Bogus}), NEW n \in Nat, NEW X \in Signal(S, n),
         Alert(S, asleep, Len(q)), pools'[p].queue = q \o [i \in 1 .. n |-> Bogus],
         \A v \in asleep' : v \in asleep \ X
  PROVE  PoolAlert(p)'
<1>1. Bogus \in Task \cup {Bogus}
  OBVIOUS
<1>2. Len(q) \in Nat /\ Len(pools'[p].queue) = Len(q) + n
  BY <1>1, Filled
<1>3. Alert(S, asleep \ X, Len(q) + n)
  BY <1>2, AlertSignal
<1>4. Len(q) + n \in Nat /\ Len(q) + n <= Len(q) + n
  BY <1>2
<1>5. \A v \in S : v \in asleep' => v \in asleep \ X
  OBVIOUS
<1>6. Alert(S, asleep', Len(q) + n)
  BY <1>3, <1>4, <1>5, AlertFewer
<1> QED
  BY <1>2, <1>6 DEF PoolAlert, Alert

LEMMA ServedFreeEnds ==
  ASSUME Base, Base', Served, NEW p \in Pool, FreeEnds(p)
  PROVE  Served'
<1> DEFINE q == pools[p].queue
           stop == pools[p].immediate \/ AllWait(p)
<1>1. Types /\ PoolAlert(p)
  BY ServedParts DEF Base
<1>2. /\ Calm /\ failures' = failures /\ asleep' \subseteq asleep
      /\ \/ Becomes(p, "freed", pools[p].max, pools[p].num, FALSE, pools[p].immediate,
                    pools[p].waiting, <<>>, 0, "done")
         \/ /\ \E X \in Signal(Waiters(p), pools[p].num) : asleep' = asleep \ X
            /\ Becomes(p, "live", pools[p].max, pools[p].num, FALSE, TRUE,
                       FALSE, q \o [i \in 1 .. pools[p].num |-> Bogus], 0, "done")
         \/ Becomes(p, "live", pools[p].max, pools[p].num, FALSE, pools[p].immediate,
                    FALSE, q, 0, "done")
  BY FreeEndsDid
<1>3. /\ OtherPools(p) /\ pools'[p].running = FALSE /\ threads' = threads
      /\ \/ pools'[p].queue = <<>>
         \/ /\ pools'[p].queue = q \o [i \in 1 .. pools[p].num |-> Bogus]
            /\ \E X \in Signal(Waiters(p), pools[p].num) : asleep' = asleep \ X
         \/ pools'[p].queue = q
  BY <1>2 DEF Becomes, Calm
<1>4. PoolAlert(p)'
  <2>1. CASE pools'[p].queue = <<>>
    BY <2>1, EmptyAlert
  <2>2. CASE pools'[p].queue = q
    BY <1>1, <1>2, <1>3, <2>2, StillAlert
  <2>3. CASE /\ pools'[p].queue = q \o [i \in 1 .. pools[p].num |-> Bogus]
             /\ \E X \in Signal(Waiters(p), pools[p].num) : asleep' = asleep \ X
    <3>1. PICK X \in Signal(Waiters(p), pools[p].num) : asleep' = asleep \ X
      BY <2>3
    <3>2. Waiters(p)' = Waiters(p)
      BY <1>3, ThreadsKept
    <3>3. q \in Seq(Task \cup {Bogus}) /\ pools[p].num \in Nat /\ Waiters(p) \in SUBSET Thread
      BY <1>1, PoolTypes, QueueTypes
    <3>4. Alert(Waiters(p), asleep, Len(q))
      BY <1>1 DEF PoolAlert
    <3>5. \A v \in asleep' : v \in asleep \ X
      BY <3>1
    <3> HIDE DEF q, Waiters
    <3> QED
      BY <1>1, <2>3, <3>2, <3>3, <3>4, <3>5, FilledAlert
  <2> QED
    BY <1>3, <2>1, <2>2, <2>3
<1> QED
  BY <1>2, <1>3, <1>4, ServedStopped

--------------------------------------------------------------------------------
(* Calls that start threads. *)

LEMMA HandsOverServed ==
  ASSUME Types, HandOverReached, IdleAlert, NEW p \in Pool, NEW r, HandsOver(p, r),
         \A v \in asleep' : v \in asleep \ r.woken
  PROVE  HandOverReached' /\ IdleAlert'
<1>1. /\ r.woken \in Signal(Idle, 1) /\ unusedQueue' = Append(unusedQueue, p)
      /\ threads' = threads /\ Len(unusedQueue) < Cardinality(Idle)
  BY DEF HandsOver
<1>2. Idle' = Idle
  BY <1>1, ThreadsKept
<1>3. /\ unusedQueue \in Seq(Pool \cup {Marker}) /\ Len(unusedQueue) \in Nat
      /\ DOMAIN unusedQueue = 1 .. Len(unusedQueue) /\ Idle \in SUBSET Thread
  BY QueueTypes
<1>4. /\ DOMAIN unusedQueue' = 1 .. (Len(unusedQueue) + 1)
      /\ Len(unusedQueue') = Len(unusedQueue) + 1
      /\ \A i \in 1 .. Len(unusedQueue) : unusedQueue'[i] = unusedQueue[i]
  BY <1>1, <1>3, AppendProperties
<1>5. Cardinality(Idle) \in Nat
  BY <1>3, ThreadSets
<1>6. HandOverReached'
  <2>1. \A i \in DOMAIN unusedQueue' : unusedQueue'[i] \in Pool => i <= Cardinality(Idle)
    <3>1. \A i \in DOMAIN unusedQueue : unusedQueue[i] \in Pool => i <= Cardinality(Idle)
      BY DEF HandOverReached
    <3>2. \A i \in 1 .. (Len(unusedQueue) + 1) :
            i \in 1 .. Len(unusedQueue) \/ i = Len(unusedQueue) + 1
      BY <1>3
    <3>3. Len(unusedQueue) + 1 <= Cardinality(Idle)
      BY <1>1, <1>3, <1>5
    <3> QED
      BY <1>3, <1>4, <3>1, <3>2, <3>3
  <2> QED
    BY <1>2, <2>1 DEF HandOverReached
<1>7. Alert(Idle, asleep, Len(unusedQueue))
  BY DEF IdleAlert
<1> HIDE DEF Idle
<1>8. Alert(Idle, asleep \ r.woken, Len(unusedQueue) + 1)
  BY <1>1, <1>3, <1>7, AlertSignal
<1>9. Len(unusedQueue) + 1 \in Nat /\ Len(unusedQueue) + 1 <= Len(unusedQueue) + 1
  BY <1>3
<1>10. \A v \in Idle : v \in asleep' => v \in asleep \ r.woken
  OBVIOUS
<1>11. Alert(Idle, asleep', Len(unusedQueue) + 1)
  BY <1>3, <1>8, <1>9, <1>10, AlertFewer
<1>12. IdleAlert'
  BY <1>2, <1>4, <1>11 DEF IdleAlert, Alert
<1> QED
  BY <1>6, <1>12

LEMMA ServedStarts ==
  ASSUME Base, Base', Served, NEW p \in Pool, NEW r, OtherPools(p),
         Nothing(r) \/ HandsOver(p, r) \/ \E w \in Thread : Creates(p, r, w),
         failures' >= failures, \A v \in asleep' : v \in asleep \ r.woken,
         PoolAlert(p)', ConservingInv(p)'
  PROVE  Served'
<1>1. Types /\ HandOverReached /\ IdleAlert /\ \A o \in Pool : PoolAlert(o) /\ ConservingInv(o)
  BY ServedParts DEF Base
<1>2. asleep' \subseteq asleep
  OBVIOUS
<1>3. CASE Nothing(r)
  BY <1>2, <1>3, ServedCall DEF Nothing
<1>4. CASE HandsOver(p, r)
  <2>1. HandOverReached' /\ IdleAlert'
    BY <1>1, <1>4, HandsOverServed
  <2>2. ASSUME NEW o \in Pool, o # p PROVE PoolAlert(o)' /\ ConservingInv(o)'
    <3>1. pools'[o] = pools[o]
      BY <2>2 DEF OtherPools
    <3>2. threads' = threads /\ unusedQueue' = Append(unusedQueue, p)
      BY <1>4 DEF HandsOver
    <3>3. Count(unusedQueue', o) = Count(unusedQueue, o)
      <4>1. unusedQueue \in Seq(Pool \cup {Marker}) /\ p \in Pool \cup {Marker}
        BY <1>1, QueueTypes
      <4>2. Count(Append(unusedQueue, p), o) = Count(unusedQueue, o) + Bit(p = o)
        BY <4>1, CountAppend
      <4>3. Bit(p = o) = 0
        BY <2>2 DEF Bit
      <4>4. Count(unusedQueue, o) \in Nat
        BY <4>1, CountNat
      <4> QED
        BY <3>2, <4>2, <4>3, <4>4
    <3>4. PoolAlert(o) /\ ConservingInv(o)
      BY <1>1
    <3>5. \A v \in asleep' : v \in asleep
      OBVIOUS
    <3> QED
      BY <3>1, <3>2, <3>3, <3>4, <3>5, OtherServedStill
  <2>3. \A o \in Pool : PoolAlert(o)' /\ ConservingInv(o)'
    BY <2>2
  <2> QED
    BY <2>1, <2>3, ServedStep
<1>5. ASSUME NEW w \in Thread, Creates(p, r, w) PROVE Served'
  <2>1. /\ unusedQueue' = unusedQueue /\ Others(w) /\ threads[w].at = "none"
        /\ threads'[w].at = "start" /\ threads'[w].pool = p
    BY <1>5 DEF Creates
  <2>2. threads[w].pool = None
    BY <2>1 DEF Base, PlaceInv, InPool
  <2>3. \A v \in asleep' : v \in asleep \/ v = w
    OBVIOUS
  <2>4. threads[w].pool \in {p, None} /\ threads'[w].pool \in {p, None}
    BY <2>1, <2>2
  <2>5. threads[w].at # "idle" /\ threads'[w].at # "idle"
    BY <2>1
  <2> QED
    BY <2>1, <2>3, <2>4, <2>5, ServedInPool
<1> QED
  BY <1>3, <1>4, <1>5

\* A thread that was started comes.
LEMMA StartedComing ==
  ASSUME Base, Types', NEW p \in Pool, NEW r,
         Nothing(r) \/ HandsOver(p, r) \/ \E w \in Thread : Creates(p, r, w)
  PROVE  Coming(p)' = Coming(p) + r.n /\ r.n \in {0, 1}
<1>1. /\ Coming(p) = Cardinality(Arriving(p)) + Count(unusedQueue, p)
      /\ Cardinality(Arriving(p)) \in Nat /\ Count(unusedQueue, p) \in Nat
  BY ComingIs DEF Base
<1>2. Coming(p)' = Cardinality(Arriving(p)') + Count(unusedQueue', p)
  BY DEF Coming, Arriving, Count
<1>3. CASE Nothing(r)
  <2>1. r.n = 0 /\ unusedQueue' = unusedQueue /\ threads' = threads
    BY <1>3 DEF Nothing
  <2>2. Arriving(p)' = Arriving(p)
    BY <2>1, ThreadsKept
  <2> HIDE DEF Coming, Count, Arriving
  <2> QED
    BY <1>1, <1>2, <2>1, <2>2
<1>4. CASE HandsOver(p, r)
  <2>1. r.n = 1 /\ unusedQueue' = Append(unusedQueue, p) /\ threads' = threads
    BY <1>4 DEF HandsOver
  <2>2. Arriving(p)' = Arriving(p)
    BY <2>1, ThreadsKept
  <2>3. unusedQueue \in Seq(Pool \cup {Marker}) /\ p \in Pool \cup {Marker}
    BY DEF Base, Types
  <2>4. Count(Append(unusedQueue, p), p) = Count(unusedQueue, p) + Bit(p = p)
    BY <2>3, CountAppend
  <2>5. Bit(p = p) = 1
    BY DEF Bit
  <2> HIDE DEF Coming, Count, Arriving
  <2> QED
    BY <1>1, <1>2, <2>1, <2>2, <2>4, <2>5
<1>5. ASSUME NEW w \in Thread, Creates(p, r, w)
      PROVE  Coming(p)' = Coming(p) + r.n /\ r.n \in {0, 1}
  <2>1. /\ r.n = 1 /\ unusedQueue' = unusedQueue /\ Others(w) /\ threads[w].at = "none"
        /\ threads'[w].at = "start" /\ threads'[w].pool = p
    BY <1>5 DEF Creates
  <2>2. Cardinality(Arriving(p)') = Cardinality(Arriving(p))
           + Bit(Arrives(threads'[w], p)) - Bit(Arrives(threads[w], p))
    BY <2>1, ArrivingStep
  <2>3. Bit(Arrives(threads'[w], p)) = 1 /\ Bit(Arrives(threads[w], p)) = 0
    BY <2>1 DEF Bit, Arrives
  <2> HIDE DEF Coming, Count, Arriving
  <2> QED
    BY <1>1, <1>2, <2>1, <2>2, <2>3
<1> QED
  BY <1>3, <1>4, <1>5

LEMMA EnoughKept ==
  ASSUME NEW p \in Pool, Enough(p), pools'[p].max = pools[p].max, pools'[p].num = pools[p].num
  PROVE  Enough(p)'
  BY DEF Enough

LEMMA FailedConserving ==
  ASSUME Types, NEW p \in Pool, failures' = failures + 1
  PROVE  ConservingInv(p)' /\ failures' >= failures
<1>1. failures \in Nat
  BY DEF Types
<1>2. failures' # 0 /\ failures' >= failures
  BY <1>1
<1> QED
  BY <1>2 DEF ConservingInv

LEMMA ServedStartNext ==
  ASSUME Base, Base', Served, NEW p \in Pool, StartNext(p)
  PROVE  Served'
<1>1. /\ pools[p].toStart > 0 /\ pools[p].running = TRUE /\ pools[p].phase \in {"new", "live"}
      /\ \E r \in StartThread(p), left \in Nat, phase \in {"new", "live", "freed"} :
              /\ left = IF r.failed THEN 0 ELSE pools[p].toStart - 1
              /\ Becomes(p, phase, pools[p].max, pools[p].num + r.n, TRUE, pools[p].immediate,
                         pools[p].waiting, pools[p].queue, left, "out")
              /\ asleep' = asleep \ r.woken /\ Started(r)
  BY StartNextDid
<1>2. PICK r \in StartThread(p), left \in Nat, phase \in {"new", "live", "freed"} :
              /\ left = IF r.failed THEN 0 ELSE pools[p].toStart - 1
              /\ Becomes(p, phase, pools[p].max, pools[p].num + r.n, TRUE, pools[p].immediate,
                         pools[p].waiting, pools[p].queue, left, "out")
              /\ asleep' = asleep \ r.woken /\ Started(r)
  BY <1>1
<1>3. (Enough(p) /\ Skips(r)) \/ StartsOne(p, r) \/ Fails(p, r)
  BY <1>2, StartDid
<1>4. /\ OtherPools(p) /\ pools'[p].queue = pools[p].queue /\ pools'[p].max = pools[p].max
      /\ pools'[p].num = pools[p].num + r.n /\ pools'[p].exclusive = pools[p].exclusive
      /\ pools'[p].toStart = left
  BY <1>2 DEF Becomes
<1>5. Types /\ Types' /\ PoolAlert(p) /\ ConservingInv(p)
  BY ServedParts DEF Base
<1>6. Nothing(r) \/ HandsOver(p, r) \/ \E w \in Thread : Creates(p, r, w)
  BY <1>3 DEF Skips, StartsOne, Fails
<1>7. Waiters(p)' = Waiters(p) /\ Coming(p)' = Coming(p) + r.n /\ r.n \in {0, 1}
  BY <1>5, <1>6, StartedQuiet, StartedComing
<1>8. PoolAlert(p)'
  <2>1. \A v \in asleep' : v \in asleep \/ v \notin Waiters(p)
    BY <1>2
  <2>2. Len(pools'[p].queue) = Len(pools[p].queue)
    BY <1>4
  <2> QED
    BY <1>5, <1>7, <2>1, <2>2, PoolAlertKept
<1>9. Length(p)' = Length(p)
  BY <1>4, <1>7 DEF Length
<1>10. /\ pools[p].num \in Nat /\ Length(p) \in Int /\ Coming(p) \in Nat
       /\ pools[p].toStart \in Nat
  BY <1>5, PoolTypes, LengthType, ComingIs
<1>11. ConservingInv(p)' /\ failures' >= failures
  <2>1. CASE Enough(p) /\ Skips(r)
    <3>1. r.n = 0 /\ failures' = failures
      BY <2>1 DEF Skips, Nothing
    <3>2. pools'[p].num = pools[p].num
      BY <1>4, <1>10, <3>1
    <3>3. Enough(p)'
      BY <1>4, <2>1, <3>2, EnoughKept
    <3>4. ConservingInv(p)'
      BY <1>5, <3>3, ConservingFull
    <3>5. failures' >= failures
      BY <1>5, <3>1, NoMoreFailures
    <3> QED
      BY <3>4, <3>5
  <2>2. CASE StartsOne(p, r)
    <3>1. r.n = 1 /\ failures' = failures /\ r.failed = FALSE
      BY <2>2 DEF StartsOne, HandsOver, Creates
    <3>2. failures' >= failures
      BY <1>5, <3>1, NoMoreFailures
    <3>3. left = pools[p].toStart - 1
      BY <1>2, <3>1
    <3> HIDE DEF Length, Coming
    <3>4. /\ pools'[p].num >= pools[p].num
          /\ pools'[p].num + pools'[p].toStart >= pools[p].num + pools[p].toStart
          /\ Length(p)' - (Coming(p)' + pools'[p].toStart) <= Length(p) - (Coming(p) + pools[p].toStart)
      BY <1>4, <1>7, <1>9, <1>10, <3>1, <3>3
    <3>5. ConservingInv(p)'
      BY <1>1, <1>4, <1>5, <3>2, <3>4, ConservingMore
    <3> QED
      BY <3>2, <3>5
  <2>3. CASE Fails(p, r)
    <3>1. failures' = failures + 1
      BY <2>3 DEF Fails
    <3> QED
      BY <1>5, <3>1, FailedConserving
  <2> QED
    BY <1>3, <2>1, <2>2, <2>3
<1>12. \A v \in asleep' : v \in asleep \ r.woken
  BY <1>2
<1> QED
  BY <1>4, <1>6, <1>8, <1>11, <1>12, ServedStarts

LEMMA PushedAlert ==
  ASSUME Types, NEW p \in Pool, PoolAlert(p), Waiters(p)' = Waiters(p), NEW t \in Task,
         pools'[p].queue = Append(pools[p].queue, t), NEW X \in Signal(Waiters(p), 1),
         \A v \in asleep' : v \in asleep \ X
  PROVE  PoolAlert(p)'
<1>1. pools[p].queue \in Seq(Task \cup {Bogus}) /\ Len(pools[p].queue) \in Nat
  BY PoolTypes
<1>2. Len(pools'[p].queue) = Len(pools[p].queue) + 1
  BY <1>1, AppendProperties
<1>3. Waiters(p) \in SUBSET Thread
  BY QueueTypes
<1>4. Alert(Waiters(p), asleep, Len(pools[p].queue))
  BY DEF PoolAlert
<1> HIDE DEF Waiters
<1>5. Alert(Waiters(p), asleep \ X, Len(pools[p].queue) + 1)
  BY <1>1, <1>3, <1>4, AlertSignal
<1>6. Len(pools[p].queue) + 1 \in Nat /\ Len(pools[p].queue) + 1 <= Len(pools[p].queue) + 1
  BY <1>1
<1>7. \A v \in Waiters(p) : v \in asleep' => v \in asleep \ X
  OBVIOUS
<1>8. Alert(Waiters(p), asleep', Len(pools[p].queue) + 1)
  BY <1>3, <1>5, <1>6, <1>7, AlertFewer
<1> QED
  BY <1>2, <1>8 DEF PoolAlert, Alert

LEMMA ServedPush ==
  ASSUME Base, Base', Served, NEW p \in Pool, NEW t \in Task, Push(p, t)
  PROVE  Served'
<1>1. PICK r \in PushStart(p), X \in Signal(Waiters(p), 1) :
              /\ asleep' = asleep \ (r.woken \cup X)
              /\ \/ Length(p) < 0 /\ Skips(r)
                 \/ Enough(p) /\ Skips(r)
                 \/ StartsOne(p, r)
                 \/ Fails(p, r)
              /\ Becomes(p, "live", pools[p].max, pools[p].num + r.n, TRUE, pools[p].immediate,
                         pools[p].waiting, Append(pools[p].queue, t), 0, "out")
  BY PushDid
<1>2. Usable(p)
  BY PushDid
<1>3. pools[p].phase = "live" /\ pools[p].running = TRUE /\ pools[p].toStart = 0
  BY <1>2, UsableIs
<1>4. /\ OtherPools(p) /\ pools'[p].queue = Append(pools[p].queue, t)
      /\ pools'[p].max = pools[p].max
      /\ pools'[p].num = pools[p].num + r.n /\ pools'[p].exclusive = pools[p].exclusive
      /\ pools'[p].toStart = 0
  BY <1>1 DEF Becomes
<1>5. Types /\ Types' /\ PoolAlert(p) /\ ConservingInv(p)
  BY ServedParts DEF Base
<1>6. Nothing(r) \/ HandsOver(p, r) \/ \E w \in Thread : Creates(p, r, w)
  BY <1>1 DEF Skips, StartsOne, Fails
<1>7. Waiters(p)' = Waiters(p) /\ Coming(p)' = Coming(p) + r.n /\ r.n \in {0, 1}
  BY <1>5, <1>6, StartedQuiet, StartedComing
<1>8. PoolAlert(p)'
  <2>1. \A v \in asleep' : v \in asleep \ X
    BY <1>1
  <2> QED
    BY <1>4, <1>5, <1>7, <2>1, PushedAlert
<1>9. pools[p].queue \in Seq(Task \cup {Bogus}) /\ Len(pools[p].queue) \in Nat
  BY <1>5, PoolTypes
<1>10. Cardinality(Waiters(p)) \in Nat
  BY Sizes
<1>11. Len(pools'[p].queue) = Len(pools[p].queue) + 1
  BY <1>4, <1>9, AppendProperties
<1>12. Length(p)' = Length(p) + 1
  BY <1>7, <1>9, <1>10, <1>11 DEF Length
<1>13. /\ pools[p].num \in Nat /\ Length(p) \in Int /\ Coming(p) \in Nat
       /\ pools[p].exclusive \in BOOLEAN
  BY <1>5, PoolTypes, LengthType, ComingIs
<1>14. ConservingInv(p)' /\ failures' >= failures
  <2>1. CASE Length(p) < 0 /\ Skips(r)
    <3>1. r.n = 0 /\ failures' = failures
      BY <2>1 DEF Skips, Nothing
    <3>2. failures' >= failures
      BY <1>5, <3>1, NoMoreFailures
    <3>3. CASE pools[p].exclusive = TRUE
      <4>1. /\ pools'[p].num >= pools[p].num
            /\ pools'[p].num + pools'[p].toStart >= pools[p].num + pools[p].toStart
        BY <1>3, <1>4, <1>13, <3>1
      <4>2. ConservingInv(p)'
        BY <1>3, <1>4, <1>5, <3>2, <3>3, <4>1, ConservingMore
      <4> QED
        BY <3>2, <4>2
    <3>4. CASE pools[p].exclusive = FALSE
      <4> HIDE DEF Length
      <4>1. Length(p)' <= pools'[p].toStart
        BY <1>4, <1>12, <1>13, <2>1
      <4>2. ConservingInv(p)'
        BY <1>4, <1>5, <3>4, <4>1, ConservingShort
      <4> QED
        BY <3>2, <4>2
    <3> QED
      BY <1>13, <3>3, <3>4
  <2>2. CASE Enough(p) /\ Skips(r)
    <3>1. r.n = 0 /\ failures' = failures
      BY <2>2 DEF Skips, Nothing
    <3>2. pools'[p].num = pools[p].num
      BY <1>4, <1>13, <3>1
    <3>3. Enough(p)'
      BY <1>4, <2>2, <3>2, EnoughKept
    <3>4. ConservingInv(p)'
      BY <1>5, <3>3, ConservingFull
    <3>5. failures' >= failures
      BY <1>5, <3>1, NoMoreFailures
    <3> QED
      BY <3>4, <3>5
  <2>3. CASE StartsOne(p, r)
    <3>1. r.n = 1 /\ failures' = failures
      BY <2>3 DEF StartsOne, HandsOver, Creates
    <3>2. failures' >= failures
      BY <1>5, <3>1, NoMoreFailures
    <3> HIDE DEF Length, Coming
    <3>3. /\ pools'[p].num >= pools[p].num
          /\ pools'[p].num + pools'[p].toStart >= pools[p].num + pools[p].toStart
          /\ Length(p)' - (Coming(p)' + pools'[p].toStart) <= Length(p) - (Coming(p) + pools[p].toStart)
      BY <1>3, <1>4, <1>7, <1>12, <1>13, <3>1
    <3>4. ConservingInv(p)'
      BY <1>3, <1>4, <1>5, <3>2, <3>3, ConservingMore
    <3> QED
      BY <3>2, <3>4
  <2>4. CASE Fails(p, r)
    <3>1. failures' = failures + 1
      BY <2>4 DEF Fails
    <3> QED
      BY <1>5, <3>1, FailedConserving
  <2> QED
    BY <1>1, <2>1, <2>2, <2>3, <2>4
<1>15. \A v \in asleep' : v \in asleep \ r.woken
  BY <1>1
<1> QED
  BY <1>4, <1>6, <1>8, <1>14, <1>15, ServedStarts

--------------------------------------------------------------------------------
(* Threads in their pools. *)

LEMMA PoolAlertGone ==
  ASSUME Types, NEW p \in Pool, NEW w \in Thread, PoolAlert(p), NEW q \in Seq(Task \cup {Bogus}),
         Len(q) <= Len(pools[p].queue),
         threads[w].at = "pop" => q = <<>> \/ Len(q) <= Len(pools[p].queue) - 1
  PROVE  Alert(Waiters(p) \ {w}, asleep \ {w}, Len(q))
<1>1. Waiters(p) \in SUBSET Thread /\ Len(pools[p].queue) \in Nat /\ Len(q) \in Nat
  BY QueueTypes, PoolTypes, LenProperties
<1>2. Alert(Waiters(p), asleep, Len(pools[p].queue))
  BY DEF PoolAlert
<1>3. q = <<>> => Len(q) = 0
  OBVIOUS
<1>4. w \in Waiters(p) => threads[w].at = "pop"
  BY DEF Waiters, At
<1>5. w \in Waiters(p) => Len(q) = 0 \/ Len(q) <= Len(pools[p].queue) - 1
  BY <1>3, <1>4
<1> HIDE DEF Waiters
<1> QED
  BY <1>1, <1>2, <1>5, AlertGone

LEMMA LeftAlert ==
  ASSUME Base, NEW p \in Pool, NEW w \in Thread, threads[w].pool = p, PoolAlert(p),
         NEW q \in Seq(Task \cup {Bogus}), NEW x, Left(w, p, q, x),
         Len(q) <= Len(pools[p].queue),
         threads[w].at = "pop" => q = <<>> \/ Len(q) <= Len(pools[p].queue) - 1
  PROVE  PoolAlert(p)'
<1> DEFINE S == Waiters(p) \ {w}
<1>1. Types
  BY DEF Base
<1>2. Alert(S, asleep \ {w}, Len(q))
  BY <1>1, PoolAlertGone
<1>3. Waiters(p)' = S
  <2>1. Others(w) /\ ~Waits(threads'[w], p)
    BY DEF Left, Leaves, Waits
  <2> QED
    BY <2>1, WaitersLess
<1>4. S \in SUBSET Thread
  BY DEF Waiters
<1>5. CASE LeftFreed(w, p, q, x)
  <2>1. pools'[p].queue = <<>>
    BY <1>5 DEF LeftFreed, Becomes
  <2> QED
    BY <2>1, EmptyAlert
<1>6. CASE LeftOn(w, p, q, x)
  <2>1. pools'[p].queue = q /\ asleep' = asleep \ {w}
    BY <1>6 DEF LeftOn, Becomes
  <2> QED
    BY <1>2, <1>3, <2>1 DEF PoolAlert, Alert
<1>7. CASE LeftStopped(w, p, q, x)
  <2>1. /\ pools'[p].queue = q \o [i \in 1 .. pools[p].num - 1 |-> Bogus]
        /\ \E X \in Signal(S, pools[p].num - 1) : asleep' = asleep \ (X \cup {w})
    BY <1>7 DEF LeftStopped, Becomes
  <2>2. PICK X \in Signal(S, pools[p].num - 1) : asleep' = asleep \ (X \cup {w})
    BY <2>1
  <2>3. pools[p].num - 1 \in Nat
    <3>1. pools[p].num >= 1 /\ pools[p].num \in Nat
      BY <1>1, MemberLive, PoolTypes
    <3> QED
      BY <3>1
  <2>4. Len(q) \in Nat /\ Len(q) <= Len(q)
    BY LenProperties
  <2>5. \A v \in S : v \in asleep => v \in asleep \ {w}
    OBVIOUS
  <2>6. \A v \in asleep' : v \in asleep \ X
    BY <2>2
  <2> HIDE DEF S
  <2>7. Alert(S, asleep, Len(q))
    BY <1>2, <1>4, <2>4, <2>5, AlertFewer
  <2> QED
    BY <1>1, <1>3, <1>4, <2>1, <2>3, <2>6, <2>7, FilledAlert
<1> QED
  BY <1>5, <1>6, <1>7 DEF Left

LEMMA LeftConserving ==
  ASSUME Base, Base', NEW p \in Pool, NEW w \in Thread, threads[w].pool = p, NEW q, NEW x,
         Left(w, p, q, x),
         \/ ~pools[p].running
         \/ ~Active(p)
         \/ q = <<>> /\ ~pools[p].exclusive
  PROVE  ConservingInv(p)'
<1>1. Types /\ Types'
  BY DEF Base
<1>2. /\ pools[p].running \in BOOLEAN /\ pools[p].exclusive \in BOOLEAN
      /\ pools[p].max \in Int /\ pools[p].num \in Nat
  BY <1>1, PoolTypes
<1>3. CASE pools[p].running = FALSE
  <2>1. pools'[p].running = FALSE
    BY <1>3 DEF Left, LeftFreed, LeftStopped, LeftOn, Becomes
  <2> QED
    BY <2>1, NotRunning
<1>4. CASE pools[p].running = TRUE
  <2>1. LeftOn(w, p, q, x)
    BY <1>4 DEF Left, LeftFreed, LeftStopped
  <2>2. /\ pools'[p].queue = q /\ pools'[p].max = pools[p].max /\ pools'[p].num = pools[p].num - 1
        /\ pools'[p].exclusive = pools[p].exclusive /\ pools'[p].toStart = 0
    BY <2>1 DEF LeftOn, Becomes
  <2>3. CASE ~Active(p)
    <3>1. pools[p].max # -1 /\ ~(pools[p].num <= pools[p].max)
      BY <1>4, <2>3 DEF Active
    <3>2. Enough(p)'
      BY <1>2, <2>2, <3>1 DEF Enough
    <3> QED
      BY <1>1, <3>2, ConservingFull
  <2>4. CASE q = <<>> /\ ~pools[p].exclusive
    <3>1. Length(p)' <= pools'[p].toStart
      BY <2>2, <2>4, EmptyShort
    <3>2. pools'[p].exclusive = FALSE
      BY <1>2, <2>2, <2>4
    <3> QED
      BY <1>1, <3>1, <3>2, ConservingShort
  <2> QED
    BY <1>4, <2>3, <2>4
<1> QED
  BY <1>2, <1>3, <1>4

LEMMA ServedLeft ==
  ASSUME Base, Base', Served, NEW w \in Thread, NEW p \in Pool, Popping(w, p),
         NEW q \in Seq(Task \cup {Bogus}), NEW x, Left(w, p, q, x),
         Len(q) <= Len(pools[p].queue),
         threads[w].at = "pop" => q = <<>> \/ Len(q) <= Len(pools[p].queue) - 1,
         \/ ~pools[p].running
         \/ ~Active(p)
         \/ q = <<>> /\ ~pools[p].exclusive
  PROVE  Served'
<1>1. Types /\ PoolAlert(p)
  BY ServedParts DEF Base
<1>2. threads[w].pool = p /\ threads[w].at # "idle"
  BY DEF Popping
<1>3. /\ Others(w) /\ threads'[w].pool = None /\ threads'[w].at # "idle"
      /\ unusedQueue' = unusedQueue /\ failures' = failures
  BY DEF Left, Leaves
<1>4. PoolAlert(p)'
  BY <1>1, <1>2, LeftAlert
<1>5. ConservingInv(p)'
  BY <1>2, LeftConserving
<1>6. OtherPools(p) /\ \A v \in asleep' : v \in asleep \/ v = w
  BY DEF Left, LeftFreed, LeftStopped, LeftOn, Becomes
<1>7. failures' >= failures
  BY <1>1, <1>3, NoMoreFailures
<1>8. threads[w].pool \in {p, None} /\ threads'[w].pool \in {p, None}
  BY <1>2, <1>3
<1> QED
  BY <1>2, <1>3, <1>4, <1>5, <1>6, <1>7, <1>8, ServedInPool

LEMMA ServedLeaves ==
  ASSUME Base, Base', Served, NEW w \in Thread, NEW p \in Pool, Popping(w, p),
         LeavesSkipping(w, p) \/ LeavesIdle(w, p)
  PROVE  Served'
<1>1. pools[p].queue \in Seq(Task \cup {Bogus}) /\ Len(pools[p].queue) \in Nat
  BY PoolTypes DEF Base
<1>2. CASE LeavesSkipping(w, p)
  <2>1. pools[p].queue # <<>> /\ ~Runs(p) /\ Left(w, p, Tail(pools[p].queue), Skipped(p))
    BY <1>2 DEF LeavesSkipping
  <2>2. Tail(pools[p].queue) \in Seq(Task \cup {Bogus})
    BY <1>1, <2>1
  <2>3. Len(Tail(pools[p].queue)) = Len(pools[p].queue) - 1
    BY <1>1, <2>1, TailLength
  <2>4. Len(Tail(pools[p].queue)) <= Len(pools[p].queue) /\
        Len(Tail(pools[p].queue)) <= Len(pools[p].queue) - 1
    BY <1>1, <2>3
  <2>5. ~pools[p].running
    BY <2>1 DEF Runs
  <2> QED
    BY <2>1, <2>2, <2>4, <2>5, ServedLeft
<1>3. CASE LeavesIdle(w, p)
  <2>1. /\ Left(w, p, pools[p].queue, None)
        /\ \/ ~Active(p) /\ threads[w].at \in {"start", "back"}
           \/ pools[p].queue = <<>> /\ ~pools[p].exclusive /\ threads[w].at = "pop"
    BY <1>3 DEF LeavesIdle
  <2>2. Len(pools[p].queue) <= Len(pools[p].queue)
    BY <1>1
  <2>3. threads[w].at = "pop" => pools[p].queue = <<>>
    BY <2>1
  <2>4. ~Active(p) \/ (pools[p].queue = <<>> /\ ~pools[p].exclusive)
    BY <2>1
  <2> QED
    BY <1>1, <2>1, <2>2, <2>3, <2>4, ServedLeft
<1> QED
  BY <1>2, <1>3

LEMMA ServedParks ==
  ASSUME Base, Base', Served, NEW w \in Thread, NEW p \in Pool, Popping(w, p), Parks(w, p)
  PROVE  Served'
<1>1. Types /\ Types' /\ ConservingInv(p)
  BY ServedParts DEF Base
<1>2. threads[w].pool = p /\ threads[w].at # "idle" /\ Unlocked(p)
  BY DEF Popping
<1>3. /\ pools[p].queue = <<>> /\ Others(w) /\ threads'[w].at # "idle" /\ threads'[w].pool = p
      /\ asleep' = asleep \cup {w} /\ pools' = pools /\ failures' = failures
      /\ unusedQueue' = unusedQueue
  BY DEF Parks
<1>4. pools'[p].queue = <<>> /\ pools'[p] = pools[p] /\ OtherPools(p)
  BY <1>3 DEF OtherPools
<1>5. PoolAlert(p)'
  BY <1>4, EmptyAlert
<1>6. failures' >= failures
  BY <1>1, <1>3, NoMoreFailures
<1>7. pools[p].phase = "live" /\ pools[p].toStart = 0
  BY <1>2, MemberLive
<1>8. /\ pools[p].exclusive \in BOOLEAN /\ pools[p].running \in BOOLEAN /\ pools[p].num \in Nat
  BY <1>1, PoolTypes
<1>9. ConservingInv(p)'
  <2>1. CASE pools[p].exclusive = FALSE
    <3>1. Length(p)' <= pools'[p].toStart
      BY <1>4, <1>7, EmptyShort
    <3> QED
      BY <1>1, <1>4, <2>1, <3>1, ConservingShort
  <2>2. CASE pools[p].running = FALSE
    BY <1>4, <2>2, NotRunning
  <2>3. CASE pools[p].exclusive = TRUE /\ pools[p].running = TRUE
    <3>1. /\ pools'[p].num >= pools[p].num
          /\ pools'[p].num + pools'[p].toStart >= pools[p].num + pools[p].toStart
      BY <1>4, <1>7, <1>8
    <3> QED
      BY <1>1, <1>4, <1>6, <1>7, <2>3, <3>1, ConservingMore
  <2> QED
    BY <1>8, <2>1, <2>2, <2>3
<1>10. \A v \in asleep' : v \in asleep \/ v = w
  BY <1>3
<1>11. threads[w].pool \in {p, None} /\ threads'[w].pool \in {p, None}
  BY <1>2, <1>3
<1> QED
  BY <1>2, <1>3, <1>4, <1>5, <1>6, <1>9, <1>10, <1>11, ServedInPool

LEMMA ComingGone ==
  ASSUME Base, Types', NEW w \in Thread, NEW p \in Pool, Popping(w, p), Others(w),
         threads'[w].at = "func", unusedQueue' = unusedQueue
  PROVE  /\ Coming(p)' >= Coming(p) - 1
         /\ threads[w].at # "start" => Coming(p)' = Coming(p)
<1>1. /\ Coming(p) = Cardinality(Arriving(p)) + Count(unusedQueue, p)
      /\ Cardinality(Arriving(p)) \in Nat /\ Count(unusedQueue, p) \in Nat
  BY ComingIs DEF Base
<1>2. Coming(p)' = Cardinality(Arriving(p)') + Count(unusedQueue', p)
  BY DEF Coming, Arriving, Count
<1>3. Cardinality(Arriving(p)') = Cardinality(Arriving(p))
           + Bit(Arrives(threads'[w], p)) - Bit(Arrives(threads[w], p))
  BY ArrivingStep
<1>4. /\ Bit(Arrives(threads'[w], p)) = 0 /\ Bit(Arrives(threads[w], p)) \in {0, 1}
      /\ threads[w].at # "start" => Bit(Arrives(threads[w], p)) = 0
  BY DEF Bit, Arrives, Popping
<1> HIDE DEF Coming, Count, Arriving
<1>5. Count(unusedQueue', p) = Count(unusedQueue, p)
  OBVIOUS
<1> QED
  BY <1>1, <1>2, <1>3, <1>4, <1>5

LEMMA ServedBegins ==
  ASSUME Base, Base', Served, NEW w \in Thread, NEW p \in Pool, Popping(w, p), Begins(w, p)
  PROVE  Served'
<1>1. Types /\ Types' /\ ConservingInv(p) /\ PoolAlert(p)
  BY ServedParts DEF Base
<1>2. /\ threads[w].pool = p /\ threads[w].at # "idle" /\ Unlocked(p)
      /\ threads[w].at \in {"start", "back", "pop"}
  BY DEF Popping
<1>3. /\ pools[p].queue # <<>> /\ pools'[p].queue = Tail(pools[p].queue) /\ OtherPools(p)
      /\ pools'[p].num = pools[p].num /\ pools'[p].max = pools[p].max
      /\ pools'[p].running = pools[p].running /\ pools'[p].exclusive = pools[p].exclusive
      /\ pools'[p].toStart = 0 /\ pools[p].toStart = 0 /\ pools[p].phase = "live"
      /\ Others(w) /\ threads'[w].at = "func" /\ threads'[w].pool = p
      /\ asleep' = asleep \ {w} /\ failures' = failures /\ unusedQueue' = unusedQueue
  BY DEF Begins, Becomes
<1>4. pools[p].queue \in Seq(Task \cup {Bogus}) /\ Len(pools[p].queue) \in Nat
  BY <1>1, PoolTypes
<1>5. /\ Tail(pools[p].queue) \in Seq(Task \cup {Bogus})
      /\ Len(Tail(pools[p].queue)) = Len(pools[p].queue) - 1
  BY <1>3, <1>4, TailLength
<1>6. /\ Len(Tail(pools[p].queue)) <= Len(pools[p].queue)
      /\ Len(Tail(pools[p].queue)) <= Len(pools[p].queue) - 1
  BY <1>4, <1>5
<1>7. ~Waits(threads'[w], p)
  BY <1>3 DEF Waits
<1>8. /\ Waiters(p)' = Waiters(p) \ {w}
      /\ threads[w].at # "pop" => Cardinality(Waiters(p)') = Cardinality(Waiters(p))
      /\ threads[w].at = "pop" => Cardinality(Waiters(p)') = Cardinality(Waiters(p)) - 1
  BY <1>2, <1>3, <1>7, WaitersLess
<1>9. PoolAlert(p)'
  <2>1. Alert(Waiters(p) \ {w}, asleep \ {w}, Len(Tail(pools[p].queue)))
    BY <1>1, <1>5, <1>6, PoolAlertGone
  <2> QED
    BY <1>3, <1>8, <2>1 DEF PoolAlert, Alert
<1>10. failures' >= failures
  BY <1>1, <1>3, NoMoreFailures
<1>11. /\ Coming(p)' >= Coming(p) - 1
       /\ threads[w].at # "start" => Coming(p)' = Coming(p)
  BY <1>1, <1>3, ComingGone
<1>12. ConservingInv(p)'
  <2>1. CASE pools[p].running = FALSE
    BY <1>3, <2>1, NotRunning
  <2>2. CASE pools[p].running = TRUE
    <3>1. /\ pools[p].num \in Nat /\ Coming(p) \in Nat /\ Coming(p)' \in Nat
          /\ Cardinality(Waiters(p)) \in Nat
      BY <1>1, PoolTypes, ComingIs, PrimedTypes, Sizes
    <3>2. /\ Length(p) = Len(pools[p].queue) - Cardinality(Waiters(p))
          /\ Length(p)' = Len(pools[p].queue) - 1 - Cardinality(Waiters(p)')
      BY <1>3, <1>5 DEF Length
    <3> HIDE DEF Length, Coming, Waiters
    <3>3. /\ pools'[p].num >= pools[p].num
          /\ pools'[p].num + pools'[p].toStart >= pools[p].num + pools[p].toStart
      BY <1>3, <3>1
    <3>4. Length(p)' - (Coming(p)' + pools'[p].toStart) <= Length(p) - (Coming(p) + pools[p].toStart)
      BY <1>2, <1>3, <1>4, <1>8, <1>11, <3>1, <3>2
    <3> QED
      BY <1>1, <1>3, <1>10, <2>2, <3>3, <3>4, ConservingMore
  <2>3. pools[p].running \in BOOLEAN
    BY <1>1, PoolTypes
  <2> QED
    BY <2>1, <2>2, <2>3
<1>13. \A v \in asleep' : v \in asleep \/ v = w
  BY <1>3
<1>14. /\ threads[w].pool \in {p, None} /\ threads'[w].pool \in {p, None}
       /\ threads'[w].at # "idle"
  BY <1>2, <1>3
<1> QED
  BY <1>2, <1>3, <1>9, <1>10, <1>12, <1>13, <1>14, ServedInPool

LEMMA ServedPoolStep ==
  ASSUME Base, Base', Served, NEW w \in Thread, NEW p \in Pool, PoolStep(w, p)
  PROVE  Served'
<1>1. Popping(w, p)
  BY DEF PoolStep
<1>2. CASE Parks(w, p)
  BY <1>1, <1>2, ServedParks
<1>3. CASE Begins(w, p)
  BY <1>1, <1>3, ServedBegins
<1>4. CASE LeavesSkipping(w, p) \/ LeavesIdle(w, p)
  BY <1>1, <1>4, ServedLeaves
<1> QED
  BY <1>2, <1>3, <1>4 DEF PoolStep

LEMMA ServedFuncReturns ==
  ASSUME Base, Base', Served, NEW w \in Thread, FuncReturns(w)
  PROVE  Served'
<1>0. PICK p \in Pool : threads[w].pool = p
  BY FuncReturnsDid
<1>1. /\ threads[w].at = "func" /\ p \in Pool /\ Others(w) /\ threads'[w].at = "back"
      /\ threads'[w].pool = p /\ pools' = pools /\ asleep' = asleep /\ failures' = failures
      /\ unusedQueue' = unusedQueue
  BY <1>0, FuncReturnsDid
<1>2. Types /\ Types'
  BY DEF Base
<1>3. PoolAlert(p) /\ ConservingInv(p)
  BY <1>1, ServedParts
<1>4. ~Waits(threads[w], p) /\ ~Waits(threads'[w], p)
  BY <1>1 DEF Waits
<1>5. Waiters(p)' = Waiters(p)
  BY <1>1, <1>4, WaitersKept
<1>6. ~Arrives(threads[w], p) /\ ~Arrives(threads'[w], p)
  BY <1>1 DEF Arrives
<1>7. Cardinality(Arriving(p)') = Cardinality(Arriving(p))
  BY <1>1, <1>6, ArrivingKept
<1>8. Coming(p)' = Coming(p)
  BY <1>1, <1>2, <1>7, ComingKept
<1>9. failures' >= failures
  BY <1>1, <1>2, NoMoreFailures
<1>10. PoolAlert(p)'
  <2>1. \A v \in asleep' : v \in asleep \/ v \notin Waiters(p)
    BY <1>1
  <2>2. Len(pools'[p].queue) = Len(pools[p].queue)
    BY <1>1
  <2> QED
    BY <1>1, <1>2, <1>3, <1>5, <2>1, <2>2, PoolAlertKept
<1>11. ConservingInv(p)'
  <2>1. Cardinality(Waiters(p)') = Cardinality(Waiters(p)) /\ pools'[p] = pools[p]
    BY <1>1, <1>5
  <2> QED
    BY <1>1, <1>2, <1>3, <1>8, <1>9, <2>1, ConservingKept
<1>12. OtherPools(p)
  BY <1>1 DEF OtherPools
<1>13. \A v \in asleep' : v \in asleep \/ v = w
  BY <1>1
<1>14. threads[w].pool \in {p, None} /\ threads'[w].pool \in {p, None}
  BY <1>0, <1>1
<1>15. threads[w].at # "idle" /\ threads'[w].at # "idle"
  BY <1>1
<1> QED
  BY <1>1, <1>9, <1>10, <1>11, <1>12, <1>13, <1>14, <1>15, ServedInPool

--------------------------------------------------------------------------------
(* Threads in the global pool, and the theorem. *)

LEMMA MarkedServed ==
  ASSUME Types, HandOverReached, IdleAlert, Idle' = Idle, NEW n \in Nat, Marked(n)
  PROVE  HandOverReached' /\ IdleAlert'
<1>1. /\ Len(unusedQueue') = Len(unusedQueue) + n
      /\ \A i \in DOMAIN unusedQueue' : unusedQueue'[i] \in Pool =>
           i \in DOMAIN unusedQueue /\ unusedQueue[i] = unusedQueue'[i]
  BY DEF Marked
<1>2. PICK X \in Signal(Idle, n) : asleep' = asleep \ X
  BY DEF Marked
<1>3. Len(unusedQueue) \in Nat /\ Idle \in SUBSET Thread
  BY QueueTypes
<1>4. HandOverReached'
  <2>1. \A i \in DOMAIN unusedQueue : unusedQueue[i] \in Pool => i <= Cardinality(Idle)
    BY DEF HandOverReached
  <2>2. \A i \in DOMAIN unusedQueue' : unusedQueue'[i] \in Pool => i <= Cardinality(Idle')
    BY <1>1, <2>1
  <2> QED
    BY <2>2 DEF HandOverReached
<1>5. Alert(Idle, asleep, Len(unusedQueue))
  BY DEF IdleAlert
<1> HIDE DEF Idle
<1>6. Alert(Idle, asleep \ X, Len(unusedQueue) + n)
  BY <1>3, <1>5, AlertSignal
<1>7. IdleAlert'
  BY <1>1, <1>2, <1>6 DEF IdleAlert, Alert
<1> QED
  BY <1>4, <1>7

LEMMA ServedStays ==
  ASSUME Base, Base', Served, Stays
  PROVE  Served'
<1>1. Types /\ HandOverReached /\ IdleAlert /\ \A o \in Pool : PoolAlert(o) /\ ConservingInv(o)
  BY ServedParts DEF Base
<1>2. threads' = threads /\ pools' = pools /\ failures' = failures
  BY DEF Stays
<1>3. PICK n \in Nat : Marked(n)
  BY DEF Stays
<1>4. Idle' = Idle
  BY <1>2, ThreadsKept
<1>5. HandOverReached' /\ IdleAlert'
  BY <1>1, <1>3, <1>4, MarkedServed
<1>6. /\ \A v \in asleep' : v \in asleep
      /\ \A o \in Pool : Count(unusedQueue', o) = Count(unusedQueue, o)
  BY <1>3 DEF Marked
<1>7. failures' >= failures
  BY <1>1, <1>2, NoMoreFailures
<1>8. ASSUME NEW o \in Pool PROVE PoolAlert(o)' /\ ConservingInv(o)'
  <2>1. PoolAlert(o) /\ ConservingInv(o) /\ pools'[o] = pools[o]
    BY <1>1, <1>2
  <2>2. Count(unusedQueue', o) = Count(unusedQueue, o)
    BY <1>6
  <2> QED
    BY <1>2, <1>6, <1>7, <2>1, <2>2, OtherServedStill
<1> QED
  BY <1>5, <1>8, ServedStep

\* A pool, when a thread moves in the global pool.
LEMMA UnnoticedServed ==
  ASSUME Base, Base', Served, NEW w \in Thread, Unnoticed(w), NEW o \in Pool,
         Coming(o)' = Coming(o), \A v \in asleep' : v \in asleep \/ v = w
  PROVE  PoolAlert(o)' /\ ConservingInv(o)'
<1>1. Types /\ Types' /\ PoolAlert(o) /\ ConservingInv(o)
  BY ServedParts DEF Base
<1>2. /\ Others(w) /\ pools' = pools /\ failures' = failures
      /\ threads[w].at # "pop" /\ threads'[w].at # "pop"
  BY DEF Unnoticed, InGlobal
<1>3. ~Waits(threads[w], o) /\ ~Waits(threads'[w], o)
  BY <1>2 DEF Waits
<1>4. Waiters(o)' = Waiters(o)
  BY <1>2, <1>3, WaitersKept
<1>5. w \notin Waiters(o)
  BY <1>2 DEF Waiters, At
<1>6. \A v \in asleep' : v \in asleep \/ v \notin Waiters(o)
  BY <1>5
<1>7. Len(pools'[o].queue) = Len(pools[o].queue) /\ pools'[o] = pools[o]
  BY <1>2
<1>8. PoolAlert(o)'
  BY <1>1, <1>4, <1>6, <1>7, PoolAlertKept
<1>9. Cardinality(Waiters(o)') = Cardinality(Waiters(o))
  BY <1>4
<1>10. failures' >= failures
  BY <1>1, <1>2, NoMoreFailures
<1>11. ConservingInv(o)'
  BY <1>1, <1>7, <1>9, <1>10, ConservingKept
<1> QED
  BY <1>8, <1>11

\* The thread's place changes, but not whether it comes to a pool.
LEMMA ComingStays ==
  ASSUME Base, Base', NEW w \in Thread, Others(w), NEW o \in Pool,
         threads'[w].pool = threads[w].pool,
         threads[w].at \in {"got", "start"} <=> threads'[w].at \in {"got", "start"},
         Count(unusedQueue', o) = Count(unusedQueue, o)
  PROVE  Coming(o)' = Coming(o)
<1>1. Types /\ Types'
  BY DEF Base
<1>2. Cardinality(Arriving(o)') = Cardinality(Arriving(o))
           + Bit(Arrives(threads'[w], o)) - Bit(Arrives(threads[w], o))
  BY ArrivingStep
<1>3. Bit(Arrives(threads'[w], o)) = Bit(Arrives(threads[w], o))
      /\ Bit(Arrives(threads[w], o)) \in {0, 1}
  BY DEF Bit, Arrives
<1>4. Cardinality(Arriving(o)) \in Nat
  BY Sizes
<1>5. Cardinality(Arriving(o)') = Cardinality(Arriving(o))
  BY <1>2, <1>3, <1>4
<1> QED
  BY <1>1, <1>5, ComingKept

LEMMA ServedWalks ==
  ASSUME Base, Base', Served, NEW w \in Thread, Walks(w)
  PROVE  Served'
<1>1. Types /\ HandOverReached /\ IdleAlert
  BY ServedParts DEF Base
<1>2. /\ Unnoticed(w) /\ Others(w) /\ threads[w].at # "idle" /\ threads'[w].at # "idle"
      /\ threads'[w].pool = threads[w].pool
      /\ threads[w].at \in {"got", "start"} <=> threads'[w].at \in {"got", "start"}
  BY DEF Walks, Unnoticed
<1>3. PICK n \in Nat : Marked(n)
  BY DEF Walks
<1>4. Idle' = Idle
  BY <1>2, IdleKept
<1>5. HandOverReached' /\ IdleAlert'
  BY <1>1, <1>3, <1>4, MarkedServed
<1>6. /\ \A v \in asleep' : v \in asleep \/ v = w
      /\ \A o \in Pool : Count(unusedQueue', o) = Count(unusedQueue, o)
  BY <1>3 DEF Marked
<1>7. ASSUME NEW o \in Pool PROVE PoolAlert(o)' /\ ConservingInv(o)'
  <2>1. Count(unusedQueue', o) = Count(unusedQueue, o)
    BY <1>6
  <2>2. Coming(o)' = Coming(o)
    BY <1>2, <2>1, ComingStays
  <2> QED
    BY <1>2, <1>6, <2>2, UnnoticedServed
<1> QED
  BY <1>5, <1>7, ServedStep

LEMMA ServedRests ==
  ASSUME Base, Base', Served, NEW w \in Thread, Rests(w)
  PROVE  Served'
<1>1. /\ Unnoticed(w) /\ Others(w) /\ threads'[w].pool = threads[w].pool
      /\ threads[w].at \in {"enter", "idle"} /\ threads'[w].at \in {"idle", "quit"}
      /\ unusedQueue = <<>> /\ unusedQueue' = <<>> /\ \A v \in asleep' : v \in asleep \/ v = w
  BY DEF Rests, Unnoticed
<1>2. HandOverReached'
  BY <1>1 DEF HandOverReached
<1>3. IdleAlert'
  <2>1. Idle' \in SUBSET Thread
    BY DEF Idle
  <2>2. Alert(Idle', asleep', 0)
    BY <2>1, AlertNone
  <2>3. Len(unusedQueue') = 0
    BY <1>1
  <2> QED
    BY <2>2, <2>3 DEF IdleAlert, Alert
<1>4. threads[w].at \in {"got", "start"} <=> threads'[w].at \in {"got", "start"}
  BY <1>1
<1>5. ASSUME NEW o \in Pool PROVE PoolAlert(o)' /\ ConservingInv(o)'
  <2>1. Count(unusedQueue', o) = Count(unusedQueue, o)
    BY <1>1
  <2>2. Coming(o)' = Coming(o)
    BY <1>1, <1>4, <2>1, ComingStays
  <2> QED
    BY <1>1, <2>2, UnnoticedServed
<1> QED
  BY <1>2, <1>3, <1>5, ServedStep

LEMMA ServedTakes ==
  ASSUME Base, Base', Served, NEW w \in Thread, Takes(w)
  PROVE  Served'
<1>1. Types /\ Types' /\ HandOverReached /\ IdleAlert
  BY ServedParts DEF Base
<1>2. /\ Unnoticed(w) /\ Others(w) /\ threads[w].at \in {"enter", "idle"} /\ threads[w].pool = None
      /\ unusedQueue # <<>> /\ unusedQueue' = Tail(unusedQueue) /\ asleep' = asleep \ {w}
      /\ threads'[w].at # "idle"
      /\ \/ Head(unusedQueue) = Marker /\ threads'[w].at = "marker" /\ threads'[w].pool = None
         \/ /\ Head(unusedQueue) \in Pool /\ threads'[w].at = "got"
            /\ threads'[w].pool = Head(unusedQueue)
  BY DEF Takes, Unnoticed
<1>3. /\ unusedQueue \in Seq(Pool \cup {Marker}) /\ Len(unusedQueue) \in Nat
      /\ DOMAIN unusedQueue = 1 .. Len(unusedQueue) /\ Idle \in SUBSET Thread
  BY <1>1, QueueTypes
<1>4. /\ DOMAIN unusedQueue' = 1 .. (Len(unusedQueue) - 1) /\ Len(unusedQueue) >= 1
      /\ Len(unusedQueue') = Len(unusedQueue) - 1
      /\ \A i \in 1 .. (Len(unusedQueue) - 1) : unusedQueue'[i] = unusedQueue[i + 1]
  BY <1>2, <1>3
<1>5. Cardinality(Idle) \in Nat
  BY <1>3, ThreadSets
<1>6. HandOverReached'
  <2>1. \A i \in DOMAIN unusedQueue : unusedQueue[i] \in Pool => i <= Cardinality(Idle)
    BY <1>1 DEF HandOverReached
  <2>2. Cardinality(Idle') =
           Cardinality(Idle) + Bit(threads'[w].at = "idle") - Bit(threads[w].at = "idle")
    BY <1>2, IdleStep
  <2>3. Bit(threads'[w].at = "idle") = 0 /\ Bit(threads[w].at = "idle") \in {0, 1}
    BY <1>2 DEF Bit
  <2> HIDE DEF Idle
  <2>4. Cardinality(Idle') >= Cardinality(Idle) - 1 /\ Cardinality(Idle') \in Int
    BY <1>5, <2>2, <2>3
  <2>5. ASSUME NEW i \in DOMAIN unusedQueue', unusedQueue'[i] \in Pool
        PROVE  i <= Cardinality(Idle')
    <3>1. i \in Nat /\ i + 1 \in DOMAIN unusedQueue /\ unusedQueue[i + 1] \in Pool
      BY <1>3, <1>4, <2>5
    <3>2. i + 1 <= Cardinality(Idle)
      BY <2>1, <3>1
    <3> QED
      BY <1>5, <2>4, <3>1, <3>2
  <2> QED
    BY <2>5 DEF HandOverReached
<1>7. IdleAlert'
  <2>1. Idle' = Idle \ {w}
    <3>1. /\ Idle = {v \in Thread : threads[v].at = "idle"}
          /\ Idle' = {v \in Thread : threads'[v].at = "idle"}
      BY DEF Idle, At
    <3>2. \A v \in Thread : threads'[v].at = "idle" <=> threads[v].at = "idle" /\ v # w
      BY <1>2 DEF Others
    <3> QED
      BY <3>1, <3>2
  <2>2. Alert(Idle, asleep, Len(unusedQueue))
    BY <1>1 DEF IdleAlert
  <2>3. /\ Len(unusedQueue) - 1 \in Nat /\ Len(unusedQueue) - 1 <= Len(unusedQueue)
        /\ Len(unusedQueue) - 1 <= Len(unusedQueue) - 1
    BY <1>3, <1>4
  <2> HIDE DEF Idle
  <2>4. Alert(Idle \ {w}, asleep \ {w}, Len(unusedQueue) - 1)
    BY <1>3, <2>2, <2>3, AlertGone
  <2> QED
    BY <1>2, <1>4, <2>1, <2>4 DEF IdleAlert, Alert
<1>8. ASSUME NEW o \in Pool PROVE PoolAlert(o)' /\ ConservingInv(o)'
  <2>1. Coming(o)' = Coming(o)
    <3>1. /\ Coming(o) = Cardinality(Arriving(o)) + Count(unusedQueue, o)
          /\ Cardinality(Arriving(o)) \in Nat /\ Count(unusedQueue, o) \in Nat
      BY <1>1, ComingIs
    <3>2. Coming(o)' = Cardinality(Arriving(o)') + Count(unusedQueue', o)
      BY DEF Coming, Arriving, Count
    <3>3. Cardinality(Arriving(o)') = Cardinality(Arriving(o))
             + Bit(Arrives(threads'[w], o)) - Bit(Arrives(threads[w], o))
      BY <1>2, ArrivingStep
    <3>4. Count(unusedQueue, o) = Count(unusedQueue', o) + Bit(Head(unusedQueue) = o)
      BY <1>2, <1>3, CountTail
    <3>5. o # None /\ o # Marker
      BY PoolAssumption
    <3>6. /\ Bit(Arrives(threads[w], o)) = 0
          /\ Bit(Arrives(threads'[w], o)) = Bit(Head(unusedQueue) = o)
          /\ Bit(Head(unusedQueue) = o) \in {0, 1}
      BY <1>2, <3>5 DEF Bit, Arrives
    <3>7. unusedQueue' \in Seq(Pool \cup {Marker})
      BY <1>1 DEF Types
    <3>8. Count(unusedQueue', o) \in Nat
      BY <3>7, CountNat
    <3> HIDE DEF Coming, Arriving, Count
    <3> QED
      BY <3>1, <3>2, <3>3, <3>4, <3>6, <3>8
  <2>2. \A v \in asleep' : v \in asleep \/ v = w
    BY <1>2
  <2> QED
    BY <1>2, <2>1, <2>2, UnnoticedServed
<1> QED
  BY <1>6, <1>7, <1>8, ServedStep

LEMMA ServedInit == Init => Served
<1> SUFFICES ASSUME Init PROVE Served
  OBVIOUS
<1>1. /\ unusedQueue = <<>> /\ Len(unusedQueue) = 0
      /\ \A p \in Pool : pools[p].queue = <<>> /\ Len(pools[p].queue) = 0 /\ pools[p].phase = "none"
  BY DEF Init, NoPool
<1>2. HandOverReached
  BY <1>1 DEF HandOverReached
<1>3. Idle \in SUBSET Thread /\ \A p : Waiters(p) \in SUBSET Thread
  BY DEF Idle, Waiters
<1>4. IdleAlert
  <2>1. Alert(Idle, asleep, 0)
    BY <1>3, AlertNone
  <2> QED
    BY <1>1, <2>1 DEF IdleAlert
<1>5. ASSUME NEW p \in Pool PROVE PoolAlert(p) /\ ConservingInv(p)
  <2>1. Alert(Waiters(p), asleep, 0)
    BY <1>3, AlertNone
  <2>2. PoolAlert(p)
    BY <1>1, <2>1 DEF PoolAlert
  <2>3. ConservingInv(p)
    BY <1>1 DEF ConservingInv
  <2> QED
    BY <2>2, <2>3
<1> QED
  BY <1>2, <1>4, <1>5, AlertIs DEF Served

LEMMA ServedNext ==
  ASSUME Base, Base', Served, [Next]_vars
  PROVE  Served'
<1>1. CASE Stays
  BY <1>1, ServedStays
<1>2. ASSUME NEW p \in Pool, CallStep(p) PROVE Served'
  <2>1. ASSUME NEW max \in Limits, NEW exclusive \in BOOLEAN, NewFull(p, max, exclusive) PROVE Served'
    BY <2>1, ServedNewFull
  <2>2. ASSUME NEW max \in NewLimits, SetMaxThreads(p, max) PROVE Served'
    BY <2>2, ServedSetMaxThreads
  <2>3. ASSUME NEW t \in Task, Push(p, t) PROVE Served'
    BY <2>3, ServedPush
  <2>4. ASSUME NEW t \in Task, MoveToFront(p, t) PROVE Served'
    BY <2>4, ServedMoveToFront
  <2>5. ASSUME NEW imm \in BOOLEAN, NEW wait \in BOOLEAN, Free(p, imm, wait) PROVE Served'
    BY <2>5, ServedFree
  <2>6. CASE StartNext(p)
    BY <2>6, ServedStartNext
  <2>7. CASE FreerStep(p, "wait") \/ FreerStep(p, "check")
    BY <2>7, ServedFreerStep
  <2>8. CASE FreeEnds(p)
    BY <2>8, ServedFreeEnds
  <2> QED
    BY <1>2, <2>1, <2>2, <2>3, <2>4, <2>5, <2>6, <2>7, <2>8 DEF CallStep
<1>3. ASSUME NEW w \in Thread, GlobalMove(w) PROVE Served'
  BY <1>3, ServedWalks, ServedTakes, ServedRests DEF GlobalMove
<1>4. ASSUME NEW w \in Thread, NEW p \in Pool, PoolStep(w, p) PROVE Served'
  BY <1>4, ServedPoolStep
<1>5. ASSUME NEW w \in Thread, FuncReturns(w) PROVE Served'
  BY <1>5, ServedFuncReturns
<1> QED
  BY <1>1, <1>2, <1>3, <1>4, <1>5, StepKinds

\* A pool whose mutex is not held.
LEMMA ServedConserves ==
  ASSUME Base, Served
  PROVE  NoTaskStranded
<1>1. HandOverReached /\ NoLostSignal
  BY DEF Served
<1>2. ASSUME NEW p \in Pool, Usable(p), failures = 0, Length(p) > Coming(p) PROVE Enough(p)
  <2>1. Types /\ ConservingInv(p)
    BY ServedParts DEF Base
  <2>2. pools[p].phase = "live" /\ pools[p].running = TRUE /\ pools[p].toStart = 0
    BY <1>2, UsableIs
  <2>3. Length(p) \in Int /\ Coming(p) \in Nat /\ pools[p].num \in Nat
    BY <2>1, LengthType, ComingIs, PoolTypes
  <2>4. CASE pools[p].exclusive
    <3>1. pools[p].max # -1 /\ pools[p].num + 0 >= pools[p].max
      BY <1>2, <2>1, <2>2, <2>4 DEF ConservingInv
    <3> QED
      BY <2>3, <3>1 DEF Enough
  <2>5. CASE ~pools[p].exclusive
    <3> HIDE DEF Length, Coming, Enough
    <3>1. Length(p) > Coming(p) + pools[p].toStart => Enough(p)
      BY <1>2, <2>1, <2>2, <2>5 DEF ConservingInv
    <3>2. Coming(p) + pools[p].toStart = Coming(p)
      BY <2>2, <2>3
    <3> QED
      BY <1>2, <3>1, <3>2
  <2> QED
    BY <2>4, <2>5
<1>3. WorkConserving
  BY <1>2 DEF WorkConserving
<1> QED
  BY <1>1, <1>3 DEF NoTaskStranded

LEMMA AbandonsServed ==
  ASSUME Base, Served, NEW p \in Pool, Abandons(p)
  PROVE  NoTaskStranded'
<1>1. /\ threads' = threads /\ unusedQueue' = unusedQueue /\ asleep' = asleep
      /\ failures' = failures + 1 /\ failures \in Nat
      /\ \A o \in Pool : pools'[o].queue = pools[o].queue
  BY DEF Abandons, OtherPools, Base, Types
<1>2. HandOverReached'
  BY <1>1 DEF Served, HandOverReached, Idle, At
<1>3. NoLostSignal'
  BY <1>1 DEF Served, NoLostSignal, Idle, At, Waiters, Awake
<1>4. WorkConserving'
  BY <1>1 DEF WorkConserving
<1> QED
  BY <1>2, <1>3, <1>4 DEF NoTaskStranded

\* No task waits for a thread that does not come: every pool in the global queue is
\* reached, no signal gets lost, and a pool with more tasks than threads to come for them
\* has all the threads it may have, for any number of pools, threads and tasks.
THEOREM TasksServed == Spec => []NoTaskStranded
<1>1. Init => Base /\ Served
  BY BaseInit, ServedInit
<1>2. Base /\ Served /\ [Next]_vars => (Base /\ Served)' \/ (~Sound /\ NoTaskStranded)'
  <2> SUFFICES ASSUME Base, Served, [Next]_vars
               PROVE  (Base' /\ Served') \/ (~Sound' /\ NoTaskStranded')
    OBVIOUS
  <2>1. CASE Base'
    BY <2>1, ServedNext
  <2>2. ASSUME NEW p \in Pool, Abandons(p) PROVE ~Sound' /\ NoTaskStranded'
    BY <2>2, AbandonsUnsound, AbandonsServed
  <2> QED
    BY <2>1, <2>2, BaseNext
<1>3. ~Sound /\ NoTaskStranded /\ [Next]_vars => (~Sound /\ NoTaskStranded)'
  <2> SUFFICES ASSUME ~Sound, NoTaskStranded, [Next]_vars PROVE (~Sound /\ NoTaskStranded)'
    OBVIOUS
  <2>1. UNCHANGED vars
    BY AbandonedStays
  <2>2. HandOverReached' /\ NoLostSignal'
    BY <2>1 DEF vars, unusedVars, NoTaskStranded, HandOverReached, NoLostSignal, Idle, At, Waiters,
                Awake
  <2>3. WorkConserving'
    BY <2>1 DEF vars, unusedVars, historyVars, NoTaskStranded, WorkConserving, Usable, Unlocked,
                Length, Waiters, Coming, Members, Enough, At
  <2> QED
    BY <2>1, <2>2, <2>3 DEF vars, Sound, Abandoned, NoTaskStranded
<1>4. Base /\ Served => NoTaskStranded
  BY ServedConserves
<1> QED
  BY <1>1, <1>2, <1>3, <1>4, PTL DEF Spec

--------------------------------------------------------------------------------
(* What TaskPool sees of a step. *)

Stages == [p \in Pool |-> Stage(p)]
Outcomes == [t \in Task |-> Outcome(t)]
OtherStages(p) == \A o \in Pool \ {p} : Stage(o)' = Stage(o)
Kept == /\ \A p \in Pool : Stage(p)' = Stage(p)
        /\ \A t \in Task : Outcome(t)' = Outcome(t)
Seen == Promise!Next \/ Kept

LEMMA SeesMove ==
  ASSUME NEW p \in Pool, NEW to, OtherStages(p), Stage(p)' = to
  PROVE  Promise!Move(p, Stage(p), to)
<1>1. Stages' = [Stages EXCEPT ![p] = to]
  BY DEF Stages, OtherStages
<1>2. Stages[p] = Stage(p)
  BY DEF Stages
<1> QED
  BY <1>1, <1>2 DEF Promise!Move, Stages

LEMMA SeesAdvance ==
  ASSUME NEW p \in Pool, NEW step, NEW S,
         \A t \in Task : Outcome(t)' = IF t \in S THEN In(step, p) ELSE Outcome(t)
  PROVE  Promise!Advance(S, p, step)
<1>1. Outcomes' = [t \in Task |-> IF t \in S THEN In(step, p) ELSE Outcomes[t]]
  BY DEF Outcomes
<1> QED
  BY <1>1 DEF Promise!Advance, Promise!In, In, Outcomes

LEMMA SameStages ==
  ASSUME \A p \in Pool : Stage(p)' = Stage(p)
  PROVE  Stages' = Stages
  BY DEF Stages

LEMMA SameOutcomes ==
  ASSUME \A t \in Task : Outcome(t)' = Outcome(t)
  PROVE  Outcomes' = Outcomes
  BY DEF Outcomes

LEMMA SeesOpen ==
  ASSUME NEW p \in Pool, OtherStages(p), Stage(p) = "none", Stage(p)' = "open",
         \A t \in Task : Outcome(t)' = Outcome(t)
  PROVE  Promise!Next
<1>1. Promise!Move(p, "none", "open")
  BY SeesMove
<1>2. Outcomes' = Outcomes
  BY SameOutcomes
<1>3. Promise!Open(p)
  BY <1>1, <1>2 DEF Promise!Open, Outcomes
<1> QED
  BY <1>3 DEF Promise!Next

LEMMA SeesClose ==
  ASSUME NEW p \in Pool, OtherStages(p), Stage(p) = "open", Stage(p)' \in {"draining", "stopping"},
         \A t \in Task : Outcome(t)' = Outcome(t)
  PROVE  Promise!Next
<1>1. Promise!Move(p, "open", "draining") \/ Promise!Move(p, "open", "stopping")
  BY SeesMove
<1>2. Outcomes' = Outcomes
  BY SameOutcomes
<1>3. Promise!Close(p)
  BY <1>1, <1>2 DEF Promise!Close, Outcomes
<1> QED
  BY <1>3 DEF Promise!Next

LEMMA SeesSubmit ==
  ASSUME NEW p \in Pool, NEW t \in Task, Stage(p) = "open", Outcome(t) = New,
         \A o \in Pool : Stage(o)' = Stage(o),
         \A s \in Task : Outcome(s)' = IF s \in {t} THEN In("queued", p) ELSE Outcome(s)
  PROVE  Promise!Next
<1>1. Promise!Advance({t}, p, "queued")
  BY SeesAdvance
<1>2. Stages' = Stages /\ Stages[p] = "open" /\ Outcomes[t] = New
  BY SameStages DEF Stages, Outcomes
<1>3. Promise!Submit(p, t)
  BY <1>1, <1>2 DEF Promise!Submit, Promise!New, New, Stages, Outcomes
<1> QED
  BY <1>3 DEF Promise!Next

LEMMA SeesBegin ==
  ASSUME NEW p \in Pool, NEW t \in Task, Stage(p) \in {"open", "draining"},
         Outcome(t) = In("queued", p), \A o \in Pool : Stage(o)' = Stage(o),
         \A s \in Task : Outcome(s)' = IF s \in {t} THEN In("running", p) ELSE Outcome(s)
  PROVE  Promise!Next
<1>1. Promise!Advance({t}, p, "running")
  BY SeesAdvance
<1>2. Stages' = Stages /\ Stages[p] \in {"open", "draining"} /\ Outcomes[t] = In("queued", p)
  BY SameStages DEF Stages, Outcomes
<1>3. Promise!Begin(p, t)
  BY <1>1, <1>2 DEF Promise!Begin, Promise!In, In, Stages, Outcomes
<1> QED
  BY <1>3 DEF Promise!Next

LEMMA SeesFinish ==
  ASSUME NEW p \in Pool, NEW t \in Task,
         Outcome(t) = In("running", p), \A o \in Pool : Stage(o)' = Stage(o),
         \A s \in Task : Outcome(s)' = IF s \in {t} THEN In("done", p) ELSE Outcome(s)
  PROVE  Promise!Next
<1>1. Promise!Advance({t}, p, "done")
  BY SeesAdvance
<1>2. Stages' = Stages /\ Outcomes[t] = In("running", p)
  BY SameStages DEF Outcomes
<1>3. Promise!Finish(p, t)
  BY <1>1, <1>2 DEF Promise!Finish, Promise!In, In, Stages, Outcomes
<1> QED
  BY <1>3 DEF Promise!Next

LEMMA SeesDrop ==
  ASSUME NEW p \in Pool, NEW t \in Task, Stage(p) = "stopping",
         Outcome(t) = In("queued", p), \A o \in Pool : Stage(o)' = Stage(o),
         \A s \in Task : Outcome(s)' = IF s \in {t} THEN In("dropped", p) ELSE Outcome(s)
  PROVE  Promise!Next
<1>1. Promise!Advance({t}, p, "dropped")
  BY SeesAdvance
<1>2. Stages' = Stages /\ Stages[p] = "stopping" /\ Outcomes[t] = In("queued", p)
  BY SameStages DEF Stages, Outcomes
<1>3. Promise!Drop(p, t)
  BY <1>1, <1>2 DEF Promise!Drop, Promise!In, In, Stages, Outcomes
<1> QED
  BY <1>3 DEF Promise!Next

LEMMA SeesTasks ==
  ASSUME NEW p, NEW step
  PROVE  Promise!Tasks(step, p) = {t \in Task : Outcome(t) = In(step, p)}
  BY DEF Promise!Tasks, Promise!In, In

LEMMA SeesDrained ==
  ASSUME NEW p \in Pool, OtherStages(p), Stage(p) = "draining", Stage(p)' = "stopping",
         \A t \in Task : Outcome(t) # In("queued", p),
         \A t \in Task : Outcome(t)' = Outcome(t)
  PROVE  Promise!Next
<1>1. Promise!Move(p, "draining", "stopping")
  BY SeesMove
<1>2. Outcomes' = Outcomes
  BY SameOutcomes
<1>3. Promise!Tasks("queued", p) = {}
  BY SeesTasks
<1>4. Promise!Drained(p)
  BY <1>1, <1>2, <1>3 DEF Promise!Drained, Outcomes
<1> QED
  BY <1>4 DEF Promise!Next

LEMMA SeesRelease ==
  ASSUME NEW p \in Pool, OtherStages(p), Stage(p) \in {"draining", "stopping"}, Stage(p)' = "freed",
         Stage(p) = "draining" => \A t \in Task : Outcome(t) # In("queued", p),
         \A t \in Task : Outcome(t) # In("running", p),
         \A t \in Task : Outcome(t)' =
           IF Outcome(t) = In("queued", p) THEN In("dropped", p) ELSE Outcome(t)
  PROVE  Promise!Next
<1>1. Promise!Move(p, Stage(p), "freed")
  BY SeesMove
<1>2. Promise!Tasks("running", p) = {}
  BY SeesTasks
<1>3. Stage(p) = "draining" => Promise!Tasks("queued", p) = {}
  BY SeesTasks
<1>4. \A t \in Task : Outcome(t)' =
        IF t \in Promise!Tasks("queued", p) THEN In("dropped", p) ELSE Outcome(t)
  BY SeesTasks
<1>5. Promise!Advance(Promise!Tasks("queued", p), p, "dropped")
  BY <1>4, SeesAdvance
<1>6. Promise!Release(p)
  BY <1>1, <1>2, <1>3, <1>5 DEF Promise!Release
<1> QED
  BY <1>6 DEF Promise!Next

--------------------------------------------------------------------------------
(* Stages and outcomes. *)

LEMMA StageIs ==
  ASSUME NEW p \in Pool
  PROVE  /\ pools[p].phase \in {"none", "new"} => Stage(p) = "none"
         /\ pools[p].phase = "freed" /\ pools[p].freer = "out" => Stage(p) = "none"
         /\ pools[p].phase = "freed" /\ pools[p].freer # "out" => Stage(p) = "freed"
         /\ pools[p].phase = "live" /\ pools[p].running = TRUE => Stage(p) = "open"
         /\ pools[p].phase = "live" /\ pools[p].running = FALSE /\ pools[p].immediate = TRUE
              => Stage(p) = "stopping"
         /\ pools[p].phase = "live" /\ pools[p].running = FALSE /\ pools[p].immediate = FALSE
              => Stage(p) = "draining"
  BY DEF Stage

LEMMA StageBecomes ==
  ASSUME NEW p \in Pool
  PROVE  /\ pools'[p].phase \in {"none", "new"} => Stage(p)' = "none"
         /\ pools'[p].phase = "freed" /\ pools'[p].freer = "out" => Stage(p)' = "none"
         /\ pools'[p].phase = "freed" /\ pools'[p].freer # "out" => Stage(p)' = "freed"
         /\ pools'[p].phase = "live" /\ pools'[p].running = TRUE => Stage(p)' = "open"
         /\ pools'[p].phase = "live" /\ pools'[p].running = FALSE /\ pools'[p].immediate = TRUE
              => Stage(p)' = "stopping"
         /\ pools'[p].phase = "live" /\ pools'[p].running = FALSE /\ pools'[p].immediate = FALSE
              => Stage(p)' = "draining"
  BY DEF Stage

LEMMA OthersStay ==
  ASSUME NEW p \in Pool, OtherPools(p)
  PROVE  OtherStages(p)
  BY DEF OtherPools, OtherStages, Stage

LEMMA StagesStay ==
  ASSUME NEW p \in Pool, OtherPools(p), Stage(p)' = Stage(p)
  PROVE  \A o \in Pool : Stage(o)' = Stage(o)
  BY OthersStay DEF OtherStages

LEMMA OutcomeIs ==
  ASSUME Types, NEW t \in Task
  PROVE  /\ fate[t] = New => Outcome(t) = New
         /\ \A p \in Pool, step \in {"queued", "running"} :
              Outcome(t) = In(step, p) <=> fate[t] = In(step, p)
<1>1. fate[t] \in Fates
  BY DEF Types
<1>2. CASE fate[t] = New
  BY <1>2 DEF New, In, Outcome
<1>3. ASSUME NEW a \in {"queued", "running", "done", "lost", "freed"}, NEW o \in Pool,
             fate[t] = <<a, o>>
      PROVE  \A p \in Pool, step \in {"queued", "running"} :
               Outcome(t) = In(step, p) <=> fate[t] = In(step, p)
  BY <1>3 DEF In, Outcome
<1> QED
  BY <1>1, <1>2, <1>3, NewIs DEF Fates

LEMMA OutcomeBecomes ==
  ASSUME NEW t \in Task
  PROVE  /\ fate'[t] = fate[t] => Outcome(t)' = Outcome(t)
         /\ \A p \in Pool : /\ fate'[t] = In("lost", p) => Outcome(t)' = In("dropped", p)
                            /\ fate'[t] = In("freed", p) => Outcome(t)' = In("dropped", p)
                            /\ fate'[t] = In("queued", p) => Outcome(t)' = In("queued", p)
                            /\ fate'[t] = In("running", p) => Outcome(t)' = In("running", p)
                            /\ fate'[t] = In("done", p) => Outcome(t)' = In("done", p)
  BY DEF Outcome, In

LEMMA OutcomeStep ==
  ASSUME Types, NEW p \in Pool, NEW t \in Task, NEW step \in {"queued", "running", "done"},
         fate' = [fate EXCEPT ![t] = In(step, p)]
  PROVE  \A s \in Task : Outcome(s)' = IF s \in {t} THEN In(step, p) ELSE Outcome(s)
<1>1. fate'[t] = In(step, p) /\ \A s \in Task \ {t} : fate'[s] = fate[s]
  BY FateStep
<1>2. Outcome(t)' = In(step, p)
  BY <1>1, OutcomeBecomes
<1>3. \A s \in Task \ {t} : Outcome(s)' = Outcome(s)
  BY <1>1, OutcomeBecomes
<1> QED
  BY <1>2, <1>3

LEMMA OutcomesStay ==
  ASSUME \A t \in Task : fate'[t] = fate[t]
  PROVE  \A t \in Task : Outcome(t)' = Outcome(t)
  BY OutcomeBecomes

--------------------------------------------------------------------------------
(* The steps of GThreadPool, as TaskPool sees them. *)

LEMMA KeptWhole ==
  ASSUME pools' = pools, fate' = fate
  PROVE  Seen
<1>1. \A p \in Pool : Stage(p)' = Stage(p)
  BY DEF Stage
<1>2. \A t \in Task : Outcome(t)' = Outcome(t)
  BY OutcomesStay
<1> QED
  BY <1>1, <1>2 DEF Seen, Kept

\* A pool that stays in its stage, and no task moves.
LEMMA KeptPool ==
  ASSUME NEW p \in Pool, OtherPools(p), Stage(p)' = Stage(p), \A t \in Task : fate'[t] = fate[t]
  PROVE  Seen
<1>1. \A o \in Pool : Stage(o)' = Stage(o)
  BY StagesStay
<1>2. \A t \in Task : Outcome(t)' = Outcome(t)
  BY OutcomesStay
<1> QED
  BY <1>1, <1>2 DEF Seen, Kept

LEMMA SeenNewFull ==
  ASSUME Base, NEW p \in Pool, NEW max \in Limits, NEW exclusive \in BOOLEAN,
         NewFull(p, max, exclusive)
  PROVE  Seen
<1>1. /\ OtherPools(p) /\ pools[p].phase = "none" /\ pools'[p].running = TRUE
      /\ pools'[p].phase \in {"new", "live"} /\ fate' = fate
  BY NewFullDid
<1>2. Stage(p) = "none"
  BY <1>1, StageIs
<1>3. CASE pools'[p].phase = "new"
  <2>1. Stage(p)' = "none"
    BY <1>3, StageBecomes
  <2> QED
    BY <1>1, <1>2, <2>1, KeptPool
<1>4. CASE pools'[p].phase = "live"
  <2>1. Stage(p)' = "open"
    BY <1>1, <1>4, StageBecomes
  <2>2. \A t \in Task : Outcome(t)' = Outcome(t)
    BY <1>1, OutcomesStay
  <2>3. OtherStages(p)
    BY <1>1, OthersStay
  <2> QED
    BY <1>2, <2>1, <2>2, <2>3, SeesOpen DEF Seen
<1> QED
  BY <1>1, <1>3, <1>4

\* A client uses a pool, which stays open.
LEMMA StaysOpen ==
  ASSUME Base, NEW p \in Pool, Usable(p), pools'[p].phase = "live", pools'[p].running = TRUE
  PROVE  Stage(p) = "open" /\ Stage(p)' = Stage(p)
<1>1. pools[p].phase = "live" /\ pools[p].running = TRUE
  BY UsableIs
<1> QED
  BY <1>1, StageIs, StageBecomes

LEMMA SeenSetMaxThreads ==
  ASSUME Base, NEW p \in Pool, NEW max \in NewLimits, SetMaxThreads(p, max)
  PROVE  Seen
<1>1. /\ OtherPools(p) /\ Usable(p) /\ pools'[p].phase = "live" /\ pools'[p].running = TRUE
      /\ fate' = fate
  BY SetMaxThreadsDid
<1>2. Stage(p)' = Stage(p)
  BY <1>1, StaysOpen
<1> QED
  BY <1>1, <1>2, KeptPool

LEMMA SeenMoveToFront ==
  ASSUME Base, NEW p \in Pool, NEW t \in Task, MoveToFront(p, t)
  PROVE  Seen
<1>1. PICK i \in DOMAIN pools[p].queue :
           /\ Becomes(p, "live", pools[p].max, pools[p].num, TRUE, pools[p].immediate,
                      pools[p].waiting, MovedToFront(pools[p].queue, i), 0, "out")
           /\ Usable(p) /\ fate' = fate
  BY MoveToFrontDid
<1>2. OtherPools(p) /\ pools'[p].phase = "live" /\ pools'[p].running = TRUE
  BY <1>1 DEF Becomes
<1>3. Stage(p)' = Stage(p)
  BY <1>1, <1>2, StaysOpen
<1> QED
  BY <1>1, <1>2, <1>3, KeptPool

LEMMA SeenPush ==
  ASSUME Base, NEW p \in Pool, NEW t \in Task, Push(p, t)
  PROVE  Seen
<1>1. Types
  BY DEF Base
<1>2. /\ Usable(p) /\ fate[t] = New /\ fate' = [fate EXCEPT ![t] = In("queued", p)]
      /\ \E r \in PushStart(p), X \in Signal(Waiters(p), 1) :
           Becomes(p, "live", pools[p].max, pools[p].num + r.n, TRUE, pools[p].immediate,
                   pools[p].waiting, Append(pools[p].queue, t), 0, "out")
  BY PushDid
<1>3. OtherPools(p) /\ pools'[p].phase = "live" /\ pools'[p].running = TRUE
  BY <1>2 DEF Becomes
<1>4. Stage(p) = "open" /\ Stage(p)' = Stage(p)
  BY <1>2, <1>3, StaysOpen
<1>5. \A o \in Pool : Stage(o)' = Stage(o)
  BY <1>3, <1>4, StagesStay
<1>6. Outcome(t) = New
  BY <1>1, <1>2, OutcomeIs
<1>7. \A s \in Task : Outcome(s)' = IF s \in {t} THEN In("queued", p) ELSE Outcome(s)
  BY <1>1, <1>2, OutcomeStep
<1> QED
  BY <1>4, <1>5, <1>6, <1>7, SeesSubmit DEF Seen

LEMMA SeenFree ==
  ASSUME Base, NEW p \in Pool, NEW imm \in BOOLEAN, NEW wait \in BOOLEAN, Free(p, imm, wait)
  PROVE  Seen
<1>1. /\ Becomes(p, "live", pools[p].max, pools[p].num, FALSE, imm, wait, pools[p].queue, 0,
                 "check")
      /\ Usable(p) /\ fate' = fate
  BY FreeDid
<1>2. /\ OtherPools(p) /\ pools'[p].phase = "live" /\ pools'[p].running = FALSE
      /\ pools'[p].immediate = imm
  BY <1>1 DEF Becomes
<1>3. pools[p].phase = "live" /\ pools[p].running = TRUE
  BY <1>1, UsableIs
<1>4. Stage(p) = "open"
  BY <1>3, StageIs
<1>5. Stage(p)' \in {"draining", "stopping"}
  BY <1>2, StageBecomes
<1>6. OtherStages(p)
  BY <1>2, OthersStay
<1>7. \A t \in Task : Outcome(t)' = Outcome(t)
  BY <1>1, OutcomesStay
<1> QED
  BY <1>4, <1>5, <1>6, <1>7, SeesClose DEF Seen

LEMMA SeenStartNext ==
  ASSUME Base, NEW p \in Pool, StartNext(p)
  PROVE  Seen
<1>1. /\ pools[p].running = TRUE /\ pools[p].phase \in {"new", "live"} /\ fate' = fate
      /\ \E r \in StartThread(p), left \in Nat, phase \in {"new", "live", "freed"} :
              /\ phase = IF pools[p].phase = "live" \/ left > 0 THEN pools[p].phase
                         ELSE IF r.failed THEN "freed" ELSE "live"
              /\ Becomes(p, phase, pools[p].max, pools[p].num + r.n, TRUE, pools[p].immediate,
                         pools[p].waiting, pools[p].queue, left, "out")
  BY StartNextDid
<1>2. /\ OtherPools(p) /\ pools'[p].running = TRUE /\ pools'[p].freer = "out"
      /\ pools'[p].phase \in {"new", "live", "freed"}
      /\ pools[p].phase = "live" => pools'[p].phase = "live"
  BY <1>1 DEF Becomes
<1>3. CASE pools[p].phase = "live"
  <2>1. Stage(p) = "open" /\ Stage(p)' = "open"
    BY <1>1, <1>2, <1>3, StageIs, StageBecomes
  <2> QED
    BY <1>1, <1>2, <2>1, KeptPool
<1>4. CASE pools[p].phase = "new" /\ pools'[p].phase \in {"new", "freed"}
  <2>1. Stage(p) = "none" /\ Stage(p)' = "none"
    BY <1>2, <1>4, StageIs, StageBecomes
  <2> QED
    BY <1>1, <1>2, <2>1, KeptPool
<1>5. CASE pools[p].phase = "new" /\ pools'[p].phase = "live"
  <2>1. Stage(p) = "none" /\ Stage(p)' = "open"
    BY <1>2, <1>5, StageIs, StageBecomes
  <2>2. OtherStages(p)
    BY <1>2, OthersStay
  <2>3. \A t \in Task : Outcome(t)' = Outcome(t)
    BY <1>1, OutcomesStay
  <2> QED
    BY <2>1, <2>2, <2>3, SeesOpen DEF Seen
<1> QED
  BY <1>1, <1>2, <1>3, <1>4, <1>5

LEMMA SeenFreerStep ==
  ASSUME Base, NEW p \in Pool, NEW freer, FreerStep(p, freer)
  PROVE  Seen
<1>1. /\ pools[p].freer \in {"check", "wait", "woken"} /\ OtherPools(p) /\ fate' = fate
      /\ pools'[p].phase = "live" /\ pools'[p].running = FALSE
      /\ pools'[p].immediate = pools[p].immediate
  BY DEF FreerStep, Becomes
<1>2. pools[p].phase = "live" /\ pools[p].running = FALSE
  BY <1>1, FreeingIs
<1>3. pools[p].immediate \in BOOLEAN
  BY PoolTypes DEF Base
<1>4. Stage(p)' = Stage(p)
  BY <1>1, <1>2, <1>3, StageIs, StageBecomes
<1> QED
  BY <1>1, <1>4, KeptPool

\* The queued tasks of a pool are those in its queue.
LEMMA QueuedIs ==
  ASSUME Base, Tasks, NEW p \in Pool, NEW t \in Task
  PROVE  Outcome(t) = In("queued", p) <=> Has(pools[p].queue, t)
<1>1. fate[t] = In("queued", p) <=> Has(pools[p].queue, t)
  BY DEF Tasks, QueueInv
<1>2. Outcome(t) = In("queued", p) <=> fate[t] = In("queued", p)
  BY OutcomeIs DEF Base
<1> QED
  BY <1>1, <1>2

LEMMA NothingQueued ==
  ASSUME Base, Tasks, NEW p \in Pool, Len(pools[p].queue) <= 0
  PROVE  \A t \in Task : Outcome(t) # In("queued", p)
<1>1. pools[p].queue \in Seq(Task \cup {Bogus}) /\ Len(pools[p].queue) \in Nat
  BY PoolTypes DEF Base
<1>2. pools[p].queue = <<>>
  BY <1>1
<1>3. \A t \in Task : ~Has(pools[p].queue, t)
  BY <1>2, EmptyHas
<1> QED
  BY <1>3, QueuedIs

\* When no thread of a pool runs a task, no task is running in it.
LEMMA NothingRuns ==
  ASSUME Base, Tasks, NEW p \in Pool,
         \A v \in Members(p) : threads[v].at # "func"
  PROVE  \A t \in Task : Outcome(t) # In("running", p)
<1>1. ASSUME NEW t \in Task, fate[t] = In("running", p) PROVE FALSE
  <2>1. PICK v \in Thread : Runner(v, t, p)
    BY <1>1 DEF Tasks, RunInv
  <2>2. v \in Members(p) /\ threads[v].at = "func"
    BY <2>1 DEF Runner, Members
  <2> QED
    BY <2>2
<1>2. \A t \in Task : Outcome(t) = In("running", p) <=> fate[t] = In("running", p)
  BY OutcomeIs DEF Base
<1> QED
  BY <1>1, <1>2

\* The free function gets what is left.
LEMMA ReleasedOutcomes ==
  ASSUME Base, Tasks, NEW p \in Pool, NEW q, NEW x, Emptied(p, q, x), Released(p, q, x)
  PROVE  \A t \in Task : Outcome(t)' =
           IF Outcome(t) = In("queued", p) THEN In("dropped", p) ELSE Outcome(t)
<1>0. q \in Seq(Task \cup {Bogus})
  BY DEF Emptied
<1>1. \A t \in Task : Has(pools[p].queue, t) <=> t = x \/ Has(q, t)
  BY DEF Emptied
<1>2. ASSUME NEW t \in Task
      PROVE  Outcome(t)' = IF Outcome(t) = In("queued", p) THEN In("dropped", p) ELSE Outcome(t)
  <2>1. fate'[t] = IF t = x THEN In("lost", p) ELSE IF Has(q, t) THEN In("freed", p) ELSE fate[t]
    BY <1>0, ReleasedIs
  <2>2. Outcome(t) = In("queued", p) <=> t = x \/ Has(q, t)
    BY <1>1, QueuedIs
  <2>3. CASE t = x \/ Has(q, t)
    <3>1. fate'[t] = In("lost", p) \/ fate'[t] = In("freed", p)
      BY <2>1, <2>3
    <3>2. Outcome(t)' = In("dropped", p)
      BY <3>1, OutcomeBecomes
    <3> QED
      BY <2>2, <2>3, <3>2
  <2>4. CASE ~(t = x \/ Has(q, t))
    <3>1. fate'[t] = fate[t]
      BY <2>1, <2>4
    <3>2. Outcome(t)' = Outcome(t)
      BY <3>1, OutcomeBecomes
    <3> QED
      BY <2>2, <2>4, <3>2
  <2> QED
    BY <2>3, <2>4
<1> QED
  BY <1>2

\* A pool goes, and its tasks with it.
LEMMA SeenReleased ==
  ASSUME Base, Tasks, NEW p \in Pool, OtherPools(p), NEW q, NEW x, Emptied(p, q, x),
         Released(p, q, x), pools[p].phase = "live", pools[p].running = FALSE,
         pools'[p].phase = "freed", pools'[p].freer = "done",
         \A v \in Members(p) : threads[v].at # "func",
         pools[p].immediate = FALSE => Len(pools[p].queue) <= 0
  PROVE  Seen
<1>1. pools[p].immediate \in BOOLEAN
  BY PoolTypes DEF Base
<1>2. /\ Stage(p) \in {"draining", "stopping"}
      /\ Stage(p) = "draining" => pools[p].immediate = FALSE
  BY <1>1, StageIs
<1>3. Stage(p)' = "freed"
  BY StageBecomes
<1>4. OtherStages(p)
  BY OthersStay
<1>5. Stage(p) = "draining" => \A t \in Task : Outcome(t) # In("queued", p)
  BY <1>2, NothingQueued
<1>6. \A t \in Task : Outcome(t) # In("running", p)
  BY NothingRuns
<1>7. \A t \in Task : Outcome(t)' =
        IF Outcome(t) = In("queued", p) THEN In("dropped", p) ELSE Outcome(t)
  BY ReleasedOutcomes
<1> QED
  BY <1>2, <1>3, <1>4, <1>5, <1>6, <1>7, SeesRelease DEF Seen

\* A pool with nothing left stops its threads.
LEMMA SeenStopped ==
  ASSUME Base, Tasks, NEW p \in Pool, OtherPools(p), pools[p].phase = "live",
         pools[p].running = FALSE, pools'[p].phase = "live", pools'[p].running = FALSE,
         pools'[p].immediate = TRUE, \A t \in Task : fate'[t] = fate[t],
         pools[p].immediate = FALSE => Len(pools[p].queue) <= 0
  PROVE  Seen
<1>1. pools[p].immediate \in BOOLEAN
  BY PoolTypes DEF Base
<1>2. Stage(p)' = "stopping"
  BY StageBecomes
<1>3. CASE pools[p].immediate = TRUE
  <2>1. Stage(p) = "stopping"
    BY <1>3, StageIs
  <2> QED
    BY <1>2, <2>1, KeptPool
<1>4. CASE pools[p].immediate = FALSE
  <2>1. Stage(p) = "draining"
    BY <1>4, StageIs
  <2>2. OtherStages(p)
    BY OthersStay
  <2>3. \A t \in Task : Outcome(t) # In("queued", p)
    BY <1>4, NothingQueued
  <2>4. \A t \in Task : Outcome(t)' = Outcome(t)
    BY OutcomesStay
  <2> QED
    BY <1>2, <2>1, <2>2, <2>3, <2>4, SeesDrained DEF Seen
<1> QED
  BY <1>1, <1>3, <1>4

LEMMA SeenFreeEnds ==
  ASSUME Base, Tasks, NEW p \in Pool, FreeEnds(p)
  PROVE  Seen
<1> DEFINE stop == pools[p].immediate \/ AllWait(p)
           q == pools[p].queue
<1>1. /\ pools[p].freer = "check"
      /\ \/ /\ stop /\ pools[p].num = 0 /\ Released(p, q, None)
            /\ Becomes(p, "freed", pools[p].max, pools[p].num, FALSE, pools[p].immediate,
                       pools[p].waiting, <<>>, 0, "done")
         \/ /\ stop /\ pools[p].num # 0 /\ fate' = fate
            /\ Becomes(p, "live", pools[p].max, pools[p].num, FALSE, TRUE,
                       FALSE, q \o [i \in 1 .. pools[p].num |-> Bogus], 0, "done")
         \/ /\ ~stop /\ fate' = fate
            /\ Becomes(p, "live", pools[p].max, pools[p].num, FALSE, pools[p].immediate,
                       FALSE, q, 0, "done")
  BY FreeEndsDid
<1>2. pools[p].phase = "live" /\ pools[p].running = FALSE
  BY <1>1, FreeingIs
<1>3. /\ Cardinality(Members(p)) \in Nat /\ Cardinality(Waiters(p)) \in Nat
      /\ Cardinality(Waiters(p)) <= Cardinality(Members(p))
  BY Sizes
<1>4. Types /\ CountInv(p)
  BY DEF Base
<1>5. /\ Count(unusedQueue, p) \in Nat /\ pools[p].num \in Nat /\ Len(q) \in Nat
      /\ pools[p].immediate \in BOOLEAN
  BY <1>4, ComingIs, PoolTypes
<1>6. pools[p].num = Cardinality(Members(p)) + Count(unusedQueue, p)
  BY <1>4 DEF CountInv
<1>7. AllWait(p) => Len(q) <= 0
  <2>1. AllWait(p) => Len(q) - Cardinality(Waiters(p)) = - pools[p].num
    BY DEF AllWait, Length
  <2> HIDE DEF q, AllWait
  <2> QED
    BY <1>3, <1>5, <1>6, <2>1
<1>8. CASE /\ stop /\ pools[p].num = 0 /\ Released(p, q, None)
           /\ Becomes(p, "freed", pools[p].max, pools[p].num, FALSE, pools[p].immediate,
                      pools[p].waiting, <<>>, 0, "done")
  <2>1. OtherPools(p) /\ pools'[p].phase = "freed" /\ pools'[p].freer = "done"
    BY <1>8 DEF Becomes
  <2>2. Members(p) = {}
    <3>1. Cardinality(Members(p)) = 0
      BY <1>3, <1>5, <1>6, <1>8
    <3> QED
      BY <3>1, NoMembers
  <2>3. pools[p].immediate = FALSE => Len(q) <= 0
    BY <1>7, <1>8
  <2>4. Emptied(p, q, None)
    BY EmptiedWhole
  <2> QED
    BY <1>2, <1>8, <2>1, <2>2, <2>3, <2>4, SeenReleased
<1>9. CASE /\ stop /\ pools[p].num # 0 /\ fate' = fate
           /\ Becomes(p, "live", pools[p].max, pools[p].num, FALSE, TRUE,
                      FALSE, q \o [i \in 1 .. pools[p].num |-> Bogus], 0, "done")
  <2>1. /\ OtherPools(p) /\ pools'[p].phase = "live" /\ pools'[p].running = FALSE
        /\ pools'[p].immediate = TRUE
    BY <1>9 DEF Becomes
  <2>2. pools[p].immediate = FALSE => Len(q) <= 0
    BY <1>7, <1>9
  <2>3. \A t \in Task : fate'[t] = fate[t]
    BY <1>9
  <2> QED
    BY <1>2, <2>1, <2>2, <2>3, SeenStopped
<1>10. CASE /\ ~stop /\ fate' = fate
            /\ Becomes(p, "live", pools[p].max, pools[p].num, FALSE, pools[p].immediate,
                       FALSE, q, 0, "done")
  <2>1. /\ OtherPools(p) /\ pools'[p].phase = "live" /\ pools'[p].running = FALSE
        /\ pools'[p].immediate = pools[p].immediate
    BY <1>10 DEF Becomes
  <2>2. Stage(p)' = Stage(p)
    BY <1>2, <1>5, <2>1, StageIs, StageBecomes
  <2>3. \A t \in Task : fate'[t] = fate[t]
    BY <1>10
  <2> QED
    BY <2>1, <2>2, <2>3, KeptPool
<1> QED
  BY <1>1, <1>8, <1>9, <1>10


LEMMA SeenBegins ==
  ASSUME Base, Tasks, NEW w \in Thread, NEW p \in Pool, Begins(w, p)
  PROVE  Seen
<1> DEFINE q == pools[p].queue
<1>1. Types
  BY DEF Base
<1>2. /\ Runs(p) /\ q # <<>> /\ Head(q) \in Task /\ OtherPools(p)
      /\ pools[p].phase = "live" /\ pools'[p].phase = "live"
      /\ pools'[p].running = pools[p].running /\ pools'[p].immediate = pools[p].immediate
      /\ fate' = [fate EXCEPT ![Head(q)] = In("running", p)]
  BY DEF Begins, Becomes
<1>3. pools[p].running \in BOOLEAN /\ pools[p].immediate \in BOOLEAN /\ q \in Seq(Task \cup {Bogus})
  BY <1>1, PoolTypes
<1>4. Stage(p) \in {"open", "draining"} /\ Stage(p)' = Stage(p)
  BY <1>2, <1>3, StageIs, StageBecomes DEF Runs
<1>5. \A o \in Pool : Stage(o)' = Stage(o)
  BY <1>2, <1>4, StagesStay
<1> HIDE DEF q
<1>6. PICK t \in Task : t = Head(q)
  BY <1>2
<1>7. Has(q, t)
  BY <1>2, <1>3, <1>6, TailHas
<1>8. Outcome(t) = In("queued", p)
  BY <1>7, QueuedIs DEF q
<1>9. fate' = [fate EXCEPT ![t] = In("running", p)]
  BY <1>2, <1>6
<1>10. \A s \in Task : Outcome(s)' = IF s \in {t} THEN In("running", p) ELSE Outcome(s)
  BY <1>1, <1>9, OutcomeStep
<1> QED
  BY <1>4, <1>5, <1>8, <1>10, SeesBegin DEF Seen

LEMMA SeenFuncReturns ==
  ASSUME Base, Tasks, NEW w \in Thread, FuncReturns(w)
  PROVE  Seen
<1>1. PICK p \in Pool, t \in Task : threads[w].pool = p /\ threads[w].task = t
  BY FuncReturnsDid
<1>2. threads[w].at = "func" /\ pools' = pools /\ fate' = [fate EXCEPT ![t] = In("done", p)]
  BY <1>1, FuncReturnsDid
<1>3. Types
  BY DEF Base
<1>4. fate[t] = In("running", p)
  BY <1>1, <1>2 DEF Tasks, RunInv
<1>5. Outcome(t) = In("running", p)
  BY <1>3, <1>4, OutcomeIs
<1>6. \A o \in Pool : Stage(o)' = Stage(o)
  BY <1>2 DEF Stage
<1>7. \A s \in Task : Outcome(s)' = IF s \in {t} THEN In("done", p) ELSE Outcome(s)
  BY <1>2, <1>3, OutcomeStep
<1> QED
  BY <1>5, <1>6, <1>7, SeesFinish DEF Seen

\* A thread that leaves is a member of the pool, like those that wait.
LEMMA MembersLess ==
  ASSUME Base, NEW w \in Thread, NEW p \in Pool, threads[w].pool = p
  PROVE  /\ Cardinality(Members(p) \ {w}) <= pools[p].num - 1
         /\ Cardinality(Waiters(p) \ {w}) <= pools[p].num - 1
         /\ Cardinality(Members(p) \ {w}) \in Nat /\ Cardinality(Waiters(p) \ {w}) \in Nat
         /\ pools[p].num - 1 = 0 => Members(p) = {w}
<1>1. /\ Members(p) \in SUBSET Thread /\ Members(p) \ {w} \in SUBSET Thread
      /\ Waiters(p) \ {w} \in SUBSET (Members(p) \ {w})
      /\ Waiters(p) \ {w} \in SUBSET Thread /\ {w} \in SUBSET Members(p)
  BY DEF Members, Waiters
<1>2. Cardinality({w}) = 1
  BY FS_Singleton
<1>3. Cardinality(Members(p) \ {w}) = Cardinality(Members(p)) - Cardinality({w})
  BY <1>1, PartSize
<1>4. Cardinality(Waiters(p) \ {w}) <= Cardinality(Members(p) \ {w})
  BY <1>1, SubsetSize
<1>5. /\ Cardinality(Members(p)) \in Nat /\ Cardinality(Members(p) \ {w}) \in Nat
      /\ Cardinality(Waiters(p) \ {w}) \in Nat
  BY <1>1, ThreadSets
<1>6. pools[p].num = Cardinality(Members(p)) + Count(unusedQueue, p)
  BY DEF Base, CountInv
<1>7. Count(unusedQueue, p) \in Nat /\ pools[p].num \in Nat
  BY ComingIs, PoolTypes DEF Base
<1>8. /\ Cardinality(Members(p) \ {w}) <= pools[p].num - 1
      /\ Cardinality(Waiters(p) \ {w}) <= pools[p].num - 1
  <2> HIDE DEF Members, Waiters, Count
  <2> QED
    BY <1>2, <1>3, <1>4, <1>5, <1>6, <1>7
<1>9. pools[p].num - 1 = 0 => Members(p) = {w}
  <2>1. pools[p].num - 1 = 0 => Cardinality(Members(p) \ {w}) = 0
    BY <1>5, <1>8
  <2>2. Cardinality(Members(p) \ {w}) = 0 <=> Members(p) \ {w} = {}
    BY <1>1, EmptySize
  <2> QED
    BY <1>1, <2>1, <2>2
<1> QED
  BY <1>5, <1>8, <1>9

\* The last thread leaves a pool that drains only when nothing is left.
LEMMA LastLeavesNothing ==
  ASSUME Base, Tasks, NEW w \in Thread, NEW p \in Pool, threads[w].pool = p,
         pools[p].phase = "live", pools[p].running = FALSE, pools[p].immediate = FALSE,
         pools[p].num - 1 = 0,
         \/ ~Active(p) /\ threads[w].at \in {"start", "back"}
         \/ pools[p].queue = <<>>
  PROVE  Len(pools[p].queue) <= 0
<1>1. CASE pools[p].queue = <<>>
  BY <1>1
<1>2. CASE ~Active(p) /\ threads[w].at \in {"start", "back"}
  <2>1. Members(p) = {w}
    BY MembersLess
  <2>2. Waiters(p) = {}
    BY <1>2, <2>1 DEF Members, Waiters, At
  <2>3. Cardinality(Waiters(p)) = 0
    BY <2>2, FS_EmptySet
  <2>4. /\ pools[p].num \in Nat /\ Len(pools[p].queue) \in Nat
        /\ pools[p].max \in Limits \cup NewLimits \cup {0} /\ pools[p].max \in Int
    BY PoolTypes DEF Base
  <2>5. CASE ~(Length(p) > 0)
    BY <2>3, <2>4, <2>5 DEF Length
  <2>6. CASE ~(pools[p].max = -1 \/ pools[p].num <= pools[p].max)
    <3>1. pools[p].max \in Nat \cup {-1}
      BY <2>4, PoolAssumption
    <3>2. pools[p].max = 0
      BY <2>4, <2>6, <3>1
    <3>3. Len(pools[p].queue) <= Cardinality(Waiters(p))
      BY <3>2 DEF Tasks, FrozenInv
    <3> QED
      BY <2>3, <3>3
  <2> QED
    BY <1>2, <2>5, <2>6 DEF Active
<1> QED
  BY <1>1, <1>2

\* A thread that leaves drops the task it popped from a pool that stops.
LEMMA SeenDropped ==
  ASSUME Base, Tasks, NEW p \in Pool, OtherPools(p), NEW q, NEW x, Emptied(p, q, x),
         Released(p, <<>>, x), pools[p].phase = "live", pools'[p].phase = "live",
         pools'[p].running = pools[p].running, pools'[p].immediate = pools[p].immediate,
         x \in Task => pools[p].running = FALSE /\ pools[p].immediate = TRUE
  PROVE  Seen
<1>1. pools[p].running \in BOOLEAN /\ pools[p].immediate \in BOOLEAN
  BY PoolTypes DEF Base
<1>2. Stage(p)' = Stage(p)
  BY <1>1, StageIs, StageBecomes
<1>3. \A t \in Task : fate'[t] = IF t = x THEN In("lost", p) ELSE fate[t]
  BY SkippedIs
<1>4. CASE x \notin Task
  <2>1. \A t \in Task : fate'[t] = fate[t]
    BY <1>3, <1>4
  <2> QED
    BY <1>2, <2>1, KeptPool
<1>5. CASE x \in Task
  <2>1. Stage(p) = "stopping"
    BY <1>5, StageIs
  <2>2. \A o \in Pool : Stage(o)' = Stage(o)
    BY <1>2, StagesStay
  <2>3. Has(pools[p].queue, x)
    BY <1>5 DEF Emptied
  <2>4. Outcome(x) = In("queued", p)
    BY <1>5, <2>3, QueuedIs
  <2>5. Outcome(x)' = In("dropped", p)
    BY <1>3, <1>5, OutcomeBecomes
  <2>6. \A s \in Task \ {x} : Outcome(s)' = Outcome(s)
    BY <1>3, OutcomeBecomes
  <2>7. \A s \in Task : Outcome(s)' = IF s \in {x} THEN In("dropped", p) ELSE Outcome(s)
    BY <2>5, <2>6
  <2> QED
    BY <1>5, <2>1, <2>2, <2>4, <2>7, SeesDrop DEF Seen
<1> QED
  BY <1>4, <1>5

LEMMA SeenLeft ==
  ASSUME Base, Tasks, NEW w \in Thread, NEW p \in Pool, Popping(w, p), NEW q, NEW x,
         Emptied(p, q, x), Left(w, p, q, x),
         \/ pools[p].immediate /\ ~pools[p].running
         \/ /\ q = pools[p].queue /\ x = None
            /\ \/ ~Active(p) /\ threads[w].at \in {"start", "back"}
               \/ q = <<>> /\ ~pools[p].exclusive /\ threads[w].at = "pop"
  PROVE  Seen
<1>1. /\ threads[w].pool = p /\ threads[w].at \in {"start", "back", "pop"} /\ Unlocked(p)
  BY DEF Popping
<1>2. pools[p].phase = "live"
  BY <1>1, MemberLive
<1>3. /\ pools[p].running \in BOOLEAN /\ pools[p].immediate \in BOOLEAN /\ pools[p].num \in Nat
      /\ Len(pools[p].queue) \in Nat
  BY PoolTypes DEF Base
<1>4. None \notin Task
  BY PoolAssumption
<1>5. x \in Task => pools[p].running = FALSE /\ pools[p].immediate = TRUE
  BY <1>3, <1>4
<1>6. pools[p].immediate = FALSE =>
        /\ q = pools[p].queue /\ x = None
        /\ \/ ~Active(p) /\ threads[w].at \in {"start", "back"}
           \/ pools[p].queue = <<>>
  OBVIOUS
<1>7. CASE LeftFreed(w, p, q, x)
  <2>1. /\ pools[p].running = FALSE /\ pools[p].num - 1 = 0 /\ Released(p, q, x) /\ OtherPools(p)
        /\ pools'[p].phase = "freed" /\ pools'[p].freer = "done"
    BY <1>7 DEF LeftFreed, Becomes
  <2>2. Members(p) = {w}
    BY <1>1, <2>1, MembersLess
  <2>3. \A v \in Members(p) : threads[v].at # "func"
    BY <1>1, <2>2
  <2>4. pools[p].immediate = FALSE => Len(pools[p].queue) <= 0
    BY <1>1, <1>2, <1>6, <2>1, LastLeavesNothing
  <2> QED
    BY <1>2, <2>1, <2>3, <2>4, SeenReleased
<1>8. CASE LeftStopped(w, p, q, x)
  <2>1. /\ pools[p].running = FALSE /\ Released(p, <<>>, x) /\ OtherPools(p)
        /\ Len(q) - Cardinality(Waiters(p) \ {w}) = - (pools[p].num - 1)
        /\ pools'[p].phase = "live" /\ pools'[p].running = FALSE /\ pools'[p].immediate = TRUE
    BY <1>8 DEF LeftStopped, Becomes
  <2>2. CASE pools[p].immediate = TRUE
    BY <1>2, <1>5, <2>1, <2>2, SeenDropped
  <2>3. CASE pools[p].immediate = FALSE
    <3>1. q = pools[p].queue /\ x = None
      BY <1>6, <2>3
    <3>2. /\ Cardinality(Waiters(p) \ {w}) <= pools[p].num - 1
          /\ Cardinality(Waiters(p) \ {w}) \in Nat
      BY <1>1, MembersLess
    <3>3. Len(pools[p].queue) <= 0
      BY <1>3, <2>1, <3>1, <3>2
    <3>4. \A t \in Task : fate'[t] = IF t = x THEN In("lost", p) ELSE fate[t]
      BY <2>1, SkippedIs
    <3>5. \A t \in Task : fate'[t] = fate[t]
      BY <1>4, <3>1, <3>4
    <3> QED
      BY <1>2, <2>1, <3>3, <3>5, SeenStopped
  <2> QED
    BY <1>3, <2>2, <2>3
<1>9. CASE LeftOn(w, p, q, x)
  <2>1. /\ Released(p, <<>>, x) /\ OtherPools(p) /\ pools'[p].phase = "live"
        /\ pools'[p].running = pools[p].running /\ pools'[p].immediate = pools[p].immediate
    BY <1>9 DEF LeftOn, Becomes
  <2> QED
    BY <1>2, <1>5, <2>1, SeenDropped
<1> QED
  BY <1>7, <1>8, <1>9 DEF Left

LEMMA SeenPoolStep ==
  ASSUME Base, Tasks, NEW w \in Thread, NEW p \in Pool, PoolStep(w, p)
  PROVE  Seen
<1>1. Popping(w, p)
  BY DEF PoolStep
<1>2. CASE Parks(w, p)
  BY <1>2, KeptWhole DEF Parks
<1>3. CASE Begins(w, p)
  BY <1>3, SeenBegins
<1>4. CASE LeavesSkipping(w, p) \/ LeavesIdle(w, p)
  <2>1. \E q, x : /\ Emptied(p, q, x) /\ Left(w, p, q, x)
                  /\ \/ pools[p].immediate /\ ~pools[p].running
                     \/ /\ q = pools[p].queue /\ x = None
                        /\ \/ ~Active(p) /\ threads[w].at \in {"start", "back"}
                           \/ q = <<>> /\ ~pools[p].exclusive /\ threads[w].at = "pop"
    BY <1>4, LeavesIs
  <2> QED
    BY <1>1, <2>1, SeenLeft
<1> QED
  BY <1>2, <1>3, <1>4 DEF PoolStep

LEMMA SeenNext ==
  ASSUME Base, Tasks, [Next]_vars
  PROVE  Seen
<1>1. CASE Stays
  BY <1>1, KeptWhole DEF Stays
<1>2. ASSUME NEW p \in Pool, CallStep(p) PROVE Seen
  <2>1. ASSUME NEW max \in Limits, NEW exclusive \in BOOLEAN, NewFull(p, max, exclusive) PROVE Seen
    BY <2>1, SeenNewFull
  <2>2. ASSUME NEW max \in NewLimits, SetMaxThreads(p, max) PROVE Seen
    BY <2>2, SeenSetMaxThreads
  <2>3. ASSUME NEW t \in Task, Push(p, t) PROVE Seen
    BY <2>3, SeenPush
  <2>4. ASSUME NEW t \in Task, MoveToFront(p, t) PROVE Seen
    BY <2>4, SeenMoveToFront
  <2>5. ASSUME NEW imm \in BOOLEAN, NEW wait \in BOOLEAN, Free(p, imm, wait) PROVE Seen
    BY <2>5, SeenFree
  <2>6. CASE StartNext(p)
    BY <2>6, SeenStartNext
  <2>7. CASE FreerStep(p, "wait") \/ FreerStep(p, "check")
    BY <2>7, SeenFreerStep
  <2>8. CASE FreeEnds(p)
    BY <2>8, SeenFreeEnds
  <2> QED
    BY <1>2, <2>1, <2>2, <2>3, <2>4, <2>5, <2>6, <2>7, <2>8 DEF CallStep
<1>3. ASSUME NEW w \in Thread, GlobalMove(w) PROVE Seen
  <2>1. pools' = pools /\ fate' = fate
    BY <1>3 DEF GlobalMove, Walks, Takes, Rests, Unnoticed
  <2> QED
    BY <2>1, KeptWhole
<1>4. ASSUME NEW w \in Thread, NEW p \in Pool, PoolStep(w, p) PROVE Seen
  BY <1>4, SeenPoolStep
<1>5. ASSUME NEW w \in Thread, FuncReturns(w) PROVE Seen
  BY <1>5, SeenFuncReturns
<1> QED
  BY <1>1, <1>2, <1>3, <1>4, <1>5, StepKinds

\* The pools keep the promises of TaskPool: every task is run at most once, a pool freed
\* without "immediate" goes only when all of its tasks have been run, one freed with it
\* starts no more, and no pool goes while one of its tasks is running.
THEOREM Refinement == Spec => ImplementsTaskPool
<1>1. Init => Promise!Init
  <2> SUFFICES ASSUME Init PROVE Promise!Init
    OBVIOUS
  <2>1. \A p \in Pool : Stage(p) = "none"
    BY DEF Init, NoPool, Stage
  <2>2. \A t \in Task : fate[t] = New
    BY DEF Init
  <2>3. \A t \in Task : Outcome(t) = New
    BY <2>2, BaseInit, OutcomeIs DEF Base
  <2> QED
    BY <2>1, <2>3 DEF Promise!Init, Promise!New, New
<1>2. Base /\ Tasks /\ [Next]_vars => [Promise!Next]_<<Stages, Outcomes>>
  <2> SUFFICES ASSUME Base, Tasks, [Next]_vars
               PROVE  Promise!Next \/ (Stages' = Stages /\ Outcomes' = Outcomes)
    OBVIOUS
  <2>1. Seen
    BY SeenNext
  <2>2. Kept => Stages' = Stages /\ Outcomes' = Outcomes
    BY SameStages, SameOutcomes DEF Kept
  <2> QED
    BY <2>1, <2>2 DEF Seen
<1>3. Init => Base /\ Tasks
  BY BaseInit, TasksInit
<1>4. Base /\ Tasks /\ [Next]_vars => (Base /\ Tasks)' \/ ~Sound'
  <2> SUFFICES ASSUME Base, Tasks, [Next]_vars PROVE (Base' /\ Tasks') \/ ~Sound'
    OBVIOUS
  <2> QED
    BY BaseNext, TasksNext, AbandonsUnsound
<1>5. ~Sound /\ [Next]_vars => ~Sound' /\ [Promise!Next]_<<Stages, Outcomes>>
  <2> SUFFICES ASSUME ~Sound, [Next]_vars
               PROVE  ~Sound' /\ Stages' = Stages /\ Outcomes' = Outcomes
    OBVIOUS
  <2>1. UNCHANGED vars
    BY AbandonedStays
  <2> QED
    BY <2>1 DEF vars, Sound, Abandoned, Stages, Outcomes, Stage, Outcome
<1> QED
  BY <1>1, <1>2, <1>3, <1>4, <1>5, PTL DEF Spec, ImplementsTaskPool, Promise!Spec, Stages, Outcomes
================================================================================
