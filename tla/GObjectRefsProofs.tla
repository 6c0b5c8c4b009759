-------------------------- MODULE GObjectRefsProofs --------------------------
(*****************************************************************************)
(* Every alternative of every action of GObjectRefs keeps the invariant that *)
(* GObjectRefsFacts defines; what the invariant says of references and of    *)
(* GWeakRefs, for any number of threads, objects and GWeakRefs.              *)
(*****************************************************************************)
EXTENDS GObjectRefsFacts

--------------------------------------------------------------------------------
(* Each alternative of each action keeps the invariant. *)

LEMMA StepRef ==
  ASSUME IInv, NEW t \in Thread, NEW u \in Thread, NEW o \in Object, Ref(t, u, o)
  PROVE  IInv'
<1>1. Base /\ ObjectLocks /\ DataLocks /\ WeakLocks /\ Lists /\ Life /\ Rest
  BY DEF IInv, Locks
<1>2. Types /\ ThreadInv(t) /\ HoldsInv(t) /\ thread[t] \in ThreadRecord /\ t # None
  BY <1>1, RefsAssumption DEF Base, Types
<1>3. /\ thread[t].at = "idle"
      /\ holds[t][o] # 0 /\ holds[u][o] < MaxHolds
  BY <1>1, DidRef
<1>4. Goes(t, thread[t].at, thread[t].d, thread[t].mode, thread[t].frozen, thread[t].r,
                thread[t].new, thread[t].old, thread[t].ptr)
  BY <1>1, DidRef
<1>5. SetsObject(o, object[o].refs + 1, object[o].freed, object[o].ever, object[o].frozen,
                object[o].lock)
  BY <1>1, DidRef
<1>6. data' = data
  BY <1>1, DidRef
<1>7. weak' = weak
  BY <1>1, DidRef
<1>8. SetsHolds(u, o, holds[u][o] + 1)
  BY <1>1, DidRef
<1>9. /\ object' \in [Object -> ObjectType] /\ data' \in [Object -> DataType]
      /\ weak' \in [Weak -> WeakRecord]
  BY <1>2, <1>5, <1>6, <1>7 DEF Types, SetsObject
<1>10. Placed(thread[t].at, thread[t].d, thread[t].mode, thread[t].frozen, thread[t].r,
                 thread[t].new, thread[t].old, thread[t].ptr)
  BY <1>2, <1>3, RefsAssumption DEF ThreadInv, ThreadRecord, Placed, UnrefPlaces, SetPlaces,
       GetPlaces
<1>11. /\ thread[t].new # None => holds'[t][thread[t].new] # 0 \/ thread[t].new = thread[t].d
       /\ thread[t].at \in GetPlaces => \A k \in Object : holds'[t][k] <= MaxHolds
  BY <1>2, <1>3, <1>8 DEF HoldsInv, ThreadInv, Placed, UnrefPlaces, SetPlaces, GetPlaces
<1>12. \A v \in Thread \ {t}, k \in Object :
         /\ holds[v][k] # 0 => holds'[v][k] # 0
         /\ holds[v][k] <= MaxHolds => holds'[v][k] <= MaxHolds
  BY <1>2, <1>3, <1>8, RefsAssumption DEF SetsHolds, Types
<1>13. holds' \in [Thread -> [Object -> 0 .. MaxHolds + 1]]
  BY <1>8 DEF SetsHolds
<1>14. Base'
  BY <1>1, <1>4, <1>9, <1>10, <1>11, <1>12, <1>13, BaseStep
<1>15. \A k \in Object : object'[k].lock = object[k].lock /\ (object[k].ever => object'[k].ever)
  BY <1>2, <1>5 DEF SetsObject, Types
<1>16. ObjectLocks'
  BY <1>1, <1>3, <1>4, <1>15, ObjectLocksKept
<1>17. \A k \in Object : data'[k].lock = data[k].lock
  BY <1>2, <1>6
<1>18. thread[t].at \notin DataLocked /\ thread[t].at \notin DataLocked
  BY <1>3 DEF DataLocked
<1>19. DataLocks'
  BY <1>1, <1>4, <1>17, <1>18, DataLocksKept
<1>20. thread[t].at \notin WeakLocked /\ thread[t].at \notin WeakLocked
  BY <1>3 DEF WeakLocked
<1>21. WeakLocks'
  BY <1>1, <1>4, <1>7, <1>20, WeakLocksKept
<1>22. /\ thread[t].old \in Object => object'[thread[t].old].ever
       /\ thread[t].new \in Object /\ thread[t].at # "create" => object'[thread[t].new].ever
  BY <1>1, <1>2, <1>3, <1>15, RefsAssumption DEF Lists, ThreadInv, Placed, UnrefPlaces,
       SetPlaces, GetPlaces
<1>23. /\ \A k \in Weak : weak'[k].ptr = weak[k].ptr
       /\ \A k \in Object : data'[k].list = data[k].list
  BY <1>2, <1>6, <1>7
<1>24. Lists'
  BY <1>1, <1>4, <1>15, <1>22, <1>23, ListsKept
<1>25. Locks'
  BY <1>16, <1>19, <1>21 DEF Locks
<1>26. /\ \A w \in Thread \ {t} : thread'[w] = thread[w]
       /\ thread'[t].at = thread[t].at /\ thread'[t].d = thread[t].d /\ thread'[t].mode = thread[t].mode
  BY <1>4 DEF Goes
<1>27. Types /\ \A x \in Object : LifeInv(x) /\ CountInv(x)
  BY <1>1, <1>2 DEF Life, LifeInv
<1>28. \A x \in Object : object'[x].freed = object[x].freed
  BY <1>2, <1>5 DEF SetsObject
<1>29. \A x \in Object \ {o} : object'[x].refs = object[x].refs
  BY <1>2, <1>5 DEF SetsObject
<1>30. \A x \in Object \ {o}, v \in Thread : holds'[v][x] = holds[v][x]
  BY <1>8 DEF SetsHolds
<1>31. \A x \in Object : object[x].ever => object'[x].ever
  BY <1>15
<1>32. \A x \in Object, k \in Weak : weak'[k].ptr = x => weak[k].ptr = x \/ object[x].refs # 0
  BY <1>23
<1>33. thread[t].d = None /\ thread'[t].d = None
  BY <1>2, <1>3, <1>26 DEF ThreadInv, Placed, UnrefPlaces, SetPlaces, GetPlaces
<1>34. \A x \in Object \ {o} : thread[t].d # x /\ thread'[t].d # x
  BY <1>33, RefsAssumption
<1>35. \A x \in Object \ {o} : LifeInv(x)'
  BY <1>26, <1>27, <1>28, <1>29, <1>30, <1>31, <1>32, <1>34, LifeApart
<1>36. ASSUME NEW x \in Object, x = o
       PROVE  LifeInv(x)'
  <2>1. object[x].refs # 0 /\ Types
    BY <1>36, <1>3, <1>27, HolderCounts
  <2>2. ~Doomed(t, x)' /\ ~Sole(t, x)'
    BY <1>36, <1>3, <1>26, RefsAssumption DEF Doomed, Sole
  <2>3. Flies(t, x)' <=> Flies(t, x)
    BY <1>36, <1>3, <1>26 DEF Flies, Doomed
  <2>4. InFlight(x)' = InFlight(x)
    BY <1>26, <1>36, <2>3, FlightSame
  <2>5. SetsHolds(u, x, holds[u][x] + 1)
    BY <1>36, <1>8
  <2>6. Cardinality(Held(x))' = Cardinality(Held(x)) + 1
    BY <2>1, <2>5, HeldMore
  <2>7. Cardinality(InFlight(x))' + Cardinality(Held(x))' =
          Cardinality(InFlight(x)) + Cardinality(Held(x)) + 1
    BY <1>27, <1>36, <2>4, <2>6, CountsFinite
  <2>8. object'[x].refs = object[x].refs + 1
    BY <1>36, <1>5 DEF SetsObject
  <2>9. holds[t][x] # 0
    BY <1>36, <1>3
  <2>10. ASSUME NEW v \in Thread \ {t}, Sole(v, x)
        PROVE  FALSE
    <3>1. v \in Thread /\ v # t
      BY <2>10
    <3>2. Flies(v, x)
      BY <2>10 DEF Flies, Sole, Doomed
    <3>3. object[x].refs = 1
      BY <1>27, <1>36, <2>10, <3>1 DEF LifeInv, SoleInv
    <3> QED
      BY <1>27, <2>9, <3>1, <3>2, <3>3, FlierAndHolderCount
  <2>11. \A v \in Thread \ {t} : ~Sole(v, x)
    BY <2>10
  <2>12. /\ LifeInv(x) /\ object'[x].freed = object[x].freed
         /\ object[x].ever => object'[x].ever
    BY <1>27, <1>28, <1>31
  <2>13. \A w \in Thread \ {t} : thread'[w] = thread[w]
    BY <1>26
  <2> QED
    BY <2>12, <2>13, <2>1, <2>2, <2>7, <2>8, <2>11, LifeMore
<1>37. Life'
  BY <1>35, <1>36 DEF Life
<1>38. /\ \A w \in Thread \ {t} : thread'[w] = thread[w]
       /\ thread'[t].d = thread[t].d /\ thread'[t].frozen = thread[t].frozen /\ thread'[t].old = thread[t].old
  BY <1>4 DEF Goes
<1>39. \A x \in Object : UsersInv(x) /\ FrozenInv(x)
  BY <1>1 DEF Rest, RestInv
<1>40. \A x \in Object : object'[x].ever = object[x].ever /\ object'[x].freed = object[x].freed
  BY <1>2, <1>5 DEF SetsObject
<1>41. \A x \in Object : data'[x].refs = data[x].refs
  BY <1>2, <1>6
<1>42. \A x \in Object : thread'[t].old = x <=> thread[t].old = x
  BY <1>2, <1>3, <1>38, RefsAssumption DEF ThreadInv, Placed, UnrefPlaces, SetPlaces,
       GetPlaces
<1>43. \A x \in Object : UsersInv(x)'
  BY <1>38, <1>39, <1>40, <1>41, <1>42, UsersKept
<1>44. \A x \in Object : UsersInv(x)'
  BY <1>43
<1>45. \A x \in Object : object'[x].freed = object[x].freed /\ object'[x].frozen = object[x].frozen
  BY <1>2, <1>5 DEF SetsObject
<1>46. \A x \in Object : Freezes(t, x)' <=> Freezes(t, x)
  BY <1>2, <1>3, <1>38, RefsAssumption DEF Freezes, ThreadInv, Placed, UnrefPlaces, SetPlaces,
       GetPlaces
<1>47. \A x \in Object : FrozenInv(x)'
  BY <1>38, <1>39, <1>45, <1>46, FrozenKept
<1>48. \A x \in Object : FrozenInv(x)'
  BY <1>47
<1>49. Rest'
  BY <1>44, <1>48 DEF Rest, RestInv
<1> QED
  BY <1>14, <1>25, <1>24, <1>37, <1>49 DEF IInv

LEMMA StepUnref ==
  ASSUME IInv, NEW t \in Thread, NEW o \in Object, Unref(t, o)
  PROVE  IInv'
<1>1. Base /\ ObjectLocks /\ DataLocks /\ WeakLocks /\ Lists /\ Life /\ Rest
  BY DEF IInv, Locks
<1>2. Types /\ ThreadInv(t) /\ HoldsInv(t) /\ thread[t] \in ThreadRecord /\ t # None
  BY <1>1, RefsAssumption DEF Base, Types
<1>3. /\ thread[t].at = "idle"
      /\ holds[t][o] # 0
  BY <1>1, DidUnref
<1>4. Goes(t, "unref", o, thread[t].mode, thread[t].frozen, thread[t].r, thread[t].new,
                thread[t].old, thread[t].ptr)
  BY <1>1, DidUnref
<1>5. object' = object
  BY <1>1, DidUnref
<1>6. data' = data
  BY <1>1, DidUnref
<1>7. weak' = weak
  BY <1>1, DidUnref
<1>8. SetsHolds(t, o, holds[t][o] - 1)
  BY <1>1, DidUnref
<1>9. /\ object' \in [Object -> ObjectType] /\ data' \in [Object -> DataType]
      /\ weak' \in [Weak -> WeakRecord]
  BY <1>2, <1>5, <1>6, <1>7 DEF Types
<1>10. Placed("unref", o, thread[t].mode, thread[t].frozen, thread[t].r, thread[t].new,
                 thread[t].old, thread[t].ptr)
  BY <1>2, <1>3, RefsAssumption DEF ThreadInv, ThreadRecord, Placed, UnrefPlaces, SetPlaces,
       GetPlaces
<1>11. /\ thread[t].new # None => holds'[t][thread[t].new] # 0 \/ thread[t].new = o
       /\ "unref" \in GetPlaces => \A k \in Object : holds'[t][k] <= MaxHolds
  BY <1>2, <1>3, <1>8 DEF HoldsInv, ThreadInv, Placed, UnrefPlaces, SetPlaces, GetPlaces
<1>12. \A v \in Thread \ {t}, k \in Object :
         /\ holds[v][k] # 0 => holds'[v][k] # 0
         /\ holds[v][k] <= MaxHolds => holds'[v][k] <= MaxHolds
  BY <1>8 DEF SetsHolds
<1>13. holds' \in [Thread -> [Object -> 0 .. MaxHolds + 1]]
  BY <1>8 DEF SetsHolds
<1>14. Base'
  BY <1>1, <1>4, <1>9, <1>10, <1>11, <1>12, <1>13, BaseStep
<1>15. \A k \in Object : object'[k].lock = object[k].lock /\ (object[k].ever => object'[k].ever)
  BY <1>2, <1>5
<1>16. ObjectLocks'
  BY <1>1, <1>3, <1>4, <1>15, ObjectLocksKept
<1>17. \A k \in Object : data'[k].lock = data[k].lock
  BY <1>2, <1>6
<1>18. thread[t].at \notin DataLocked /\ "unref" \notin DataLocked
  BY <1>3 DEF DataLocked
<1>19. DataLocks'
  BY <1>1, <1>4, <1>17, <1>18, DataLocksKept
<1>20. thread[t].at \notin WeakLocked /\ "unref" \notin WeakLocked
  BY <1>3 DEF WeakLocked
<1>21. WeakLocks'
  BY <1>1, <1>4, <1>7, <1>20, WeakLocksKept
<1>22. /\ thread[t].old \in Object => object'[thread[t].old].ever
       /\ thread[t].new \in Object /\ "unref" # "create" => object'[thread[t].new].ever
  BY <1>1, <1>2, <1>3, <1>15, RefsAssumption DEF Lists, ThreadInv, Placed, UnrefPlaces,
       SetPlaces, GetPlaces
<1>23. /\ \A k \in Weak : weak'[k].ptr = weak[k].ptr
       /\ \A k \in Object : data'[k].list = data[k].list
  BY <1>2, <1>6, <1>7
<1>24. Lists'
  BY <1>1, <1>4, <1>15, <1>22, <1>23, ListsKept
<1>25. Locks'
  BY <1>16, <1>19, <1>21 DEF Locks
<1>26. /\ \A w \in Thread \ {t} : thread'[w] = thread[w]
       /\ thread'[t].at = "unref" /\ thread'[t].d = o /\ thread'[t].mode = thread[t].mode
  BY <1>4 DEF Goes
<1>27. Types /\ \A x \in Object : LifeInv(x) /\ CountInv(x)
  BY <1>1, <1>2 DEF Life, LifeInv
<1>28. \A x \in Object : object'[x].freed = object[x].freed
  BY <1>2, <1>5
<1>29. \A x \in Object : object'[x].refs = object[x].refs
  BY <1>2, <1>5
<1>30. \A x \in Object \ {o}, v \in Thread : holds'[v][x] = holds[v][x]
  BY <1>8 DEF SetsHolds
<1>31. \A x \in Object : object[x].ever => object'[x].ever
  BY <1>15
<1>32. \A x \in Object, k \in Weak : weak'[k].ptr = x => weak[k].ptr = x \/ object[x].refs # 0
  BY <1>23
<1>33. thread[t].d \in {o, None} /\ thread'[t].d \in {o, None}
  BY <1>2, <1>3, <1>26 DEF ThreadInv, Placed, UnrefPlaces, SetPlaces, GetPlaces
<1>34. \A x \in Object \ {o} : thread[t].d # x /\ thread'[t].d # x
  BY <1>33, RefsAssumption
<1>35. \A x \in Object \ {o} : LifeInv(x)'
  BY <1>26, <1>27, <1>28, <1>29, <1>30, <1>31, <1>32, <1>34, LifeApart
<1>36. ASSUME NEW x \in Object, x = o
       PROVE  LifeInv(x)'
  <2>1. object[x].refs # 0 /\ Types
    BY <1>36, <1>3, <1>27, HolderCounts
  <2>2. ~Flies(t, x) /\ Flies(t, x)' /\ ~Doomed(t, x) /\ ~Doomed(t, x)' /\ ~Sole(t, x)'
    BY <1>36, <1>3, <1>26, <1>2, RefsAssumption DEF Flies, Doomed, Sole, ThreadInv, Placed
  <2>3. Cardinality(InFlight(x))' = Cardinality(InFlight(x)) + 1
    BY <1>26, <2>1, <2>2, FlightMore
  <2>4. holds[t][x] # 0 /\ SetsHolds(t, x, holds[t][x] - 1)
    BY <1>36, <1>3, <1>8
  <2>5. Cardinality(Held(x))' = Cardinality(Held(x)) - 1
    BY <2>1, <2>4, HeldLess
  <2>6. Cardinality(InFlight(x))' + Cardinality(Held(x))' =
          Cardinality(InFlight(x)) + Cardinality(Held(x))
    BY <2>1, <2>3, <2>5, CountsFinite
  <2> QED
    BY <1>26, <1>27, <1>28, <1>29, <1>31, <1>32, <2>1, <2>2, <2>6, LifeEven
<1>37. Life'
  BY <1>35, <1>36 DEF Life
<1>38. /\ \A w \in Thread \ {t} : thread'[w] = thread[w]
       /\ thread'[t].d = o /\ thread'[t].frozen = thread[t].frozen /\ thread'[t].old = thread[t].old
  BY <1>4 DEF Goes
<1>39. \A x \in Object : UsersInv(x) /\ FrozenInv(x)
  BY <1>1 DEF Rest, RestInv
<1>40. \A x \in Object : object'[x].ever = object[x].ever /\ object'[x].freed = object[x].freed
  BY <1>2, <1>5
<1>41. \A x \in Object : data'[x].refs = data[x].refs
  BY <1>2, <1>6
<1>42. \A x \in Object : thread'[t].old = x <=> thread[t].old = x
  BY <1>2, <1>3, <1>38, RefsAssumption DEF ThreadInv, Placed, UnrefPlaces, SetPlaces,
       GetPlaces
<1>43. \A x \in Object : UsersInv(x)'
  BY <1>38, <1>39, <1>40, <1>41, <1>42, UsersKept
<1>44. \A x \in Object : UsersInv(x)'
  BY <1>43
<1>45. \A x \in Object : object'[x].freed = object[x].freed /\ object'[x].frozen = object[x].frozen
  BY <1>2, <1>5
<1>46. \A x \in Object : Freezes(t, x)' <=> Freezes(t, x)
  BY <1>2, <1>3, <1>38, RefsAssumption DEF Freezes, ThreadInv, Placed, UnrefPlaces, SetPlaces,
       GetPlaces
<1>47. \A x \in Object : FrozenInv(x)'
  BY <1>38, <1>39, <1>45, <1>46, FrozenKept
<1>48. \A x \in Object : FrozenInv(x)'
  BY <1>47
<1>49. Rest'
  BY <1>44, <1>48 DEF Rest, RestInv
<1> QED
  BY <1>14, <1>25, <1>24, <1>37, <1>49 DEF IInv

LEMMA StepUnrefMany ==
  ASSUME IInv, NEW t \in Thread, UnrefDrops(t), object[thread[t].d].refs > 2
  PROVE  IInv'
<1>1. Base /\ ObjectLocks /\ DataLocks /\ WeakLocks /\ Lists /\ Life /\ Rest
  BY DEF IInv, Locks
<1>2. Types /\ ThreadInv(t) /\ HoldsInv(t) /\ thread[t] \in ThreadRecord /\ t # None
  BY <1>1, RefsAssumption DEF Base, Types
<1>3. /\ thread[t].at = "unref"
      /\ object[thread[t].d].refs > 2
  BY <1>1, DidUnrefMany
<1>4. Goes(t, "idle", None, "check", FALSE, None, None, None, None)
  BY <1>1, DidUnrefMany
<1>5. SetsObject(thread[t].d, object[thread[t].d].refs - 1, object[thread[t].d].freed,
                object[thread[t].d].ever, object[thread[t].d].frozen, object[thread[t].d].lock)
  BY <1>1, DidUnrefMany
<1>6. data' = data
  BY <1>1, DidUnrefMany
<1>7. weak' = weak
  BY <1>1, DidUnrefMany
<1>8. holds' = holds
  BY <1>1, DidUnrefMany
<1>9. thread[t].d \in Object
  BY <1>2, <1>3 DEF ThreadInv, Placed, UnrefPlaces, SetPlaces, GetPlaces
<1>10. /\ object' \in [Object -> ObjectType] /\ data' \in [Object -> DataType]
       /\ weak' \in [Weak -> WeakRecord]
  BY <1>2, <1>5, <1>6, <1>7 DEF Types, SetsObject
<1>11. Placed("idle", None, "check", FALSE, None, None, None, None)
  BY <1>2, <1>3, <1>9, RefsAssumption DEF ThreadInv, ThreadRecord, Placed, UnrefPlaces,
       SetPlaces, GetPlaces
<1>12. /\ None # None => holds[t][None] # 0 \/ None = None
       /\ "idle" \in GetPlaces => \A k \in Object : holds[t][k] <= MaxHolds
  BY <1>2, <1>3 DEF HoldsInv, ThreadInv, Placed, UnrefPlaces, SetPlaces, GetPlaces
<1>13. Base'
  BY <1>1, <1>4, <1>8, <1>10, <1>11, <1>12, BaseKept
<1>14. \A k \in Object : object'[k].lock = object[k].lock /\ (object[k].ever => object'[k].ever)
  BY <1>2, <1>5 DEF SetsObject, Types
<1>15. ObjectLocks'
  BY <1>1, <1>3, <1>4, <1>14, ObjectLocksKept
<1>16. \A k \in Object : data'[k].lock = data[k].lock
  BY <1>2, <1>6
<1>17. thread[t].at \notin DataLocked /\ "idle" \notin DataLocked
  BY <1>3 DEF DataLocked
<1>18. DataLocks'
  BY <1>1, <1>4, <1>16, <1>17, DataLocksKept
<1>19. thread[t].at \notin WeakLocked /\ "idle" \notin WeakLocked
  BY <1>3 DEF WeakLocked
<1>20. WeakLocks'
  BY <1>1, <1>4, <1>7, <1>19, WeakLocksKept
<1>21. /\ None \in Object => object'[None].ever
       /\ None \in Object /\ "idle" # "create" => object'[None].ever
  BY <1>1, <1>2, <1>3, <1>14, RefsAssumption DEF Lists, ThreadInv, Placed, UnrefPlaces,
       SetPlaces, GetPlaces
<1>22. /\ \A k \in Weak : weak'[k].ptr = weak[k].ptr
       /\ \A k \in Object : data'[k].list = data[k].list
  BY <1>2, <1>6, <1>7
<1>23. Lists'
  BY <1>1, <1>4, <1>14, <1>21, <1>22, ListsKept
<1>24. Locks'
  BY <1>15, <1>18, <1>20 DEF Locks
<1>25. /\ \A w \in Thread \ {t} : thread'[w] = thread[w]
       /\ thread'[t].at = "idle" /\ thread'[t].d = None /\ thread'[t].mode = "check"
  BY <1>4 DEF Goes
<1>26. Types /\ \A x \in Object : LifeInv(x) /\ CountInv(x)
  BY <1>1, <1>2 DEF Life, LifeInv
<1>27. \A x \in Object : object'[x].freed = object[x].freed
  BY <1>2, <1>5 DEF SetsObject
<1>28. \A x \in Object \ {thread[t].d} : object'[x].refs = object[x].refs
  BY <1>2, <1>5 DEF SetsObject
<1>29. \A x \in Object, v \in Thread : holds'[v][x] = holds[v][x]
  BY <1>8
<1>30. \A x \in Object : object[x].ever => object'[x].ever
  BY <1>14
<1>31. \A x \in Object, k \in Weak : weak'[k].ptr = x => weak[k].ptr = x \/ object[x].refs # 0
  BY <1>22
<1>32. thread[t].d \in {thread[t].d, None} /\ thread'[t].d \in {thread[t].d, None}
  BY <1>2, <1>3, <1>25 DEF ThreadInv, Placed, UnrefPlaces, SetPlaces, GetPlaces
<1>33. \A x \in Object \ {thread[t].d} : thread[t].d # x /\ thread'[t].d # x
  BY <1>32, RefsAssumption
<1>34. \A x \in Object \ {thread[t].d} : LifeInv(x)'
  BY <1>25, <1>26, <1>27, <1>28, <1>29, <1>30, <1>31, <1>33, LifeApart
<1>35. ASSUME NEW x \in Object, x = thread[t].d
       PROVE  LifeInv(x)'
  <2>1. Flies(t, x) /\ ~Flies(t, x)' /\ ~Doomed(t, x)' /\ ~Sole(t, x)'
    BY <1>35, <1>3, <1>25, RefsAssumption DEF Flies, Doomed, Sole
  <2>2. object[x].refs \in Nat
    BY <1>2, <1>35 DEF Types, ObjectType
  <2>3. object[x].refs > 1 /\ object'[x].refs = object[x].refs - 1
    BY <1>3, <1>5, <1>35, <2>2 DEF SetsObject
  <2> QED
    BY <1>25, <1>26, <1>35, <1>27, <1>29, <1>30, <2>1, <2>3, LifeLess
<1>36. Life'
  BY <1>34, <1>35 DEF Life
<1>37. /\ \A w \in Thread \ {t} : thread'[w] = thread[w]
       /\ thread'[t].d = None /\ thread'[t].frozen = FALSE /\ thread'[t].old = None
  BY <1>4 DEF Goes
<1>38. \A x \in Object : UsersInv(x) /\ FrozenInv(x)
  BY <1>1 DEF Rest, RestInv
<1>39. \A x \in Object : object'[x].ever = object[x].ever /\ object'[x].freed = object[x].freed
  BY <1>2, <1>5 DEF SetsObject
<1>40. \A x \in Object : data'[x].refs = data[x].refs
  BY <1>2, <1>6
<1>41. \A x \in Object : thread'[t].old = x <=> thread[t].old = x
  BY <1>2, <1>3, <1>37, RefsAssumption DEF ThreadInv, Placed, UnrefPlaces, SetPlaces,
       GetPlaces
<1>42. \A x \in Object : UsersInv(x)'
  BY <1>37, <1>38, <1>39, <1>40, <1>41, UsersKept
<1>43. \A x \in Object : UsersInv(x)'
  BY <1>42
<1>44. \A x \in Object : object'[x].freed = object[x].freed /\ object'[x].frozen = object[x].frozen
  BY <1>2, <1>5 DEF SetsObject
<1>45. \A x \in Object : Freezes(t, x)' <=> Freezes(t, x)
  BY <1>2, <1>3, <1>37, RefsAssumption DEF Freezes, ThreadInv, Placed, UnrefPlaces, SetPlaces,
       GetPlaces
<1>46. \A x \in Object : FrozenInv(x)'
  BY <1>37, <1>38, <1>44, <1>45, FrozenKept
<1>47. \A x \in Object : FrozenInv(x)'
  BY <1>46
<1>48. Rest'
  BY <1>43, <1>47 DEF Rest, RestInv
<1> QED
  BY <1>13, <1>24, <1>23, <1>36, <1>48 DEF IInv

LEMMA StepUnrefTwo ==
  ASSUME IInv, NEW t \in Thread, UnrefDrops(t), object[thread[t].d].refs = 2
  PROVE  IInv'
<1>1. Base /\ ObjectLocks /\ DataLocks /\ WeakLocks /\ Lists /\ Life /\ Rest
  BY DEF IInv, Locks
<1>2. Types /\ ThreadInv(t) /\ HoldsInv(t) /\ thread[t] \in ThreadRecord /\ t # None
  BY <1>1, RefsAssumption DEF Base, Types
<1>3. /\ thread[t].at = "unref"
      /\ object[thread[t].d].refs = 2 /\ object[thread[t].d].lock = None
  BY <1>1, DidUnrefTwo
<1>4. Goes(t, "toggle", thread[t].d, thread[t].mode, thread[t].frozen, thread[t].r,
                thread[t].new, thread[t].old, thread[t].ptr)
  BY <1>1, DidUnrefTwo
<1>5. SetsObject(thread[t].d, 1, object[thread[t].d].freed, object[thread[t].d].ever,
                object[thread[t].d].frozen, t)
  BY <1>1, DidUnrefTwo
<1>6. data' = data
  BY <1>1, DidUnrefTwo
<1>7. weak' = weak
  BY <1>1, DidUnrefTwo
<1>8. holds' = holds
  BY <1>1, DidUnrefTwo
<1>9. thread[t].d \in Object
  BY <1>2, <1>3 DEF ThreadInv, Placed, UnrefPlaces, SetPlaces, GetPlaces
<1>10. /\ object' \in [Object -> ObjectType] /\ data' \in [Object -> DataType]
       /\ weak' \in [Weak -> WeakRecord]
  BY <1>2, <1>5, <1>6, <1>7 DEF Types, SetsObject
<1>11. Placed("toggle", thread[t].d, thread[t].mode, thread[t].frozen, thread[t].r,
                 thread[t].new, thread[t].old, thread[t].ptr)
  BY <1>2, <1>3, <1>9, RefsAssumption DEF ThreadInv, ThreadRecord, Placed, UnrefPlaces,
       SetPlaces, GetPlaces
<1>12. /\ thread[t].new # None => holds[t][thread[t].new] # 0 \/ thread[t].new = thread[t].d
       /\ "toggle" \in GetPlaces => \A k \in Object : holds[t][k] <= MaxHolds
  BY <1>2, <1>3 DEF HoldsInv, ThreadInv, Placed, UnrefPlaces, SetPlaces, GetPlaces
<1>13. Base'
  BY <1>1, <1>4, <1>8, <1>10, <1>11, <1>12, BaseKept
<1>14. \A k \in Object : object[k].ever => object'[k].ever
  BY <1>2, <1>5 DEF SetsObject, Types
<1>15. \A k \in Object : \/ object'[k].lock = object[k].lock
                         \/ object[k].lock \in {None, t} /\ object'[k].lock \in {None, t}
  BY <1>1, <1>3, <1>5 DEF SetsObject, ObjectLocks
<1>16. \A k \in Object : object'[k].lock = t <=> "toggle" = "toggle" /\ thread[t].d = k
  BY <1>1, <1>2, <1>3, <1>5 DEF SetsObject, ObjectLocks
<1>17. ObjectLocks'
  BY <1>1, <1>4, <1>15, <1>16, ObjectLocksStep
<1>18. \A k \in Object : data'[k].lock = data[k].lock
  BY <1>2, <1>6
<1>19. thread[t].at \notin DataLocked /\ "toggle" \notin DataLocked
  BY <1>3 DEF DataLocked
<1>20. DataLocks'
  BY <1>1, <1>4, <1>18, <1>19, DataLocksKept
<1>21. thread[t].at \notin WeakLocked /\ "toggle" \notin WeakLocked
  BY <1>3 DEF WeakLocked
<1>22. WeakLocks'
  BY <1>1, <1>4, <1>7, <1>21, WeakLocksKept
<1>23. /\ thread[t].old \in Object => object'[thread[t].old].ever
       /\ thread[t].new \in Object /\ "toggle" # "create" => object'[thread[t].new].ever
  BY <1>1, <1>2, <1>3, <1>14, RefsAssumption DEF Lists, ThreadInv, Placed, UnrefPlaces,
       SetPlaces, GetPlaces
<1>24. /\ \A k \in Weak : weak'[k].ptr = weak[k].ptr
       /\ \A k \in Object : data'[k].list = data[k].list
  BY <1>2, <1>6, <1>7
<1>25. Lists'
  BY <1>1, <1>4, <1>14, <1>23, <1>24, ListsKept
<1>26. Locks'
  BY <1>17, <1>20, <1>22 DEF Locks
<1>27. /\ \A w \in Thread \ {t} : thread'[w] = thread[w]
       /\ thread'[t].at = "toggle" /\ thread'[t].d = thread[t].d /\ thread'[t].mode = thread[t].mode
  BY <1>4 DEF Goes
<1>28. Types /\ \A x \in Object : LifeInv(x) /\ CountInv(x)
  BY <1>1, <1>2 DEF Life, LifeInv
<1>29. \A x \in Object : object'[x].freed = object[x].freed
  BY <1>2, <1>5 DEF SetsObject
<1>30. \A x \in Object \ {thread[t].d} : object'[x].refs = object[x].refs
  BY <1>2, <1>5 DEF SetsObject
<1>31. \A x \in Object, v \in Thread : holds'[v][x] = holds[v][x]
  BY <1>8
<1>32. \A x \in Object : object[x].ever => object'[x].ever
  BY <1>14
<1>33. \A x \in Object, k \in Weak : weak'[k].ptr = x => weak[k].ptr = x \/ object[x].refs # 0
  BY <1>24
<1>34. \A x \in Object \ {thread[t].d} : thread[t].d # x /\ thread'[t].d # x
  BY <1>27
<1>35. \A x \in Object \ {thread[t].d} : LifeInv(x)'
  BY <1>27, <1>28, <1>29, <1>30, <1>31, <1>32, <1>33, <1>34, LifeApart
<1>36. ASSUME NEW x \in Object, x = thread[t].d
       PROVE  LifeInv(x)'
  <2>1. Flies(t, x) /\ ~Flies(t, x)' /\ ~Doomed(t, x)' /\ ~Sole(t, x)'
    BY <1>36, <1>3, <1>27, RefsAssumption DEF Flies, Doomed, Sole
  <2>2. object[x].refs \in Nat
    BY <1>2, <1>36 DEF Types, ObjectType
  <2>3. object[x].refs > 1 /\ object'[x].refs = object[x].refs - 1
    BY <1>3, <1>5, <1>36, <2>2 DEF SetsObject
  <2> QED
    BY <1>27, <1>28, <1>36, <1>29, <1>31, <1>32, <2>1, <2>3, LifeLess
<1>37. Life'
  BY <1>35, <1>36 DEF Life
<1>38. /\ \A w \in Thread \ {t} : thread'[w] = thread[w]
       /\ thread'[t].d = thread[t].d /\ thread'[t].frozen = thread[t].frozen /\ thread'[t].old = thread[t].old
  BY <1>4 DEF Goes
<1>39. \A x \in Object : UsersInv(x) /\ FrozenInv(x)
  BY <1>1 DEF Rest, RestInv
<1>40. \A x \in Object : object'[x].ever = object[x].ever /\ object'[x].freed = object[x].freed
  BY <1>2, <1>5 DEF SetsObject
<1>41. \A x \in Object : data'[x].refs = data[x].refs
  BY <1>2, <1>6
<1>42. \A x \in Object : thread'[t].old = x <=> thread[t].old = x
  BY <1>2, <1>3, <1>38, RefsAssumption DEF ThreadInv, Placed, UnrefPlaces, SetPlaces,
       GetPlaces
<1>43. \A x \in Object : UsersInv(x)'
  BY <1>38, <1>39, <1>40, <1>41, <1>42, UsersKept
<1>44. \A x \in Object : UsersInv(x)'
  BY <1>43
<1>45. \A x \in Object : object'[x].freed = object[x].freed /\ object'[x].frozen = object[x].frozen
  BY <1>2, <1>5 DEF SetsObject
<1>46. \A x \in Object : Freezes(t, x)' <=> Freezes(t, x)
  BY <1>2, <1>3, <1>38, RefsAssumption DEF Freezes, ThreadInv, Placed, UnrefPlaces, SetPlaces,
       GetPlaces
<1>47. \A x \in Object : FrozenInv(x)'
  BY <1>38, <1>39, <1>45, <1>46, FrozenKept
<1>48. \A x \in Object : FrozenInv(x)'
  BY <1>47
<1>49. Rest'
  BY <1>44, <1>48 DEF Rest, RestInv
<1> QED
  BY <1>13, <1>26, <1>25, <1>37, <1>49 DEF IInv

LEMMA StepDecrementMany ==
  ASSUME IInv, NEW t \in Thread, Decrement(t), thread[t].frozen = FALSE,
         object[thread[t].d].refs > 2
  PROVE  IInv'
<1>1. Base /\ ObjectLocks /\ DataLocks /\ WeakLocks /\ Lists /\ Life /\ Rest
  BY DEF IInv, Locks
<1>2. Types /\ ThreadInv(t) /\ HoldsInv(t) /\ thread[t] \in ThreadRecord /\ t # None
  BY <1>1, RefsAssumption DEF Base, Types
<1>3. /\ thread[t].at = "decrement"
      /\ object[thread[t].d].refs > 2
      /\ thread[t].frozen = FALSE
  BY <1>1, DidDecrementMany
<1>4. Goes(t, "idle", None, "check", FALSE, None, None, None, None)
  BY <1>1, DidDecrementMany
<1>5. SetsObject(thread[t].d, object[thread[t].d].refs - 1, object[thread[t].d].freed,
                object[thread[t].d].ever, object[thread[t].d].frozen, object[thread[t].d].lock)
  BY <1>1, DidDecrementMany
<1>6. data' = data
  BY <1>1, DidDecrementMany
<1>7. weak' = weak
  BY <1>1, DidDecrementMany
<1>8. holds' = holds
  BY <1>1, DidDecrementMany
<1>9. thread[t].d \in Object
  BY <1>2, <1>3 DEF ThreadInv, Placed, UnrefPlaces, SetPlaces, GetPlaces
<1>10. /\ object' \in [Object -> ObjectType] /\ data' \in [Object -> DataType]
       /\ weak' \in [Weak -> WeakRecord]
  BY <1>2, <1>5, <1>6, <1>7 DEF Types, SetsObject
<1>11. Placed("idle", None, "check", FALSE, None, None, None, None)
  BY <1>2, <1>3, <1>9, RefsAssumption DEF ThreadInv, ThreadRecord, Placed, UnrefPlaces,
       SetPlaces, GetPlaces
<1>12. /\ None # None => holds[t][None] # 0 \/ None = None
       /\ "idle" \in GetPlaces => \A k \in Object : holds[t][k] <= MaxHolds
  BY <1>2, <1>3 DEF HoldsInv, ThreadInv, Placed, UnrefPlaces, SetPlaces, GetPlaces
<1>13. Base'
  BY <1>1, <1>4, <1>8, <1>10, <1>11, <1>12, BaseKept
<1>14. \A k \in Object : object'[k].lock = object[k].lock /\ (object[k].ever => object'[k].ever)
  BY <1>2, <1>5 DEF SetsObject, Types
<1>15. ObjectLocks'
  BY <1>1, <1>3, <1>4, <1>14, ObjectLocksKept
<1>16. \A k \in Object : data'[k].lock = data[k].lock
  BY <1>2, <1>6
<1>17. thread[t].at \notin DataLocked /\ "idle" \notin DataLocked
  BY <1>3 DEF DataLocked
<1>18. DataLocks'
  BY <1>1, <1>4, <1>16, <1>17, DataLocksKept
<1>19. thread[t].at \notin WeakLocked /\ "idle" \notin WeakLocked
  BY <1>3 DEF WeakLocked
<1>20. WeakLocks'
  BY <1>1, <1>4, <1>7, <1>19, WeakLocksKept
<1>21. /\ None \in Object => object'[None].ever
       /\ None \in Object /\ "idle" # "create" => object'[None].ever
  BY <1>1, <1>2, <1>3, <1>14, RefsAssumption DEF Lists, ThreadInv, Placed, UnrefPlaces,
       SetPlaces, GetPlaces
<1>22. /\ \A k \in Weak : weak'[k].ptr = weak[k].ptr
       /\ \A k \in Object : data'[k].list = data[k].list
  BY <1>2, <1>6, <1>7
<1>23. Lists'
  BY <1>1, <1>4, <1>14, <1>21, <1>22, ListsKept
<1>24. Locks'
  BY <1>15, <1>18, <1>20 DEF Locks
<1>25. /\ \A w \in Thread \ {t} : thread'[w] = thread[w]
       /\ thread'[t].at = "idle" /\ thread'[t].d = None /\ thread'[t].mode = "check"
  BY <1>4 DEF Goes
<1>26. Types /\ \A x \in Object : LifeInv(x) /\ CountInv(x)
  BY <1>1, <1>2 DEF Life, LifeInv
<1>27. \A x \in Object : object'[x].freed = object[x].freed
  BY <1>2, <1>5 DEF SetsObject
<1>28. \A x \in Object \ {thread[t].d} : object'[x].refs = object[x].refs
  BY <1>2, <1>5 DEF SetsObject
<1>29. \A x \in Object, v \in Thread : holds'[v][x] = holds[v][x]
  BY <1>8
<1>30. \A x \in Object : object[x].ever => object'[x].ever
  BY <1>14
<1>31. \A x \in Object, k \in Weak : weak'[k].ptr = x => weak[k].ptr = x \/ object[x].refs # 0
  BY <1>22
<1>32. thread[t].d \in {thread[t].d, None} /\ thread'[t].d \in {thread[t].d, None}
  BY <1>2, <1>3, <1>25 DEF ThreadInv, Placed, UnrefPlaces, SetPlaces, GetPlaces
<1>33. \A x \in Object \ {thread[t].d} : thread[t].d # x /\ thread'[t].d # x
  BY <1>32, RefsAssumption
<1>34. \A x \in Object \ {thread[t].d} : LifeInv(x)'
  BY <1>25, <1>26, <1>27, <1>28, <1>29, <1>30, <1>31, <1>33, LifeApart
<1>35. ASSUME NEW x \in Object, x = thread[t].d
       PROVE  LifeInv(x)'
  <2>1. Flies(t, x) /\ ~Flies(t, x)' /\ ~Doomed(t, x)' /\ ~Sole(t, x)'
    BY <1>35, <1>3, <1>25, RefsAssumption DEF Flies, Doomed, Sole
  <2>2. object[x].refs \in Nat
    BY <1>2, <1>35 DEF Types, ObjectType
  <2>3. object[x].refs > 1 /\ object'[x].refs = object[x].refs - 1
    BY <1>3, <1>5, <1>35, <2>2 DEF SetsObject
  <2> QED
    BY <1>25, <1>26, <1>35, <1>27, <1>29, <1>30, <2>1, <2>3, LifeLess
<1>36. Life'
  BY <1>34, <1>35 DEF Life
<1>37. /\ \A w \in Thread \ {t} : thread'[w] = thread[w]
       /\ thread'[t].d = None /\ thread'[t].frozen = FALSE /\ thread'[t].old = None
  BY <1>4 DEF Goes
<1>38. \A x \in Object : UsersInv(x) /\ FrozenInv(x)
  BY <1>1 DEF Rest, RestInv
<1>39. \A x \in Object : object'[x].ever = object[x].ever /\ object'[x].freed = object[x].freed
  BY <1>2, <1>5 DEF SetsObject
<1>40. \A x \in Object : data'[x].refs = data[x].refs
  BY <1>2, <1>6
<1>41. \A x \in Object : thread'[t].old = x <=> thread[t].old = x
  BY <1>2, <1>3, <1>37, RefsAssumption DEF ThreadInv, Placed, UnrefPlaces, SetPlaces,
       GetPlaces
<1>42. \A x \in Object : UsersInv(x)'
  BY <1>37, <1>38, <1>39, <1>40, <1>41, UsersKept
<1>43. \A x \in Object : UsersInv(x)'
  BY <1>42
<1>44. \A x \in Object : object'[x].freed = object[x].freed /\ object'[x].frozen = object[x].frozen
  BY <1>2, <1>5 DEF SetsObject
<1>45. \A x \in Object : Freezes(t, x)' <=> Freezes(t, x)
  BY <1>2, <1>3, <1>37, RefsAssumption DEF Freezes, ThreadInv, Placed, UnrefPlaces, SetPlaces,
       GetPlaces
<1>46. \A x \in Object : FrozenInv(x)'
  BY <1>37, <1>38, <1>44, <1>45, FrozenKept
<1>47. \A x \in Object : FrozenInv(x)'
  BY <1>46
<1>48. Rest'
  BY <1>43, <1>47 DEF Rest, RestInv
<1> QED
  BY <1>13, <1>24, <1>23, <1>36, <1>48 DEF IInv

LEMMA StepDecrementTwo ==
  ASSUME IInv, NEW t \in Thread, Decrement(t), thread[t].frozen = FALSE,
         object[thread[t].d].refs = 2
  PROVE  IInv'
<1>1. Base /\ ObjectLocks /\ DataLocks /\ WeakLocks /\ Lists /\ Life /\ Rest
  BY DEF IInv, Locks
<1>2. Types /\ ThreadInv(t) /\ HoldsInv(t) /\ thread[t] \in ThreadRecord /\ t # None
  BY <1>1, RefsAssumption DEF Base, Types
<1>3. /\ thread[t].at = "decrement"
      /\ object[thread[t].d].refs = 2 /\ object[thread[t].d].lock = None
      /\ thread[t].frozen = FALSE
  BY <1>1, DidDecrementTwo
<1>4. Goes(t, "toggle", thread[t].d, thread[t].mode, thread[t].frozen, thread[t].r,
                thread[t].new, thread[t].old, thread[t].ptr)
  BY <1>1, DidDecrementTwo
<1>5. SetsObject(thread[t].d, 1, object[thread[t].d].freed, object[thread[t].d].ever,
                object[thread[t].d].frozen, t)
  BY <1>1, DidDecrementTwo
<1>6. data' = data
  BY <1>1, DidDecrementTwo
<1>7. weak' = weak
  BY <1>1, DidDecrementTwo
<1>8. holds' = holds
  BY <1>1, DidDecrementTwo
<1>9. thread[t].d \in Object
  BY <1>2, <1>3 DEF ThreadInv, Placed, UnrefPlaces, SetPlaces, GetPlaces
<1>10. /\ object' \in [Object -> ObjectType] /\ data' \in [Object -> DataType]
       /\ weak' \in [Weak -> WeakRecord]
  BY <1>2, <1>5, <1>6, <1>7 DEF Types, SetsObject
<1>11. Placed("toggle", thread[t].d, thread[t].mode, thread[t].frozen, thread[t].r,
                 thread[t].new, thread[t].old, thread[t].ptr)
  BY <1>2, <1>3, <1>9, RefsAssumption DEF ThreadInv, ThreadRecord, Placed, UnrefPlaces,
       SetPlaces, GetPlaces
<1>12. /\ thread[t].new # None => holds[t][thread[t].new] # 0 \/ thread[t].new = thread[t].d
       /\ "toggle" \in GetPlaces => \A k \in Object : holds[t][k] <= MaxHolds
  BY <1>2, <1>3 DEF HoldsInv, ThreadInv, Placed, UnrefPlaces, SetPlaces, GetPlaces
<1>13. Base'
  BY <1>1, <1>4, <1>8, <1>10, <1>11, <1>12, BaseKept
<1>14. \A k \in Object : object[k].ever => object'[k].ever
  BY <1>2, <1>5 DEF SetsObject, Types
<1>15. \A k \in Object : \/ object'[k].lock = object[k].lock
                         \/ object[k].lock \in {None, t} /\ object'[k].lock \in {None, t}
  BY <1>1, <1>3, <1>5 DEF SetsObject, ObjectLocks
<1>16. \A k \in Object : object'[k].lock = t <=> "toggle" = "toggle" /\ thread[t].d = k
  BY <1>1, <1>2, <1>3, <1>5 DEF SetsObject, ObjectLocks
<1>17. ObjectLocks'
  BY <1>1, <1>4, <1>15, <1>16, ObjectLocksStep
<1>18. \A k \in Object : data'[k].lock = data[k].lock
  BY <1>2, <1>6
<1>19. thread[t].at \notin DataLocked /\ "toggle" \notin DataLocked
  BY <1>3 DEF DataLocked
<1>20. DataLocks'
  BY <1>1, <1>4, <1>18, <1>19, DataLocksKept
<1>21. thread[t].at \notin WeakLocked /\ "toggle" \notin WeakLocked
  BY <1>3 DEF WeakLocked
<1>22. WeakLocks'
  BY <1>1, <1>4, <1>7, <1>21, WeakLocksKept
<1>23. /\ thread[t].old \in Object => object'[thread[t].old].ever
       /\ thread[t].new \in Object /\ "toggle" # "create" => object'[thread[t].new].ever
  BY <1>1, <1>2, <1>3, <1>14, RefsAssumption DEF Lists, ThreadInv, Placed, UnrefPlaces,
       SetPlaces, GetPlaces
<1>24. /\ \A k \in Weak : weak'[k].ptr = weak[k].ptr
       /\ \A k \in Object : data'[k].list = data[k].list
  BY <1>2, <1>6, <1>7
<1>25. Lists'
  BY <1>1, <1>4, <1>14, <1>23, <1>24, ListsKept
<1>26. Locks'
  BY <1>17, <1>20, <1>22 DEF Locks
<1>27. /\ \A w \in Thread \ {t} : thread'[w] = thread[w]
       /\ thread'[t].at = "toggle" /\ thread'[t].d = thread[t].d /\ thread'[t].mode = thread[t].mode
  BY <1>4 DEF Goes
<1>28. Types /\ \A x \in Object : LifeInv(x) /\ CountInv(x)
  BY <1>1, <1>2 DEF Life, LifeInv
<1>29. \A x \in Object : object'[x].freed = object[x].freed
  BY <1>2, <1>5 DEF SetsObject
<1>30. \A x \in Object \ {thread[t].d} : object'[x].refs = object[x].refs
  BY <1>2, <1>5 DEF SetsObject
<1>31. \A x \in Object, v \in Thread : holds'[v][x] = holds[v][x]
  BY <1>8
<1>32. \A x \in Object : object[x].ever => object'[x].ever
  BY <1>14
<1>33. \A x \in Object, k \in Weak : weak'[k].ptr = x => weak[k].ptr = x \/ object[x].refs # 0
  BY <1>24
<1>34. \A x \in Object \ {thread[t].d} : thread[t].d # x /\ thread'[t].d # x
  BY <1>27
<1>35. \A x \in Object \ {thread[t].d} : LifeInv(x)'
  BY <1>27, <1>28, <1>29, <1>30, <1>31, <1>32, <1>33, <1>34, LifeApart
<1>36. ASSUME NEW x \in Object, x = thread[t].d
       PROVE  LifeInv(x)'
  <2>1. Flies(t, x) /\ ~Flies(t, x)' /\ ~Doomed(t, x)' /\ ~Sole(t, x)'
    BY <1>36, <1>3, <1>27, RefsAssumption DEF Flies, Doomed, Sole
  <2>2. object[x].refs \in Nat
    BY <1>2, <1>36 DEF Types, ObjectType
  <2>3. object[x].refs > 1 /\ object'[x].refs = object[x].refs - 1
    BY <1>3, <1>5, <1>36, <2>2 DEF SetsObject
  <2> QED
    BY <1>27, <1>28, <1>36, <1>29, <1>31, <1>32, <2>1, <2>3, LifeLess
<1>37. Life'
  BY <1>35, <1>36 DEF Life
<1>38. /\ \A w \in Thread \ {t} : thread'[w] = thread[w]
       /\ thread'[t].d = thread[t].d /\ thread'[t].frozen = thread[t].frozen /\ thread'[t].old = thread[t].old
  BY <1>4 DEF Goes
<1>39. \A x \in Object : UsersInv(x) /\ FrozenInv(x)
  BY <1>1 DEF Rest, RestInv
<1>40. \A x \in Object : object'[x].ever = object[x].ever /\ object'[x].freed = object[x].freed
  BY <1>2, <1>5 DEF SetsObject
<1>41. \A x \in Object : data'[x].refs = data[x].refs
  BY <1>2, <1>6
<1>42. \A x \in Object : thread'[t].old = x <=> thread[t].old = x
  BY <1>2, <1>3, <1>38, RefsAssumption DEF ThreadInv, Placed, UnrefPlaces, SetPlaces,
       GetPlaces
<1>43. \A x \in Object : UsersInv(x)'
  BY <1>38, <1>39, <1>40, <1>41, <1>42, UsersKept
<1>44. \A x \in Object : UsersInv(x)'
  BY <1>43
<1>45. \A x \in Object : object'[x].freed = object[x].freed /\ object'[x].frozen = object[x].frozen
  BY <1>2, <1>5 DEF SetsObject
<1>46. \A x \in Object : Freezes(t, x)' <=> Freezes(t, x)
  BY <1>2, <1>3, <1>38, RefsAssumption DEF Freezes, ThreadInv, Placed, UnrefPlaces, SetPlaces,
       GetPlaces
<1>47. \A x \in Object : FrozenInv(x)'
  BY <1>38, <1>39, <1>45, <1>46, FrozenKept
<1>48. \A x \in Object : FrozenInv(x)'
  BY <1>47
<1>49. Rest'
  BY <1>44, <1>48 DEF Rest, RestInv
<1> QED
  BY <1>13, <1>26, <1>25, <1>37, <1>49 DEF IInv

LEMMA StepUnrefLast ==
  ASSUME IInv, NEW t \in Thread, UnrefDrops(t), object[thread[t].d].refs = 1
  PROVE  IInv'
<1>1. Base /\ ObjectLocks /\ DataLocks /\ WeakLocks /\ Lists /\ Life /\ Rest
  BY DEF IInv, Locks
<1>2. Types /\ ThreadInv(t) /\ HoldsInv(t) /\ thread[t] \in ThreadRecord /\ t # None
  BY <1>1, RefsAssumption DEF Base, Types
<1>3. /\ thread[t].at = "unref"
      /\ object[thread[t].d].refs = 1
  BY <1>1, DidUnrefLast
<1>4. Goes(t, "clear", thread[t].d, "check", thread[t].frozen, thread[t].r, thread[t].new,
                thread[t].old, thread[t].ptr)
  BY <1>1, DidUnrefLast
<1>5. object' = object
  BY <1>1, DidUnrefLast
<1>6. data' = data
  BY <1>1, DidUnrefLast
<1>7. weak' = weak
  BY <1>1, DidUnrefLast
<1>8. holds' = holds
  BY <1>1, DidUnrefLast
<1>9. thread[t].d \in Object
  BY <1>2, <1>3 DEF ThreadInv, Placed, UnrefPlaces, SetPlaces, GetPlaces
<1>10. /\ object' \in [Object -> ObjectType] /\ data' \in [Object -> DataType]
       /\ weak' \in [Weak -> WeakRecord]
  BY <1>2, <1>5, <1>6, <1>7 DEF Types
<1>11. Placed("clear", thread[t].d, "check", thread[t].frozen, thread[t].r, thread[t].new,
                 thread[t].old, thread[t].ptr)
  BY <1>2, <1>3, <1>9, RefsAssumption DEF ThreadInv, ThreadRecord, Placed, UnrefPlaces,
       SetPlaces, GetPlaces
<1>12. /\ thread[t].new # None => holds[t][thread[t].new] # 0 \/ thread[t].new = thread[t].d
       /\ "clear" \in GetPlaces => \A k \in Object : holds[t][k] <= MaxHolds
  BY <1>2, <1>3 DEF HoldsInv, ThreadInv, Placed, UnrefPlaces, SetPlaces, GetPlaces
<1>13. Base'
  BY <1>1, <1>4, <1>8, <1>10, <1>11, <1>12, BaseKept
<1>14. \A k \in Object : object'[k].lock = object[k].lock /\ (object[k].ever => object'[k].ever)
  BY <1>2, <1>5
<1>15. ObjectLocks'
  BY <1>1, <1>3, <1>4, <1>14, ObjectLocksKept
<1>16. \A k \in Object : data'[k].lock = data[k].lock
  BY <1>2, <1>6
<1>17. thread[t].at \notin DataLocked /\ "clear" \notin DataLocked
  BY <1>3 DEF DataLocked
<1>18. DataLocks'
  BY <1>1, <1>4, <1>16, <1>17, DataLocksKept
<1>19. thread[t].at \notin WeakLocked /\ "clear" \notin WeakLocked
  BY <1>3 DEF WeakLocked
<1>20. WeakLocks'
  BY <1>1, <1>4, <1>7, <1>19, WeakLocksKept
<1>21. /\ thread[t].old \in Object => object'[thread[t].old].ever
       /\ thread[t].new \in Object /\ "clear" # "create" => object'[thread[t].new].ever
  BY <1>1, <1>2, <1>3, <1>14, RefsAssumption DEF Lists, ThreadInv, Placed, UnrefPlaces,
       SetPlaces, GetPlaces
<1>22. /\ \A k \in Weak : weak'[k].ptr = weak[k].ptr
       /\ \A k \in Object : data'[k].list = data[k].list
  BY <1>2, <1>6, <1>7
<1>23. Lists'
  BY <1>1, <1>4, <1>14, <1>21, <1>22, ListsKept
<1>24. Locks'
  BY <1>15, <1>18, <1>20 DEF Locks
<1>25. /\ \A w \in Thread \ {t} : thread'[w] = thread[w]
       /\ thread'[t].at = "clear" /\ thread'[t].d = thread[t].d /\ thread'[t].mode = "check"
  BY <1>4 DEF Goes
<1>26. Types /\ \A x \in Object : LifeInv(x) /\ CountInv(x)
  BY <1>1, <1>2 DEF Life, LifeInv
<1>27. \A x \in Object : object'[x].freed = object[x].freed
  BY <1>2, <1>5
<1>28. \A x \in Object : object'[x].refs = object[x].refs
  BY <1>2, <1>5
<1>29. \A x \in Object, v \in Thread : holds'[v][x] = holds[v][x]
  BY <1>8
<1>30. \A x \in Object : object[x].ever => object'[x].ever
  BY <1>14
<1>31. \A x \in Object, k \in Weak : weak'[k].ptr = x => weak[k].ptr = x \/ object[x].refs # 0
  BY <1>22
<1>32. \A x \in Object \ {thread[t].d} : thread[t].d # x /\ thread'[t].d # x
  BY <1>25
<1>33. \A x \in Object \ {thread[t].d} : LifeInv(x)'
  BY <1>25, <1>26, <1>27, <1>28, <1>29, <1>30, <1>31, <1>32, LifeApart
<1>34. ASSUME NEW x \in Object, x = thread[t].d
       PROVE  LifeInv(x)'
  <2>1. Flies(t, x) /\ Flies(t, x)'
    BY <1>34, <1>3, <1>25 DEF Flies, Doomed
  <2>2. ~Sole(t, x)'
    BY <1>34, <1>3, <1>25 DEF Sole
  <2> QED
    BY <1>25, <1>26, <1>27, <1>28, <1>29, <1>30, <2>1, <2>2, LifeFlies
<1>35. Life'
  BY <1>33, <1>34 DEF Life
<1>36. /\ \A w \in Thread \ {t} : thread'[w] = thread[w]
       /\ thread'[t].d = thread[t].d /\ thread'[t].frozen = thread[t].frozen /\ thread'[t].old = thread[t].old
  BY <1>4 DEF Goes
<1>37. \A x \in Object : UsersInv(x) /\ FrozenInv(x)
  BY <1>1 DEF Rest, RestInv
<1>38. \A x \in Object : object'[x].ever = object[x].ever /\ object'[x].freed = object[x].freed
  BY <1>2, <1>5
<1>39. \A x \in Object : data'[x].refs = data[x].refs
  BY <1>2, <1>6
<1>40. \A x \in Object : thread'[t].old = x <=> thread[t].old = x
  BY <1>2, <1>3, <1>36, RefsAssumption DEF ThreadInv, Placed, UnrefPlaces, SetPlaces,
       GetPlaces
<1>41. \A x \in Object : UsersInv(x)'
  BY <1>36, <1>37, <1>38, <1>39, <1>40, UsersKept
<1>42. \A x \in Object : UsersInv(x)'
  BY <1>41
<1>43. \A x \in Object : object'[x].freed = object[x].freed /\ object'[x].frozen = object[x].frozen
  BY <1>2, <1>5
<1>44. \A x \in Object : Freezes(t, x)' <=> Freezes(t, x)
  BY <1>2, <1>3, <1>36, RefsAssumption DEF Freezes, ThreadInv, Placed, UnrefPlaces, SetPlaces,
       GetPlaces
<1>45. \A x \in Object : FrozenInv(x)'
  BY <1>36, <1>37, <1>43, <1>44, FrozenKept
<1>46. \A x \in Object : FrozenInv(x)'
  BY <1>45
<1>47. Rest'
  BY <1>42, <1>46 DEF Rest, RestInv
<1> QED
  BY <1>13, <1>24, <1>23, <1>35, <1>47 DEF IInv

LEMMA StepToggle ==
  ASSUME IInv, NEW t \in Thread, Toggle(t)
  PROVE  IInv'
<1>1. Base /\ ObjectLocks /\ DataLocks /\ WeakLocks /\ Lists /\ Life /\ Rest
  BY DEF IInv, Locks
<1>2. Types /\ ThreadInv(t) /\ HoldsInv(t) /\ thread[t] \in ThreadRecord /\ t # None
  BY <1>1, RefsAssumption DEF Base, Types
<1>3. thread[t].at = "toggle"
  BY <1>1, DidToggle
<1>4. Goes(t, "idle", None, "check", FALSE, None, None, None, None)
  BY <1>1, DidToggle
<1>5. SetsObject(thread[t].d, object[thread[t].d].refs, object[thread[t].d].freed,
                object[thread[t].d].ever, object[thread[t].d].frozen, None)
  BY <1>1, DidToggle
<1>6. data' = data
  BY <1>1, DidToggle
<1>7. weak' = weak
  BY <1>1, DidToggle
<1>8. holds' = holds
  BY <1>1, DidToggle
<1>9. thread[t].d \in Object
  BY <1>2, <1>3 DEF ThreadInv, Placed, UnrefPlaces, SetPlaces, GetPlaces
<1>10. /\ object' \in [Object -> ObjectType] /\ data' \in [Object -> DataType]
       /\ weak' \in [Weak -> WeakRecord]
  BY <1>2, <1>5, <1>6, <1>7 DEF Types, SetsObject
<1>11. Placed("idle", None, "check", FALSE, None, None, None, None)
  BY <1>2, <1>3, <1>9, RefsAssumption DEF ThreadInv, ThreadRecord, Placed, UnrefPlaces,
       SetPlaces, GetPlaces
<1>12. /\ None # None => holds[t][None] # 0 \/ None = None
       /\ "idle" \in GetPlaces => \A k \in Object : holds[t][k] <= MaxHolds
  BY <1>2, <1>3 DEF HoldsInv, ThreadInv, Placed, UnrefPlaces, SetPlaces, GetPlaces
<1>13. Base'
  BY <1>1, <1>4, <1>8, <1>10, <1>11, <1>12, BaseKept
<1>14. \A k \in Object : object[k].ever => object'[k].ever
  BY <1>2, <1>5 DEF SetsObject, Types
<1>15. \A k \in Object : \/ object'[k].lock = object[k].lock
                         \/ object[k].lock \in {None, t} /\ object'[k].lock \in {None, t}
  BY <1>1, <1>3, <1>5 DEF SetsObject, ObjectLocks
<1>16. \A k \in Object : object'[k].lock # t
  BY <1>1, <1>2, <1>3, <1>5 DEF SetsObject, ObjectLocks
<1>17. ObjectLocks'
  BY <1>1, <1>4, <1>15, <1>16, ObjectLocksReleased
<1>18. \A k \in Object : data'[k].lock = data[k].lock
  BY <1>2, <1>6
<1>19. thread[t].at \notin DataLocked /\ "idle" \notin DataLocked
  BY <1>3 DEF DataLocked
<1>20. DataLocks'
  BY <1>1, <1>4, <1>18, <1>19, DataLocksKept
<1>21. thread[t].at \notin WeakLocked /\ "idle" \notin WeakLocked
  BY <1>3 DEF WeakLocked
<1>22. WeakLocks'
  BY <1>1, <1>4, <1>7, <1>21, WeakLocksKept
<1>23. /\ None \in Object => object'[None].ever
       /\ None \in Object /\ "idle" # "create" => object'[None].ever
  BY <1>1, <1>2, <1>3, <1>14, RefsAssumption DEF Lists, ThreadInv, Placed, UnrefPlaces,
       SetPlaces, GetPlaces
<1>24. /\ \A k \in Weak : weak'[k].ptr = weak[k].ptr
       /\ \A k \in Object : data'[k].list = data[k].list
  BY <1>2, <1>6, <1>7
<1>25. Lists'
  BY <1>1, <1>4, <1>14, <1>23, <1>24, ListsKept
<1>26. Locks'
  BY <1>17, <1>20, <1>22 DEF Locks
<1>27. /\ \A w \in Thread \ {t} : thread'[w] = thread[w]
       /\ thread'[t].at = "idle" /\ thread'[t].d = None /\ thread'[t].mode = "check"
  BY <1>4 DEF Goes
<1>28. Types /\ \A x \in Object : LifeInv(x) /\ CountInv(x)
  BY <1>1, <1>2 DEF Life, LifeInv
<1>29. \A x \in Object : object'[x].freed = object[x].freed
  BY <1>2, <1>5 DEF SetsObject
<1>30. \A x \in Object : object'[x].refs = object[x].refs
  BY <1>2, <1>5 DEF SetsObject
<1>31. \A x \in Object, v \in Thread : holds'[v][x] = holds[v][x]
  BY <1>8
<1>32. \A x \in Object : object[x].ever => object'[x].ever
  BY <1>14
<1>33. \A x \in Object, k \in Weak : weak'[k].ptr = x => weak[k].ptr = x \/ object[x].refs # 0
  BY <1>24
<1>34. thread[t].d \in {thread[t].d, None} /\ thread'[t].d \in {thread[t].d, None}
  BY <1>2, <1>3, <1>27 DEF ThreadInv, Placed, UnrefPlaces, SetPlaces, GetPlaces
<1>35. \A x \in Object \ {thread[t].d} : thread[t].d # x /\ thread'[t].d # x
  BY <1>34, RefsAssumption
<1>36. \A x \in Object \ {thread[t].d} : LifeInv(x)'
  BY <1>27, <1>28, <1>29, <1>30, <1>31, <1>32, <1>33, <1>35, LifeApart
<1>37. ASSUME NEW x \in Object, x = thread[t].d
       PROVE  LifeInv(x)'
  <2>1. ~Flies(t, x) /\ ~Flies(t, x)' /\ ~Doomed(t, x) /\ ~Doomed(t, x)' /\ ~Sole(t, x)'
    BY <1>37, <1>3, <1>27, RefsAssumption DEF Flies, Doomed, Sole
  <2>2. thread'[t].d = x => thread[t].d = x
    BY <1>37
  <2>3. \A k \in Weak : weak'[k].ptr = x =>
          \/ object[x].refs # 0
          \/ /\ weak[k].ptr = x
             /\ Doomed(t, x) /\ thread[t].at = "clearing" => thread'[t].at = "clearing"
    BY <1>37, <1>33, <2>1
  <2> QED
    BY <1>27, <1>28, <1>37, <1>29, <1>30, <1>31, <1>32, <2>1, <2>2, <2>3, LifeKept
<1>38. Life'
  BY <1>36, <1>37 DEF Life
<1>39. /\ \A w \in Thread \ {t} : thread'[w] = thread[w]
       /\ thread'[t].d = None /\ thread'[t].frozen = FALSE /\ thread'[t].old = None
  BY <1>4 DEF Goes
<1>40. \A x \in Object : UsersInv(x) /\ FrozenInv(x)
  BY <1>1 DEF Rest, RestInv
<1>41. \A x \in Object : object'[x].ever = object[x].ever /\ object'[x].freed = object[x].freed
  BY <1>2, <1>5 DEF SetsObject
<1>42. \A x \in Object : data'[x].refs = data[x].refs
  BY <1>2, <1>6
<1>43. \A x \in Object : thread'[t].old = x <=> thread[t].old = x
  BY <1>2, <1>3, <1>39, RefsAssumption DEF ThreadInv, Placed, UnrefPlaces, SetPlaces,
       GetPlaces
<1>44. \A x \in Object : UsersInv(x)'
  BY <1>39, <1>40, <1>41, <1>42, <1>43, UsersKept
<1>45. \A x \in Object : UsersInv(x)'
  BY <1>44
<1>46. \A x \in Object : object'[x].freed = object[x].freed /\ object'[x].frozen = object[x].frozen
  BY <1>2, <1>5 DEF SetsObject
<1>47. \A x \in Object : Freezes(t, x)' <=> Freezes(t, x)
  BY <1>2, <1>3, <1>39, RefsAssumption DEF Freezes, ThreadInv, Placed, UnrefPlaces, SetPlaces,
       GetPlaces
<1>48. \A x \in Object : FrozenInv(x)'
  BY <1>39, <1>40, <1>46, <1>47, FrozenKept
<1>49. \A x \in Object : FrozenInv(x)'
  BY <1>48
<1>50. Rest'
  BY <1>45, <1>49 DEF Rest, RestInv
<1> QED
  BY <1>13, <1>26, <1>25, <1>38, <1>50 DEF IInv

LEMMA StepClearNothingCheck ==
  ASSUME IInv, NEW t \in Thread, ClearNothing(t), thread[t].mode = "check"
  PROVE  IInv'
<1>1. Base /\ ObjectLocks /\ DataLocks /\ WeakLocks /\ Lists /\ Life /\ Rest
  BY DEF IInv, Locks
<1>2. Types /\ ThreadInv(t) /\ HoldsInv(t) /\ thread[t] \in ThreadRecord /\ t # None
  BY <1>1, RefsAssumption DEF Base, Types
<1>3. /\ thread[t].at = "clear"
      /\ thread[t].mode = "check"
  BY <1>1, DidClearNothingCheck
<1>4. Goes(t, "freeze", thread[t].d, thread[t].mode, thread[t].frozen, thread[t].r,
                thread[t].new, thread[t].old, thread[t].ptr)
  BY <1>1, DidClearNothingCheck
<1>5. object' = object
  BY <1>1, DidClearNothingCheck
<1>6. data' = data
  BY <1>1, DidClearNothingCheck
<1>7. weak' = weak
  BY <1>1, DidClearNothingCheck
<1>8. holds' = holds
  BY <1>1, DidClearNothingCheck
<1>9. thread[t].d \in Object
  BY <1>2, <1>3 DEF ThreadInv, Placed, UnrefPlaces, SetPlaces, GetPlaces
<1>10. /\ object' \in [Object -> ObjectType] /\ data' \in [Object -> DataType]
       /\ weak' \in [Weak -> WeakRecord]
  BY <1>2, <1>5, <1>6, <1>7 DEF Types
<1>11. Placed("freeze", thread[t].d, thread[t].mode, thread[t].frozen, thread[t].r,
                 thread[t].new, thread[t].old, thread[t].ptr)
  BY <1>2, <1>3, <1>9, RefsAssumption DEF ThreadInv, ThreadRecord, Placed, UnrefPlaces,
       SetPlaces, GetPlaces
<1>12. /\ thread[t].new # None => holds[t][thread[t].new] # 0 \/ thread[t].new = thread[t].d
       /\ "freeze" \in GetPlaces => \A k \in Object : holds[t][k] <= MaxHolds
  BY <1>2, <1>3 DEF HoldsInv, ThreadInv, Placed, UnrefPlaces, SetPlaces, GetPlaces
<1>13. Base'
  BY <1>1, <1>4, <1>8, <1>10, <1>11, <1>12, BaseKept
<1>14. \A k \in Object : object'[k].lock = object[k].lock /\ (object[k].ever => object'[k].ever)
  BY <1>2, <1>5
<1>15. ObjectLocks'
  BY <1>1, <1>3, <1>4, <1>14, ObjectLocksKept
<1>16. \A k \in Object : data'[k].lock = data[k].lock
  BY <1>2, <1>6
<1>17. thread[t].at \notin DataLocked /\ "freeze" \notin DataLocked
  BY <1>3 DEF DataLocked
<1>18. DataLocks'
  BY <1>1, <1>4, <1>16, <1>17, DataLocksKept
<1>19. thread[t].at \notin WeakLocked /\ "freeze" \notin WeakLocked
  BY <1>3 DEF WeakLocked
<1>20. WeakLocks'
  BY <1>1, <1>4, <1>7, <1>19, WeakLocksKept
<1>21. /\ thread[t].old \in Object => object'[thread[t].old].ever
       /\ thread[t].new \in Object /\ "freeze" # "create" => object'[thread[t].new].ever
  BY <1>1, <1>2, <1>3, <1>14, RefsAssumption DEF Lists, ThreadInv, Placed, UnrefPlaces,
       SetPlaces, GetPlaces
<1>22. /\ \A k \in Weak : weak'[k].ptr = weak[k].ptr
       /\ \A k \in Object : data'[k].list = data[k].list
  BY <1>2, <1>6, <1>7
<1>23. Lists'
  BY <1>1, <1>4, <1>14, <1>21, <1>22, ListsKept
<1>24. Locks'
  BY <1>15, <1>18, <1>20 DEF Locks
<1>25. /\ \A w \in Thread \ {t} : thread'[w] = thread[w]
       /\ thread'[t].at = "freeze" /\ thread'[t].d = thread[t].d /\ thread'[t].mode = thread[t].mode
  BY <1>4 DEF Goes
<1>26. Types /\ \A x \in Object : LifeInv(x) /\ CountInv(x)
  BY <1>1, <1>2 DEF Life, LifeInv
<1>27. \A x \in Object : object'[x].freed = object[x].freed
  BY <1>2, <1>5
<1>28. \A x \in Object : object'[x].refs = object[x].refs
  BY <1>2, <1>5
<1>29. \A x \in Object, v \in Thread : holds'[v][x] = holds[v][x]
  BY <1>8
<1>30. \A x \in Object : object[x].ever => object'[x].ever
  BY <1>14
<1>31. \A x \in Object, k \in Weak : weak'[k].ptr = x => weak[k].ptr = x \/ object[x].refs # 0
  BY <1>22
<1>32. \A x \in Object \ {thread[t].d} : thread[t].d # x /\ thread'[t].d # x
  BY <1>25
<1>33. \A x \in Object \ {thread[t].d} : LifeInv(x)'
  BY <1>25, <1>26, <1>27, <1>28, <1>29, <1>30, <1>31, <1>32, LifeApart
<1>34. ASSUME NEW x \in Object, x = thread[t].d
       PROVE  LifeInv(x)'
  <2>1. Flies(t, x) /\ Flies(t, x)'
    BY <1>34, <1>3, <1>25 DEF Flies, Doomed
  <2>2. ~Sole(t, x)'
    BY <1>34, <1>3, <1>25 DEF Sole
  <2> QED
    BY <1>25, <1>26, <1>27, <1>28, <1>29, <1>30, <2>1, <2>2, LifeFlies
<1>35. Life'
  BY <1>33, <1>34 DEF Life
<1>36. /\ \A w \in Thread \ {t} : thread'[w] = thread[w]
       /\ thread'[t].d = thread[t].d /\ thread'[t].frozen = thread[t].frozen /\ thread'[t].old = thread[t].old
  BY <1>4 DEF Goes
<1>37. \A x \in Object : UsersInv(x) /\ FrozenInv(x)
  BY <1>1 DEF Rest, RestInv
<1>38. \A x \in Object : object'[x].ever = object[x].ever /\ object'[x].freed = object[x].freed
  BY <1>2, <1>5
<1>39. \A x \in Object : data'[x].refs = data[x].refs
  BY <1>2, <1>6
<1>40. \A x \in Object : thread'[t].old = x <=> thread[t].old = x
  BY <1>2, <1>3, <1>36, RefsAssumption DEF ThreadInv, Placed, UnrefPlaces, SetPlaces,
       GetPlaces
<1>41. \A x \in Object : UsersInv(x)'
  BY <1>36, <1>37, <1>38, <1>39, <1>40, UsersKept
<1>42. \A x \in Object : UsersInv(x)'
  BY <1>41
<1>43. \A x \in Object : object'[x].freed = object[x].freed /\ object'[x].frozen = object[x].frozen
  BY <1>2, <1>5
<1>44. \A x \in Object : Freezes(t, x)' <=> Freezes(t, x)
  BY <1>2, <1>3, <1>36, RefsAssumption DEF Freezes, ThreadInv, Placed, UnrefPlaces, SetPlaces,
       GetPlaces
<1>45. \A x \in Object : FrozenInv(x)'
  BY <1>36, <1>37, <1>43, <1>44, FrozenKept
<1>46. \A x \in Object : FrozenInv(x)'
  BY <1>45
<1>47. Rest'
  BY <1>42, <1>46 DEF Rest, RestInv
<1> QED
  BY <1>13, <1>24, <1>23, <1>35, <1>47 DEF IInv

LEMMA StepClearNothingDrop ==
  ASSUME IInv, NEW t \in Thread, ClearNothing(t), thread[t].mode = "drop"
  PROVE  IInv'
<1>1. Base /\ ObjectLocks /\ DataLocks /\ WeakLocks /\ Lists /\ Life /\ Rest
  BY DEF IInv, Locks
<1>2. Types /\ ThreadInv(t) /\ HoldsInv(t) /\ thread[t] \in ThreadRecord /\ t # None
  BY <1>1, RefsAssumption DEF Base, Types
<1>3. /\ thread[t].at = "clear"
      /\ thread[t].mode = "drop" /\ ~object[thread[t].d].ever
  BY <1>1, DidClearNothingDrop
<1>4. Goes(t, "finalize", thread[t].d, thread[t].mode, thread[t].frozen, thread[t].r,
                thread[t].new, thread[t].old, thread[t].ptr)
  BY <1>1, DidClearNothingDrop
<1>5. SetsObject(thread[t].d, 0, object[thread[t].d].freed, object[thread[t].d].ever,
                object[thread[t].d].frozen, object[thread[t].d].lock)
  BY <1>1, DidClearNothingDrop
<1>6. data' = data
  BY <1>1, DidClearNothingDrop
<1>7. weak' = weak
  BY <1>1, DidClearNothingDrop
<1>8. holds' = holds
  BY <1>1, DidClearNothingDrop
<1>9. thread[t].d \in Object
  BY <1>2, <1>3 DEF ThreadInv, Placed, UnrefPlaces, SetPlaces, GetPlaces
<1>10. /\ object' \in [Object -> ObjectType] /\ data' \in [Object -> DataType]
       /\ weak' \in [Weak -> WeakRecord]
  BY <1>2, <1>5, <1>6, <1>7 DEF Types, SetsObject
<1>11. Placed("finalize", thread[t].d, thread[t].mode, thread[t].frozen, thread[t].r,
                 thread[t].new, thread[t].old, thread[t].ptr)
  BY <1>2, <1>3, <1>9, RefsAssumption DEF ThreadInv, ThreadRecord, Placed, UnrefPlaces,
       SetPlaces, GetPlaces
<1>12. /\ thread[t].new # None => holds[t][thread[t].new] # 0 \/ thread[t].new = thread[t].d
       /\ "finalize" \in GetPlaces => \A k \in Object : holds[t][k] <= MaxHolds
  BY <1>2, <1>3 DEF HoldsInv, ThreadInv, Placed, UnrefPlaces, SetPlaces, GetPlaces
<1>13. Base'
  BY <1>1, <1>4, <1>8, <1>10, <1>11, <1>12, BaseKept
<1>14. \A k \in Object : object'[k].lock = object[k].lock /\ (object[k].ever => object'[k].ever)
  BY <1>2, <1>5 DEF SetsObject, Types
<1>15. ObjectLocks'
  BY <1>1, <1>3, <1>4, <1>14, ObjectLocksKept
<1>16. \A k \in Object : data'[k].lock = data[k].lock
  BY <1>2, <1>6
<1>17. thread[t].at \notin DataLocked /\ "finalize" \notin DataLocked
  BY <1>3 DEF DataLocked
<1>18. DataLocks'
  BY <1>1, <1>4, <1>16, <1>17, DataLocksKept
<1>19. thread[t].at \notin WeakLocked /\ "finalize" \notin WeakLocked
  BY <1>3 DEF WeakLocked
<1>20. WeakLocks'
  BY <1>1, <1>4, <1>7, <1>19, WeakLocksKept
<1>21. /\ thread[t].old \in Object => object'[thread[t].old].ever
       /\ thread[t].new \in Object /\ "finalize" # "create" => object'[thread[t].new].ever
  BY <1>1, <1>2, <1>3, <1>14, RefsAssumption DEF Lists, ThreadInv, Placed, UnrefPlaces,
       SetPlaces, GetPlaces
<1>22. /\ \A k \in Weak : weak'[k].ptr = weak[k].ptr
       /\ \A k \in Object : data'[k].list = data[k].list
  BY <1>2, <1>6, <1>7
<1>23. Lists'
  BY <1>1, <1>4, <1>14, <1>21, <1>22, ListsKept
<1>24. Locks'
  BY <1>15, <1>18, <1>20 DEF Locks
<1>25. /\ \A w \in Thread \ {t} : thread'[w] = thread[w]
       /\ thread'[t].at = "finalize" /\ thread'[t].d = thread[t].d /\ thread'[t].mode = thread[t].mode
  BY <1>4 DEF Goes
<1>26. Types /\ \A x \in Object : LifeInv(x) /\ CountInv(x)
  BY <1>1, <1>2 DEF Life, LifeInv
<1>27. \A x \in Object : object'[x].freed = object[x].freed
  BY <1>2, <1>5 DEF SetsObject
<1>28. \A x \in Object \ {thread[t].d} : object'[x].refs = object[x].refs
  BY <1>2, <1>5 DEF SetsObject
<1>29. \A x \in Object, v \in Thread : holds'[v][x] = holds[v][x]
  BY <1>8
<1>30. \A x \in Object : object[x].ever => object'[x].ever
  BY <1>14
<1>31. \A x \in Object, k \in Weak : weak'[k].ptr = x => weak[k].ptr = x \/ object[x].refs # 0
  BY <1>22
<1>32. \A x \in Object \ {thread[t].d} : thread[t].d # x /\ thread'[t].d # x
  BY <1>25
<1>33. \A x \in Object \ {thread[t].d} : LifeInv(x)'
  BY <1>25, <1>26, <1>27, <1>28, <1>29, <1>30, <1>31, <1>32, LifeApart
<1>34. ASSUME NEW x \in Object, x = thread[t].d
       PROVE  LifeInv(x)'
  <2>1. Flies(t, x) /\ Doomed(t, x)' /\ ~Sole(t, x)'
    BY <1>34, <1>3, <1>25 DEF Flies, Doomed, Sole
  <2>2. Sole(t, x)
    BY <1>34, <1>3 DEF Sole
  <2>3. object[x].refs = 1
    BY <1>26, <1>34, <2>2 DEF LifeInv, SoleInv
  <2>4. \A k \in Weak : weak'[k].ptr # x
    BY <1>1, <1>3, <1>34, <1>22 DEF Lists
  <2>5. object'[x].refs = 0
    BY <1>34, <1>5 DEF SetsObject
  <2>6. \A k \in Weak : weak'[k].ptr = x => thread'[t].at = "clearing"
    BY <2>4
  <2> QED
    BY <1>25, <1>26, <1>34, <1>27, <1>29, <1>30, <2>1, <2>5, <2>3, <2>6, LifeEnds
<1>35. Life'
  BY <1>33, <1>34 DEF Life
<1>36. /\ \A w \in Thread \ {t} : thread'[w] = thread[w]
       /\ thread'[t].d = thread[t].d /\ thread'[t].frozen = thread[t].frozen /\ thread'[t].old = thread[t].old
  BY <1>4 DEF Goes
<1>37. \A x \in Object : UsersInv(x) /\ FrozenInv(x)
  BY <1>1 DEF Rest, RestInv
<1>38. \A x \in Object : object'[x].ever = object[x].ever /\ object'[x].freed = object[x].freed
  BY <1>2, <1>5 DEF SetsObject
<1>39. \A x \in Object : data'[x].refs = data[x].refs
  BY <1>2, <1>6
<1>40. \A x \in Object : thread'[t].old = x <=> thread[t].old = x
  BY <1>2, <1>3, <1>36, RefsAssumption DEF ThreadInv, Placed, UnrefPlaces, SetPlaces,
       GetPlaces
<1>41. \A x \in Object : UsersInv(x)'
  BY <1>36, <1>37, <1>38, <1>39, <1>40, UsersKept
<1>42. \A x \in Object : UsersInv(x)'
  BY <1>41
<1>43. \A x \in Object : object'[x].freed = object[x].freed /\ object'[x].frozen = object[x].frozen
  BY <1>2, <1>5 DEF SetsObject
<1>44. \A x \in Object : Freezes(t, x)' <=> Freezes(t, x)
  BY <1>2, <1>3, <1>36, RefsAssumption DEF Freezes, ThreadInv, Placed, UnrefPlaces, SetPlaces,
       GetPlaces
<1>45. \A x \in Object : FrozenInv(x)'
  BY <1>36, <1>37, <1>43, <1>44, FrozenKept
<1>46. \A x \in Object : FrozenInv(x)'
  BY <1>45
<1>47. Rest'
  BY <1>42, <1>46 DEF Rest, RestInv
<1> QED
  BY <1>13, <1>24, <1>23, <1>35, <1>47 DEF IInv

LEMMA StepClearNothingRun ==
  ASSUME IInv, NEW t \in Thread, ClearNothing(t), thread[t].mode = "run"
  PROVE  IInv'
<1>1. Base /\ ObjectLocks /\ DataLocks /\ WeakLocks /\ Lists /\ Life /\ Rest
  BY DEF IInv, Locks
<1>2. Types /\ ThreadInv(t) /\ HoldsInv(t) /\ thread[t] \in ThreadRecord /\ t # None
  BY <1>1, RefsAssumption DEF Base, Types
<1>3. /\ thread[t].at = "clear"
      /\ thread[t].mode = "run"
  BY <1>1, DidClearNothingRun
<1>4. Goes(t, "unref", thread[t].d, thread[t].mode, thread[t].frozen, thread[t].r,
                thread[t].new, thread[t].old, thread[t].ptr)
  BY <1>1, DidClearNothingRun
<1>5. object' = object
  BY <1>1, DidClearNothingRun
<1>6. data' = data
  BY <1>1, DidClearNothingRun
<1>7. weak' = weak
  BY <1>1, DidClearNothingRun
<1>8. holds' = holds
  BY <1>1, DidClearNothingRun
<1>9. thread[t].d \in Object
  BY <1>2, <1>3 DEF ThreadInv, Placed, UnrefPlaces, SetPlaces, GetPlaces
<1>10. /\ object' \in [Object -> ObjectType] /\ data' \in [Object -> DataType]
       /\ weak' \in [Weak -> WeakRecord]
  BY <1>2, <1>5, <1>6, <1>7 DEF Types
<1>11. Placed("unref", thread[t].d, thread[t].mode, thread[t].frozen, thread[t].r,
                 thread[t].new, thread[t].old, thread[t].ptr)
  BY <1>2, <1>3, <1>9, RefsAssumption DEF ThreadInv, ThreadRecord, Placed, UnrefPlaces,
       SetPlaces, GetPlaces
<1>12. /\ thread[t].new # None => holds[t][thread[t].new] # 0 \/ thread[t].new = thread[t].d
       /\ "unref" \in GetPlaces => \A k \in Object : holds[t][k] <= MaxHolds
  BY <1>2, <1>3 DEF HoldsInv, ThreadInv, Placed, UnrefPlaces, SetPlaces, GetPlaces
<1>13. Base'
  BY <1>1, <1>4, <1>8, <1>10, <1>11, <1>12, BaseKept
<1>14. \A k \in Object : object'[k].lock = object[k].lock /\ (object[k].ever => object'[k].ever)
  BY <1>2, <1>5
<1>15. ObjectLocks'
  BY <1>1, <1>3, <1>4, <1>14, ObjectLocksKept
<1>16. \A k \in Object : data'[k].lock = data[k].lock
  BY <1>2, <1>6
<1>17. thread[t].at \notin DataLocked /\ "unref" \notin DataLocked
  BY <1>3 DEF DataLocked
<1>18. DataLocks'
  BY <1>1, <1>4, <1>16, <1>17, DataLocksKept
<1>19. thread[t].at \notin WeakLocked /\ "unref" \notin WeakLocked
  BY <1>3 DEF WeakLocked
<1>20. WeakLocks'
  BY <1>1, <1>4, <1>7, <1>19, WeakLocksKept
<1>21. /\ thread[t].old \in Object => object'[thread[t].old].ever
       /\ thread[t].new \in Object /\ "unref" # "create" => object'[thread[t].new].ever
  BY <1>1, <1>2, <1>3, <1>14, RefsAssumption DEF Lists, ThreadInv, Placed, UnrefPlaces,
       SetPlaces, GetPlaces
<1>22. /\ \A k \in Weak : weak'[k].ptr = weak[k].ptr
       /\ \A k \in Object : data'[k].list = data[k].list
  BY <1>2, <1>6, <1>7
<1>23. Lists'
  BY <1>1, <1>4, <1>14, <1>21, <1>22, ListsKept
<1>24. Locks'
  BY <1>15, <1>18, <1>20 DEF Locks
<1>25. /\ \A w \in Thread \ {t} : thread'[w] = thread[w]
       /\ thread'[t].at = "unref" /\ thread'[t].d = thread[t].d /\ thread'[t].mode = thread[t].mode
  BY <1>4 DEF Goes
<1>26. Types /\ \A x \in Object : LifeInv(x) /\ CountInv(x)
  BY <1>1, <1>2 DEF Life, LifeInv
<1>27. \A x \in Object : object'[x].freed = object[x].freed
  BY <1>2, <1>5
<1>28. \A x \in Object : object'[x].refs = object[x].refs
  BY <1>2, <1>5
<1>29. \A x \in Object, v \in Thread : holds'[v][x] = holds[v][x]
  BY <1>8
<1>30. \A x \in Object : object[x].ever => object'[x].ever
  BY <1>14
<1>31. \A x \in Object, k \in Weak : weak'[k].ptr = x => weak[k].ptr = x \/ object[x].refs # 0
  BY <1>22
<1>32. \A x \in Object \ {thread[t].d} : thread[t].d # x /\ thread'[t].d # x
  BY <1>25
<1>33. \A x \in Object \ {thread[t].d} : LifeInv(x)'
  BY <1>25, <1>26, <1>27, <1>28, <1>29, <1>30, <1>31, <1>32, LifeApart
<1>34. ASSUME NEW x \in Object, x = thread[t].d
       PROVE  LifeInv(x)'
  <2>1. Flies(t, x) /\ Flies(t, x)'
    BY <1>34, <1>3, <1>25 DEF Flies, Doomed
  <2>2. ~Sole(t, x)'
    BY <1>34, <1>3, <1>25 DEF Sole
  <2> QED
    BY <1>25, <1>26, <1>27, <1>28, <1>29, <1>30, <2>1, <2>2, LifeFlies
<1>35. Life'
  BY <1>33, <1>34 DEF Life
<1>36. /\ \A w \in Thread \ {t} : thread'[w] = thread[w]
       /\ thread'[t].d = thread[t].d /\ thread'[t].frozen = thread[t].frozen /\ thread'[t].old = thread[t].old
  BY <1>4 DEF Goes
<1>37. \A x \in Object : UsersInv(x) /\ FrozenInv(x)
  BY <1>1 DEF Rest, RestInv
<1>38. \A x \in Object : object'[x].ever = object[x].ever /\ object'[x].freed = object[x].freed
  BY <1>2, <1>5
<1>39. \A x \in Object : data'[x].refs = data[x].refs
  BY <1>2, <1>6
<1>40. \A x \in Object : thread'[t].old = x <=> thread[t].old = x
  BY <1>2, <1>3, <1>36, RefsAssumption DEF ThreadInv, Placed, UnrefPlaces, SetPlaces,
       GetPlaces
<1>41. \A x \in Object : UsersInv(x)'
  BY <1>36, <1>37, <1>38, <1>39, <1>40, UsersKept
<1>42. \A x \in Object : UsersInv(x)'
  BY <1>41
<1>43. \A x \in Object : object'[x].freed = object[x].freed /\ object'[x].frozen = object[x].frozen
  BY <1>2, <1>5
<1>44. \A x \in Object : Freezes(t, x)' <=> Freezes(t, x)
  BY <1>2, <1>3, <1>36, RefsAssumption DEF Freezes, ThreadInv, Placed, UnrefPlaces, SetPlaces,
       GetPlaces
<1>45. \A x \in Object : FrozenInv(x)'
  BY <1>36, <1>37, <1>43, <1>44, FrozenKept
<1>46. \A x \in Object : FrozenInv(x)'
  BY <1>45
<1>47. Rest'
  BY <1>42, <1>46 DEF Rest, RestInv
<1> QED
  BY <1>13, <1>24, <1>23, <1>35, <1>47 DEF IInv

LEMMA StepClearLocksKeeps ==
  ASSUME IInv, NEW t \in Thread, ClearLocks(t), Alone(t), thread[t].mode # "drop"
  PROVE  IInv'
<1>1. Base /\ ObjectLocks /\ DataLocks /\ WeakLocks /\ Lists /\ Life /\ Rest
  BY DEF IInv, Locks
<1>2. Types /\ ThreadInv(t) /\ HoldsInv(t) /\ thread[t] \in ThreadRecord /\ t # None
  BY <1>1, RefsAssumption DEF Base, Types
<1>3. /\ thread[t].at = "clear"
      /\ thread[t].mode # "drop"
      /\ thread[t].mode = "check" => object[thread[t].d].refs = 1
      /\ object[thread[t].d].ever /\ data[thread[t].d].lock = None
  BY <1>1, DidClearLocksKeeps
<1>4. Goes(t, "clearing", thread[t].d, thread[t].mode, thread[t].frozen, thread[t].r,
                thread[t].new, thread[t].old, thread[t].ptr)
  BY <1>1, DidClearLocksKeeps
<1>5. object' = object
  BY <1>1, DidClearLocksKeeps
<1>6. SetsData(thread[t].d, data[thread[t].d].refs, t, data[thread[t].d].list)
  BY <1>1, DidClearLocksKeeps
<1>7. weak' = weak
  BY <1>1, DidClearLocksKeeps
<1>8. holds' = holds
  BY <1>1, DidClearLocksKeeps
<1>9. thread[t].d \in Object
  BY <1>2, <1>3 DEF ThreadInv, Placed, UnrefPlaces, SetPlaces, GetPlaces
<1>10. /\ object' \in [Object -> ObjectType] /\ data' \in [Object -> DataType]
       /\ weak' \in [Weak -> WeakRecord]
  BY <1>2, <1>5, <1>6, <1>7 DEF Types, SetsData
<1>11. Placed("clearing", thread[t].d, thread[t].mode, thread[t].frozen, thread[t].r,
                 thread[t].new, thread[t].old, thread[t].ptr)
  BY <1>2, <1>3, <1>9, RefsAssumption DEF ThreadInv, ThreadRecord, Placed, UnrefPlaces,
       SetPlaces, GetPlaces
<1>12. /\ thread[t].new # None => holds[t][thread[t].new] # 0 \/ thread[t].new = thread[t].d
       /\ "clearing" \in GetPlaces => \A k \in Object : holds[t][k] <= MaxHolds
  BY <1>2, <1>3 DEF HoldsInv, ThreadInv, Placed, UnrefPlaces, SetPlaces, GetPlaces
<1>13. Base'
  BY <1>1, <1>4, <1>8, <1>10, <1>11, <1>12, BaseKept
<1>14. \A k \in Object : object'[k].lock = object[k].lock /\ (object[k].ever => object'[k].ever)
  BY <1>2, <1>5
<1>15. ObjectLocks'
  BY <1>1, <1>3, <1>4, <1>14, ObjectLocksKept
<1>16. \A k \in Object : data[k].lock = t <=> HasData(t, k)
  BY <1>1 DEF DataLocks
<1>17. \A k \in Object : HasData(t, k) <=> FALSE
  BY <1>3 DEF HasData
<1>18. \A k \in Object : HasData(t, k)' <=> thread[t].d = k
  BY <1>3, <1>4 DEF HasData, Goes
<1>19. \A k \in Object : \/ data'[k].lock = data[k].lock
                         \/ data[k].lock \in {None, t} /\ data'[k].lock \in {None, t}
  BY <1>3, <1>6, <1>16, <1>17 DEF SetsData
<1>20. \A k \in Object : data'[k].lock = t <=> HasData(t, k)'
  BY <1>2, <1>3, <1>6, <1>16, <1>17, <1>18, <1>9 DEF SetsData
<1>21. DataLocks'
  BY <1>1, <1>4, <1>19, <1>20, DataLocksStep
<1>22. thread[t].at \notin WeakLocked /\ "clearing" \notin WeakLocked
  BY <1>3 DEF WeakLocked
<1>23. WeakLocks'
  BY <1>1, <1>4, <1>7, <1>22, WeakLocksKept
<1>24. /\ thread[t].old \in Object => object'[thread[t].old].ever
       /\ thread[t].new \in Object /\ "clearing" # "create" => object'[thread[t].new].ever
  BY <1>1, <1>2, <1>3, <1>14, RefsAssumption DEF Lists, ThreadInv, Placed, UnrefPlaces,
       SetPlaces, GetPlaces
<1>25. /\ \A k \in Weak : weak'[k].ptr = weak[k].ptr
       /\ \A k \in Object : data'[k].list = data[k].list
  BY <1>2, <1>6, <1>7 DEF SetsData
<1>26. Lists'
  BY <1>1, <1>4, <1>14, <1>24, <1>25, ListsKept
<1>27. Locks'
  BY <1>15, <1>21, <1>23 DEF Locks
<1>28. /\ \A w \in Thread \ {t} : thread'[w] = thread[w]
       /\ thread'[t].at = "clearing" /\ thread'[t].d = thread[t].d /\ thread'[t].mode = thread[t].mode
  BY <1>4 DEF Goes
<1>29. Types /\ \A x \in Object : LifeInv(x) /\ CountInv(x)
  BY <1>1, <1>2 DEF Life, LifeInv
<1>30. \A x \in Object : object'[x].freed = object[x].freed
  BY <1>2, <1>5
<1>31. \A x \in Object : object'[x].refs = object[x].refs
  BY <1>2, <1>5
<1>32. \A x \in Object, v \in Thread : holds'[v][x] = holds[v][x]
  BY <1>8
<1>33. \A x \in Object : object[x].ever => object'[x].ever
  BY <1>14
<1>34. \A x \in Object, k \in Weak : weak'[k].ptr = x => weak[k].ptr = x \/ object[x].refs # 0
  BY <1>25
<1>35. \A x \in Object \ {thread[t].d} : thread[t].d # x /\ thread'[t].d # x
  BY <1>28
<1>36. \A x \in Object \ {thread[t].d} : LifeInv(x)'
  BY <1>28, <1>29, <1>30, <1>31, <1>32, <1>33, <1>34, <1>35, LifeApart
<1>37. ASSUME NEW x \in Object, x = thread[t].d
       PROVE  LifeInv(x)'
  <2>1. Flies(t, x) /\ Flies(t, x)'
    BY <1>37, <1>3, <1>28 DEF Flies, Doomed
  <2>2. Sole(t, x)' => object[x].refs = 1
    BY <1>37, <1>3, <1>28 DEF Sole
  <2> QED
    BY <1>28, <1>29, <1>30, <1>31, <1>32, <1>33, <2>1, <2>2, LifeFlies
<1>38. Life'
  BY <1>36, <1>37 DEF Life
<1>39. /\ \A w \in Thread \ {t} : thread'[w] = thread[w]
       /\ thread'[t].d = thread[t].d /\ thread'[t].frozen = thread[t].frozen /\ thread'[t].old = thread[t].old
  BY <1>4 DEF Goes
<1>40. \A x \in Object : UsersInv(x) /\ FrozenInv(x)
  BY <1>1 DEF Rest, RestInv
<1>41. \A x \in Object : object'[x].ever = object[x].ever /\ object'[x].freed = object[x].freed
  BY <1>2, <1>5
<1>42. \A x \in Object : data'[x].refs = data[x].refs
  BY <1>2, <1>6 DEF SetsData
<1>43. \A x \in Object : thread'[t].old = x <=> thread[t].old = x
  BY <1>2, <1>3, <1>39, RefsAssumption DEF ThreadInv, Placed, UnrefPlaces, SetPlaces,
       GetPlaces
<1>44. \A x \in Object : UsersInv(x)'
  BY <1>39, <1>40, <1>41, <1>42, <1>43, UsersKept
<1>45. \A x \in Object : UsersInv(x)'
  BY <1>44
<1>46. \A x \in Object : object'[x].freed = object[x].freed /\ object'[x].frozen = object[x].frozen
  BY <1>2, <1>5
<1>47. \A x \in Object : Freezes(t, x)' <=> Freezes(t, x)
  BY <1>2, <1>3, <1>39, RefsAssumption DEF Freezes, ThreadInv, Placed, UnrefPlaces, SetPlaces,
       GetPlaces
<1>48. \A x \in Object : FrozenInv(x)'
  BY <1>39, <1>40, <1>46, <1>47, FrozenKept
<1>49. \A x \in Object : FrozenInv(x)'
  BY <1>48
<1>50. Rest'
  BY <1>45, <1>49 DEF Rest, RestInv
<1> QED
  BY <1>13, <1>27, <1>26, <1>38, <1>50 DEF IInv

LEMMA StepClearLocksDrops ==
  ASSUME IInv, NEW t \in Thread, ClearLocks(t), Alone(t), thread[t].mode = "drop"
  PROVE  IInv'
<1>1. Base /\ ObjectLocks /\ DataLocks /\ WeakLocks /\ Lists /\ Life /\ Rest
  BY DEF IInv, Locks
<1>2. Types /\ ThreadInv(t) /\ HoldsInv(t) /\ thread[t] \in ThreadRecord /\ t # None
  BY <1>1, RefsAssumption DEF Base, Types
<1>3. /\ thread[t].at = "clear"
      /\ thread[t].mode = "drop"
      /\ object[thread[t].d].refs = 1
      /\ object[thread[t].d].ever /\ data[thread[t].d].lock = None
  BY <1>1, DidClearLocksDrops
<1>4. Goes(t, "clearing", thread[t].d, thread[t].mode, thread[t].frozen, thread[t].r,
                thread[t].new, thread[t].old, thread[t].ptr)
  BY <1>1, DidClearLocksDrops
<1>5. SetsObject(thread[t].d, 0, object[thread[t].d].freed, object[thread[t].d].ever,
                object[thread[t].d].frozen, object[thread[t].d].lock)
  BY <1>1, DidClearLocksDrops
<1>6. SetsData(thread[t].d, data[thread[t].d].refs, t, data[thread[t].d].list)
  BY <1>1, DidClearLocksDrops
<1>7. weak' = weak
  BY <1>1, DidClearLocksDrops
<1>8. holds' = holds
  BY <1>1, DidClearLocksDrops
<1>9. thread[t].d \in Object
  BY <1>2, <1>3 DEF ThreadInv, Placed, UnrefPlaces, SetPlaces, GetPlaces
<1>10. /\ object' \in [Object -> ObjectType] /\ data' \in [Object -> DataType]
       /\ weak' \in [Weak -> WeakRecord]
  BY <1>2, <1>5, <1>6, <1>7 DEF Types, SetsObject, SetsData
<1>11. Placed("clearing", thread[t].d, thread[t].mode, thread[t].frozen, thread[t].r,
                 thread[t].new, thread[t].old, thread[t].ptr)
  BY <1>2, <1>3, <1>9, RefsAssumption DEF ThreadInv, ThreadRecord, Placed, UnrefPlaces,
       SetPlaces, GetPlaces
<1>12. /\ thread[t].new # None => holds[t][thread[t].new] # 0 \/ thread[t].new = thread[t].d
       /\ "clearing" \in GetPlaces => \A k \in Object : holds[t][k] <= MaxHolds
  BY <1>2, <1>3 DEF HoldsInv, ThreadInv, Placed, UnrefPlaces, SetPlaces, GetPlaces
<1>13. Base'
  BY <1>1, <1>4, <1>8, <1>10, <1>11, <1>12, BaseKept
<1>14. \A k \in Object : object'[k].lock = object[k].lock /\ (object[k].ever => object'[k].ever)
  BY <1>2, <1>5 DEF SetsObject, Types
<1>15. ObjectLocks'
  BY <1>1, <1>3, <1>4, <1>14, ObjectLocksKept
<1>16. \A k \in Object : data[k].lock = t <=> HasData(t, k)
  BY <1>1 DEF DataLocks
<1>17. \A k \in Object : HasData(t, k) <=> FALSE
  BY <1>3 DEF HasData
<1>18. \A k \in Object : HasData(t, k)' <=> thread[t].d = k
  BY <1>3, <1>4 DEF HasData, Goes
<1>19. \A k \in Object : \/ data'[k].lock = data[k].lock
                         \/ data[k].lock \in {None, t} /\ data'[k].lock \in {None, t}
  BY <1>3, <1>6, <1>16, <1>17 DEF SetsData
<1>20. \A k \in Object : data'[k].lock = t <=> HasData(t, k)'
  BY <1>2, <1>3, <1>6, <1>16, <1>17, <1>18, <1>9 DEF SetsData
<1>21. DataLocks'
  BY <1>1, <1>4, <1>19, <1>20, DataLocksStep
<1>22. thread[t].at \notin WeakLocked /\ "clearing" \notin WeakLocked
  BY <1>3 DEF WeakLocked
<1>23. WeakLocks'
  BY <1>1, <1>4, <1>7, <1>22, WeakLocksKept
<1>24. /\ thread[t].old \in Object => object'[thread[t].old].ever
       /\ thread[t].new \in Object /\ "clearing" # "create" => object'[thread[t].new].ever
  BY <1>1, <1>2, <1>3, <1>14, RefsAssumption DEF Lists, ThreadInv, Placed, UnrefPlaces,
       SetPlaces, GetPlaces
<1>25. /\ \A k \in Weak : weak'[k].ptr = weak[k].ptr
       /\ \A k \in Object : data'[k].list = data[k].list
  BY <1>2, <1>6, <1>7 DEF SetsData
<1>26. Lists'
  BY <1>1, <1>4, <1>14, <1>24, <1>25, ListsKept
<1>27. Locks'
  BY <1>15, <1>21, <1>23 DEF Locks
<1>28. /\ \A w \in Thread \ {t} : thread'[w] = thread[w]
       /\ thread'[t].at = "clearing" /\ thread'[t].d = thread[t].d /\ thread'[t].mode = thread[t].mode
  BY <1>4 DEF Goes
<1>29. Types /\ \A x \in Object : LifeInv(x) /\ CountInv(x)
  BY <1>1, <1>2 DEF Life, LifeInv
<1>30. \A x \in Object : object'[x].freed = object[x].freed
  BY <1>2, <1>5 DEF SetsObject
<1>31. \A x \in Object \ {thread[t].d} : object'[x].refs = object[x].refs
  BY <1>2, <1>5 DEF SetsObject
<1>32. \A x \in Object, v \in Thread : holds'[v][x] = holds[v][x]
  BY <1>8
<1>33. \A x \in Object : object[x].ever => object'[x].ever
  BY <1>14
<1>34. \A x \in Object, k \in Weak : weak'[k].ptr = x => weak[k].ptr = x \/ object[x].refs # 0
  BY <1>25
<1>35. \A x \in Object \ {thread[t].d} : thread[t].d # x /\ thread'[t].d # x
  BY <1>28
<1>36. \A x \in Object \ {thread[t].d} : LifeInv(x)'
  BY <1>28, <1>29, <1>30, <1>31, <1>32, <1>33, <1>34, <1>35, LifeApart
<1>37. ASSUME NEW x \in Object, x = thread[t].d
       PROVE  LifeInv(x)'
  <2>1. Flies(t, x) /\ Doomed(t, x)' /\ ~Sole(t, x)'
    BY <1>37, <1>3, <1>28 DEF Flies, Doomed, Sole
  <2>2. object[x].refs = 1
    BY <1>37, <1>3
  <2>3. thread'[t].at = "clearing"
    BY <1>28
  <2>4. object'[x].refs = 0
    BY <1>37, <1>5 DEF SetsObject
  <2>5. \A k \in Weak : weak'[k].ptr = x => thread'[t].at = "clearing"
    BY <2>3
  <2> QED
    BY <1>28, <1>29, <1>37, <1>30, <1>32, <1>33, <2>1, <2>4, <2>2, <2>5, LifeEnds
<1>38. Life'
  BY <1>36, <1>37 DEF Life
<1>39. /\ \A w \in Thread \ {t} : thread'[w] = thread[w]
       /\ thread'[t].d = thread[t].d /\ thread'[t].frozen = thread[t].frozen /\ thread'[t].old = thread[t].old
  BY <1>4 DEF Goes
<1>40. \A x \in Object : UsersInv(x) /\ FrozenInv(x)
  BY <1>1 DEF Rest, RestInv
<1>41. \A x \in Object : object'[x].ever = object[x].ever /\ object'[x].freed = object[x].freed
  BY <1>2, <1>5 DEF SetsObject
<1>42. \A x \in Object : data'[x].refs = data[x].refs
  BY <1>2, <1>6 DEF SetsData
<1>43. \A x \in Object : thread'[t].old = x <=> thread[t].old = x
  BY <1>2, <1>3, <1>39, RefsAssumption DEF ThreadInv, Placed, UnrefPlaces, SetPlaces,
       GetPlaces
<1>44. \A x \in Object : UsersInv(x)'
  BY <1>39, <1>40, <1>41, <1>42, <1>43, UsersKept
<1>45. \A x \in Object : UsersInv(x)'
  BY <1>44
<1>46. \A x \in Object : object'[x].freed = object[x].freed /\ object'[x].frozen = object[x].frozen
  BY <1>2, <1>5 DEF SetsObject
<1>47. \A x \in Object : Freezes(t, x)' <=> Freezes(t, x)
  BY <1>2, <1>3, <1>39, RefsAssumption DEF Freezes, ThreadInv, Placed, UnrefPlaces, SetPlaces,
       GetPlaces
<1>48. \A x \in Object : FrozenInv(x)'
  BY <1>39, <1>40, <1>46, <1>47, FrozenKept
<1>49. \A x \in Object : FrozenInv(x)'
  BY <1>48
<1>50. Rest'
  BY <1>45, <1>49 DEF Rest, RestInv
<1> QED
  BY <1>13, <1>27, <1>26, <1>38, <1>50 DEF IInv

LEMMA StepClearNotAloneChecks ==
  ASSUME IInv, NEW t \in Thread, ClearLocks(t), ~Alone(t), thread[t].mode = "check"
  PROVE  IInv'
<1>1. Base /\ ObjectLocks /\ DataLocks /\ WeakLocks /\ Lists /\ Life /\ Rest
  BY DEF IInv, Locks
<1>2. Types /\ ThreadInv(t) /\ HoldsInv(t) /\ thread[t] \in ThreadRecord /\ t # None
  BY <1>1, RefsAssumption DEF Base, Types
<1>3. /\ thread[t].at = "clear"
      /\ thread[t].mode = "check"
  BY <1>1, DidClearNotAloneChecks
<1>4. Goes(t, "unref", thread[t].d, thread[t].mode, thread[t].frozen, thread[t].r,
                thread[t].new, thread[t].old, thread[t].ptr)
  BY <1>1, DidClearNotAloneChecks
<1>5. object' = object
  BY <1>1, DidClearNotAloneChecks
<1>6. data' = data
  BY <1>1, DidClearNotAloneChecks
<1>7. weak' = weak
  BY <1>1, DidClearNotAloneChecks
<1>8. holds' = holds
  BY <1>1, DidClearNotAloneChecks
<1>9. thread[t].d \in Object
  BY <1>2, <1>3 DEF ThreadInv, Placed, UnrefPlaces, SetPlaces, GetPlaces
<1>10. /\ object' \in [Object -> ObjectType] /\ data' \in [Object -> DataType]
       /\ weak' \in [Weak -> WeakRecord]
  BY <1>2, <1>5, <1>6, <1>7 DEF Types
<1>11. Placed("unref", thread[t].d, thread[t].mode, thread[t].frozen, thread[t].r,
                 thread[t].new, thread[t].old, thread[t].ptr)
  BY <1>2, <1>3, <1>9, RefsAssumption DEF ThreadInv, ThreadRecord, Placed, UnrefPlaces,
       SetPlaces, GetPlaces
<1>12. /\ thread[t].new # None => holds[t][thread[t].new] # 0 \/ thread[t].new = thread[t].d
       /\ "unref" \in GetPlaces => \A k \in Object : holds[t][k] <= MaxHolds
  BY <1>2, <1>3 DEF HoldsInv, ThreadInv, Placed, UnrefPlaces, SetPlaces, GetPlaces
<1>13. Base'
  BY <1>1, <1>4, <1>8, <1>10, <1>11, <1>12, BaseKept
<1>14. \A k \in Object : object'[k].lock = object[k].lock /\ (object[k].ever => object'[k].ever)
  BY <1>2, <1>5
<1>15. ObjectLocks'
  BY <1>1, <1>3, <1>4, <1>14, ObjectLocksKept
<1>16. \A k \in Object : data'[k].lock = data[k].lock
  BY <1>2, <1>6
<1>17. thread[t].at \notin DataLocked /\ "unref" \notin DataLocked
  BY <1>3 DEF DataLocked
<1>18. DataLocks'
  BY <1>1, <1>4, <1>16, <1>17, DataLocksKept
<1>19. thread[t].at \notin WeakLocked /\ "unref" \notin WeakLocked
  BY <1>3 DEF WeakLocked
<1>20. WeakLocks'
  BY <1>1, <1>4, <1>7, <1>19, WeakLocksKept
<1>21. /\ thread[t].old \in Object => object'[thread[t].old].ever
       /\ thread[t].new \in Object /\ "unref" # "create" => object'[thread[t].new].ever
  BY <1>1, <1>2, <1>3, <1>14, RefsAssumption DEF Lists, ThreadInv, Placed, UnrefPlaces,
       SetPlaces, GetPlaces
<1>22. /\ \A k \in Weak : weak'[k].ptr = weak[k].ptr
       /\ \A k \in Object : data'[k].list = data[k].list
  BY <1>2, <1>6, <1>7
<1>23. Lists'
  BY <1>1, <1>4, <1>14, <1>21, <1>22, ListsKept
<1>24. Locks'
  BY <1>15, <1>18, <1>20 DEF Locks
<1>25. /\ \A w \in Thread \ {t} : thread'[w] = thread[w]
       /\ thread'[t].at = "unref" /\ thread'[t].d = thread[t].d /\ thread'[t].mode = thread[t].mode
  BY <1>4 DEF Goes
<1>26. Types /\ \A x \in Object : LifeInv(x) /\ CountInv(x)
  BY <1>1, <1>2 DEF Life, LifeInv
<1>27. \A x \in Object : object'[x].freed = object[x].freed
  BY <1>2, <1>5
<1>28. \A x \in Object : object'[x].refs = object[x].refs
  BY <1>2, <1>5
<1>29. \A x \in Object, v \in Thread : holds'[v][x] = holds[v][x]
  BY <1>8
<1>30. \A x \in Object : object[x].ever => object'[x].ever
  BY <1>14
<1>31. \A x \in Object, k \in Weak : weak'[k].ptr = x => weak[k].ptr = x \/ object[x].refs # 0
  BY <1>22
<1>32. \A x \in Object \ {thread[t].d} : thread[t].d # x /\ thread'[t].d # x
  BY <1>25
<1>33. \A x \in Object \ {thread[t].d} : LifeInv(x)'
  BY <1>25, <1>26, <1>27, <1>28, <1>29, <1>30, <1>31, <1>32, LifeApart
<1>34. ASSUME NEW x \in Object, x = thread[t].d
       PROVE  LifeInv(x)'
  <2>1. Flies(t, x) /\ Flies(t, x)'
    BY <1>34, <1>3, <1>25 DEF Flies, Doomed
  <2>2. ~Sole(t, x)'
    BY <1>34, <1>3, <1>25 DEF Sole
  <2> QED
    BY <1>25, <1>26, <1>27, <1>28, <1>29, <1>30, <2>1, <2>2, LifeFlies
<1>35. Life'
  BY <1>33, <1>34 DEF Life
<1>36. /\ \A w \in Thread \ {t} : thread'[w] = thread[w]
       /\ thread'[t].d = thread[t].d /\ thread'[t].frozen = thread[t].frozen /\ thread'[t].old = thread[t].old
  BY <1>4 DEF Goes
<1>37. \A x \in Object : UsersInv(x) /\ FrozenInv(x)
  BY <1>1 DEF Rest, RestInv
<1>38. \A x \in Object : object'[x].ever = object[x].ever /\ object'[x].freed = object[x].freed
  BY <1>2, <1>5
<1>39. \A x \in Object : data'[x].refs = data[x].refs
  BY <1>2, <1>6
<1>40. \A x \in Object : thread'[t].old = x <=> thread[t].old = x
  BY <1>2, <1>3, <1>36, RefsAssumption DEF ThreadInv, Placed, UnrefPlaces, SetPlaces,
       GetPlaces
<1>41. \A x \in Object : UsersInv(x)'
  BY <1>36, <1>37, <1>38, <1>39, <1>40, UsersKept
<1>42. \A x \in Object : UsersInv(x)'
  BY <1>41
<1>43. \A x \in Object : object'[x].freed = object[x].freed /\ object'[x].frozen = object[x].frozen
  BY <1>2, <1>5
<1>44. \A x \in Object : Freezes(t, x)' <=> Freezes(t, x)
  BY <1>2, <1>3, <1>36, RefsAssumption DEF Freezes, ThreadInv, Placed, UnrefPlaces, SetPlaces,
       GetPlaces
<1>45. \A x \in Object : FrozenInv(x)'
  BY <1>36, <1>37, <1>43, <1>44, FrozenKept
<1>46. \A x \in Object : FrozenInv(x)'
  BY <1>45
<1>47. Rest'
  BY <1>42, <1>46 DEF Rest, RestInv
<1> QED
  BY <1>13, <1>24, <1>23, <1>35, <1>47 DEF IInv

LEMMA StepClearNotAloneDrops ==
  ASSUME IInv, NEW t \in Thread, ClearLocks(t), ~Alone(t), thread[t].mode = "drop"
  PROVE  IInv'
<1>1. Base /\ ObjectLocks /\ DataLocks /\ WeakLocks /\ Lists /\ Life /\ Rest
  BY DEF IInv, Locks
<1>2. Types /\ ThreadInv(t) /\ HoldsInv(t) /\ thread[t] \in ThreadRecord /\ t # None
  BY <1>1, RefsAssumption DEF Base, Types
<1>3. /\ thread[t].at = "clear"
      /\ thread[t].mode = "drop"
  BY <1>1, DidClearNotAloneDrops
<1>4. Goes(t, "decrement", thread[t].d, thread[t].mode, thread[t].frozen, thread[t].r,
                thread[t].new, thread[t].old, thread[t].ptr)
  BY <1>1, DidClearNotAloneDrops
<1>5. object' = object
  BY <1>1, DidClearNotAloneDrops
<1>6. data' = data
  BY <1>1, DidClearNotAloneDrops
<1>7. weak' = weak
  BY <1>1, DidClearNotAloneDrops
<1>8. holds' = holds
  BY <1>1, DidClearNotAloneDrops
<1>9. thread[t].d \in Object
  BY <1>2, <1>3 DEF ThreadInv, Placed, UnrefPlaces, SetPlaces, GetPlaces
<1>10. /\ object' \in [Object -> ObjectType] /\ data' \in [Object -> DataType]
       /\ weak' \in [Weak -> WeakRecord]
  BY <1>2, <1>5, <1>6, <1>7 DEF Types
<1>11. Placed("decrement", thread[t].d, thread[t].mode, thread[t].frozen, thread[t].r,
                 thread[t].new, thread[t].old, thread[t].ptr)
  BY <1>2, <1>3, <1>9, RefsAssumption DEF ThreadInv, ThreadRecord, Placed, UnrefPlaces,
       SetPlaces, GetPlaces
<1>12. /\ thread[t].new # None => holds[t][thread[t].new] # 0 \/ thread[t].new = thread[t].d
       /\ "decrement" \in GetPlaces => \A k \in Object : holds[t][k] <= MaxHolds
  BY <1>2, <1>3 DEF HoldsInv, ThreadInv, Placed, UnrefPlaces, SetPlaces, GetPlaces
<1>13. Base'
  BY <1>1, <1>4, <1>8, <1>10, <1>11, <1>12, BaseKept
<1>14. \A k \in Object : object'[k].lock = object[k].lock /\ (object[k].ever => object'[k].ever)
  BY <1>2, <1>5
<1>15. ObjectLocks'
  BY <1>1, <1>3, <1>4, <1>14, ObjectLocksKept
<1>16. \A k \in Object : data'[k].lock = data[k].lock
  BY <1>2, <1>6
<1>17. thread[t].at \notin DataLocked /\ "decrement" \notin DataLocked
  BY <1>3 DEF DataLocked
<1>18. DataLocks'
  BY <1>1, <1>4, <1>16, <1>17, DataLocksKept
<1>19. thread[t].at \notin WeakLocked /\ "decrement" \notin WeakLocked
  BY <1>3 DEF WeakLocked
<1>20. WeakLocks'
  BY <1>1, <1>4, <1>7, <1>19, WeakLocksKept
<1>21. /\ thread[t].old \in Object => object'[thread[t].old].ever
       /\ thread[t].new \in Object /\ "decrement" # "create" => object'[thread[t].new].ever
  BY <1>1, <1>2, <1>3, <1>14, RefsAssumption DEF Lists, ThreadInv, Placed, UnrefPlaces,
       SetPlaces, GetPlaces
<1>22. /\ \A k \in Weak : weak'[k].ptr = weak[k].ptr
       /\ \A k \in Object : data'[k].list = data[k].list
  BY <1>2, <1>6, <1>7
<1>23. Lists'
  BY <1>1, <1>4, <1>14, <1>21, <1>22, ListsKept
<1>24. Locks'
  BY <1>15, <1>18, <1>20 DEF Locks
<1>25. /\ \A w \in Thread \ {t} : thread'[w] = thread[w]
       /\ thread'[t].at = "decrement" /\ thread'[t].d = thread[t].d /\ thread'[t].mode = thread[t].mode
  BY <1>4 DEF Goes
<1>26. Types /\ \A x \in Object : LifeInv(x) /\ CountInv(x)
  BY <1>1, <1>2 DEF Life, LifeInv
<1>27. \A x \in Object : object'[x].freed = object[x].freed
  BY <1>2, <1>5
<1>28. \A x \in Object : object'[x].refs = object[x].refs
  BY <1>2, <1>5
<1>29. \A x \in Object, v \in Thread : holds'[v][x] = holds[v][x]
  BY <1>8
<1>30. \A x \in Object : object[x].ever => object'[x].ever
  BY <1>14
<1>31. \A x \in Object, k \in Weak : weak'[k].ptr = x => weak[k].ptr = x \/ object[x].refs # 0
  BY <1>22
<1>32. \A x \in Object \ {thread[t].d} : thread[t].d # x /\ thread'[t].d # x
  BY <1>25
<1>33. \A x \in Object \ {thread[t].d} : LifeInv(x)'
  BY <1>25, <1>26, <1>27, <1>28, <1>29, <1>30, <1>31, <1>32, LifeApart
<1>34. ASSUME NEW x \in Object, x = thread[t].d
       PROVE  LifeInv(x)'
  <2>1. Flies(t, x) /\ Flies(t, x)'
    BY <1>34, <1>3, <1>25 DEF Flies, Doomed
  <2>2. ~Sole(t, x)'
    BY <1>34, <1>3, <1>25 DEF Sole
  <2> QED
    BY <1>25, <1>26, <1>27, <1>28, <1>29, <1>30, <2>1, <2>2, LifeFlies
<1>35. Life'
  BY <1>33, <1>34 DEF Life
<1>36. /\ \A w \in Thread \ {t} : thread'[w] = thread[w]
       /\ thread'[t].d = thread[t].d /\ thread'[t].frozen = thread[t].frozen /\ thread'[t].old = thread[t].old
  BY <1>4 DEF Goes
<1>37. \A x \in Object : UsersInv(x) /\ FrozenInv(x)
  BY <1>1 DEF Rest, RestInv
<1>38. \A x \in Object : object'[x].ever = object[x].ever /\ object'[x].freed = object[x].freed
  BY <1>2, <1>5
<1>39. \A x \in Object : data'[x].refs = data[x].refs
  BY <1>2, <1>6
<1>40. \A x \in Object : thread'[t].old = x <=> thread[t].old = x
  BY <1>2, <1>3, <1>36, RefsAssumption DEF ThreadInv, Placed, UnrefPlaces, SetPlaces,
       GetPlaces
<1>41. \A x \in Object : UsersInv(x)'
  BY <1>36, <1>37, <1>38, <1>39, <1>40, UsersKept
<1>42. \A x \in Object : UsersInv(x)'
  BY <1>41
<1>43. \A x \in Object : object'[x].freed = object[x].freed /\ object'[x].frozen = object[x].frozen
  BY <1>2, <1>5
<1>44. \A x \in Object : Freezes(t, x)' <=> Freezes(t, x)
  BY <1>2, <1>3, <1>36, RefsAssumption DEF Freezes, ThreadInv, Placed, UnrefPlaces, SetPlaces,
       GetPlaces
<1>45. \A x \in Object : FrozenInv(x)'
  BY <1>36, <1>37, <1>43, <1>44, FrozenKept
<1>46. \A x \in Object : FrozenInv(x)'
  BY <1>45
<1>47. Rest'
  BY <1>42, <1>46 DEF Rest, RestInv
<1> QED
  BY <1>13, <1>24, <1>23, <1>35, <1>47 DEF IInv

LEMMA StepClearNext ==
  ASSUME IInv, NEW t \in Thread, NEW r \in Weak, ClearNext(t, r)
  PROVE  IInv'
<1>1. Base /\ ObjectLocks /\ DataLocks /\ WeakLocks /\ Lists /\ Life /\ Rest
  BY DEF IInv, Locks
<1>2. Types /\ ThreadInv(t) /\ HoldsInv(t) /\ thread[t] \in ThreadRecord /\ t # None
  BY <1>1, RefsAssumption DEF Base, Types
<1>3. /\ thread[t].at = "clearing"
      /\ r \in data[thread[t].d].list /\ weak[r].lock = None
  BY <1>1, DidClearNext
<1>4. Goes(t, thread[t].at, thread[t].d, thread[t].mode, thread[t].frozen, thread[t].r,
                thread[t].new, thread[t].old, thread[t].ptr)
  BY <1>1, DidClearNext
<1>5. object' = object
  BY <1>1, DidClearNext
<1>6. SetsData(thread[t].d, data[thread[t].d].refs, data[thread[t].d].lock, data[thread[t].d].list \ {r})
  BY <1>1, DidClearNext
<1>7. SetsWeak(r, None, weak[r].lock)
  BY <1>1, DidClearNext
<1>8. holds' = holds
  BY <1>1, DidClearNext
<1>9. thread[t].d \in Object
  BY <1>2, <1>3 DEF ThreadInv, Placed, UnrefPlaces, SetPlaces, GetPlaces
<1>10. /\ object' \in [Object -> ObjectType] /\ data' \in [Object -> DataType]
       /\ weak' \in [Weak -> WeakRecord]
  BY <1>2, <1>5, <1>6, <1>7 DEF Types, SetsData, SetsWeak
<1>11. Placed(thread[t].at, thread[t].d, thread[t].mode, thread[t].frozen, thread[t].r,
                 thread[t].new, thread[t].old, thread[t].ptr)
  BY <1>2, <1>3, <1>9, RefsAssumption DEF ThreadInv, ThreadRecord, Placed, UnrefPlaces,
       SetPlaces, GetPlaces
<1>12. /\ thread[t].new # None => holds[t][thread[t].new] # 0 \/ thread[t].new = thread[t].d
       /\ thread[t].at \in GetPlaces => \A k \in Object : holds[t][k] <= MaxHolds
  BY <1>2, <1>3 DEF HoldsInv, ThreadInv, Placed, UnrefPlaces, SetPlaces, GetPlaces
<1>13. Base'
  BY <1>1, <1>4, <1>8, <1>10, <1>11, <1>12, BaseKept
<1>14. \A k \in Object : object'[k].lock = object[k].lock /\ (object[k].ever => object'[k].ever)
  BY <1>2, <1>5
<1>15. ObjectLocks'
  BY <1>1, <1>3, <1>4, <1>14, ObjectLocksKept
<1>16. \A k \in Object : data'[k].lock = data[k].lock
  BY <1>2, <1>6 DEF SetsData, Types
<1>17. \A k \in Object : \/ data'[k].lock = data[k].lock
                         \/ data[k].lock \in {None, t} /\ data'[k].lock \in {None, t}
  BY <1>16
<1>18. \A k \in Object : data[k].lock = t <=> HasData(t, k)
  BY <1>1 DEF DataLocks
<1>19. \A k \in Object : HasData(t, k) <=> thread[t].d = k
  BY <1>3 DEF HasData
<1>20. \A k \in Object : HasData(t, k)' <=> thread[t].d = k
  BY <1>3, <1>4 DEF HasData, Goes
<1>21. \A k \in Object : data'[k].lock = t <=> HasData(t, k)'
  BY <1>16, <1>18, <1>19, <1>20
<1>22. DataLocks'
  BY <1>1, <1>4, <1>17, <1>21, DataLocksStep
<1>23. \A k \in Weak : weak[k].lock = t <=> FALSE
  BY <1>1, <1>3 DEF WeakLocks, HasWeak, WeakLocked
<1>24. \A k \in Weak : \/ weak'[k] = weak[k]
                       \/ weak[k].lock \in {None, t} /\ weak'[k].lock \in {None, t}
  BY <1>3, <1>7, <1>23 DEF SetsWeak
<1>25. \A k \in Weak : weak'[k].lock # t
  BY <1>2, <1>7, <1>23, <1>9 DEF SetsWeak
<1>26. thread[t].at \notin WeakLocked
  BY <1>3 DEF WeakLocked
<1>27. WeakLocks'
  BY <1>1, <1>4, <1>24, <1>25, <1>26, WeakLocksReleased
<1>28. /\ thread[t].old \in Object => object'[thread[t].old].ever
       /\ thread[t].new \in Object /\ thread[t].at # "create" => object'[thread[t].new].ever
  BY <1>1, <1>2, <1>3, <1>14, RefsAssumption DEF Lists, ThreadInv, Placed, UnrefPlaces,
       SetPlaces, GetPlaces
<1>29. \A k \in Weak, o \in Object : weak'[k].ptr = o <=> k \in data'[o].list
  BY <1>1, <1>3, <1>9, <1>6, <1>7, RefsAssumption DEF Lists, SetsData, SetsWeak
<1>30. \A k \in Weak, o \in Object : weak'[k].ptr = o => object'[o].ever
  BY <1>1, <1>3, <1>7, <1>14, RefsAssumption DEF Lists, SetsWeak
<1>31. Lists'
  BY <1>1, <1>4, <1>14, <1>28, <1>29, <1>30, ListsStep
<1>32. Locks'
  BY <1>15, <1>22, <1>27 DEF Locks
<1>33. /\ \A w \in Thread \ {t} : thread'[w] = thread[w]
       /\ thread'[t].at = thread[t].at /\ thread'[t].d = thread[t].d /\ thread'[t].mode = thread[t].mode
  BY <1>4 DEF Goes
<1>34. Types /\ \A x \in Object : LifeInv(x) /\ CountInv(x)
  BY <1>1, <1>2 DEF Life, LifeInv
<1>35. \A x \in Object : object'[x].freed = object[x].freed
  BY <1>2, <1>5
<1>36. \A x \in Object : object'[x].refs = object[x].refs
  BY <1>2, <1>5
<1>37. \A x \in Object, v \in Thread : holds'[v][x] = holds[v][x]
  BY <1>8
<1>38. \A x \in Object : object[x].ever => object'[x].ever
  BY <1>14
<1>39. \A x \in Object, k \in Weak : weak'[k].ptr = x => weak[k].ptr = x \/ object[x].refs # 0
  BY <1>7, RefsAssumption DEF SetsWeak
<1>40. \A x \in Object \ {thread[t].d} : thread[t].d # x /\ thread'[t].d # x
  BY <1>33
<1>41. \A x \in Object \ {thread[t].d} : LifeInv(x)'
  BY <1>33, <1>34, <1>35, <1>36, <1>37, <1>38, <1>39, <1>40, LifeApart
<1>42. ASSUME NEW x \in Object, x = thread[t].d
       PROVE  LifeInv(x)'
  <2>1. /\ Flies(t, x)' <=> Flies(t, x)
        /\ Doomed(t, x)' <=> Doomed(t, x)
    BY <1>33 DEF Flies, Doomed
  <2>2. thread'[t].d = x => thread[t].d = x
    BY <1>33
  <2>3. Sole(t, x)' => Sole(t, x)
    BY <1>33, <1>42, <1>38 DEF Sole
  <2>4. Sole(t, x)' => object[x].refs = 1
    BY <1>34, <1>42, <2>3 DEF LifeInv, SoleInv
  <2>5. \A k \in Weak : weak'[k].ptr = x =>
          \/ object[x].refs # 0
          \/ /\ weak[k].ptr = x
             /\ Doomed(t, x) /\ thread[t].at = "clearing" => thread'[t].at = "clearing"
    BY <1>33, <1>42, <1>39
  <2> QED
    BY <1>33, <1>34, <1>42, <1>35, <1>36, <1>37, <1>38, <2>1, <2>2, <2>5, <2>4, LifeKept
<1>43. Life'
  BY <1>41, <1>42 DEF Life
<1>44. /\ \A w \in Thread \ {t} : thread'[w] = thread[w]
       /\ thread'[t].d = thread[t].d /\ thread'[t].frozen = thread[t].frozen /\ thread'[t].old = thread[t].old
  BY <1>4 DEF Goes
<1>45. \A x \in Object : UsersInv(x) /\ FrozenInv(x)
  BY <1>1 DEF Rest, RestInv
<1>46. \A x \in Object : object'[x].ever = object[x].ever /\ object'[x].freed = object[x].freed
  BY <1>2, <1>5
<1>47. \A x \in Object : data'[x].refs = data[x].refs
  BY <1>2, <1>6 DEF SetsData
<1>48. \A x \in Object : thread'[t].old = x <=> thread[t].old = x
  BY <1>2, <1>3, <1>44, RefsAssumption DEF ThreadInv, Placed, UnrefPlaces, SetPlaces,
       GetPlaces
<1>49. \A x \in Object : UsersInv(x)'
  BY <1>44, <1>45, <1>46, <1>47, <1>48, UsersKept
<1>50. \A x \in Object : UsersInv(x)'
  BY <1>49
<1>51. \A x \in Object : object'[x].freed = object[x].freed /\ object'[x].frozen = object[x].frozen
  BY <1>2, <1>5
<1>52. \A x \in Object : Freezes(t, x)' <=> Freezes(t, x)
  BY <1>2, <1>3, <1>44, RefsAssumption DEF Freezes, ThreadInv, Placed, UnrefPlaces, SetPlaces,
       GetPlaces
<1>53. \A x \in Object : FrozenInv(x)'
  BY <1>44, <1>45, <1>51, <1>52, FrozenKept
<1>54. \A x \in Object : FrozenInv(x)'
  BY <1>53
<1>55. Rest'
  BY <1>50, <1>54 DEF Rest, RestInv
<1> QED
  BY <1>13, <1>32, <1>31, <1>43, <1>55 DEF IInv

LEMMA StepClearUnlocksCheck ==
  ASSUME IInv, NEW t \in Thread, ClearUnlocks(t), thread[t].mode = "check"
  PROVE  IInv'
<1>1. Base /\ ObjectLocks /\ DataLocks /\ WeakLocks /\ Lists /\ Life /\ Rest
  BY DEF IInv, Locks
<1>2. Types /\ ThreadInv(t) /\ HoldsInv(t) /\ thread[t] \in ThreadRecord /\ t # None
  BY <1>1, RefsAssumption DEF Base, Types
<1>3. /\ thread[t].at = "clearing"
      /\ thread[t].mode = "check" /\ data[thread[t].d].list = {}
  BY <1>1, DidClearUnlocksCheck
<1>4. Goes(t, "freeze", thread[t].d, thread[t].mode, thread[t].frozen, thread[t].r,
                thread[t].new, thread[t].old, thread[t].ptr)
  BY <1>1, DidClearUnlocksCheck
<1>5. object' = object
  BY <1>1, DidClearUnlocksCheck
<1>6. SetsData(thread[t].d, data[thread[t].d].refs, None, data[thread[t].d].list)
  BY <1>1, DidClearUnlocksCheck
<1>7. weak' = weak
  BY <1>1, DidClearUnlocksCheck
<1>8. holds' = holds
  BY <1>1, DidClearUnlocksCheck
<1>9. thread[t].d \in Object
  BY <1>2, <1>3 DEF ThreadInv, Placed, UnrefPlaces, SetPlaces, GetPlaces
<1>10. /\ object' \in [Object -> ObjectType] /\ data' \in [Object -> DataType]
       /\ weak' \in [Weak -> WeakRecord]
  BY <1>2, <1>5, <1>6, <1>7 DEF Types, SetsData
<1>11. Placed("freeze", thread[t].d, thread[t].mode, thread[t].frozen, thread[t].r,
                 thread[t].new, thread[t].old, thread[t].ptr)
  BY <1>2, <1>3, <1>9, RefsAssumption DEF ThreadInv, ThreadRecord, Placed, UnrefPlaces,
       SetPlaces, GetPlaces
<1>12. /\ thread[t].new # None => holds[t][thread[t].new] # 0 \/ thread[t].new = thread[t].d
       /\ "freeze" \in GetPlaces => \A k \in Object : holds[t][k] <= MaxHolds
  BY <1>2, <1>3 DEF HoldsInv, ThreadInv, Placed, UnrefPlaces, SetPlaces, GetPlaces
<1>13. Base'
  BY <1>1, <1>4, <1>8, <1>10, <1>11, <1>12, BaseKept
<1>14. \A k \in Object : object'[k].lock = object[k].lock /\ (object[k].ever => object'[k].ever)
  BY <1>2, <1>5
<1>15. ObjectLocks'
  BY <1>1, <1>3, <1>4, <1>14, ObjectLocksKept
<1>16. \A k \in Object : data[k].lock = t <=> HasData(t, k)
  BY <1>1 DEF DataLocks
<1>17. \A k \in Object : HasData(t, k) <=> thread[t].d = k
  BY <1>3 DEF HasData
<1>18. \A k \in Object : HasData(t, k)' <=> FALSE
  BY <1>3, <1>4 DEF HasData, Goes
<1>19. \A k \in Object : \/ data'[k].lock = data[k].lock
                         \/ data[k].lock \in {None, t} /\ data'[k].lock \in {None, t}
  BY <1>3, <1>6, <1>16, <1>17 DEF SetsData
<1>20. \A k \in Object : data'[k].lock = t <=> HasData(t, k)'
  BY <1>2, <1>3, <1>6, <1>16, <1>17, <1>18, <1>9 DEF SetsData
<1>21. DataLocks'
  BY <1>1, <1>4, <1>19, <1>20, DataLocksStep
<1>22. thread[t].at \notin WeakLocked /\ "freeze" \notin WeakLocked
  BY <1>3 DEF WeakLocked
<1>23. WeakLocks'
  BY <1>1, <1>4, <1>7, <1>22, WeakLocksKept
<1>24. /\ thread[t].old \in Object => object'[thread[t].old].ever
       /\ thread[t].new \in Object /\ "freeze" # "create" => object'[thread[t].new].ever
  BY <1>1, <1>2, <1>3, <1>14, RefsAssumption DEF Lists, ThreadInv, Placed, UnrefPlaces,
       SetPlaces, GetPlaces
<1>25. /\ \A k \in Weak : weak'[k].ptr = weak[k].ptr
       /\ \A k \in Object : data'[k].list = data[k].list
  BY <1>2, <1>6, <1>7 DEF SetsData
<1>26. Lists'
  BY <1>1, <1>4, <1>14, <1>24, <1>25, ListsKept
<1>27. Locks'
  BY <1>15, <1>21, <1>23 DEF Locks
<1>28. /\ \A w \in Thread \ {t} : thread'[w] = thread[w]
       /\ thread'[t].at = "freeze" /\ thread'[t].d = thread[t].d /\ thread'[t].mode = thread[t].mode
  BY <1>4 DEF Goes
<1>29. Types /\ \A x \in Object : LifeInv(x) /\ CountInv(x)
  BY <1>1, <1>2 DEF Life, LifeInv
<1>30. \A x \in Object : object'[x].freed = object[x].freed
  BY <1>2, <1>5
<1>31. \A x \in Object : object'[x].refs = object[x].refs
  BY <1>2, <1>5
<1>32. \A x \in Object, v \in Thread : holds'[v][x] = holds[v][x]
  BY <1>8
<1>33. \A x \in Object : object[x].ever => object'[x].ever
  BY <1>14
<1>34. \A x \in Object, k \in Weak : weak'[k].ptr = x => weak[k].ptr = x \/ object[x].refs # 0
  BY <1>25
<1>35. \A x \in Object \ {thread[t].d} : thread[t].d # x /\ thread'[t].d # x
  BY <1>28
<1>36. \A x \in Object \ {thread[t].d} : LifeInv(x)'
  BY <1>28, <1>29, <1>30, <1>31, <1>32, <1>33, <1>34, <1>35, LifeApart
<1>37. ASSUME NEW x \in Object, x = thread[t].d
       PROVE  LifeInv(x)'
  <2>1. Flies(t, x) /\ Flies(t, x)'
    BY <1>37, <1>3, <1>28 DEF Flies, Doomed
  <2>2. ~Sole(t, x)'
    BY <1>37, <1>3, <1>28 DEF Sole
  <2> QED
    BY <1>28, <1>29, <1>30, <1>31, <1>32, <1>33, <2>1, <2>2, LifeFlies
<1>38. Life'
  BY <1>36, <1>37 DEF Life
<1>39. /\ \A w \in Thread \ {t} : thread'[w] = thread[w]
       /\ thread'[t].d = thread[t].d /\ thread'[t].frozen = thread[t].frozen /\ thread'[t].old = thread[t].old
  BY <1>4 DEF Goes
<1>40. \A x \in Object : UsersInv(x) /\ FrozenInv(x)
  BY <1>1 DEF Rest, RestInv
<1>41. \A x \in Object : object'[x].ever = object[x].ever /\ object'[x].freed = object[x].freed
  BY <1>2, <1>5
<1>42. \A x \in Object : data'[x].refs = data[x].refs
  BY <1>2, <1>6 DEF SetsData
<1>43. \A x \in Object : thread'[t].old = x <=> thread[t].old = x
  BY <1>2, <1>3, <1>39, RefsAssumption DEF ThreadInv, Placed, UnrefPlaces, SetPlaces,
       GetPlaces
<1>44. \A x \in Object : UsersInv(x)'
  BY <1>39, <1>40, <1>41, <1>42, <1>43, UsersKept
<1>45. \A x \in Object : UsersInv(x)'
  BY <1>44
<1>46. \A x \in Object : object'[x].freed = object[x].freed /\ object'[x].frozen = object[x].frozen
  BY <1>2, <1>5
<1>47. \A x \in Object : Freezes(t, x)' <=> Freezes(t, x)
  BY <1>2, <1>3, <1>39, RefsAssumption DEF Freezes, ThreadInv, Placed, UnrefPlaces, SetPlaces,
       GetPlaces
<1>48. \A x \in Object : FrozenInv(x)'
  BY <1>39, <1>40, <1>46, <1>47, FrozenKept
<1>49. \A x \in Object : FrozenInv(x)'
  BY <1>48
<1>50. Rest'
  BY <1>45, <1>49 DEF Rest, RestInv
<1> QED
  BY <1>13, <1>27, <1>26, <1>38, <1>50 DEF IInv

LEMMA StepClearUnlocksDrop ==
  ASSUME IInv, NEW t \in Thread, ClearUnlocks(t), thread[t].mode = "drop"
  PROVE  IInv'
<1>1. Base /\ ObjectLocks /\ DataLocks /\ WeakLocks /\ Lists /\ Life /\ Rest
  BY DEF IInv, Locks
<1>2. Types /\ ThreadInv(t) /\ HoldsInv(t) /\ thread[t] \in ThreadRecord /\ t # None
  BY <1>1, RefsAssumption DEF Base, Types
<1>3. /\ thread[t].at = "clearing"
      /\ thread[t].mode = "drop" /\ data[thread[t].d].list = {}
  BY <1>1, DidClearUnlocksDrop
<1>4. Goes(t, "finalize", thread[t].d, thread[t].mode, thread[t].frozen, thread[t].r,
                thread[t].new, thread[t].old, thread[t].ptr)
  BY <1>1, DidClearUnlocksDrop
<1>5. object' = object
  BY <1>1, DidClearUnlocksDrop
<1>6. SetsData(thread[t].d, data[thread[t].d].refs, None, data[thread[t].d].list)
  BY <1>1, DidClearUnlocksDrop
<1>7. weak' = weak
  BY <1>1, DidClearUnlocksDrop
<1>8. holds' = holds
  BY <1>1, DidClearUnlocksDrop
<1>9. thread[t].d \in Object
  BY <1>2, <1>3 DEF ThreadInv, Placed, UnrefPlaces, SetPlaces, GetPlaces
<1>10. /\ object' \in [Object -> ObjectType] /\ data' \in [Object -> DataType]
       /\ weak' \in [Weak -> WeakRecord]
  BY <1>2, <1>5, <1>6, <1>7 DEF Types, SetsData
<1>11. Placed("finalize", thread[t].d, thread[t].mode, thread[t].frozen, thread[t].r,
                 thread[t].new, thread[t].old, thread[t].ptr)
  BY <1>2, <1>3, <1>9, RefsAssumption DEF ThreadInv, ThreadRecord, Placed, UnrefPlaces,
       SetPlaces, GetPlaces
<1>12. /\ thread[t].new # None => holds[t][thread[t].new] # 0 \/ thread[t].new = thread[t].d
       /\ "finalize" \in GetPlaces => \A k \in Object : holds[t][k] <= MaxHolds
  BY <1>2, <1>3 DEF HoldsInv, ThreadInv, Placed, UnrefPlaces, SetPlaces, GetPlaces
<1>13. Base'
  BY <1>1, <1>4, <1>8, <1>10, <1>11, <1>12, BaseKept
<1>14. \A k \in Object : object'[k].lock = object[k].lock /\ (object[k].ever => object'[k].ever)
  BY <1>2, <1>5
<1>15. ObjectLocks'
  BY <1>1, <1>3, <1>4, <1>14, ObjectLocksKept
<1>16. \A k \in Object : data[k].lock = t <=> HasData(t, k)
  BY <1>1 DEF DataLocks
<1>17. \A k \in Object : HasData(t, k) <=> thread[t].d = k
  BY <1>3 DEF HasData
<1>18. \A k \in Object : HasData(t, k)' <=> FALSE
  BY <1>3, <1>4 DEF HasData, Goes
<1>19. \A k \in Object : \/ data'[k].lock = data[k].lock
                         \/ data[k].lock \in {None, t} /\ data'[k].lock \in {None, t}
  BY <1>3, <1>6, <1>16, <1>17 DEF SetsData
<1>20. \A k \in Object : data'[k].lock = t <=> HasData(t, k)'
  BY <1>2, <1>3, <1>6, <1>16, <1>17, <1>18, <1>9 DEF SetsData
<1>21. DataLocks'
  BY <1>1, <1>4, <1>19, <1>20, DataLocksStep
<1>22. thread[t].at \notin WeakLocked /\ "finalize" \notin WeakLocked
  BY <1>3 DEF WeakLocked
<1>23. WeakLocks'
  BY <1>1, <1>4, <1>7, <1>22, WeakLocksKept
<1>24. /\ thread[t].old \in Object => object'[thread[t].old].ever
       /\ thread[t].new \in Object /\ "finalize" # "create" => object'[thread[t].new].ever
  BY <1>1, <1>2, <1>3, <1>14, RefsAssumption DEF Lists, ThreadInv, Placed, UnrefPlaces,
       SetPlaces, GetPlaces
<1>25. /\ \A k \in Weak : weak'[k].ptr = weak[k].ptr
       /\ \A k \in Object : data'[k].list = data[k].list
  BY <1>2, <1>6, <1>7 DEF SetsData
<1>26. Lists'
  BY <1>1, <1>4, <1>14, <1>24, <1>25, ListsKept
<1>27. Locks'
  BY <1>15, <1>21, <1>23 DEF Locks
<1>28. /\ \A w \in Thread \ {t} : thread'[w] = thread[w]
       /\ thread'[t].at = "finalize" /\ thread'[t].d = thread[t].d /\ thread'[t].mode = thread[t].mode
  BY <1>4 DEF Goes
<1>29. Types /\ \A x \in Object : LifeInv(x) /\ CountInv(x)
  BY <1>1, <1>2 DEF Life, LifeInv
<1>30. \A x \in Object : object'[x].freed = object[x].freed
  BY <1>2, <1>5
<1>31. \A x \in Object : object'[x].refs = object[x].refs
  BY <1>2, <1>5
<1>32. \A x \in Object, v \in Thread : holds'[v][x] = holds[v][x]
  BY <1>8
<1>33. \A x \in Object : object[x].ever => object'[x].ever
  BY <1>14
<1>34. \A x \in Object, k \in Weak : weak'[k].ptr = x => weak[k].ptr = x \/ object[x].refs # 0
  BY <1>25
<1>35. \A x \in Object \ {thread[t].d} : thread[t].d # x /\ thread'[t].d # x
  BY <1>28
<1>36. \A x \in Object \ {thread[t].d} : LifeInv(x)'
  BY <1>28, <1>29, <1>30, <1>31, <1>32, <1>33, <1>34, <1>35, LifeApart
<1>37. ASSUME NEW x \in Object, x = thread[t].d
       PROVE  LifeInv(x)'
  <2>1. ~Flies(t, x) /\ ~Flies(t, x)' /\ Doomed(t, x) /\ Doomed(t, x)' /\ ~Sole(t, x)'
    BY <1>37, <1>3, <1>28 DEF Flies, Doomed, Sole
  <2>2. thread'[t].d = x => thread[t].d = x
    BY <1>37
  <2>3. \A k \in Weak : weak[k].ptr # x
    BY <1>1, <1>3, <1>37 DEF Lists
  <2>4. \A k \in Weak : weak'[k].ptr # x
    BY <1>25, <2>3
  <2> QED
    BY <1>28, <1>29, <1>37, <1>30, <1>31, <1>32, <1>33, <2>1, <2>2, <2>4, LifeKept
<1>38. Life'
  BY <1>36, <1>37 DEF Life
<1>39. /\ \A w \in Thread \ {t} : thread'[w] = thread[w]
       /\ thread'[t].d = thread[t].d /\ thread'[t].frozen = thread[t].frozen /\ thread'[t].old = thread[t].old
  BY <1>4 DEF Goes
<1>40. \A x \in Object : UsersInv(x) /\ FrozenInv(x)
  BY <1>1 DEF Rest, RestInv
<1>41. \A x \in Object : object'[x].ever = object[x].ever /\ object'[x].freed = object[x].freed
  BY <1>2, <1>5
<1>42. \A x \in Object : data'[x].refs = data[x].refs
  BY <1>2, <1>6 DEF SetsData
<1>43. \A x \in Object : thread'[t].old = x <=> thread[t].old = x
  BY <1>2, <1>3, <1>39, RefsAssumption DEF ThreadInv, Placed, UnrefPlaces, SetPlaces,
       GetPlaces
<1>44. \A x \in Object : UsersInv(x)'
  BY <1>39, <1>40, <1>41, <1>42, <1>43, UsersKept
<1>45. \A x \in Object : UsersInv(x)'
  BY <1>44
<1>46. \A x \in Object : object'[x].freed = object[x].freed /\ object'[x].frozen = object[x].frozen
  BY <1>2, <1>5
<1>47. \A x \in Object : Freezes(t, x)' <=> Freezes(t, x)
  BY <1>2, <1>3, <1>39, RefsAssumption DEF Freezes, ThreadInv, Placed, UnrefPlaces, SetPlaces,
       GetPlaces
<1>48. \A x \in Object : FrozenInv(x)'
  BY <1>39, <1>40, <1>46, <1>47, FrozenKept
<1>49. \A x \in Object : FrozenInv(x)'
  BY <1>48
<1>50. Rest'
  BY <1>45, <1>49 DEF Rest, RestInv
<1> QED
  BY <1>13, <1>27, <1>26, <1>38, <1>50 DEF IInv

LEMMA StepClearUnlocksRun ==
  ASSUME IInv, NEW t \in Thread, ClearUnlocks(t), thread[t].mode = "run"
  PROVE  IInv'
<1>1. Base /\ ObjectLocks /\ DataLocks /\ WeakLocks /\ Lists /\ Life /\ Rest
  BY DEF IInv, Locks
<1>2. Types /\ ThreadInv(t) /\ HoldsInv(t) /\ thread[t] \in ThreadRecord /\ t # None
  BY <1>1, RefsAssumption DEF Base, Types
<1>3. /\ thread[t].at = "clearing"
      /\ thread[t].mode = "run" /\ data[thread[t].d].list = {}
  BY <1>1, DidClearUnlocksRun
<1>4. Goes(t, "unref", thread[t].d, thread[t].mode, thread[t].frozen, thread[t].r,
                thread[t].new, thread[t].old, thread[t].ptr)
  BY <1>1, DidClearUnlocksRun
<1>5. object' = object
  BY <1>1, DidClearUnlocksRun
<1>6. SetsData(thread[t].d, data[thread[t].d].refs, None, data[thread[t].d].list)
  BY <1>1, DidClearUnlocksRun
<1>7. weak' = weak
  BY <1>1, DidClearUnlocksRun
<1>8. holds' = holds
  BY <1>1, DidClearUnlocksRun
<1>9. thread[t].d \in Object
  BY <1>2, <1>3 DEF ThreadInv, Placed, UnrefPlaces, SetPlaces, GetPlaces
<1>10. /\ object' \in [Object -> ObjectType] /\ data' \in [Object -> DataType]
       /\ weak' \in [Weak -> WeakRecord]
  BY <1>2, <1>5, <1>6, <1>7 DEF Types, SetsData
<1>11. Placed("unref", thread[t].d, thread[t].mode, thread[t].frozen, thread[t].r,
                 thread[t].new, thread[t].old, thread[t].ptr)
  BY <1>2, <1>3, <1>9, RefsAssumption DEF ThreadInv, ThreadRecord, Placed, UnrefPlaces,
       SetPlaces, GetPlaces
<1>12. /\ thread[t].new # None => holds[t][thread[t].new] # 0 \/ thread[t].new = thread[t].d
       /\ "unref" \in GetPlaces => \A k \in Object : holds[t][k] <= MaxHolds
  BY <1>2, <1>3 DEF HoldsInv, ThreadInv, Placed, UnrefPlaces, SetPlaces, GetPlaces
<1>13. Base'
  BY <1>1, <1>4, <1>8, <1>10, <1>11, <1>12, BaseKept
<1>14. \A k \in Object : object'[k].lock = object[k].lock /\ (object[k].ever => object'[k].ever)
  BY <1>2, <1>5
<1>15. ObjectLocks'
  BY <1>1, <1>3, <1>4, <1>14, ObjectLocksKept
<1>16. \A k \in Object : data[k].lock = t <=> HasData(t, k)
  BY <1>1 DEF DataLocks
<1>17. \A k \in Object : HasData(t, k) <=> thread[t].d = k
  BY <1>3 DEF HasData
<1>18. \A k \in Object : HasData(t, k)' <=> FALSE
  BY <1>3, <1>4 DEF HasData, Goes
<1>19. \A k \in Object : \/ data'[k].lock = data[k].lock
                         \/ data[k].lock \in {None, t} /\ data'[k].lock \in {None, t}
  BY <1>3, <1>6, <1>16, <1>17 DEF SetsData
<1>20. \A k \in Object : data'[k].lock = t <=> HasData(t, k)'
  BY <1>2, <1>3, <1>6, <1>16, <1>17, <1>18, <1>9 DEF SetsData
<1>21. DataLocks'
  BY <1>1, <1>4, <1>19, <1>20, DataLocksStep
<1>22. thread[t].at \notin WeakLocked /\ "unref" \notin WeakLocked
  BY <1>3 DEF WeakLocked
<1>23. WeakLocks'
  BY <1>1, <1>4, <1>7, <1>22, WeakLocksKept
<1>24. /\ thread[t].old \in Object => object'[thread[t].old].ever
       /\ thread[t].new \in Object /\ "unref" # "create" => object'[thread[t].new].ever
  BY <1>1, <1>2, <1>3, <1>14, RefsAssumption DEF Lists, ThreadInv, Placed, UnrefPlaces,
       SetPlaces, GetPlaces
<1>25. /\ \A k \in Weak : weak'[k].ptr = weak[k].ptr
       /\ \A k \in Object : data'[k].list = data[k].list
  BY <1>2, <1>6, <1>7 DEF SetsData
<1>26. Lists'
  BY <1>1, <1>4, <1>14, <1>24, <1>25, ListsKept
<1>27. Locks'
  BY <1>15, <1>21, <1>23 DEF Locks
<1>28. /\ \A w \in Thread \ {t} : thread'[w] = thread[w]
       /\ thread'[t].at = "unref" /\ thread'[t].d = thread[t].d /\ thread'[t].mode = thread[t].mode
  BY <1>4 DEF Goes
<1>29. Types /\ \A x \in Object : LifeInv(x) /\ CountInv(x)
  BY <1>1, <1>2 DEF Life, LifeInv
<1>30. \A x \in Object : object'[x].freed = object[x].freed
  BY <1>2, <1>5
<1>31. \A x \in Object : object'[x].refs = object[x].refs
  BY <1>2, <1>5
<1>32. \A x \in Object, v \in Thread : holds'[v][x] = holds[v][x]
  BY <1>8
<1>33. \A x \in Object : object[x].ever => object'[x].ever
  BY <1>14
<1>34. \A x \in Object, k \in Weak : weak'[k].ptr = x => weak[k].ptr = x \/ object[x].refs # 0
  BY <1>25
<1>35. \A x \in Object \ {thread[t].d} : thread[t].d # x /\ thread'[t].d # x
  BY <1>28
<1>36. \A x \in Object \ {thread[t].d} : LifeInv(x)'
  BY <1>28, <1>29, <1>30, <1>31, <1>32, <1>33, <1>34, <1>35, LifeApart
<1>37. ASSUME NEW x \in Object, x = thread[t].d
       PROVE  LifeInv(x)'
  <2>1. Flies(t, x) /\ Flies(t, x)'
    BY <1>37, <1>3, <1>28 DEF Flies, Doomed
  <2>2. ~Sole(t, x)'
    BY <1>37, <1>3, <1>28 DEF Sole
  <2> QED
    BY <1>28, <1>29, <1>30, <1>31, <1>32, <1>33, <2>1, <2>2, LifeFlies
<1>38. Life'
  BY <1>36, <1>37 DEF Life
<1>39. /\ \A w \in Thread \ {t} : thread'[w] = thread[w]
       /\ thread'[t].d = thread[t].d /\ thread'[t].frozen = thread[t].frozen /\ thread'[t].old = thread[t].old
  BY <1>4 DEF Goes
<1>40. \A x \in Object : UsersInv(x) /\ FrozenInv(x)
  BY <1>1 DEF Rest, RestInv
<1>41. \A x \in Object : object'[x].ever = object[x].ever /\ object'[x].freed = object[x].freed
  BY <1>2, <1>5
<1>42. \A x \in Object : data'[x].refs = data[x].refs
  BY <1>2, <1>6 DEF SetsData
<1>43. \A x \in Object : thread'[t].old = x <=> thread[t].old = x
  BY <1>2, <1>3, <1>39, RefsAssumption DEF ThreadInv, Placed, UnrefPlaces, SetPlaces,
       GetPlaces
<1>44. \A x \in Object : UsersInv(x)'
  BY <1>39, <1>40, <1>41, <1>42, <1>43, UsersKept
<1>45. \A x \in Object : UsersInv(x)'
  BY <1>44
<1>46. \A x \in Object : object'[x].freed = object[x].freed /\ object'[x].frozen = object[x].frozen
  BY <1>2, <1>5
<1>47. \A x \in Object : Freezes(t, x)' <=> Freezes(t, x)
  BY <1>2, <1>3, <1>39, RefsAssumption DEF Freezes, ThreadInv, Placed, UnrefPlaces, SetPlaces,
       GetPlaces
<1>48. \A x \in Object : FrozenInv(x)'
  BY <1>39, <1>40, <1>46, <1>47, FrozenKept
<1>49. \A x \in Object : FrozenInv(x)'
  BY <1>48
<1>50. Rest'
  BY <1>45, <1>49 DEF Rest, RestInv
<1> QED
  BY <1>13, <1>27, <1>26, <1>38, <1>50 DEF IInv

LEMMA StepFreeze ==
  ASSUME IInv, NEW t \in Thread, Freeze(t)
  PROVE  IInv'
<1>1. Base /\ ObjectLocks /\ DataLocks /\ WeakLocks /\ Lists /\ Life /\ Rest
  BY DEF IInv, Locks
<1>2. Types /\ ThreadInv(t) /\ HoldsInv(t) /\ thread[t] \in ThreadRecord /\ t # None
  BY <1>1, RefsAssumption DEF Base, Types
<1>3. thread[t].at = "freeze"
  BY <1>1, DidFreeze
<1>4. Goes(t, "dispose", thread[t].d, thread[t].mode, TRUE, thread[t].r, thread[t].new,
                thread[t].old, thread[t].ptr)
  BY <1>1, DidFreeze
<1>5. SetsObject(thread[t].d, object[thread[t].d].refs, object[thread[t].d].freed,
                object[thread[t].d].ever, object[thread[t].d].frozen + 1, object[thread[t].d].lock)
  BY <1>1, DidFreeze
<1>6. data' = data
  BY <1>1, DidFreeze
<1>7. weak' = weak
  BY <1>1, DidFreeze
<1>8. holds' = holds
  BY <1>1, DidFreeze
<1>9. thread[t].d \in Object
  BY <1>2, <1>3 DEF ThreadInv, Placed, UnrefPlaces, SetPlaces, GetPlaces
<1>10. /\ object' \in [Object -> ObjectType] /\ data' \in [Object -> DataType]
       /\ weak' \in [Weak -> WeakRecord]
  BY <1>2, <1>5, <1>6, <1>7 DEF Types, SetsObject
<1>11. Placed("dispose", thread[t].d, thread[t].mode, TRUE, thread[t].r, thread[t].new,
                 thread[t].old, thread[t].ptr)
  BY <1>2, <1>3, <1>9, RefsAssumption DEF ThreadInv, ThreadRecord, Placed, UnrefPlaces,
       SetPlaces, GetPlaces
<1>12. /\ thread[t].new # None => holds[t][thread[t].new] # 0 \/ thread[t].new = thread[t].d
       /\ "dispose" \in GetPlaces => \A k \in Object : holds[t][k] <= MaxHolds
  BY <1>2, <1>3 DEF HoldsInv, ThreadInv, Placed, UnrefPlaces, SetPlaces, GetPlaces
<1>13. Base'
  BY <1>1, <1>4, <1>8, <1>10, <1>11, <1>12, BaseKept
<1>14. \A k \in Object : object'[k].lock = object[k].lock /\ (object[k].ever => object'[k].ever)
  BY <1>2, <1>5 DEF SetsObject, Types
<1>15. ObjectLocks'
  BY <1>1, <1>3, <1>4, <1>14, ObjectLocksKept
<1>16. \A k \in Object : data'[k].lock = data[k].lock
  BY <1>2, <1>6
<1>17. thread[t].at \notin DataLocked /\ "dispose" \notin DataLocked
  BY <1>3 DEF DataLocked
<1>18. DataLocks'
  BY <1>1, <1>4, <1>16, <1>17, DataLocksKept
<1>19. thread[t].at \notin WeakLocked /\ "dispose" \notin WeakLocked
  BY <1>3 DEF WeakLocked
<1>20. WeakLocks'
  BY <1>1, <1>4, <1>7, <1>19, WeakLocksKept
<1>21. /\ thread[t].old \in Object => object'[thread[t].old].ever
       /\ thread[t].new \in Object /\ "dispose" # "create" => object'[thread[t].new].ever
  BY <1>1, <1>2, <1>3, <1>14, RefsAssumption DEF Lists, ThreadInv, Placed, UnrefPlaces,
       SetPlaces, GetPlaces
<1>22. /\ \A k \in Weak : weak'[k].ptr = weak[k].ptr
       /\ \A k \in Object : data'[k].list = data[k].list
  BY <1>2, <1>6, <1>7
<1>23. Lists'
  BY <1>1, <1>4, <1>14, <1>21, <1>22, ListsKept
<1>24. Locks'
  BY <1>15, <1>18, <1>20 DEF Locks
<1>25. /\ \A w \in Thread \ {t} : thread'[w] = thread[w]
       /\ thread'[t].at = "dispose" /\ thread'[t].d = thread[t].d /\ thread'[t].mode = thread[t].mode
  BY <1>4 DEF Goes
<1>26. Types /\ \A x \in Object : LifeInv(x) /\ CountInv(x)
  BY <1>1, <1>2 DEF Life, LifeInv
<1>27. \A x \in Object : object'[x].freed = object[x].freed
  BY <1>2, <1>5 DEF SetsObject
<1>28. \A x \in Object : object'[x].refs = object[x].refs
  BY <1>2, <1>5 DEF SetsObject
<1>29. \A x \in Object, v \in Thread : holds'[v][x] = holds[v][x]
  BY <1>8
<1>30. \A x \in Object : object[x].ever => object'[x].ever
  BY <1>14
<1>31. \A x \in Object, k \in Weak : weak'[k].ptr = x => weak[k].ptr = x \/ object[x].refs # 0
  BY <1>22
<1>32. \A x \in Object \ {thread[t].d} : thread[t].d # x /\ thread'[t].d # x
  BY <1>25
<1>33. \A x \in Object \ {thread[t].d} : LifeInv(x)'
  BY <1>25, <1>26, <1>27, <1>28, <1>29, <1>30, <1>31, <1>32, LifeApart
<1>34. ASSUME NEW x \in Object, x = thread[t].d
       PROVE  LifeInv(x)'
  <2>1. Flies(t, x) /\ Flies(t, x)'
    BY <1>34, <1>3, <1>25 DEF Flies, Doomed
  <2>2. ~Sole(t, x)'
    BY <1>34, <1>3, <1>25 DEF Sole
  <2> QED
    BY <1>25, <1>26, <1>27, <1>28, <1>29, <1>30, <2>1, <2>2, LifeFlies
<1>35. Life'
  BY <1>33, <1>34 DEF Life
<1>36. /\ \A w \in Thread \ {t} : thread'[w] = thread[w]
       /\ thread'[t].d = thread[t].d /\ thread'[t].frozen = TRUE /\ thread'[t].old = thread[t].old
  BY <1>4 DEF Goes
<1>37. \A x \in Object : UsersInv(x) /\ FrozenInv(x)
  BY <1>1 DEF Rest, RestInv
<1>38. \A x \in Object : object'[x].ever = object[x].ever /\ object'[x].freed = object[x].freed
  BY <1>2, <1>5 DEF SetsObject
<1>39. \A x \in Object : data'[x].refs = data[x].refs
  BY <1>2, <1>6
<1>40. \A x \in Object : thread'[t].old = x <=> thread[t].old = x
  BY <1>2, <1>3, <1>36, RefsAssumption DEF ThreadInv, Placed, UnrefPlaces, SetPlaces,
       GetPlaces
<1>41. \A x \in Object : UsersInv(x)'
  BY <1>36, <1>37, <1>38, <1>39, <1>40, UsersKept
<1>42. \A x \in Object : UsersInv(x)'
  BY <1>41
<1>43. \A x \in Object \ {thread[t].d} : object'[x].freed = object[x].freed /\ object'[x].frozen = object[x].frozen
  BY <1>2, <1>5 DEF SetsObject
<1>44. \A x \in Object \ {thread[t].d} : Freezes(t, x)' <=> Freezes(t, x)
  BY <1>2, <1>3, <1>36, RefsAssumption DEF Freezes, ThreadInv, Placed, UnrefPlaces, SetPlaces,
       GetPlaces
<1>45. \A x \in Object \ {thread[t].d} : FrozenInv(x)'
  BY <1>36, <1>37, <1>43, <1>44, FrozenKept
<1>46. ASSUME NEW x \in Object, x = thread[t].d
       PROVE  FrozenInv(x)'
  <2>1. ~Freezes(t, x) /\ Freezes(t, x)'
    BY <1>46, <1>2, <1>3, <1>36 DEF Freezes, ThreadInv, Placed
  <2>2. Cardinality(Freezers(x))' = Cardinality(Freezers(x)) + 1
    BY <1>36, <2>1, FreezersPlus
  <2>3. object'[x].frozen = object[x].frozen + 1 /\ object'[x].freed = object[x].freed
    BY <1>46, <1>5 DEF SetsObject
  <2>4. ~object[x].freed
    BY <1>46, <1>26 DEF LifeInv, EndInv
  <2>5. object'[x].frozen = Cardinality(Freezers(x))'
    BY <1>37, <2>2, <2>3, <2>4 DEF FrozenInv
  <2>6. Cardinality(Freezers(x)') \in Nat
    <3>1. IsFiniteSet(Thread) /\ Freezers(x)' \subseteq Thread
      BY RefsAssumption DEF Freezers
    <3> QED
      BY <3>1, FS_Subset, FS_CardinalityType
  <2> QED
    BY <2>5, <2>6 DEF FrozenInv
<1>47. \A x \in Object : FrozenInv(x)'
  BY <1>45, <1>46
<1>48. Rest'
  BY <1>42, <1>47 DEF Rest, RestInv
<1> QED
  BY <1>13, <1>24, <1>23, <1>35, <1>48 DEF IInv

LEMMA StepResurrect ==
  ASSUME IInv, NEW t \in Thread, Resurrect(t)
  PROVE  IInv'
<1>1. Base /\ ObjectLocks /\ DataLocks /\ WeakLocks /\ Lists /\ Life /\ Rest
  BY DEF IInv, Locks
<1>2. Types /\ ThreadInv(t) /\ HoldsInv(t) /\ thread[t] \in ThreadRecord /\ t # None
  BY <1>1, RefsAssumption DEF Base, Types
<1>3. /\ thread[t].at = "dispose"
      /\ holds[t][thread[t].d] < MaxHolds
  BY <1>1, DidResurrect
<1>4. Goes(t, thread[t].at, thread[t].d, thread[t].mode, thread[t].frozen, thread[t].r,
                thread[t].new, thread[t].old, thread[t].ptr)
  BY <1>1, DidResurrect
<1>5. SetsObject(thread[t].d, object[thread[t].d].refs + 1, object[thread[t].d].freed,
                object[thread[t].d].ever, object[thread[t].d].frozen, object[thread[t].d].lock)
  BY <1>1, DidResurrect
<1>6. data' = data
  BY <1>1, DidResurrect
<1>7. weak' = weak
  BY <1>1, DidResurrect
<1>8. SetsHolds(t, thread[t].d, holds[t][thread[t].d] + 1)
  BY <1>1, DidResurrect
<1>9. thread[t].d \in Object
  BY <1>2, <1>3 DEF ThreadInv, Placed, UnrefPlaces, SetPlaces, GetPlaces
<1>10. /\ object' \in [Object -> ObjectType] /\ data' \in [Object -> DataType]
       /\ weak' \in [Weak -> WeakRecord]
  BY <1>2, <1>5, <1>6, <1>7 DEF Types, SetsObject
<1>11. Placed(thread[t].at, thread[t].d, thread[t].mode, thread[t].frozen, thread[t].r,
                 thread[t].new, thread[t].old, thread[t].ptr)
  BY <1>2, <1>3, <1>9, RefsAssumption DEF ThreadInv, ThreadRecord, Placed, UnrefPlaces,
       SetPlaces, GetPlaces
<1>12. /\ thread[t].new # None => holds'[t][thread[t].new] # 0 \/ thread[t].new = thread[t].d
       /\ thread[t].at \in GetPlaces => \A k \in Object : holds'[t][k] <= MaxHolds
  BY <1>2, <1>3, <1>8 DEF HoldsInv, ThreadInv, Placed, UnrefPlaces, SetPlaces, GetPlaces
<1>13. \A v \in Thread \ {t}, k \in Object :
         /\ holds[v][k] # 0 => holds'[v][k] # 0
         /\ holds[v][k] <= MaxHolds => holds'[v][k] <= MaxHolds
  BY <1>8 DEF SetsHolds
<1>14. holds' \in [Thread -> [Object -> 0 .. MaxHolds + 1]]
  BY <1>8 DEF SetsHolds
<1>15. Base'
  BY <1>1, <1>4, <1>10, <1>11, <1>12, <1>13, <1>14, BaseStep
<1>16. \A k \in Object : object'[k].lock = object[k].lock /\ (object[k].ever => object'[k].ever)
  BY <1>2, <1>5 DEF SetsObject, Types
<1>17. ObjectLocks'
  BY <1>1, <1>3, <1>4, <1>16, ObjectLocksKept
<1>18. \A k \in Object : data'[k].lock = data[k].lock
  BY <1>2, <1>6
<1>19. thread[t].at \notin DataLocked /\ thread[t].at \notin DataLocked
  BY <1>3 DEF DataLocked
<1>20. DataLocks'
  BY <1>1, <1>4, <1>18, <1>19, DataLocksKept
<1>21. thread[t].at \notin WeakLocked /\ thread[t].at \notin WeakLocked
  BY <1>3 DEF WeakLocked
<1>22. WeakLocks'
  BY <1>1, <1>4, <1>7, <1>21, WeakLocksKept
<1>23. /\ thread[t].old \in Object => object'[thread[t].old].ever
       /\ thread[t].new \in Object /\ thread[t].at # "create" => object'[thread[t].new].ever
  BY <1>1, <1>2, <1>3, <1>16, RefsAssumption DEF Lists, ThreadInv, Placed, UnrefPlaces,
       SetPlaces, GetPlaces
<1>24. /\ \A k \in Weak : weak'[k].ptr = weak[k].ptr
       /\ \A k \in Object : data'[k].list = data[k].list
  BY <1>2, <1>6, <1>7
<1>25. Lists'
  BY <1>1, <1>4, <1>16, <1>23, <1>24, ListsKept
<1>26. Locks'
  BY <1>17, <1>20, <1>22 DEF Locks
<1>27. /\ \A w \in Thread \ {t} : thread'[w] = thread[w]
       /\ thread'[t].at = thread[t].at /\ thread'[t].d = thread[t].d /\ thread'[t].mode = thread[t].mode
  BY <1>4 DEF Goes
<1>28. Types /\ \A x \in Object : LifeInv(x) /\ CountInv(x)
  BY <1>1, <1>2 DEF Life, LifeInv
<1>29. \A x \in Object : object'[x].freed = object[x].freed
  BY <1>2, <1>5 DEF SetsObject
<1>30. \A x \in Object \ {thread[t].d} : object'[x].refs = object[x].refs
  BY <1>2, <1>5 DEF SetsObject
<1>31. \A x \in Object \ {thread[t].d}, v \in Thread : holds'[v][x] = holds[v][x]
  BY <1>8 DEF SetsHolds
<1>32. \A x \in Object : object[x].ever => object'[x].ever
  BY <1>16
<1>33. \A x \in Object, k \in Weak : weak'[k].ptr = x => weak[k].ptr = x \/ object[x].refs # 0
  BY <1>24
<1>34. \A x \in Object \ {thread[t].d} : thread[t].d # x /\ thread'[t].d # x
  BY <1>27
<1>35. \A x \in Object \ {thread[t].d} : LifeInv(x)'
  BY <1>27, <1>28, <1>29, <1>30, <1>31, <1>32, <1>33, <1>34, LifeApart
<1>36. ASSUME NEW x \in Object, x = thread[t].d
       PROVE  LifeInv(x)'
  <2>1. Flies(t, x)
    BY <1>36, <1>3 DEF Flies, Doomed
  <2>2. object[x].refs # 0 /\ Types
    BY <1>28, <1>36, <2>1, FlierCounts
  <2>3. ~Doomed(t, x)' /\ ~Sole(t, x)'
    BY <1>36, <1>3, <1>27, RefsAssumption DEF Doomed, Sole
  <2>4. Flies(t, x)' <=> Flies(t, x)
    BY <1>36, <1>3, <1>27 DEF Flies, Doomed
  <2>5. InFlight(x)' = InFlight(x)
    BY <1>27, <1>36, <2>4, FlightSame
  <2>6. SetsHolds(t, x, holds[t][x] + 1)
    BY <1>36, <1>8
  <2>7. Cardinality(Held(x))' = Cardinality(Held(x)) + 1
    BY <2>2, <2>6, HeldMore
  <2>8. Cardinality(InFlight(x))' + Cardinality(Held(x))' =
          Cardinality(InFlight(x)) + Cardinality(Held(x)) + 1
    BY <1>28, <1>36, <2>5, <2>7, CountsFinite
  <2>9. object'[x].refs = object[x].refs + 1
    BY <1>36, <1>5 DEF SetsObject
  <2>10. ASSUME NEW v \in Thread \ {t}, Sole(v, x)
        PROVE  FALSE
    <3>1. v \in Thread /\ v # t
      BY <2>10
    <3>2. Flies(v, x)
      BY <2>10 DEF Flies, Sole, Doomed
    <3>3. object[x].refs = 1
      BY <1>28, <1>36, <2>10, <3>1 DEF LifeInv, SoleInv
    <3> QED
      BY <1>28, <1>36, <2>1, <3>1, <3>2, <3>3, TwoFliersCount
  <2>11. \A v \in Thread \ {t} : ~Sole(v, x)
    BY <2>10
  <2>12. /\ LifeInv(x) /\ object'[x].freed = object[x].freed
         /\ object[x].ever => object'[x].ever
    BY <1>28, <1>29, <1>32
  <2>13. \A w \in Thread \ {t} : thread'[w] = thread[w]
    BY <1>27
  <2> QED
    BY <2>12, <2>13, <2>2, <2>3, <2>8, <2>9, <2>11, LifeMore
<1>37. Life'
  BY <1>35, <1>36 DEF Life
<1>38. /\ \A w \in Thread \ {t} : thread'[w] = thread[w]
       /\ thread'[t].d = thread[t].d /\ thread'[t].frozen = thread[t].frozen /\ thread'[t].old = thread[t].old
  BY <1>4 DEF Goes
<1>39. \A x \in Object : UsersInv(x) /\ FrozenInv(x)
  BY <1>1 DEF Rest, RestInv
<1>40. \A x \in Object : object'[x].ever = object[x].ever /\ object'[x].freed = object[x].freed
  BY <1>2, <1>5 DEF SetsObject
<1>41. \A x \in Object : data'[x].refs = data[x].refs
  BY <1>2, <1>6
<1>42. \A x \in Object : thread'[t].old = x <=> thread[t].old = x
  BY <1>2, <1>3, <1>38, RefsAssumption DEF ThreadInv, Placed, UnrefPlaces, SetPlaces,
       GetPlaces
<1>43. \A x \in Object : UsersInv(x)'
  BY <1>38, <1>39, <1>40, <1>41, <1>42, UsersKept
<1>44. \A x \in Object : UsersInv(x)'
  BY <1>43
<1>45. \A x \in Object : object'[x].freed = object[x].freed /\ object'[x].frozen = object[x].frozen
  BY <1>2, <1>5 DEF SetsObject
<1>46. \A x \in Object : Freezes(t, x)' <=> Freezes(t, x)
  BY <1>2, <1>3, <1>38, RefsAssumption DEF Freezes, ThreadInv, Placed, UnrefPlaces, SetPlaces,
       GetPlaces
<1>47. \A x \in Object : FrozenInv(x)'
  BY <1>38, <1>39, <1>45, <1>46, FrozenKept
<1>48. \A x \in Object : FrozenInv(x)'
  BY <1>47
<1>49. Rest'
  BY <1>44, <1>48 DEF Rest, RestInv
<1> QED
  BY <1>15, <1>26, <1>25, <1>37, <1>49 DEF IInv

LEMMA StepDisposed ==
  ASSUME IInv, NEW t \in Thread, Disposed(t)
  PROVE  IInv'
<1>1. Base /\ ObjectLocks /\ DataLocks /\ WeakLocks /\ Lists /\ Life /\ Rest
  BY DEF IInv, Locks
<1>2. Types /\ ThreadInv(t) /\ HoldsInv(t) /\ thread[t] \in ThreadRecord /\ t # None
  BY <1>1, RefsAssumption DEF Base, Types
<1>3. thread[t].at = "dispose"
  BY <1>1, DidDisposed
<1>4. Goes(t, "decrement", thread[t].d, thread[t].mode, thread[t].frozen, thread[t].r,
                thread[t].new, thread[t].old, thread[t].ptr)
  BY <1>1, DidDisposed
<1>5. object' = object
  BY <1>1, DidDisposed
<1>6. data' = data
  BY <1>1, DidDisposed
<1>7. weak' = weak
  BY <1>1, DidDisposed
<1>8. holds' = holds
  BY <1>1, DidDisposed
<1>9. thread[t].d \in Object
  BY <1>2, <1>3 DEF ThreadInv, Placed, UnrefPlaces, SetPlaces, GetPlaces
<1>10. /\ object' \in [Object -> ObjectType] /\ data' \in [Object -> DataType]
       /\ weak' \in [Weak -> WeakRecord]
  BY <1>2, <1>5, <1>6, <1>7 DEF Types
<1>11. Placed("decrement", thread[t].d, thread[t].mode, thread[t].frozen, thread[t].r,
                 thread[t].new, thread[t].old, thread[t].ptr)
  BY <1>2, <1>3, <1>9, RefsAssumption DEF ThreadInv, ThreadRecord, Placed, UnrefPlaces,
       SetPlaces, GetPlaces
<1>12. /\ thread[t].new # None => holds[t][thread[t].new] # 0 \/ thread[t].new = thread[t].d
       /\ "decrement" \in GetPlaces => \A k \in Object : holds[t][k] <= MaxHolds
  BY <1>2, <1>3 DEF HoldsInv, ThreadInv, Placed, UnrefPlaces, SetPlaces, GetPlaces
<1>13. Base'
  BY <1>1, <1>4, <1>8, <1>10, <1>11, <1>12, BaseKept
<1>14. \A k \in Object : object'[k].lock = object[k].lock /\ (object[k].ever => object'[k].ever)
  BY <1>2, <1>5
<1>15. ObjectLocks'
  BY <1>1, <1>3, <1>4, <1>14, ObjectLocksKept
<1>16. \A k \in Object : data'[k].lock = data[k].lock
  BY <1>2, <1>6
<1>17. thread[t].at \notin DataLocked /\ "decrement" \notin DataLocked
  BY <1>3 DEF DataLocked
<1>18. DataLocks'
  BY <1>1, <1>4, <1>16, <1>17, DataLocksKept
<1>19. thread[t].at \notin WeakLocked /\ "decrement" \notin WeakLocked
  BY <1>3 DEF WeakLocked
<1>20. WeakLocks'
  BY <1>1, <1>4, <1>7, <1>19, WeakLocksKept
<1>21. /\ thread[t].old \in Object => object'[thread[t].old].ever
       /\ thread[t].new \in Object /\ "decrement" # "create" => object'[thread[t].new].ever
  BY <1>1, <1>2, <1>3, <1>14, RefsAssumption DEF Lists, ThreadInv, Placed, UnrefPlaces,
       SetPlaces, GetPlaces
<1>22. /\ \A k \in Weak : weak'[k].ptr = weak[k].ptr
       /\ \A k \in Object : data'[k].list = data[k].list
  BY <1>2, <1>6, <1>7
<1>23. Lists'
  BY <1>1, <1>4, <1>14, <1>21, <1>22, ListsKept
<1>24. Locks'
  BY <1>15, <1>18, <1>20 DEF Locks
<1>25. /\ \A w \in Thread \ {t} : thread'[w] = thread[w]
       /\ thread'[t].at = "decrement" /\ thread'[t].d = thread[t].d /\ thread'[t].mode = thread[t].mode
  BY <1>4 DEF Goes
<1>26. Types /\ \A x \in Object : LifeInv(x) /\ CountInv(x)
  BY <1>1, <1>2 DEF Life, LifeInv
<1>27. \A x \in Object : object'[x].freed = object[x].freed
  BY <1>2, <1>5
<1>28. \A x \in Object : object'[x].refs = object[x].refs
  BY <1>2, <1>5
<1>29. \A x \in Object, v \in Thread : holds'[v][x] = holds[v][x]
  BY <1>8
<1>30. \A x \in Object : object[x].ever => object'[x].ever
  BY <1>14
<1>31. \A x \in Object, k \in Weak : weak'[k].ptr = x => weak[k].ptr = x \/ object[x].refs # 0
  BY <1>22
<1>32. \A x \in Object \ {thread[t].d} : thread[t].d # x /\ thread'[t].d # x
  BY <1>25
<1>33. \A x \in Object \ {thread[t].d} : LifeInv(x)'
  BY <1>25, <1>26, <1>27, <1>28, <1>29, <1>30, <1>31, <1>32, LifeApart
<1>34. ASSUME NEW x \in Object, x = thread[t].d
       PROVE  LifeInv(x)'
  <2>1. Flies(t, x) /\ Flies(t, x)'
    BY <1>34, <1>3, <1>25 DEF Flies, Doomed
  <2>2. ~Sole(t, x)'
    BY <1>34, <1>3, <1>25 DEF Sole
  <2> QED
    BY <1>25, <1>26, <1>27, <1>28, <1>29, <1>30, <2>1, <2>2, LifeFlies
<1>35. Life'
  BY <1>33, <1>34 DEF Life
<1>36. /\ \A w \in Thread \ {t} : thread'[w] = thread[w]
       /\ thread'[t].d = thread[t].d /\ thread'[t].frozen = thread[t].frozen /\ thread'[t].old = thread[t].old
  BY <1>4 DEF Goes
<1>37. \A x \in Object : UsersInv(x) /\ FrozenInv(x)
  BY <1>1 DEF Rest, RestInv
<1>38. \A x \in Object : object'[x].ever = object[x].ever /\ object'[x].freed = object[x].freed
  BY <1>2, <1>5
<1>39. \A x \in Object : data'[x].refs = data[x].refs
  BY <1>2, <1>6
<1>40. \A x \in Object : thread'[t].old = x <=> thread[t].old = x
  BY <1>2, <1>3, <1>36, RefsAssumption DEF ThreadInv, Placed, UnrefPlaces, SetPlaces,
       GetPlaces
<1>41. \A x \in Object : UsersInv(x)'
  BY <1>36, <1>37, <1>38, <1>39, <1>40, UsersKept
<1>42. \A x \in Object : UsersInv(x)'
  BY <1>41
<1>43. \A x \in Object : object'[x].freed = object[x].freed /\ object'[x].frozen = object[x].frozen
  BY <1>2, <1>5
<1>44. \A x \in Object : Freezes(t, x)' <=> Freezes(t, x)
  BY <1>2, <1>3, <1>36, RefsAssumption DEF Freezes, ThreadInv, Placed, UnrefPlaces, SetPlaces,
       GetPlaces
<1>45. \A x \in Object : FrozenInv(x)'
  BY <1>36, <1>37, <1>43, <1>44, FrozenKept
<1>46. \A x \in Object : FrozenInv(x)'
  BY <1>45
<1>47. Rest'
  BY <1>42, <1>46 DEF Rest, RestInv
<1> QED
  BY <1>13, <1>24, <1>23, <1>35, <1>47 DEF IInv

LEMMA StepDecrementThaws ==
  ASSUME IInv, NEW t \in Thread, Decrement(t), thread[t].frozen = TRUE, object[thread[t].d].refs
         > 1
  PROVE  IInv'
<1>1. Base /\ ObjectLocks /\ DataLocks /\ WeakLocks /\ Lists /\ Life /\ Rest
  BY DEF IInv, Locks
<1>2. Types /\ ThreadInv(t) /\ HoldsInv(t) /\ thread[t] \in ThreadRecord /\ t # None
  BY <1>1, RefsAssumption DEF Base, Types
<1>3. /\ thread[t].at = "decrement"
      /\ thread[t].frozen = TRUE
  BY <1>1, DidDecrementThaws
<1>4. Goes(t, "thaw", thread[t].d, thread[t].mode, thread[t].frozen, thread[t].r,
                thread[t].new, thread[t].old, thread[t].ptr)
  BY <1>1, DidDecrementThaws
<1>5. object' = object
  BY <1>1, DidDecrementThaws
<1>6. data' = data
  BY <1>1, DidDecrementThaws
<1>7. weak' = weak
  BY <1>1, DidDecrementThaws
<1>8. holds' = holds
  BY <1>1, DidDecrementThaws
<1>9. thread[t].d \in Object
  BY <1>2, <1>3 DEF ThreadInv, Placed, UnrefPlaces, SetPlaces, GetPlaces
<1>10. /\ object' \in [Object -> ObjectType] /\ data' \in [Object -> DataType]
       /\ weak' \in [Weak -> WeakRecord]
  BY <1>2, <1>5, <1>6, <1>7 DEF Types
<1>11. Placed("thaw", thread[t].d, thread[t].mode, thread[t].frozen, thread[t].r,
                 thread[t].new, thread[t].old, thread[t].ptr)
  BY <1>2, <1>3, <1>9, RefsAssumption DEF ThreadInv, ThreadRecord, Placed, UnrefPlaces,
       SetPlaces, GetPlaces
<1>12. /\ thread[t].new # None => holds[t][thread[t].new] # 0 \/ thread[t].new = thread[t].d
       /\ "thaw" \in GetPlaces => \A k \in Object : holds[t][k] <= MaxHolds
  BY <1>2, <1>3 DEF HoldsInv, ThreadInv, Placed, UnrefPlaces, SetPlaces, GetPlaces
<1>13. Base'
  BY <1>1, <1>4, <1>8, <1>10, <1>11, <1>12, BaseKept
<1>14. \A k \in Object : object'[k].lock = object[k].lock /\ (object[k].ever => object'[k].ever)
  BY <1>2, <1>5
<1>15. ObjectLocks'
  BY <1>1, <1>3, <1>4, <1>14, ObjectLocksKept
<1>16. \A k \in Object : data'[k].lock = data[k].lock
  BY <1>2, <1>6
<1>17. thread[t].at \notin DataLocked /\ "thaw" \notin DataLocked
  BY <1>3 DEF DataLocked
<1>18. DataLocks'
  BY <1>1, <1>4, <1>16, <1>17, DataLocksKept
<1>19. thread[t].at \notin WeakLocked /\ "thaw" \notin WeakLocked
  BY <1>3 DEF WeakLocked
<1>20. WeakLocks'
  BY <1>1, <1>4, <1>7, <1>19, WeakLocksKept
<1>21. /\ thread[t].old \in Object => object'[thread[t].old].ever
       /\ thread[t].new \in Object /\ "thaw" # "create" => object'[thread[t].new].ever
  BY <1>1, <1>2, <1>3, <1>14, RefsAssumption DEF Lists, ThreadInv, Placed, UnrefPlaces,
       SetPlaces, GetPlaces
<1>22. /\ \A k \in Weak : weak'[k].ptr = weak[k].ptr
       /\ \A k \in Object : data'[k].list = data[k].list
  BY <1>2, <1>6, <1>7
<1>23. Lists'
  BY <1>1, <1>4, <1>14, <1>21, <1>22, ListsKept
<1>24. Locks'
  BY <1>15, <1>18, <1>20 DEF Locks
<1>25. /\ \A w \in Thread \ {t} : thread'[w] = thread[w]
       /\ thread'[t].at = "thaw" /\ thread'[t].d = thread[t].d /\ thread'[t].mode = thread[t].mode
  BY <1>4 DEF Goes
<1>26. Types /\ \A x \in Object : LifeInv(x) /\ CountInv(x)
  BY <1>1, <1>2 DEF Life, LifeInv
<1>27. \A x \in Object : object'[x].freed = object[x].freed
  BY <1>2, <1>5
<1>28. \A x \in Object : object'[x].refs = object[x].refs
  BY <1>2, <1>5
<1>29. \A x \in Object, v \in Thread : holds'[v][x] = holds[v][x]
  BY <1>8
<1>30. \A x \in Object : object[x].ever => object'[x].ever
  BY <1>14
<1>31. \A x \in Object, k \in Weak : weak'[k].ptr = x => weak[k].ptr = x \/ object[x].refs # 0
  BY <1>22
<1>32. \A x \in Object \ {thread[t].d} : thread[t].d # x /\ thread'[t].d # x
  BY <1>25
<1>33. \A x \in Object \ {thread[t].d} : LifeInv(x)'
  BY <1>25, <1>26, <1>27, <1>28, <1>29, <1>30, <1>31, <1>32, LifeApart
<1>34. ASSUME NEW x \in Object, x = thread[t].d
       PROVE  LifeInv(x)'
  <2>1. Flies(t, x) /\ Flies(t, x)'
    BY <1>34, <1>3, <1>25 DEF Flies, Doomed
  <2>2. ~Sole(t, x)'
    BY <1>34, <1>3, <1>25 DEF Sole
  <2> QED
    BY <1>25, <1>26, <1>27, <1>28, <1>29, <1>30, <2>1, <2>2, LifeFlies
<1>35. Life'
  BY <1>33, <1>34 DEF Life
<1>36. /\ \A w \in Thread \ {t} : thread'[w] = thread[w]
       /\ thread'[t].d = thread[t].d /\ thread'[t].frozen = thread[t].frozen /\ thread'[t].old = thread[t].old
  BY <1>4 DEF Goes
<1>37. \A x \in Object : UsersInv(x) /\ FrozenInv(x)
  BY <1>1 DEF Rest, RestInv
<1>38. \A x \in Object : object'[x].ever = object[x].ever /\ object'[x].freed = object[x].freed
  BY <1>2, <1>5
<1>39. \A x \in Object : data'[x].refs = data[x].refs
  BY <1>2, <1>6
<1>40. \A x \in Object : thread'[t].old = x <=> thread[t].old = x
  BY <1>2, <1>3, <1>36, RefsAssumption DEF ThreadInv, Placed, UnrefPlaces, SetPlaces,
       GetPlaces
<1>41. \A x \in Object : UsersInv(x)'
  BY <1>36, <1>37, <1>38, <1>39, <1>40, UsersKept
<1>42. \A x \in Object : UsersInv(x)'
  BY <1>41
<1>43. \A x \in Object : object'[x].freed = object[x].freed /\ object'[x].frozen = object[x].frozen
  BY <1>2, <1>5
<1>44. \A x \in Object : Freezes(t, x)' <=> Freezes(t, x)
  BY <1>2, <1>3, <1>36, RefsAssumption DEF Freezes, ThreadInv, Placed, UnrefPlaces, SetPlaces,
       GetPlaces
<1>45. \A x \in Object : FrozenInv(x)'
  BY <1>36, <1>37, <1>43, <1>44, FrozenKept
<1>46. \A x \in Object : FrozenInv(x)'
  BY <1>45
<1>47. Rest'
  BY <1>42, <1>46 DEF Rest, RestInv
<1> QED
  BY <1>13, <1>24, <1>23, <1>35, <1>47 DEF IInv

LEMMA StepDecrementLast ==
  ASSUME IInv, NEW t \in Thread, Decrement(t), object[thread[t].d].refs = 1
  PROVE  IInv'
<1>1. Base /\ ObjectLocks /\ DataLocks /\ WeakLocks /\ Lists /\ Life /\ Rest
  BY DEF IInv, Locks
<1>2. Types /\ ThreadInv(t) /\ HoldsInv(t) /\ thread[t] \in ThreadRecord /\ t # None
  BY <1>1, RefsAssumption DEF Base, Types
<1>3. /\ thread[t].at = "decrement"
      /\ object[thread[t].d].refs = 1
  BY <1>1, DidDecrementLast
<1>4. Goes(t, "clear", thread[t].d, "drop", thread[t].frozen, thread[t].r, thread[t].new,
                thread[t].old, thread[t].ptr)
  BY <1>1, DidDecrementLast
<1>5. object' = object
  BY <1>1, DidDecrementLast
<1>6. data' = data
  BY <1>1, DidDecrementLast
<1>7. weak' = weak
  BY <1>1, DidDecrementLast
<1>8. holds' = holds
  BY <1>1, DidDecrementLast
<1>9. thread[t].d \in Object
  BY <1>2, <1>3 DEF ThreadInv, Placed, UnrefPlaces, SetPlaces, GetPlaces
<1>10. /\ object' \in [Object -> ObjectType] /\ data' \in [Object -> DataType]
       /\ weak' \in [Weak -> WeakRecord]
  BY <1>2, <1>5, <1>6, <1>7 DEF Types
<1>11. Placed("clear", thread[t].d, "drop", thread[t].frozen, thread[t].r, thread[t].new,
                 thread[t].old, thread[t].ptr)
  BY <1>2, <1>3, <1>9, RefsAssumption DEF ThreadInv, ThreadRecord, Placed, UnrefPlaces,
       SetPlaces, GetPlaces
<1>12. /\ thread[t].new # None => holds[t][thread[t].new] # 0 \/ thread[t].new = thread[t].d
       /\ "clear" \in GetPlaces => \A k \in Object : holds[t][k] <= MaxHolds
  BY <1>2, <1>3 DEF HoldsInv, ThreadInv, Placed, UnrefPlaces, SetPlaces, GetPlaces
<1>13. Base'
  BY <1>1, <1>4, <1>8, <1>10, <1>11, <1>12, BaseKept
<1>14. \A k \in Object : object'[k].lock = object[k].lock /\ (object[k].ever => object'[k].ever)
  BY <1>2, <1>5
<1>15. ObjectLocks'
  BY <1>1, <1>3, <1>4, <1>14, ObjectLocksKept
<1>16. \A k \in Object : data'[k].lock = data[k].lock
  BY <1>2, <1>6
<1>17. thread[t].at \notin DataLocked /\ "clear" \notin DataLocked
  BY <1>3 DEF DataLocked
<1>18. DataLocks'
  BY <1>1, <1>4, <1>16, <1>17, DataLocksKept
<1>19. thread[t].at \notin WeakLocked /\ "clear" \notin WeakLocked
  BY <1>3 DEF WeakLocked
<1>20. WeakLocks'
  BY <1>1, <1>4, <1>7, <1>19, WeakLocksKept
<1>21. /\ thread[t].old \in Object => object'[thread[t].old].ever
       /\ thread[t].new \in Object /\ "clear" # "create" => object'[thread[t].new].ever
  BY <1>1, <1>2, <1>3, <1>14, RefsAssumption DEF Lists, ThreadInv, Placed, UnrefPlaces,
       SetPlaces, GetPlaces
<1>22. /\ \A k \in Weak : weak'[k].ptr = weak[k].ptr
       /\ \A k \in Object : data'[k].list = data[k].list
  BY <1>2, <1>6, <1>7
<1>23. Lists'
  BY <1>1, <1>4, <1>14, <1>21, <1>22, ListsKept
<1>24. Locks'
  BY <1>15, <1>18, <1>20 DEF Locks
<1>25. /\ \A w \in Thread \ {t} : thread'[w] = thread[w]
       /\ thread'[t].at = "clear" /\ thread'[t].d = thread[t].d /\ thread'[t].mode = "drop"
  BY <1>4 DEF Goes
<1>26. Types /\ \A x \in Object : LifeInv(x) /\ CountInv(x)
  BY <1>1, <1>2 DEF Life, LifeInv
<1>27. \A x \in Object : object'[x].freed = object[x].freed
  BY <1>2, <1>5
<1>28. \A x \in Object : object'[x].refs = object[x].refs
  BY <1>2, <1>5
<1>29. \A x \in Object, v \in Thread : holds'[v][x] = holds[v][x]
  BY <1>8
<1>30. \A x \in Object : object[x].ever => object'[x].ever
  BY <1>14
<1>31. \A x \in Object, k \in Weak : weak'[k].ptr = x => weak[k].ptr = x \/ object[x].refs # 0
  BY <1>22
<1>32. \A x \in Object \ {thread[t].d} : thread[t].d # x /\ thread'[t].d # x
  BY <1>25
<1>33. \A x \in Object \ {thread[t].d} : LifeInv(x)'
  BY <1>25, <1>26, <1>27, <1>28, <1>29, <1>30, <1>31, <1>32, LifeApart
<1>34. ASSUME NEW x \in Object, x = thread[t].d
       PROVE  LifeInv(x)'
  <2>1. Flies(t, x) /\ Flies(t, x)'
    BY <1>34, <1>3, <1>25 DEF Flies, Doomed
  <2>2. Sole(t, x)' => object[x].refs = 1
    BY <1>34, <1>3, <1>25 DEF Sole
  <2> QED
    BY <1>25, <1>26, <1>27, <1>28, <1>29, <1>30, <2>1, <2>2, LifeFlies
<1>35. Life'
  BY <1>33, <1>34 DEF Life
<1>36. /\ \A w \in Thread \ {t} : thread'[w] = thread[w]
       /\ thread'[t].d = thread[t].d /\ thread'[t].frozen = thread[t].frozen /\ thread'[t].old = thread[t].old
  BY <1>4 DEF Goes
<1>37. \A x \in Object : UsersInv(x) /\ FrozenInv(x)
  BY <1>1 DEF Rest, RestInv
<1>38. \A x \in Object : object'[x].ever = object[x].ever /\ object'[x].freed = object[x].freed
  BY <1>2, <1>5
<1>39. \A x \in Object : data'[x].refs = data[x].refs
  BY <1>2, <1>6
<1>40. \A x \in Object : thread'[t].old = x <=> thread[t].old = x
  BY <1>2, <1>3, <1>36, RefsAssumption DEF ThreadInv, Placed, UnrefPlaces, SetPlaces,
       GetPlaces
<1>41. \A x \in Object : UsersInv(x)'
  BY <1>36, <1>37, <1>38, <1>39, <1>40, UsersKept
<1>42. \A x \in Object : UsersInv(x)'
  BY <1>41
<1>43. \A x \in Object : object'[x].freed = object[x].freed /\ object'[x].frozen = object[x].frozen
  BY <1>2, <1>5
<1>44. \A x \in Object : Freezes(t, x)' <=> Freezes(t, x)
  BY <1>2, <1>3, <1>36, RefsAssumption DEF Freezes, ThreadInv, Placed, UnrefPlaces, SetPlaces,
       GetPlaces
<1>45. \A x \in Object : FrozenInv(x)'
  BY <1>36, <1>37, <1>43, <1>44, FrozenKept
<1>46. \A x \in Object : FrozenInv(x)'
  BY <1>45
<1>47. Rest'
  BY <1>42, <1>46 DEF Rest, RestInv
<1> QED
  BY <1>13, <1>24, <1>23, <1>35, <1>47 DEF IInv

LEMMA StepThaw ==
  ASSUME IInv, NEW t \in Thread, Thaw(t)
  PROVE  IInv'
<1>1. Base /\ ObjectLocks /\ DataLocks /\ WeakLocks /\ Lists /\ Life /\ Rest
  BY DEF IInv, Locks
<1>2. Types /\ ThreadInv(t) /\ HoldsInv(t) /\ thread[t] \in ThreadRecord /\ t # None
  BY <1>1, RefsAssumption DEF Base, Types
<1>3. thread[t].at = "thaw"
  BY <1>1, DidThaw
<1>4. Goes(t, "decrement", thread[t].d, thread[t].mode, FALSE, thread[t].r, thread[t].new,
                thread[t].old, thread[t].ptr)
  BY <1>1, DidThaw
<1>5. SetsObject(thread[t].d, object[thread[t].d].refs, object[thread[t].d].freed,
                object[thread[t].d].ever, object[thread[t].d].frozen - 1, object[thread[t].d].lock)
  BY <1>1, DidThaw
<1>6. data' = data
  BY <1>1, DidThaw
<1>7. weak' = weak
  BY <1>1, DidThaw
<1>8. holds' = holds
  BY <1>1, DidThaw
<1>9. thread[t].d \in Object
  BY <1>2, <1>3 DEF ThreadInv, Placed, UnrefPlaces, SetPlaces, GetPlaces
<1>10. /\ object' \in [Object -> ObjectType] /\ data' \in [Object -> DataType]
       /\ weak' \in [Weak -> WeakRecord]
  BY <1>2, <1>5, <1>6, <1>7 DEF Types, SetsObject
<1>11. Placed("decrement", thread[t].d, thread[t].mode, FALSE, thread[t].r, thread[t].new,
                 thread[t].old, thread[t].ptr)
  BY <1>2, <1>3, <1>9, RefsAssumption DEF ThreadInv, ThreadRecord, Placed, UnrefPlaces,
       SetPlaces, GetPlaces
<1>12. /\ thread[t].new # None => holds[t][thread[t].new] # 0 \/ thread[t].new = thread[t].d
       /\ "decrement" \in GetPlaces => \A k \in Object : holds[t][k] <= MaxHolds
  BY <1>2, <1>3 DEF HoldsInv, ThreadInv, Placed, UnrefPlaces, SetPlaces, GetPlaces
<1>13. Base'
  BY <1>1, <1>4, <1>8, <1>10, <1>11, <1>12, BaseKept
<1>14. \A k \in Object : object'[k].lock = object[k].lock /\ (object[k].ever => object'[k].ever)
  BY <1>2, <1>5 DEF SetsObject, Types
<1>15. ObjectLocks'
  BY <1>1, <1>3, <1>4, <1>14, ObjectLocksKept
<1>16. \A k \in Object : data'[k].lock = data[k].lock
  BY <1>2, <1>6
<1>17. thread[t].at \notin DataLocked /\ "decrement" \notin DataLocked
  BY <1>3 DEF DataLocked
<1>18. DataLocks'
  BY <1>1, <1>4, <1>16, <1>17, DataLocksKept
<1>19. thread[t].at \notin WeakLocked /\ "decrement" \notin WeakLocked
  BY <1>3 DEF WeakLocked
<1>20. WeakLocks'
  BY <1>1, <1>4, <1>7, <1>19, WeakLocksKept
<1>21. /\ thread[t].old \in Object => object'[thread[t].old].ever
       /\ thread[t].new \in Object /\ "decrement" # "create" => object'[thread[t].new].ever
  BY <1>1, <1>2, <1>3, <1>14, RefsAssumption DEF Lists, ThreadInv, Placed, UnrefPlaces,
       SetPlaces, GetPlaces
<1>22. /\ \A k \in Weak : weak'[k].ptr = weak[k].ptr
       /\ \A k \in Object : data'[k].list = data[k].list
  BY <1>2, <1>6, <1>7
<1>23. Lists'
  BY <1>1, <1>4, <1>14, <1>21, <1>22, ListsKept
<1>24. Locks'
  BY <1>15, <1>18, <1>20 DEF Locks
<1>25. /\ \A w \in Thread \ {t} : thread'[w] = thread[w]
       /\ thread'[t].at = "decrement" /\ thread'[t].d = thread[t].d /\ thread'[t].mode = thread[t].mode
  BY <1>4 DEF Goes
<1>26. Types /\ \A x \in Object : LifeInv(x) /\ CountInv(x)
  BY <1>1, <1>2 DEF Life, LifeInv
<1>27. \A x \in Object : object'[x].freed = object[x].freed
  BY <1>2, <1>5 DEF SetsObject
<1>28. \A x \in Object : object'[x].refs = object[x].refs
  BY <1>2, <1>5 DEF SetsObject
<1>29. \A x \in Object, v \in Thread : holds'[v][x] = holds[v][x]
  BY <1>8
<1>30. \A x \in Object : object[x].ever => object'[x].ever
  BY <1>14
<1>31. \A x \in Object, k \in Weak : weak'[k].ptr = x => weak[k].ptr = x \/ object[x].refs # 0
  BY <1>22
<1>32. \A x \in Object \ {thread[t].d} : thread[t].d # x /\ thread'[t].d # x
  BY <1>25
<1>33. \A x \in Object \ {thread[t].d} : LifeInv(x)'
  BY <1>25, <1>26, <1>27, <1>28, <1>29, <1>30, <1>31, <1>32, LifeApart
<1>34. ASSUME NEW x \in Object, x = thread[t].d
       PROVE  LifeInv(x)'
  <2>1. Flies(t, x) /\ Flies(t, x)'
    BY <1>34, <1>3, <1>25 DEF Flies, Doomed
  <2>2. ~Sole(t, x)'
    BY <1>34, <1>3, <1>25 DEF Sole
  <2> QED
    BY <1>25, <1>26, <1>27, <1>28, <1>29, <1>30, <2>1, <2>2, LifeFlies
<1>35. Life'
  BY <1>33, <1>34 DEF Life
<1>36. /\ \A w \in Thread \ {t} : thread'[w] = thread[w]
       /\ thread'[t].d = thread[t].d /\ thread'[t].frozen = FALSE /\ thread'[t].old = thread[t].old
  BY <1>4 DEF Goes
<1>37. \A x \in Object : UsersInv(x) /\ FrozenInv(x)
  BY <1>1 DEF Rest, RestInv
<1>38. \A x \in Object : object'[x].ever = object[x].ever /\ object'[x].freed = object[x].freed
  BY <1>2, <1>5 DEF SetsObject
<1>39. \A x \in Object : data'[x].refs = data[x].refs
  BY <1>2, <1>6
<1>40. \A x \in Object : thread'[t].old = x <=> thread[t].old = x
  BY <1>2, <1>3, <1>36, RefsAssumption DEF ThreadInv, Placed, UnrefPlaces, SetPlaces,
       GetPlaces
<1>41. \A x \in Object : UsersInv(x)'
  BY <1>36, <1>37, <1>38, <1>39, <1>40, UsersKept
<1>42. \A x \in Object : UsersInv(x)'
  BY <1>41
<1>43. \A x \in Object \ {thread[t].d} : object'[x].freed = object[x].freed /\ object'[x].frozen = object[x].frozen
  BY <1>2, <1>5 DEF SetsObject
<1>44. \A x \in Object \ {thread[t].d} : Freezes(t, x)' <=> Freezes(t, x)
  BY <1>2, <1>3, <1>36, RefsAssumption DEF Freezes, ThreadInv, Placed, UnrefPlaces, SetPlaces,
       GetPlaces
<1>45. \A x \in Object \ {thread[t].d} : FrozenInv(x)'
  BY <1>36, <1>37, <1>43, <1>44, FrozenKept
<1>46. ASSUME NEW x \in Object, x = thread[t].d
       PROVE  FrozenInv(x)'
  <2>1. Freezes(t, x) /\ ~Freezes(t, x)'
    BY <1>46, <1>2, <1>3, <1>36 DEF Freezes, ThreadInv, Placed
  <2>2. Cardinality(Freezers(x))' = Cardinality(Freezers(x)) - 1
    BY <1>36, <2>1, FreezersMinus
  <2>3. object'[x].frozen = object[x].frozen - 1 /\ object'[x].freed = object[x].freed
    BY <1>46, <1>5 DEF SetsObject
  <2>4. ~object[x].freed
    BY <1>46, <1>26 DEF LifeInv, EndInv
  <2>5. object'[x].frozen = Cardinality(Freezers(x))'
    BY <1>37, <2>2, <2>3, <2>4 DEF FrozenInv
  <2>6. Cardinality(Freezers(x)') \in Nat
    <3>1. IsFiniteSet(Thread) /\ Freezers(x)' \subseteq Thread
      BY RefsAssumption DEF Freezers
    <3> QED
      BY <3>1, FS_Subset, FS_CardinalityType
  <2> QED
    BY <2>5, <2>6 DEF FrozenInv
<1>47. \A x \in Object : FrozenInv(x)'
  BY <1>45, <1>46
<1>48. Rest'
  BY <1>42, <1>47 DEF Rest, RestInv
<1> QED
  BY <1>13, <1>24, <1>23, <1>35, <1>48 DEF IInv

LEMMA StepFinalize ==
  ASSUME IInv, NEW t \in Thread, Finalize(t)
  PROVE  IInv'
<1>1. Base /\ ObjectLocks /\ DataLocks /\ WeakLocks /\ Lists /\ Life /\ Rest
  BY DEF IInv, Locks
<1>2. Types /\ ThreadInv(t) /\ HoldsInv(t) /\ thread[t] \in ThreadRecord /\ t # None
  BY <1>1, RefsAssumption DEF Base, Types
<1>3. /\ thread[t].at = "finalize"
      /\ object[thread[t].d].lock = None
  BY <1>1, DidFinalize
<1>4. Goes(t, "idle", None, "check", FALSE, None, None, None, None)
  BY <1>1, DidFinalize
<1>5. SetsObject(thread[t].d, object[thread[t].d].refs, TRUE, object[thread[t].d].ever,
                object[thread[t].d].frozen, object[thread[t].d].lock)
  BY <1>1, DidFinalize
<1>6. SetsData(thread[t].d, (IF object[thread[t].d].ever THEN data[thread[t].d].refs - 1 ELSE data[thread[t].d].refs), data[thread[t].d].lock, data[thread[t].d].list)
  BY <1>1, DidFinalize
<1>7. weak' = weak
  BY <1>1, DidFinalize
<1>8. holds' = holds
  BY <1>1, DidFinalize
<1>9. thread[t].d \in Object
  BY <1>2, <1>3 DEF ThreadInv, Placed, UnrefPlaces, SetPlaces, GetPlaces
<1>10. /\ object' \in [Object -> ObjectType] /\ data' \in [Object -> DataType]
       /\ weak' \in [Weak -> WeakRecord]
  BY <1>2, <1>5, <1>6, <1>7 DEF Types, SetsObject, SetsData
<1>11. Placed("idle", None, "check", FALSE, None, None, None, None)
  BY <1>2, <1>3, <1>9, RefsAssumption DEF ThreadInv, ThreadRecord, Placed, UnrefPlaces,
       SetPlaces, GetPlaces
<1>12. /\ None # None => holds[t][None] # 0 \/ None = None
       /\ "idle" \in GetPlaces => \A k \in Object : holds[t][k] <= MaxHolds
  BY <1>2, <1>3 DEF HoldsInv, ThreadInv, Placed, UnrefPlaces, SetPlaces, GetPlaces
<1>13. Base'
  BY <1>1, <1>4, <1>8, <1>10, <1>11, <1>12, BaseKept
<1>14. \A k \in Object : object'[k].lock = object[k].lock /\ (object[k].ever => object'[k].ever)
  BY <1>2, <1>5 DEF SetsObject, Types
<1>15. ObjectLocks'
  BY <1>1, <1>3, <1>4, <1>14, ObjectLocksKept
<1>16. \A k \in Object : data'[k].lock = data[k].lock
  BY <1>2, <1>6 DEF SetsData, Types
<1>17. thread[t].at \notin DataLocked /\ "idle" \notin DataLocked
  BY <1>3 DEF DataLocked
<1>18. DataLocks'
  BY <1>1, <1>4, <1>16, <1>17, DataLocksKept
<1>19. thread[t].at \notin WeakLocked /\ "idle" \notin WeakLocked
  BY <1>3 DEF WeakLocked
<1>20. WeakLocks'
  BY <1>1, <1>4, <1>7, <1>19, WeakLocksKept
<1>21. /\ None \in Object => object'[None].ever
       /\ None \in Object /\ "idle" # "create" => object'[None].ever
  BY <1>1, <1>2, <1>3, <1>14, RefsAssumption DEF Lists, ThreadInv, Placed, UnrefPlaces,
       SetPlaces, GetPlaces
<1>22. /\ \A k \in Weak : weak'[k].ptr = weak[k].ptr
       /\ \A k \in Object : data'[k].list = data[k].list
  BY <1>2, <1>6, <1>7 DEF SetsData
<1>23. Lists'
  BY <1>1, <1>4, <1>14, <1>21, <1>22, ListsKept
<1>24. Locks'
  BY <1>15, <1>18, <1>20 DEF Locks
<1>25. /\ \A w \in Thread \ {t} : thread'[w] = thread[w]
       /\ thread'[t].at = "idle" /\ thread'[t].d = None /\ thread'[t].mode = "check"
  BY <1>4 DEF Goes
<1>26. Types /\ \A x \in Object : LifeInv(x) /\ CountInv(x)
  BY <1>1, <1>2 DEF Life, LifeInv
<1>27. \A x \in Object \ {thread[t].d} : object'[x].freed = object[x].freed
  BY <1>2, <1>5 DEF SetsObject
<1>28. \A x \in Object : object'[x].refs = object[x].refs
  BY <1>2, <1>5 DEF SetsObject
<1>29. \A x \in Object, v \in Thread : holds'[v][x] = holds[v][x]
  BY <1>8
<1>30. \A x \in Object : object[x].ever => object'[x].ever
  BY <1>14
<1>31. \A x \in Object, k \in Weak : weak'[k].ptr = x => weak[k].ptr = x \/ object[x].refs # 0
  BY <1>22
<1>32. thread[t].d \in {thread[t].d, None} /\ thread'[t].d \in {thread[t].d, None}
  BY <1>2, <1>3, <1>25 DEF ThreadInv, Placed, UnrefPlaces, SetPlaces, GetPlaces
<1>33. \A x \in Object \ {thread[t].d} : thread[t].d # x /\ thread'[t].d # x
  BY <1>32, RefsAssumption
<1>34. \A x \in Object \ {thread[t].d} : LifeInv(x)'
  BY <1>25, <1>26, <1>27, <1>28, <1>29, <1>30, <1>31, <1>33, LifeApart
<1>35. ASSUME NEW x \in Object, x = thread[t].d
       PROVE  LifeInv(x)'
  <2>1. /\ object'[x].freed = TRUE /\ object'[x].refs = object[x].refs
        /\ object'[x].ever = object[x].ever
    BY <1>35, <1>5 DEF SetsObject
  <2>2. thread[t].d = x /\ thread'[t].d # x /\ object[x].lock = None
    BY <1>35, <1>3, <1>25, RefsAssumption
  <2> QED
    BY <1>1, <1>3, <1>7, <1>25, <1>26, <1>35, <1>29, <2>1, <2>2, LifeFreed
<1>36. Life'
  BY <1>34, <1>35 DEF Life
<1>37. /\ \A w \in Thread \ {t} : thread'[w] = thread[w]
       /\ thread'[t].d = None /\ thread'[t].frozen = FALSE /\ thread'[t].old = None
  BY <1>4 DEF Goes
<1>38. \A x \in Object : UsersInv(x) /\ FrozenInv(x)
  BY <1>1 DEF Rest, RestInv
<1>39. \A x \in Object \ {thread[t].d} : object'[x].ever = object[x].ever /\ object'[x].freed = object[x].freed
  BY <1>2, <1>5 DEF SetsObject
<1>40. \A x \in Object \ {thread[t].d} : data'[x].refs = data[x].refs
  BY <1>2, <1>6 DEF SetsData
<1>41. \A x \in Object : thread'[t].old = x <=> thread[t].old = x
  BY <1>2, <1>3, <1>37, RefsAssumption DEF ThreadInv, Placed, UnrefPlaces, SetPlaces,
       GetPlaces
<1>42. \A x \in Object \ {thread[t].d} : UsersInv(x)'
  BY <1>37, <1>38, <1>39, <1>40, <1>41, UsersKept
<1>43. ASSUME NEW x \in Object, x = thread[t].d
       PROVE  UsersInv(x)' /\ FrozenInv(x)'
  <2>1. /\ object'[x].ever = object[x].ever /\ object'[x].freed = TRUE
        /\ object'[x].frozen = object[x].frozen
    BY <1>43, <1>5 DEF SetsObject
  <2>2. data'[x].refs = IF object[x].ever THEN data[x].refs - 1 ELSE data[x].refs
    BY <1>43, <1>6 DEF SetsData
  <2>3. ~object[x].freed
    BY <1>43, <1>26 DEF LifeInv, EndInv
  <2>4. Users(x)' = Users(x)
    BY <1>37, <1>41, UsersSame
  <2>5. Bit((object[x].ever /\ ~object[x].freed)') = 0
    BY <2>1 DEF Bit
  <2>6. Bit(object[x].ever /\ ~object[x].freed) = IF object[x].ever THEN 1 ELSE 0
    BY <2>3 DEF Bit
  <2>7. data'[x].refs = Cardinality(Users(x))
    BY <1>38, <2>2, <2>6, UsersFinite DEF UsersInv
  <2>8. UsersInv(x)'
    BY <2>4, <2>5, <2>7, UsersFinite DEF UsersInv
  <2>9. FrozenInv(x)'
    BY <1>38, <2>1 DEF FrozenInv
  <2> QED
    BY <2>8, <2>9
<1>44. \A x \in Object : UsersInv(x)'
  BY <1>42, <1>43
<1>45. \A x \in Object \ {thread[t].d} : object'[x].freed = object[x].freed /\ object'[x].frozen = object[x].frozen
  BY <1>2, <1>5 DEF SetsObject
<1>46. \A x \in Object \ {thread[t].d} : Freezes(t, x)' <=> Freezes(t, x)
  BY <1>2, <1>3, <1>37, RefsAssumption DEF Freezes, ThreadInv, Placed, UnrefPlaces, SetPlaces,
       GetPlaces
<1>47. \A x \in Object \ {thread[t].d} : FrozenInv(x)'
  BY <1>37, <1>38, <1>45, <1>46, FrozenKept
<1>48. \A x \in Object : FrozenInv(x)'
  BY <1>47, <1>43
<1>49. Rest'
  BY <1>44, <1>48 DEF Rest, RestInv
<1> QED
  BY <1>13, <1>24, <1>23, <1>36, <1>49 DEF IInv

LEMMA StepRunDispose ==
  ASSUME IInv, NEW t \in Thread, NEW o \in Object, RunDispose(t, o)
  PROVE  IInv'
<1>1. Base /\ ObjectLocks /\ DataLocks /\ WeakLocks /\ Lists /\ Life /\ Rest
  BY DEF IInv, Locks
<1>2. Types /\ ThreadInv(t) /\ HoldsInv(t) /\ thread[t] \in ThreadRecord /\ t # None
  BY <1>1, RefsAssumption DEF Base, Types
<1>3. /\ thread[t].at = "idle"
      /\ holds[t][o] # 0
  BY <1>1, DidRunDispose
<1>4. Goes(t, "run", o, thread[t].mode, thread[t].frozen, thread[t].r, thread[t].new,
                thread[t].old, thread[t].ptr)
  BY <1>1, DidRunDispose
<1>5. SetsObject(o, object[o].refs + 1, object[o].freed, object[o].ever, object[o].frozen,
                object[o].lock)
  BY <1>1, DidRunDispose
<1>6. data' = data
  BY <1>1, DidRunDispose
<1>7. weak' = weak
  BY <1>1, DidRunDispose
<1>8. holds' = holds
  BY <1>1, DidRunDispose
<1>9. /\ object' \in [Object -> ObjectType] /\ data' \in [Object -> DataType]
      /\ weak' \in [Weak -> WeakRecord]
  BY <1>2, <1>5, <1>6, <1>7 DEF Types, SetsObject
<1>10. Placed("run", o, thread[t].mode, thread[t].frozen, thread[t].r, thread[t].new,
                 thread[t].old, thread[t].ptr)
  BY <1>2, <1>3, RefsAssumption DEF ThreadInv, ThreadRecord, Placed, UnrefPlaces, SetPlaces,
       GetPlaces
<1>11. /\ thread[t].new # None => holds[t][thread[t].new] # 0 \/ thread[t].new = o
       /\ "run" \in GetPlaces => \A k \in Object : holds[t][k] <= MaxHolds
  BY <1>2, <1>3 DEF HoldsInv, ThreadInv, Placed, UnrefPlaces, SetPlaces, GetPlaces
<1>12. Base'
  BY <1>1, <1>4, <1>8, <1>9, <1>10, <1>11, BaseKept
<1>13. \A k \in Object : object'[k].lock = object[k].lock /\ (object[k].ever => object'[k].ever)
  BY <1>2, <1>5 DEF SetsObject, Types
<1>14. ObjectLocks'
  BY <1>1, <1>3, <1>4, <1>13, ObjectLocksKept
<1>15. \A k \in Object : data'[k].lock = data[k].lock
  BY <1>2, <1>6
<1>16. thread[t].at \notin DataLocked /\ "run" \notin DataLocked
  BY <1>3 DEF DataLocked
<1>17. DataLocks'
  BY <1>1, <1>4, <1>15, <1>16, DataLocksKept
<1>18. thread[t].at \notin WeakLocked /\ "run" \notin WeakLocked
  BY <1>3 DEF WeakLocked
<1>19. WeakLocks'
  BY <1>1, <1>4, <1>7, <1>18, WeakLocksKept
<1>20. /\ thread[t].old \in Object => object'[thread[t].old].ever
       /\ thread[t].new \in Object /\ "run" # "create" => object'[thread[t].new].ever
  BY <1>1, <1>2, <1>3, <1>13, RefsAssumption DEF Lists, ThreadInv, Placed, UnrefPlaces,
       SetPlaces, GetPlaces
<1>21. /\ \A k \in Weak : weak'[k].ptr = weak[k].ptr
       /\ \A k \in Object : data'[k].list = data[k].list
  BY <1>2, <1>6, <1>7
<1>22. Lists'
  BY <1>1, <1>4, <1>13, <1>20, <1>21, ListsKept
<1>23. Locks'
  BY <1>14, <1>17, <1>19 DEF Locks
<1>24. /\ \A w \in Thread \ {t} : thread'[w] = thread[w]
       /\ thread'[t].at = "run" /\ thread'[t].d = o /\ thread'[t].mode = thread[t].mode
  BY <1>4 DEF Goes
<1>25. Types /\ \A x \in Object : LifeInv(x) /\ CountInv(x)
  BY <1>1, <1>2 DEF Life, LifeInv
<1>26. \A x \in Object : object'[x].freed = object[x].freed
  BY <1>2, <1>5 DEF SetsObject
<1>27. \A x \in Object \ {o} : object'[x].refs = object[x].refs
  BY <1>2, <1>5 DEF SetsObject
<1>28. \A x \in Object, v \in Thread : holds'[v][x] = holds[v][x]
  BY <1>8
<1>29. \A x \in Object : object[x].ever => object'[x].ever
  BY <1>13
<1>30. \A x \in Object, k \in Weak : weak'[k].ptr = x => weak[k].ptr = x \/ object[x].refs # 0
  BY <1>21
<1>31. thread[t].d \in {o, None} /\ thread'[t].d \in {o, None}
  BY <1>2, <1>3, <1>24 DEF ThreadInv, Placed, UnrefPlaces, SetPlaces, GetPlaces
<1>32. \A x \in Object \ {o} : thread[t].d # x /\ thread'[t].d # x
  BY <1>31, RefsAssumption
<1>33. \A x \in Object \ {o} : LifeInv(x)'
  BY <1>24, <1>25, <1>26, <1>27, <1>28, <1>29, <1>30, <1>32, LifeApart
<1>34. ASSUME NEW x \in Object, x = o
       PROVE  LifeInv(x)'
  <2>1. object[x].refs # 0 /\ Types
    BY <1>34, <1>3, <1>25, HolderCounts
  <2>2. ~Doomed(t, x)' /\ ~Sole(t, x)'
    BY <1>34, <1>3, <1>24, RefsAssumption DEF Doomed, Sole
  <2>3. ~Flies(t, x) /\ Flies(t, x)'
    BY <1>34, <1>2, <1>3, <1>24, RefsAssumption DEF Flies, Doomed, ThreadInv, Placed
  <2>4. Cardinality(InFlight(x))' = Cardinality(InFlight(x)) + 1
    BY <1>24, <2>1, <2>3, FlightMore
  <2>5. Held(x)' = Held(x)
    BY <1>28, HeldSame
  <2>6. Cardinality(InFlight(x))' + Cardinality(Held(x))' =
          Cardinality(InFlight(x)) + Cardinality(Held(x)) + 1
    BY <1>25, <1>34, <2>4, <2>5, CountsFinite
  <2>7. object'[x].refs = object[x].refs + 1
    BY <1>34, <1>5 DEF SetsObject
  <2>8. holds[t][x] # 0
    BY <1>34, <1>3
  <2>9. ASSUME NEW v \in Thread \ {t}, Sole(v, x)
        PROVE  FALSE
    <3>1. v \in Thread /\ v # t
      BY <2>9
    <3>2. Flies(v, x)
      BY <2>9 DEF Flies, Sole, Doomed
    <3>3. object[x].refs = 1
      BY <1>25, <1>34, <2>9, <3>1 DEF LifeInv, SoleInv
    <3> QED
      BY <1>25, <2>8, <3>1, <3>2, <3>3, FlierAndHolderCount
  <2>10. \A v \in Thread \ {t} : ~Sole(v, x)
    BY <2>9
  <2>11. /\ LifeInv(x) /\ object'[x].freed = object[x].freed
         /\ object[x].ever => object'[x].ever
    BY <1>25, <1>26, <1>29
  <2>12. \A w \in Thread \ {t} : thread'[w] = thread[w]
    BY <1>24
  <2> QED
    BY <2>11, <2>12, <2>1, <2>2, <2>6, <2>7, <2>10, LifeMore
<1>35. Life'
  BY <1>33, <1>34 DEF Life
<1>36. /\ \A w \in Thread \ {t} : thread'[w] = thread[w]
       /\ thread'[t].d = o /\ thread'[t].frozen = thread[t].frozen /\ thread'[t].old = thread[t].old
  BY <1>4 DEF Goes
<1>37. \A x \in Object : UsersInv(x) /\ FrozenInv(x)
  BY <1>1 DEF Rest, RestInv
<1>38. \A x \in Object : object'[x].ever = object[x].ever /\ object'[x].freed = object[x].freed
  BY <1>2, <1>5 DEF SetsObject
<1>39. \A x \in Object : data'[x].refs = data[x].refs
  BY <1>2, <1>6
<1>40. \A x \in Object : thread'[t].old = x <=> thread[t].old = x
  BY <1>2, <1>3, <1>36, RefsAssumption DEF ThreadInv, Placed, UnrefPlaces, SetPlaces,
       GetPlaces
<1>41. \A x \in Object : UsersInv(x)'
  BY <1>36, <1>37, <1>38, <1>39, <1>40, UsersKept
<1>42. \A x \in Object : UsersInv(x)'
  BY <1>41
<1>43. \A x \in Object : object'[x].freed = object[x].freed /\ object'[x].frozen = object[x].frozen
  BY <1>2, <1>5 DEF SetsObject
<1>44. \A x \in Object : Freezes(t, x)' <=> Freezes(t, x)
  BY <1>2, <1>3, <1>36, RefsAssumption DEF Freezes, ThreadInv, Placed, UnrefPlaces, SetPlaces,
       GetPlaces
<1>45. \A x \in Object : FrozenInv(x)'
  BY <1>36, <1>37, <1>43, <1>44, FrozenKept
<1>46. \A x \in Object : FrozenInv(x)'
  BY <1>45
<1>47. Rest'
  BY <1>42, <1>46 DEF Rest, RestInv
<1> QED
  BY <1>12, <1>23, <1>22, <1>35, <1>47 DEF IInv

LEMMA StepRunDisposedEver ==
  ASSUME IInv, NEW t \in Thread, RunDisposed(t), object[thread[t].d].ever
  PROVE  IInv'
<1>1. Base /\ ObjectLocks /\ DataLocks /\ WeakLocks /\ Lists /\ Life /\ Rest
  BY DEF IInv, Locks
<1>2. Types /\ ThreadInv(t) /\ HoldsInv(t) /\ thread[t] \in ThreadRecord /\ t # None
  BY <1>1, RefsAssumption DEF Base, Types
<1>3. thread[t].at = "run"
  BY <1>1, DidRunDisposedEver
<1>4. Goes(t, "clear", thread[t].d, "run", thread[t].frozen, thread[t].r, thread[t].new,
                thread[t].old, thread[t].ptr)
  BY <1>1, DidRunDisposedEver
<1>5. object' = object
  BY <1>1, DidRunDisposedEver
<1>6. data' = data
  BY <1>1, DidRunDisposedEver
<1>7. weak' = weak
  BY <1>1, DidRunDisposedEver
<1>8. holds' = holds
  BY <1>1, DidRunDisposedEver
<1>9. thread[t].d \in Object
  BY <1>2, <1>3 DEF ThreadInv, Placed, UnrefPlaces, SetPlaces, GetPlaces
<1>10. /\ object' \in [Object -> ObjectType] /\ data' \in [Object -> DataType]
       /\ weak' \in [Weak -> WeakRecord]
  BY <1>2, <1>5, <1>6, <1>7 DEF Types
<1>11. Placed("clear", thread[t].d, "run", thread[t].frozen, thread[t].r, thread[t].new,
                 thread[t].old, thread[t].ptr)
  BY <1>2, <1>3, <1>9, RefsAssumption DEF ThreadInv, ThreadRecord, Placed, UnrefPlaces,
       SetPlaces, GetPlaces
<1>12. /\ thread[t].new # None => holds[t][thread[t].new] # 0 \/ thread[t].new = thread[t].d
       /\ "clear" \in GetPlaces => \A k \in Object : holds[t][k] <= MaxHolds
  BY <1>2, <1>3 DEF HoldsInv, ThreadInv, Placed, UnrefPlaces, SetPlaces, GetPlaces
<1>13. Base'
  BY <1>1, <1>4, <1>8, <1>10, <1>11, <1>12, BaseKept
<1>14. \A k \in Object : object'[k].lock = object[k].lock /\ (object[k].ever => object'[k].ever)
  BY <1>2, <1>5
<1>15. ObjectLocks'
  BY <1>1, <1>3, <1>4, <1>14, ObjectLocksKept
<1>16. \A k \in Object : data'[k].lock = data[k].lock
  BY <1>2, <1>6
<1>17. thread[t].at \notin DataLocked /\ "clear" \notin DataLocked
  BY <1>3 DEF DataLocked
<1>18. DataLocks'
  BY <1>1, <1>4, <1>16, <1>17, DataLocksKept
<1>19. thread[t].at \notin WeakLocked /\ "clear" \notin WeakLocked
  BY <1>3 DEF WeakLocked
<1>20. WeakLocks'
  BY <1>1, <1>4, <1>7, <1>19, WeakLocksKept
<1>21. /\ thread[t].old \in Object => object'[thread[t].old].ever
       /\ thread[t].new \in Object /\ "clear" # "create" => object'[thread[t].new].ever
  BY <1>1, <1>2, <1>3, <1>14, RefsAssumption DEF Lists, ThreadInv, Placed, UnrefPlaces,
       SetPlaces, GetPlaces
<1>22. /\ \A k \in Weak : weak'[k].ptr = weak[k].ptr
       /\ \A k \in Object : data'[k].list = data[k].list
  BY <1>2, <1>6, <1>7
<1>23. Lists'
  BY <1>1, <1>4, <1>14, <1>21, <1>22, ListsKept
<1>24. Locks'
  BY <1>15, <1>18, <1>20 DEF Locks
<1>25. /\ \A w \in Thread \ {t} : thread'[w] = thread[w]
       /\ thread'[t].at = "clear" /\ thread'[t].d = thread[t].d /\ thread'[t].mode = "run"
  BY <1>4 DEF Goes
<1>26. Types /\ \A x \in Object : LifeInv(x) /\ CountInv(x)
  BY <1>1, <1>2 DEF Life, LifeInv
<1>27. \A x \in Object : object'[x].freed = object[x].freed
  BY <1>2, <1>5
<1>28. \A x \in Object : object'[x].refs = object[x].refs
  BY <1>2, <1>5
<1>29. \A x \in Object, v \in Thread : holds'[v][x] = holds[v][x]
  BY <1>8
<1>30. \A x \in Object : object[x].ever => object'[x].ever
  BY <1>14
<1>31. \A x \in Object, k \in Weak : weak'[k].ptr = x => weak[k].ptr = x \/ object[x].refs # 0
  BY <1>22
<1>32. \A x \in Object \ {thread[t].d} : thread[t].d # x /\ thread'[t].d # x
  BY <1>25
<1>33. \A x \in Object \ {thread[t].d} : LifeInv(x)'
  BY <1>25, <1>26, <1>27, <1>28, <1>29, <1>30, <1>31, <1>32, LifeApart
<1>34. ASSUME NEW x \in Object, x = thread[t].d
       PROVE  LifeInv(x)'
  <2>1. Flies(t, x) /\ Flies(t, x)'
    BY <1>34, <1>3, <1>25 DEF Flies, Doomed
  <2>2. ~Sole(t, x)'
    BY <1>34, <1>3, <1>25 DEF Sole
  <2> QED
    BY <1>25, <1>26, <1>27, <1>28, <1>29, <1>30, <2>1, <2>2, LifeFlies
<1>35. Life'
  BY <1>33, <1>34 DEF Life
<1>36. /\ \A w \in Thread \ {t} : thread'[w] = thread[w]
       /\ thread'[t].d = thread[t].d /\ thread'[t].frozen = thread[t].frozen /\ thread'[t].old = thread[t].old
  BY <1>4 DEF Goes
<1>37. \A x \in Object : UsersInv(x) /\ FrozenInv(x)
  BY <1>1 DEF Rest, RestInv
<1>38. \A x \in Object : object'[x].ever = object[x].ever /\ object'[x].freed = object[x].freed
  BY <1>2, <1>5
<1>39. \A x \in Object : data'[x].refs = data[x].refs
  BY <1>2, <1>6
<1>40. \A x \in Object : thread'[t].old = x <=> thread[t].old = x
  BY <1>2, <1>3, <1>36, RefsAssumption DEF ThreadInv, Placed, UnrefPlaces, SetPlaces,
       GetPlaces
<1>41. \A x \in Object : UsersInv(x)'
  BY <1>36, <1>37, <1>38, <1>39, <1>40, UsersKept
<1>42. \A x \in Object : UsersInv(x)'
  BY <1>41
<1>43. \A x \in Object : object'[x].freed = object[x].freed /\ object'[x].frozen = object[x].frozen
  BY <1>2, <1>5
<1>44. \A x \in Object : Freezes(t, x)' <=> Freezes(t, x)
  BY <1>2, <1>3, <1>36, RefsAssumption DEF Freezes, ThreadInv, Placed, UnrefPlaces, SetPlaces,
       GetPlaces
<1>45. \A x \in Object : FrozenInv(x)'
  BY <1>36, <1>37, <1>43, <1>44, FrozenKept
<1>46. \A x \in Object : FrozenInv(x)'
  BY <1>45
<1>47. Rest'
  BY <1>42, <1>46 DEF Rest, RestInv
<1> QED
  BY <1>13, <1>24, <1>23, <1>35, <1>47 DEF IInv

LEMMA StepRunDisposedNever ==
  ASSUME IInv, NEW t \in Thread, RunDisposed(t), ~object[thread[t].d].ever
  PROVE  IInv'
<1>1. Base /\ ObjectLocks /\ DataLocks /\ WeakLocks /\ Lists /\ Life /\ Rest
  BY DEF IInv, Locks
<1>2. Types /\ ThreadInv(t) /\ HoldsInv(t) /\ thread[t] \in ThreadRecord /\ t # None
  BY <1>1, RefsAssumption DEF Base, Types
<1>3. thread[t].at = "run"
  BY <1>1, DidRunDisposedNever
<1>4. Goes(t, "unref", thread[t].d, "run", thread[t].frozen, thread[t].r, thread[t].new,
                thread[t].old, thread[t].ptr)
  BY <1>1, DidRunDisposedNever
<1>5. object' = object
  BY <1>1, DidRunDisposedNever
<1>6. data' = data
  BY <1>1, DidRunDisposedNever
<1>7. weak' = weak
  BY <1>1, DidRunDisposedNever
<1>8. holds' = holds
  BY <1>1, DidRunDisposedNever
<1>9. thread[t].d \in Object
  BY <1>2, <1>3 DEF ThreadInv, Placed, UnrefPlaces, SetPlaces, GetPlaces
<1>10. /\ object' \in [Object -> ObjectType] /\ data' \in [Object -> DataType]
       /\ weak' \in [Weak -> WeakRecord]
  BY <1>2, <1>5, <1>6, <1>7 DEF Types
<1>11. Placed("unref", thread[t].d, "run", thread[t].frozen, thread[t].r, thread[t].new,
                 thread[t].old, thread[t].ptr)
  BY <1>2, <1>3, <1>9, RefsAssumption DEF ThreadInv, ThreadRecord, Placed, UnrefPlaces,
       SetPlaces, GetPlaces
<1>12. /\ thread[t].new # None => holds[t][thread[t].new] # 0 \/ thread[t].new = thread[t].d
       /\ "unref" \in GetPlaces => \A k \in Object : holds[t][k] <= MaxHolds
  BY <1>2, <1>3 DEF HoldsInv, ThreadInv, Placed, UnrefPlaces, SetPlaces, GetPlaces
<1>13. Base'
  BY <1>1, <1>4, <1>8, <1>10, <1>11, <1>12, BaseKept
<1>14. \A k \in Object : object'[k].lock = object[k].lock /\ (object[k].ever => object'[k].ever)
  BY <1>2, <1>5
<1>15. ObjectLocks'
  BY <1>1, <1>3, <1>4, <1>14, ObjectLocksKept
<1>16. \A k \in Object : data'[k].lock = data[k].lock
  BY <1>2, <1>6
<1>17. thread[t].at \notin DataLocked /\ "unref" \notin DataLocked
  BY <1>3 DEF DataLocked
<1>18. DataLocks'
  BY <1>1, <1>4, <1>16, <1>17, DataLocksKept
<1>19. thread[t].at \notin WeakLocked /\ "unref" \notin WeakLocked
  BY <1>3 DEF WeakLocked
<1>20. WeakLocks'
  BY <1>1, <1>4, <1>7, <1>19, WeakLocksKept
<1>21. /\ thread[t].old \in Object => object'[thread[t].old].ever
       /\ thread[t].new \in Object /\ "unref" # "create" => object'[thread[t].new].ever
  BY <1>1, <1>2, <1>3, <1>14, RefsAssumption DEF Lists, ThreadInv, Placed, UnrefPlaces,
       SetPlaces, GetPlaces
<1>22. /\ \A k \in Weak : weak'[k].ptr = weak[k].ptr
       /\ \A k \in Object : data'[k].list = data[k].list
  BY <1>2, <1>6, <1>7
<1>23. Lists'
  BY <1>1, <1>4, <1>14, <1>21, <1>22, ListsKept
<1>24. Locks'
  BY <1>15, <1>18, <1>20 DEF Locks
<1>25. /\ \A w \in Thread \ {t} : thread'[w] = thread[w]
       /\ thread'[t].at = "unref" /\ thread'[t].d = thread[t].d /\ thread'[t].mode = "run"
  BY <1>4 DEF Goes
<1>26. Types /\ \A x \in Object : LifeInv(x) /\ CountInv(x)
  BY <1>1, <1>2 DEF Life, LifeInv
<1>27. \A x \in Object : object'[x].freed = object[x].freed
  BY <1>2, <1>5
<1>28. \A x \in Object : object'[x].refs = object[x].refs
  BY <1>2, <1>5
<1>29. \A x \in Object, v \in Thread : holds'[v][x] = holds[v][x]
  BY <1>8
<1>30. \A x \in Object : object[x].ever => object'[x].ever
  BY <1>14
<1>31. \A x \in Object, k \in Weak : weak'[k].ptr = x => weak[k].ptr = x \/ object[x].refs # 0
  BY <1>22
<1>32. \A x \in Object \ {thread[t].d} : thread[t].d # x /\ thread'[t].d # x
  BY <1>25
<1>33. \A x \in Object \ {thread[t].d} : LifeInv(x)'
  BY <1>25, <1>26, <1>27, <1>28, <1>29, <1>30, <1>31, <1>32, LifeApart
<1>34. ASSUME NEW x \in Object, x = thread[t].d
       PROVE  LifeInv(x)'
  <2>1. Flies(t, x) /\ Flies(t, x)'
    BY <1>34, <1>3, <1>25 DEF Flies, Doomed
  <2>2. ~Sole(t, x)'
    BY <1>34, <1>3, <1>25 DEF Sole
  <2> QED
    BY <1>25, <1>26, <1>27, <1>28, <1>29, <1>30, <2>1, <2>2, LifeFlies
<1>35. Life'
  BY <1>33, <1>34 DEF Life
<1>36. /\ \A w \in Thread \ {t} : thread'[w] = thread[w]
       /\ thread'[t].d = thread[t].d /\ thread'[t].frozen = thread[t].frozen /\ thread'[t].old = thread[t].old
  BY <1>4 DEF Goes
<1>37. \A x \in Object : UsersInv(x) /\ FrozenInv(x)
  BY <1>1 DEF Rest, RestInv
<1>38. \A x \in Object : object'[x].ever = object[x].ever /\ object'[x].freed = object[x].freed
  BY <1>2, <1>5
<1>39. \A x \in Object : data'[x].refs = data[x].refs
  BY <1>2, <1>6
<1>40. \A x \in Object : thread'[t].old = x <=> thread[t].old = x
  BY <1>2, <1>3, <1>36, RefsAssumption DEF ThreadInv, Placed, UnrefPlaces, SetPlaces,
       GetPlaces
<1>41. \A x \in Object : UsersInv(x)'
  BY <1>36, <1>37, <1>38, <1>39, <1>40, UsersKept
<1>42. \A x \in Object : UsersInv(x)'
  BY <1>41
<1>43. \A x \in Object : object'[x].freed = object[x].freed /\ object'[x].frozen = object[x].frozen
  BY <1>2, <1>5
<1>44. \A x \in Object : Freezes(t, x)' <=> Freezes(t, x)
  BY <1>2, <1>3, <1>36, RefsAssumption DEF Freezes, ThreadInv, Placed, UnrefPlaces, SetPlaces,
       GetPlaces
<1>45. \A x \in Object : FrozenInv(x)'
  BY <1>36, <1>37, <1>43, <1>44, FrozenKept
<1>46. \A x \in Object : FrozenInv(x)'
  BY <1>45
<1>47. Rest'
  BY <1>42, <1>46 DEF Rest, RestInv
<1> QED
  BY <1>13, <1>24, <1>23, <1>35, <1>47 DEF IInv

LEMMA StepWeakRefSetNone ==
  ASSUME IInv, NEW t \in Thread, NEW r \in Weak, WeakRefSet(t, r, None)
  PROVE  IInv'
<1>1. Base /\ ObjectLocks /\ DataLocks /\ WeakLocks /\ Lists /\ Life /\ Rest
  BY DEF IInv, Locks
<1>2. Types /\ ThreadInv(t) /\ HoldsInv(t) /\ thread[t] \in ThreadRecord /\ t # None
  BY <1>1, RefsAssumption DEF Base, Types
<1>3. (thread[t].at = "idle" \/ thread[t].at = "dispose")
  BY <1>1, DidWeakRefSetNone
<1>4. Goes(t, "read", thread[t].d, thread[t].mode, thread[t].frozen, r, None, thread[t].old,
                thread[t].ptr)
  BY <1>1, DidWeakRefSetNone
<1>5. object' = object
  BY <1>1, DidWeakRefSetNone
<1>6. data' = data
  BY <1>1, DidWeakRefSetNone
<1>7. weak' = weak
  BY <1>1, DidWeakRefSetNone
<1>8. holds' = holds
  BY <1>1, DidWeakRefSetNone
<1>9. /\ object' \in [Object -> ObjectType] /\ data' \in [Object -> DataType]
      /\ weak' \in [Weak -> WeakRecord]
  BY <1>2, <1>5, <1>6, <1>7 DEF Types
<1>10. Placed("read", thread[t].d, thread[t].mode, thread[t].frozen, r, None, thread[t].old,
                 thread[t].ptr)
  BY <1>2, <1>3, RefsAssumption DEF ThreadInv, ThreadRecord, Placed, UnrefPlaces, SetPlaces,
       GetPlaces
<1>11. /\ None # None => holds[t][None] # 0 \/ None = thread[t].d
       /\ "read" \in GetPlaces => \A k \in Object : holds[t][k] <= MaxHolds
  BY <1>2, <1>3 DEF HoldsInv, ThreadInv, Placed, UnrefPlaces, SetPlaces, GetPlaces
<1>12. Base'
  BY <1>1, <1>4, <1>8, <1>9, <1>10, <1>11, BaseKept
<1>13. \A k \in Object : object'[k].lock = object[k].lock /\ (object[k].ever => object'[k].ever)
  BY <1>2, <1>5
<1>14. ObjectLocks'
  BY <1>1, <1>3, <1>4, <1>13, ObjectLocksKept
<1>15. \A k \in Object : data'[k].lock = data[k].lock
  BY <1>2, <1>6
<1>16. thread[t].at \notin DataLocked /\ "read" \notin DataLocked
  BY <1>3 DEF DataLocked
<1>17. DataLocks'
  BY <1>1, <1>4, <1>15, <1>16, DataLocksKept
<1>18. thread[t].at \notin WeakLocked /\ "read" \notin WeakLocked
  BY <1>3 DEF WeakLocked
<1>19. WeakLocks'
  BY <1>1, <1>4, <1>7, <1>18, WeakLocksKept
<1>20. /\ thread[t].old \in Object => object'[thread[t].old].ever
       /\ None \in Object /\ "read" # "create" => object'[None].ever
  BY <1>1, <1>2, <1>3, <1>13, RefsAssumption DEF Lists, ThreadInv, Placed, UnrefPlaces,
       SetPlaces, GetPlaces
<1>21. /\ \A k \in Weak : weak'[k].ptr = weak[k].ptr
       /\ \A k \in Object : data'[k].list = data[k].list
  BY <1>2, <1>6, <1>7
<1>22. Lists'
  BY <1>1, <1>4, <1>13, <1>20, <1>21, ListsKept
<1>23. Locks'
  BY <1>14, <1>17, <1>19 DEF Locks
<1>24. /\ \A w \in Thread \ {t} : thread'[w] = thread[w]
       /\ thread'[t].at = "read" /\ thread'[t].d = thread[t].d /\ thread'[t].mode = thread[t].mode
  BY <1>4 DEF Goes
<1>25. Types /\ \A x \in Object : LifeInv(x) /\ CountInv(x)
  BY <1>1, <1>2 DEF Life, LifeInv
<1>26. \A x \in Object : object'[x].freed = object[x].freed
  BY <1>2, <1>5
<1>27. \A x \in Object : object'[x].refs = object[x].refs
  BY <1>2, <1>5
<1>28. \A x \in Object, v \in Thread : holds'[v][x] = holds[v][x]
  BY <1>8
<1>29. \A x \in Object : object[x].ever => object'[x].ever
  BY <1>13
<1>30. \A x \in Object, k \in Weak : weak'[k].ptr = x => weak[k].ptr = x \/ object[x].refs # 0
  BY <1>21
<1>31. \A x \in Object \ {thread[t].d} : thread[t].d # x /\ thread'[t].d # x
  BY <1>24
<1>32. \A x \in Object \ {thread[t].d} : LifeInv(x)'
  BY <1>24, <1>25, <1>26, <1>27, <1>28, <1>29, <1>30, <1>31, LifeApart
<1>33. ASSUME NEW x \in Object, x = thread[t].d
       PROVE  LifeInv(x)'
  <2>1. Flies(t, x) /\ Flies(t, x)'
    BY <1>33, <1>3, <1>24 DEF Flies, Doomed
  <2>2. ~Sole(t, x)'
    BY <1>33, <1>3, <1>24 DEF Sole
  <2> QED
    BY <1>24, <1>25, <1>26, <1>27, <1>28, <1>29, <2>1, <2>2, LifeFlies
<1>34. Life'
  BY <1>32, <1>33 DEF Life
<1>35. /\ \A w \in Thread \ {t} : thread'[w] = thread[w]
       /\ thread'[t].d = thread[t].d /\ thread'[t].frozen = thread[t].frozen /\ thread'[t].old = thread[t].old
  BY <1>4 DEF Goes
<1>36. \A x \in Object : UsersInv(x) /\ FrozenInv(x)
  BY <1>1 DEF Rest, RestInv
<1>37. \A x \in Object : object'[x].ever = object[x].ever /\ object'[x].freed = object[x].freed
  BY <1>2, <1>5
<1>38. \A x \in Object : data'[x].refs = data[x].refs
  BY <1>2, <1>6
<1>39. \A x \in Object : thread'[t].old = x <=> thread[t].old = x
  BY <1>2, <1>3, <1>35, RefsAssumption DEF ThreadInv, Placed, UnrefPlaces, SetPlaces,
       GetPlaces
<1>40. \A x \in Object : UsersInv(x)'
  BY <1>35, <1>36, <1>37, <1>38, <1>39, UsersKept
<1>41. \A x \in Object : UsersInv(x)'
  BY <1>40
<1>42. \A x \in Object : object'[x].freed = object[x].freed /\ object'[x].frozen = object[x].frozen
  BY <1>2, <1>5
<1>43. \A x \in Object : Freezes(t, x)' <=> Freezes(t, x)
  BY <1>2, <1>3, <1>35, RefsAssumption DEF Freezes, ThreadInv, Placed, UnrefPlaces, SetPlaces,
       GetPlaces
<1>44. \A x \in Object : FrozenInv(x)'
  BY <1>35, <1>36, <1>42, <1>43, FrozenKept
<1>45. \A x \in Object : FrozenInv(x)'
  BY <1>44
<1>46. Rest'
  BY <1>41, <1>45 DEF Rest, RestInv
<1> QED
  BY <1>12, <1>23, <1>22, <1>34, <1>46 DEF IInv

LEMMA StepWeakRefSetObject ==
  ASSUME IInv, NEW t \in Thread, NEW r \in Weak, NEW n \in Object, WeakRefSet(t, r, n)
  PROVE  IInv'
<1>1. Base /\ ObjectLocks /\ DataLocks /\ WeakLocks /\ Lists /\ Life /\ Rest
  BY DEF IInv, Locks
<1>2. Types /\ ThreadInv(t) /\ HoldsInv(t) /\ thread[t] \in ThreadRecord /\ t # None
  BY <1>1, RefsAssumption DEF Base, Types
<1>3. /\ (thread[t].at = "idle" \/ thread[t].at = "dispose")
      /\ (holds[t][n] # 0 \/ n = thread[t].d)
  BY <1>1, DidWeakRefSetObject
<1>4. Goes(t, "create", thread[t].d, thread[t].mode, thread[t].frozen, r, n, thread[t].old,
                thread[t].ptr)
  BY <1>1, DidWeakRefSetObject
<1>5. object' = object
  BY <1>1, DidWeakRefSetObject
<1>6. data' = data
  BY <1>1, DidWeakRefSetObject
<1>7. weak' = weak
  BY <1>1, DidWeakRefSetObject
<1>8. holds' = holds
  BY <1>1, DidWeakRefSetObject
<1>9. /\ object' \in [Object -> ObjectType] /\ data' \in [Object -> DataType]
      /\ weak' \in [Weak -> WeakRecord]
  BY <1>2, <1>5, <1>6, <1>7 DEF Types
<1>10. Placed("create", thread[t].d, thread[t].mode, thread[t].frozen, r, n, thread[t].old,
                 thread[t].ptr)
  BY <1>2, <1>3, RefsAssumption DEF ThreadInv, ThreadRecord, Placed, UnrefPlaces, SetPlaces,
       GetPlaces
<1>11. /\ n # None => holds[t][n] # 0 \/ n = thread[t].d
       /\ "create" \in GetPlaces => \A k \in Object : holds[t][k] <= MaxHolds
  BY <1>2, <1>3 DEF HoldsInv, ThreadInv, Placed, UnrefPlaces, SetPlaces, GetPlaces
<1>12. Base'
  BY <1>1, <1>4, <1>8, <1>9, <1>10, <1>11, BaseKept
<1>13. \A k \in Object : object'[k].lock = object[k].lock /\ (object[k].ever => object'[k].ever)
  BY <1>2, <1>5
<1>14. ObjectLocks'
  BY <1>1, <1>3, <1>4, <1>13, ObjectLocksKept
<1>15. \A k \in Object : data'[k].lock = data[k].lock
  BY <1>2, <1>6
<1>16. thread[t].at \notin DataLocked /\ "create" \notin DataLocked
  BY <1>3 DEF DataLocked
<1>17. DataLocks'
  BY <1>1, <1>4, <1>15, <1>16, DataLocksKept
<1>18. thread[t].at \notin WeakLocked /\ "create" \notin WeakLocked
  BY <1>3 DEF WeakLocked
<1>19. WeakLocks'
  BY <1>1, <1>4, <1>7, <1>18, WeakLocksKept
<1>20. /\ thread[t].old \in Object => object'[thread[t].old].ever
       /\ n \in Object /\ "create" # "create" => object'[n].ever
  BY <1>1, <1>2, <1>3, <1>13, RefsAssumption DEF Lists, ThreadInv, Placed, UnrefPlaces,
       SetPlaces, GetPlaces
<1>21. /\ \A k \in Weak : weak'[k].ptr = weak[k].ptr
       /\ \A k \in Object : data'[k].list = data[k].list
  BY <1>2, <1>6, <1>7
<1>22. Lists'
  BY <1>1, <1>4, <1>13, <1>20, <1>21, ListsKept
<1>23. Locks'
  BY <1>14, <1>17, <1>19 DEF Locks
<1>24. /\ \A w \in Thread \ {t} : thread'[w] = thread[w]
       /\ thread'[t].at = "create" /\ thread'[t].d = thread[t].d /\ thread'[t].mode = thread[t].mode
  BY <1>4 DEF Goes
<1>25. Types /\ \A x \in Object : LifeInv(x) /\ CountInv(x)
  BY <1>1, <1>2 DEF Life, LifeInv
<1>26. \A x \in Object : object'[x].freed = object[x].freed
  BY <1>2, <1>5
<1>27. \A x \in Object : object'[x].refs = object[x].refs
  BY <1>2, <1>5
<1>28. \A x \in Object, v \in Thread : holds'[v][x] = holds[v][x]
  BY <1>8
<1>29. \A x \in Object : object[x].ever => object'[x].ever
  BY <1>13
<1>30. \A x \in Object, k \in Weak : weak'[k].ptr = x => weak[k].ptr = x \/ object[x].refs # 0
  BY <1>21
<1>31. \A x \in Object \ {thread[t].d} : thread[t].d # x /\ thread'[t].d # x
  BY <1>24
<1>32. \A x \in Object \ {thread[t].d} : LifeInv(x)'
  BY <1>24, <1>25, <1>26, <1>27, <1>28, <1>29, <1>30, <1>31, LifeApart
<1>33. ASSUME NEW x \in Object, x = thread[t].d
       PROVE  LifeInv(x)'
  <2>1. Flies(t, x) /\ Flies(t, x)'
    BY <1>33, <1>3, <1>24 DEF Flies, Doomed
  <2>2. ~Sole(t, x)'
    BY <1>33, <1>3, <1>24 DEF Sole
  <2> QED
    BY <1>24, <1>25, <1>26, <1>27, <1>28, <1>29, <2>1, <2>2, LifeFlies
<1>34. Life'
  BY <1>32, <1>33 DEF Life
<1>35. /\ \A w \in Thread \ {t} : thread'[w] = thread[w]
       /\ thread'[t].d = thread[t].d /\ thread'[t].frozen = thread[t].frozen /\ thread'[t].old = thread[t].old
  BY <1>4 DEF Goes
<1>36. \A x \in Object : UsersInv(x) /\ FrozenInv(x)
  BY <1>1 DEF Rest, RestInv
<1>37. \A x \in Object : object'[x].ever = object[x].ever /\ object'[x].freed = object[x].freed
  BY <1>2, <1>5
<1>38. \A x \in Object : data'[x].refs = data[x].refs
  BY <1>2, <1>6
<1>39. \A x \in Object : thread'[t].old = x <=> thread[t].old = x
  BY <1>2, <1>3, <1>35, RefsAssumption DEF ThreadInv, Placed, UnrefPlaces, SetPlaces,
       GetPlaces
<1>40. \A x \in Object : UsersInv(x)'
  BY <1>35, <1>36, <1>37, <1>38, <1>39, UsersKept
<1>41. \A x \in Object : UsersInv(x)'
  BY <1>40
<1>42. \A x \in Object : object'[x].freed = object[x].freed /\ object'[x].frozen = object[x].frozen
  BY <1>2, <1>5
<1>43. \A x \in Object : Freezes(t, x)' <=> Freezes(t, x)
  BY <1>2, <1>3, <1>35, RefsAssumption DEF Freezes, ThreadInv, Placed, UnrefPlaces, SetPlaces,
       GetPlaces
<1>44. \A x \in Object : FrozenInv(x)'
  BY <1>35, <1>36, <1>42, <1>43, FrozenKept
<1>45. \A x \in Object : FrozenInv(x)'
  BY <1>44
<1>46. Rest'
  BY <1>41, <1>45 DEF Rest, RestInv
<1> QED
  BY <1>12, <1>23, <1>22, <1>34, <1>46 DEF IInv

LEMMA StepCreate ==
  ASSUME IInv, NEW t \in Thread, Create(t)
  PROVE  IInv'
<1>1. Base /\ ObjectLocks /\ DataLocks /\ WeakLocks /\ Lists /\ Life /\ Rest
  BY DEF IInv, Locks
<1>2. Types /\ ThreadInv(t) /\ HoldsInv(t) /\ thread[t] \in ThreadRecord /\ t # None
  BY <1>1, RefsAssumption DEF Base, Types
<1>3. thread[t].at = "create"
  BY <1>1, DidCreate
<1>4. Goes(t, "read", thread[t].d, thread[t].mode, thread[t].frozen, thread[t].r,
                thread[t].new, thread[t].old, thread[t].ptr)
  BY <1>1, DidCreate
<1>5. SetsObject(thread[t].new, object[thread[t].new].refs, object[thread[t].new].freed, TRUE,
                object[thread[t].new].frozen, object[thread[t].new].lock)
  BY <1>1, DidCreate
<1>6. SetsData(thread[t].new, (IF object[thread[t].new].ever THEN data[thread[t].new].refs ELSE 1), data[thread[t].new].lock, data[thread[t].new].list)
  BY <1>1, DidCreate
<1>7. weak' = weak
  BY <1>1, DidCreate
<1>8. holds' = holds
  BY <1>1, DidCreate
<1>9. thread[t].new \in Object /\ thread[t].r \in Weak
  BY <1>2, <1>3 DEF ThreadInv, Placed, UnrefPlaces, SetPlaces, GetPlaces
<1>10. /\ object' \in [Object -> ObjectType] /\ data' \in [Object -> DataType]
       /\ weak' \in [Weak -> WeakRecord]
  BY <1>2, <1>5, <1>6, <1>7 DEF Types, SetsObject, SetsData
<1>11. Placed("read", thread[t].d, thread[t].mode, thread[t].frozen, thread[t].r,
                 thread[t].new, thread[t].old, thread[t].ptr)
  BY <1>2, <1>3, <1>9, RefsAssumption DEF ThreadInv, ThreadRecord, Placed, UnrefPlaces,
       SetPlaces, GetPlaces
<1>12. /\ thread[t].new # None => holds[t][thread[t].new] # 0 \/ thread[t].new = thread[t].d
       /\ "read" \in GetPlaces => \A k \in Object : holds[t][k] <= MaxHolds
  BY <1>2, <1>3 DEF HoldsInv, ThreadInv, Placed, UnrefPlaces, SetPlaces, GetPlaces
<1>13. Base'
  BY <1>1, <1>4, <1>8, <1>10, <1>11, <1>12, BaseKept
<1>14. \A k \in Object : object'[k].lock = object[k].lock /\ (object[k].ever => object'[k].ever)
  BY <1>2, <1>5 DEF SetsObject, Types
<1>15. ObjectLocks'
  BY <1>1, <1>3, <1>4, <1>14, ObjectLocksKept
<1>16. \A k \in Object : data'[k].lock = data[k].lock
  BY <1>2, <1>6 DEF SetsData, Types
<1>17. thread[t].at \notin DataLocked /\ "read" \notin DataLocked
  BY <1>3 DEF DataLocked
<1>18. DataLocks'
  BY <1>1, <1>4, <1>16, <1>17, DataLocksKept
<1>19. thread[t].at \notin WeakLocked /\ "read" \notin WeakLocked
  BY <1>3 DEF WeakLocked
<1>20. WeakLocks'
  BY <1>1, <1>4, <1>7, <1>19, WeakLocksKept
<1>21. /\ thread[t].old \in Object => object'[thread[t].old].ever
       /\ thread[t].new \in Object /\ "read" # "create" => object'[thread[t].new].ever
  BY <1>1, <1>2, <1>3, <1>9, <1>5, <1>14, RefsAssumption DEF Lists, SetsObject, ThreadInv,
       Placed
<1>22. /\ \A k \in Weak : weak'[k].ptr = weak[k].ptr
       /\ \A k \in Object : data'[k].list = data[k].list
  BY <1>2, <1>6, <1>7 DEF SetsData
<1>23. Lists'
  BY <1>1, <1>4, <1>14, <1>21, <1>22, ListsKept
<1>24. Locks'
  BY <1>15, <1>18, <1>20 DEF Locks
<1>25. /\ \A w \in Thread \ {t} : thread'[w] = thread[w]
       /\ thread'[t].at = "read" /\ thread'[t].d = thread[t].d /\ thread'[t].mode = thread[t].mode
  BY <1>4 DEF Goes
<1>26. Types /\ \A x \in Object : LifeInv(x) /\ CountInv(x)
  BY <1>1, <1>2 DEF Life, LifeInv
<1>27. \A x \in Object : object'[x].freed = object[x].freed
  BY <1>2, <1>5 DEF SetsObject
<1>28. \A x \in Object : object'[x].refs = object[x].refs
  BY <1>2, <1>5 DEF SetsObject
<1>29. \A x \in Object, v \in Thread : holds'[v][x] = holds[v][x]
  BY <1>8
<1>30. \A x \in Object : object[x].ever => object'[x].ever
  BY <1>14
<1>31. \A x \in Object, k \in Weak : weak'[k].ptr = x => weak[k].ptr = x \/ object[x].refs # 0
  BY <1>22
<1>32. \A x \in Object \ {thread[t].d} : thread[t].d # x /\ thread'[t].d # x
  BY <1>25
<1>33. \A x \in Object \ {thread[t].d} : LifeInv(x)'
  BY <1>25, <1>26, <1>27, <1>28, <1>29, <1>30, <1>31, <1>32, LifeApart
<1>34. ASSUME NEW x \in Object, x = thread[t].d
       PROVE  LifeInv(x)'
  <2>1. Flies(t, x) /\ Flies(t, x)'
    BY <1>34, <1>3, <1>25 DEF Flies, Doomed
  <2>2. ~Sole(t, x)'
    BY <1>34, <1>3, <1>25 DEF Sole
  <2> QED
    BY <1>25, <1>26, <1>27, <1>28, <1>29, <1>30, <2>1, <2>2, LifeFlies
<1>35. Life'
  BY <1>33, <1>34 DEF Life
<1>36. /\ \A w \in Thread \ {t} : thread'[w] = thread[w]
       /\ thread'[t].d = thread[t].d /\ thread'[t].frozen = thread[t].frozen /\ thread'[t].old = thread[t].old
  BY <1>4 DEF Goes
<1>37. \A x \in Object : UsersInv(x) /\ FrozenInv(x)
  BY <1>1 DEF Rest, RestInv
<1>38. \A x \in Object \ {thread[t].new} : object'[x].ever = object[x].ever /\ object'[x].freed = object[x].freed
  BY <1>2, <1>5 DEF SetsObject
<1>39. \A x \in Object \ {thread[t].new} : data'[x].refs = data[x].refs
  BY <1>2, <1>6 DEF SetsData
<1>40. \A x \in Object : thread'[t].old = x <=> thread[t].old = x
  BY <1>2, <1>3, <1>36, RefsAssumption DEF ThreadInv, Placed, UnrefPlaces, SetPlaces,
       GetPlaces
<1>41. \A x \in Object \ {thread[t].new} : UsersInv(x)'
  BY <1>36, <1>37, <1>38, <1>39, <1>40, UsersKept
<1>42. ASSUME NEW x \in Object, x = thread[t].new
       PROVE  UsersInv(x)'
  <2>1. object'[x].ever = TRUE /\ object'[x].freed = object[x].freed
    BY <1>42, <1>5 DEF SetsObject
  <2>2. data'[x].refs = IF object[x].ever THEN data[x].refs ELSE 1
    BY <1>42, <1>6 DEF SetsData
  <2>3. CASE object[x].ever
    <3>1. object'[x].ever = object[x].ever /\ data'[x].refs = data[x].refs
      BY <1>2, <2>1, <2>2, <2>3 DEF Types, ObjectType
    <3> QED
      BY <1>36, <1>37, <1>40, <2>1, <3>1, UsersKept
  <2>4. CASE ~object[x].ever
    <3>1. object[x].refs # 0
      <4>1. CASE holds[t][x] # 0
        BY <1>26, <4>1, HolderCounts
      <4>2. CASE x = thread[t].d
        <5>1. Flies(t, x)
          BY <1>3, <4>2 DEF Flies, Doomed
        <5> QED
          BY <1>26, <5>1, FlierCounts
      <4> QED
        BY <1>42, <1>2, <4>1, <4>2, RefsAssumption DEF HoldsInv
    <3>2. ~object[x].freed
      BY <1>26, <3>1 DEF LifeInv, EndInv
    <3>3. Users(x) = {}
      BY <1>1, <2>4 DEF Users, Lists
    <3>4. Users(x)' = Users(x)
      BY <1>36, <1>40, UsersSame
    <3>5. Cardinality(Users(x)') = 0
      BY <3>3, <3>4, FS_EmptySet
    <3>6. Bit((object[x].ever /\ ~object[x].freed)') = 1
      BY <2>1, <3>2 DEF Bit
    <3> QED
      BY <2>2, <2>4, <3>5, <3>6 DEF UsersInv
  <2> QED
    BY <2>3, <2>4
<1>43. \A x \in Object : UsersInv(x)'
  BY <1>41, <1>42
<1>44. \A x \in Object : object'[x].freed = object[x].freed /\ object'[x].frozen = object[x].frozen
  BY <1>2, <1>5 DEF SetsObject
<1>45. \A x \in Object : Freezes(t, x)' <=> Freezes(t, x)
  BY <1>2, <1>3, <1>36, RefsAssumption DEF Freezes, ThreadInv, Placed, UnrefPlaces, SetPlaces,
       GetPlaces
<1>46. \A x \in Object : FrozenInv(x)'
  BY <1>36, <1>37, <1>44, <1>45, FrozenKept
<1>47. \A x \in Object : FrozenInv(x)'
  BY <1>46
<1>48. Rest'
  BY <1>43, <1>47 DEF Rest, RestInv
<1> QED
  BY <1>13, <1>24, <1>23, <1>35, <1>48 DEF IInv

LEMMA StepReadSameIdle ==
  ASSUME IInv, NEW t \in Thread, Read(t), weak[thread[t].r].ptr = thread[t].new, thread[t].d =
         None
  PROVE  IInv'
<1>1. Base /\ ObjectLocks /\ DataLocks /\ WeakLocks /\ Lists /\ Life /\ Rest
  BY DEF IInv, Locks
<1>2. Types /\ ThreadInv(t) /\ HoldsInv(t) /\ thread[t] \in ThreadRecord /\ t # None
  BY <1>1, RefsAssumption DEF Base, Types
<1>3. thread[t].at = "read"
  BY <1>1, DidReadSameIdle
<1>4. Goes(t, "idle", None, "check", FALSE, None, None, None, None)
  BY <1>1, DidReadSameIdle
<1>5. object' = object
  BY <1>1, DidReadSameIdle
<1>6. data' = data
  BY <1>1, DidReadSameIdle
<1>7. weak' = weak
  BY <1>1, DidReadSameIdle
<1>8. holds' = holds
  BY <1>1, DidReadSameIdle
<1>9. thread[t].r \in Weak
  BY <1>2, <1>3 DEF ThreadInv, Placed, UnrefPlaces, SetPlaces, GetPlaces
<1>10. /\ object' \in [Object -> ObjectType] /\ data' \in [Object -> DataType]
       /\ weak' \in [Weak -> WeakRecord]
  BY <1>2, <1>5, <1>6, <1>7 DEF Types
<1>11. Placed("idle", None, "check", FALSE, None, None, None, None)
  BY <1>2, <1>3, <1>9, RefsAssumption DEF ThreadInv, ThreadRecord, Placed, UnrefPlaces,
       SetPlaces, GetPlaces
<1>12. /\ None # None => holds[t][None] # 0 \/ None = None
       /\ "idle" \in GetPlaces => \A k \in Object : holds[t][k] <= MaxHolds
  BY <1>2, <1>3 DEF HoldsInv, ThreadInv, Placed, UnrefPlaces, SetPlaces, GetPlaces
<1>13. Base'
  BY <1>1, <1>4, <1>8, <1>10, <1>11, <1>12, BaseKept
<1>14. \A k \in Object : object'[k].lock = object[k].lock /\ (object[k].ever => object'[k].ever)
  BY <1>2, <1>5
<1>15. ObjectLocks'
  BY <1>1, <1>3, <1>4, <1>14, ObjectLocksKept
<1>16. \A k \in Object : data'[k].lock = data[k].lock
  BY <1>2, <1>6
<1>17. thread[t].at \notin DataLocked /\ "idle" \notin DataLocked
  BY <1>3 DEF DataLocked
<1>18. DataLocks'
  BY <1>1, <1>4, <1>16, <1>17, DataLocksKept
<1>19. thread[t].at \notin WeakLocked /\ "idle" \notin WeakLocked
  BY <1>3 DEF WeakLocked
<1>20. WeakLocks'
  BY <1>1, <1>4, <1>7, <1>19, WeakLocksKept
<1>21. /\ None \in Object => object'[None].ever
       /\ None \in Object /\ "idle" # "create" => object'[None].ever
  BY <1>1, <1>2, <1>3, <1>14, RefsAssumption DEF Lists, ThreadInv, Placed, UnrefPlaces,
       SetPlaces, GetPlaces
<1>22. /\ \A k \in Weak : weak'[k].ptr = weak[k].ptr
       /\ \A k \in Object : data'[k].list = data[k].list
  BY <1>2, <1>6, <1>7
<1>23. Lists'
  BY <1>1, <1>4, <1>14, <1>21, <1>22, ListsKept
<1>24. Locks'
  BY <1>15, <1>18, <1>20 DEF Locks
<1>25. /\ \A w \in Thread \ {t} : thread'[w] = thread[w]
       /\ thread'[t].at = "idle" /\ thread'[t].d = None /\ thread'[t].mode = "check"
  BY <1>4 DEF Goes
<1>26. Types /\ \A x \in Object : LifeInv(x) /\ CountInv(x)
  BY <1>1, <1>2 DEF Life, LifeInv
<1>27. \A x \in Object : object'[x].freed = object[x].freed
  BY <1>2, <1>5
<1>28. \A x \in Object : object'[x].refs = object[x].refs
  BY <1>2, <1>5
<1>29. \A x \in Object, v \in Thread : holds'[v][x] = holds[v][x]
  BY <1>8
<1>30. \A x \in Object : object[x].ever => object'[x].ever
  BY <1>14
<1>31. \A x \in Object, k \in Weak : weak'[k].ptr = x => weak[k].ptr = x \/ object[x].refs # 0
  BY <1>22
<1>32. thread[t].d = None /\ thread'[t].d = None
  BY <1>2, <1>3, <1>25 DEF ThreadInv, Placed, UnrefPlaces, SetPlaces, GetPlaces
<1>33. \A x \in Object : thread[t].d # x /\ thread'[t].d # x
  BY <1>32, RefsAssumption
<1>34. Life'
  BY <1>25, <1>26, <1>27, <1>28, <1>29, <1>30, <1>31, <1>33, LifeApart DEF Life
<1>35. /\ \A w \in Thread \ {t} : thread'[w] = thread[w]
       /\ thread'[t].d = None /\ thread'[t].frozen = FALSE /\ thread'[t].old = None
  BY <1>4 DEF Goes
<1>36. \A x \in Object : UsersInv(x) /\ FrozenInv(x)
  BY <1>1 DEF Rest, RestInv
<1>37. \A x \in Object : object'[x].ever = object[x].ever /\ object'[x].freed = object[x].freed
  BY <1>2, <1>5
<1>38. \A x \in Object : data'[x].refs = data[x].refs
  BY <1>2, <1>6
<1>39. \A x \in Object : thread'[t].old = x <=> thread[t].old = x
  BY <1>2, <1>3, <1>35, RefsAssumption DEF ThreadInv, Placed, UnrefPlaces, SetPlaces,
       GetPlaces
<1>40. \A x \in Object : UsersInv(x)'
  BY <1>35, <1>36, <1>37, <1>38, <1>39, UsersKept
<1>41. \A x \in Object : UsersInv(x)'
  BY <1>40
<1>42. \A x \in Object : object'[x].freed = object[x].freed /\ object'[x].frozen = object[x].frozen
  BY <1>2, <1>5
<1>43. \A x \in Object : Freezes(t, x)' <=> Freezes(t, x)
  BY <1>2, <1>3, <1>35, RefsAssumption DEF Freezes, ThreadInv, Placed, UnrefPlaces, SetPlaces,
       GetPlaces
<1>44. \A x \in Object : FrozenInv(x)'
  BY <1>35, <1>36, <1>42, <1>43, FrozenKept
<1>45. \A x \in Object : FrozenInv(x)'
  BY <1>44
<1>46. Rest'
  BY <1>41, <1>45 DEF Rest, RestInv
<1> QED
  BY <1>13, <1>24, <1>23, <1>34, <1>46 DEF IInv

LEMMA StepReadSameDispose ==
  ASSUME IInv, NEW t \in Thread, Read(t), weak[thread[t].r].ptr = thread[t].new, thread[t].d #
         None
  PROVE  IInv'
<1>1. Base /\ ObjectLocks /\ DataLocks /\ WeakLocks /\ Lists /\ Life /\ Rest
  BY DEF IInv, Locks
<1>2. Types /\ ThreadInv(t) /\ HoldsInv(t) /\ thread[t] \in ThreadRecord /\ t # None
  BY <1>1, RefsAssumption DEF Base, Types
<1>3. /\ thread[t].at = "read"
      /\ thread[t].d # None
  BY <1>1, DidReadSameDispose
<1>4. Goes(t, "dispose", thread[t].d, thread[t].mode, thread[t].frozen, None, None, None, None)
  BY <1>1, DidReadSameDispose
<1>5. object' = object
  BY <1>1, DidReadSameDispose
<1>6. data' = data
  BY <1>1, DidReadSameDispose
<1>7. weak' = weak
  BY <1>1, DidReadSameDispose
<1>8. holds' = holds
  BY <1>1, DidReadSameDispose
<1>9. thread[t].r \in Weak
  BY <1>2, <1>3 DEF ThreadInv, Placed, UnrefPlaces, SetPlaces, GetPlaces
<1>10. /\ object' \in [Object -> ObjectType] /\ data' \in [Object -> DataType]
       /\ weak' \in [Weak -> WeakRecord]
  BY <1>2, <1>5, <1>6, <1>7 DEF Types
<1>11. Placed("dispose", thread[t].d, thread[t].mode, thread[t].frozen, None, None, None, None)
  BY <1>2, <1>3, <1>9, RefsAssumption DEF ThreadInv, ThreadRecord, Placed, UnrefPlaces,
       SetPlaces, GetPlaces
<1>12. /\ None # None => holds[t][None] # 0 \/ None = thread[t].d
       /\ "dispose" \in GetPlaces => \A k \in Object : holds[t][k] <= MaxHolds
  BY <1>2, <1>3 DEF HoldsInv, ThreadInv, Placed, UnrefPlaces, SetPlaces, GetPlaces
<1>13. Base'
  BY <1>1, <1>4, <1>8, <1>10, <1>11, <1>12, BaseKept
<1>14. \A k \in Object : object'[k].lock = object[k].lock /\ (object[k].ever => object'[k].ever)
  BY <1>2, <1>5
<1>15. ObjectLocks'
  BY <1>1, <1>3, <1>4, <1>14, ObjectLocksKept
<1>16. \A k \in Object : data'[k].lock = data[k].lock
  BY <1>2, <1>6
<1>17. thread[t].at \notin DataLocked /\ "dispose" \notin DataLocked
  BY <1>3 DEF DataLocked
<1>18. DataLocks'
  BY <1>1, <1>4, <1>16, <1>17, DataLocksKept
<1>19. thread[t].at \notin WeakLocked /\ "dispose" \notin WeakLocked
  BY <1>3 DEF WeakLocked
<1>20. WeakLocks'
  BY <1>1, <1>4, <1>7, <1>19, WeakLocksKept
<1>21. /\ None \in Object => object'[None].ever
       /\ None \in Object /\ "dispose" # "create" => object'[None].ever
  BY <1>1, <1>2, <1>3, <1>14, RefsAssumption DEF Lists, ThreadInv, Placed, UnrefPlaces,
       SetPlaces, GetPlaces
<1>22. /\ \A k \in Weak : weak'[k].ptr = weak[k].ptr
       /\ \A k \in Object : data'[k].list = data[k].list
  BY <1>2, <1>6, <1>7
<1>23. Lists'
  BY <1>1, <1>4, <1>14, <1>21, <1>22, ListsKept
<1>24. Locks'
  BY <1>15, <1>18, <1>20 DEF Locks
<1>25. /\ \A w \in Thread \ {t} : thread'[w] = thread[w]
       /\ thread'[t].at = "dispose" /\ thread'[t].d = thread[t].d /\ thread'[t].mode = thread[t].mode
  BY <1>4 DEF Goes
<1>26. Types /\ \A x \in Object : LifeInv(x) /\ CountInv(x)
  BY <1>1, <1>2 DEF Life, LifeInv
<1>27. \A x \in Object : object'[x].freed = object[x].freed
  BY <1>2, <1>5
<1>28. \A x \in Object : object'[x].refs = object[x].refs
  BY <1>2, <1>5
<1>29. \A x \in Object, v \in Thread : holds'[v][x] = holds[v][x]
  BY <1>8
<1>30. \A x \in Object : object[x].ever => object'[x].ever
  BY <1>14
<1>31. \A x \in Object, k \in Weak : weak'[k].ptr = x => weak[k].ptr = x \/ object[x].refs # 0
  BY <1>22
<1>32. \A x \in Object \ {thread[t].d} : thread[t].d # x /\ thread'[t].d # x
  BY <1>25
<1>33. \A x \in Object \ {thread[t].d} : LifeInv(x)'
  BY <1>25, <1>26, <1>27, <1>28, <1>29, <1>30, <1>31, <1>32, LifeApart
<1>34. ASSUME NEW x \in Object, x = thread[t].d
       PROVE  LifeInv(x)'
  <2>1. Flies(t, x) /\ Flies(t, x)'
    BY <1>34, <1>3, <1>25 DEF Flies, Doomed
  <2>2. ~Sole(t, x)'
    BY <1>34, <1>3, <1>25 DEF Sole
  <2> QED
    BY <1>25, <1>26, <1>27, <1>28, <1>29, <1>30, <2>1, <2>2, LifeFlies
<1>35. Life'
  BY <1>33, <1>34 DEF Life
<1>36. /\ \A w \in Thread \ {t} : thread'[w] = thread[w]
       /\ thread'[t].d = thread[t].d /\ thread'[t].frozen = thread[t].frozen /\ thread'[t].old = None
  BY <1>4 DEF Goes
<1>37. \A x \in Object : UsersInv(x) /\ FrozenInv(x)
  BY <1>1 DEF Rest, RestInv
<1>38. \A x \in Object : object'[x].ever = object[x].ever /\ object'[x].freed = object[x].freed
  BY <1>2, <1>5
<1>39. \A x \in Object : data'[x].refs = data[x].refs
  BY <1>2, <1>6
<1>40. \A x \in Object : thread'[t].old = x <=> thread[t].old = x
  BY <1>2, <1>3, <1>36, RefsAssumption DEF ThreadInv, Placed, UnrefPlaces, SetPlaces,
       GetPlaces
<1>41. \A x \in Object : UsersInv(x)'
  BY <1>36, <1>37, <1>38, <1>39, <1>40, UsersKept
<1>42. \A x \in Object : UsersInv(x)'
  BY <1>41
<1>43. \A x \in Object : object'[x].freed = object[x].freed /\ object'[x].frozen = object[x].frozen
  BY <1>2, <1>5
<1>44. \A x \in Object : Freezes(t, x)' <=> Freezes(t, x)
  BY <1>2, <1>3, <1>36, RefsAssumption DEF Freezes, ThreadInv, Placed, UnrefPlaces, SetPlaces,
       GetPlaces
<1>45. \A x \in Object : FrozenInv(x)'
  BY <1>36, <1>37, <1>43, <1>44, FrozenKept
<1>46. \A x \in Object : FrozenInv(x)'
  BY <1>45
<1>47. Rest'
  BY <1>42, <1>46 DEF Rest, RestInv
<1> QED
  BY <1>13, <1>24, <1>23, <1>35, <1>47 DEF IInv

LEMMA StepReadOther ==
  ASSUME IInv, NEW t \in Thread, Read(t), weak[thread[t].r].ptr # thread[t].new
  PROVE  IInv'
<1>1. Base /\ ObjectLocks /\ DataLocks /\ WeakLocks /\ Lists /\ Life /\ Rest
  BY DEF IInv, Locks
<1>2. Types /\ ThreadInv(t) /\ HoldsInv(t) /\ thread[t] \in ThreadRecord /\ t # None
  BY <1>1, RefsAssumption DEF Base, Types
<1>3. /\ thread[t].at = "read"
      /\ weak[thread[t].r].ptr # thread[t].new /\ weak[thread[t].r].lock = None
  BY <1>1, DidReadOther
<1>4. Goes(t, "reference", thread[t].d, thread[t].mode, thread[t].frozen, thread[t].r,
                thread[t].new, thread[t].old, weak[thread[t].r].ptr)
  BY <1>1, DidReadOther
<1>5. object' = object
  BY <1>1, DidReadOther
<1>6. data' = data
  BY <1>1, DidReadOther
<1>7. SetsWeak(thread[t].r, weak[thread[t].r].ptr, t)
  BY <1>1, DidReadOther
<1>8. holds' = holds
  BY <1>1, DidReadOther
<1>9. thread[t].r \in Weak
  BY <1>2, <1>3 DEF ThreadInv, Placed, UnrefPlaces, SetPlaces, GetPlaces
<1>10. /\ object' \in [Object -> ObjectType] /\ data' \in [Object -> DataType]
       /\ weak' \in [Weak -> WeakRecord]
  BY <1>2, <1>5, <1>6, <1>7 DEF Types, SetsWeak
<1>11. Placed("reference", thread[t].d, thread[t].mode, thread[t].frozen, thread[t].r,
                 thread[t].new, thread[t].old, weak[thread[t].r].ptr)
  BY <1>2, <1>3, <1>9, RefsAssumption DEF ThreadInv, ThreadRecord, Placed, UnrefPlaces,
       SetPlaces, GetPlaces
<1>12. /\ thread[t].new # None => holds[t][thread[t].new] # 0 \/ thread[t].new = thread[t].d
       /\ "reference" \in GetPlaces => \A k \in Object : holds[t][k] <= MaxHolds
  BY <1>2, <1>3 DEF HoldsInv, ThreadInv, Placed, UnrefPlaces, SetPlaces, GetPlaces
<1>13. Base'
  BY <1>1, <1>4, <1>8, <1>10, <1>11, <1>12, BaseKept
<1>14. \A k \in Object : object'[k].lock = object[k].lock /\ (object[k].ever => object'[k].ever)
  BY <1>2, <1>5
<1>15. ObjectLocks'
  BY <1>1, <1>3, <1>4, <1>14, ObjectLocksKept
<1>16. \A k \in Object : data'[k].lock = data[k].lock
  BY <1>2, <1>6
<1>17. thread[t].at \notin DataLocked /\ "reference" \notin DataLocked
  BY <1>3 DEF DataLocked
<1>18. DataLocks'
  BY <1>1, <1>4, <1>16, <1>17, DataLocksKept
<1>19. \A k \in Weak : weak[k].lock = t <=> FALSE
  BY <1>1, <1>3 DEF WeakLocks, HasWeak, WeakLocked
<1>20. \A k \in Weak : \/ weak'[k] = weak[k]
                       \/ weak[k].lock \in {None, t} /\ weak'[k].lock \in {None, t}
  BY <1>3, <1>7, <1>19 DEF SetsWeak
<1>21. \A k \in Weak : weak'[k].lock = t <=> thread[t].r = k
  BY <1>7, <1>19, <1>9 DEF SetsWeak
<1>22. "reference" \in WeakLocked /\ weak[thread[t].r].ptr = weak'[thread[t].r].ptr
  BY <1>3, <1>7 DEF SetsWeak, WeakLocked
<1>23. /\ \A u \in Thread \ {t} : thread'[u] = thread[u]
       /\ thread'[t].at \in WeakLocked /\ thread'[t].r = thread[t].r /\ thread'[t].ptr = weak'[thread[t].r].ptr
  BY <1>4, <1>22 DEF Goes
<1>24. \A k \in Weak : weak'[k].lock = t <=> thread'[t].r = k
  BY <1>21, <1>23
<1>25. WeakLocks'
  BY <1>1, <1>20, <1>23, <1>24, WeakLocksTaken
<1>26. /\ thread[t].old \in Object => object'[thread[t].old].ever
       /\ thread[t].new \in Object /\ "reference" # "create" => object'[thread[t].new].ever
  BY <1>1, <1>2, <1>3, <1>14, RefsAssumption DEF Lists, ThreadInv, Placed, UnrefPlaces,
       SetPlaces, GetPlaces
<1>27. /\ \A k \in Weak : weak'[k].ptr = weak[k].ptr
       /\ \A k \in Object : data'[k].list = data[k].list
  BY <1>2, <1>6, <1>7 DEF SetsWeak
<1>28. Lists'
  BY <1>1, <1>4, <1>14, <1>26, <1>27, ListsKept
<1>29. Locks'
  BY <1>15, <1>18, <1>25 DEF Locks
<1>30. /\ \A w \in Thread \ {t} : thread'[w] = thread[w]
       /\ thread'[t].at = "reference" /\ thread'[t].d = thread[t].d /\ thread'[t].mode = thread[t].mode
  BY <1>4 DEF Goes
<1>31. Types /\ \A x \in Object : LifeInv(x) /\ CountInv(x)
  BY <1>1, <1>2 DEF Life, LifeInv
<1>32. \A x \in Object : object'[x].freed = object[x].freed
  BY <1>2, <1>5
<1>33. \A x \in Object : object'[x].refs = object[x].refs
  BY <1>2, <1>5
<1>34. \A x \in Object, v \in Thread : holds'[v][x] = holds[v][x]
  BY <1>8
<1>35. \A x \in Object : object[x].ever => object'[x].ever
  BY <1>14
<1>36. \A x \in Object, k \in Weak : weak'[k].ptr = x => weak[k].ptr = x \/ object[x].refs # 0
  BY <1>27
<1>37. \A x \in Object \ {thread[t].d} : thread[t].d # x /\ thread'[t].d # x
  BY <1>30
<1>38. \A x \in Object \ {thread[t].d} : LifeInv(x)'
  BY <1>30, <1>31, <1>32, <1>33, <1>34, <1>35, <1>36, <1>37, LifeApart
<1>39. ASSUME NEW x \in Object, x = thread[t].d
       PROVE  LifeInv(x)'
  <2>1. Flies(t, x) /\ Flies(t, x)'
    BY <1>39, <1>3, <1>30 DEF Flies, Doomed
  <2>2. ~Sole(t, x)'
    BY <1>39, <1>3, <1>30 DEF Sole
  <2> QED
    BY <1>30, <1>31, <1>32, <1>33, <1>34, <1>35, <2>1, <2>2, LifeFlies
<1>40. Life'
  BY <1>38, <1>39 DEF Life
<1>41. /\ \A w \in Thread \ {t} : thread'[w] = thread[w]
       /\ thread'[t].d = thread[t].d /\ thread'[t].frozen = thread[t].frozen /\ thread'[t].old = thread[t].old
  BY <1>4 DEF Goes
<1>42. \A x \in Object : UsersInv(x) /\ FrozenInv(x)
  BY <1>1 DEF Rest, RestInv
<1>43. \A x \in Object : object'[x].ever = object[x].ever /\ object'[x].freed = object[x].freed
  BY <1>2, <1>5
<1>44. \A x \in Object : data'[x].refs = data[x].refs
  BY <1>2, <1>6
<1>45. \A x \in Object : thread'[t].old = x <=> thread[t].old = x
  BY <1>2, <1>3, <1>41, RefsAssumption DEF ThreadInv, Placed, UnrefPlaces, SetPlaces,
       GetPlaces
<1>46. \A x \in Object : UsersInv(x)'
  BY <1>41, <1>42, <1>43, <1>44, <1>45, UsersKept
<1>47. \A x \in Object : UsersInv(x)'
  BY <1>46
<1>48. \A x \in Object : object'[x].freed = object[x].freed /\ object'[x].frozen = object[x].frozen
  BY <1>2, <1>5
<1>49. \A x \in Object : Freezes(t, x)' <=> Freezes(t, x)
  BY <1>2, <1>3, <1>41, RefsAssumption DEF Freezes, ThreadInv, Placed, UnrefPlaces, SetPlaces,
       GetPlaces
<1>50. \A x \in Object : FrozenInv(x)'
  BY <1>41, <1>42, <1>48, <1>49, FrozenKept
<1>51. \A x \in Object : FrozenInv(x)'
  BY <1>50
<1>52. Rest'
  BY <1>47, <1>51 DEF Rest, RestInv
<1> QED
  BY <1>13, <1>29, <1>28, <1>40, <1>52 DEF IInv

LEMMA StepReference ==
  ASSUME IInv, NEW t \in Thread, Reference(t)
  PROVE  IInv'
<1>1. Base /\ ObjectLocks /\ DataLocks /\ WeakLocks /\ Lists /\ Life /\ Rest
  BY DEF IInv, Locks
<1>2. Types /\ ThreadInv(t) /\ HoldsInv(t) /\ thread[t] \in ThreadRecord /\ t # None
  BY <1>1, RefsAssumption DEF Base, Types
<1>3. thread[t].at = "reference"
  BY <1>1, DidReference
<1>4. Goes(t, "first", thread[t].d, thread[t].mode, thread[t].frozen, thread[t].r,
                thread[t].new, thread[t].ptr, thread[t].ptr)
  BY <1>1, DidReference
<1>5. object' = object
  BY <1>1, DidReference
<1>6. SetsData(thread[t].ptr, data[thread[t].ptr].refs + 1, data[thread[t].ptr].lock, data[thread[t].ptr].list)
  BY <1>1, DidReference
<1>7. SetsWeak(thread[t].r, weak[thread[t].r].ptr, None)
  BY <1>1, DidReference
<1>8. holds' = holds
  BY <1>1, DidReference
<1>9. thread[t].r \in Weak
  BY <1>2, <1>3 DEF ThreadInv, Placed, UnrefPlaces, SetPlaces, GetPlaces
<1>10. /\ object' \in [Object -> ObjectType] /\ data' \in [Object -> DataType]
       /\ weak' \in [Weak -> WeakRecord]
  BY <1>2, <1>5, <1>6, <1>7 DEF Types, SetsData, SetsWeak
<1>11. Placed("first", thread[t].d, thread[t].mode, thread[t].frozen, thread[t].r,
                 thread[t].new, thread[t].ptr, thread[t].ptr)
  BY <1>2, <1>3, <1>9, RefsAssumption DEF ThreadInv, ThreadRecord, Placed, UnrefPlaces,
       SetPlaces, GetPlaces
<1>12. /\ thread[t].new # None => holds[t][thread[t].new] # 0 \/ thread[t].new = thread[t].d
       /\ "first" \in GetPlaces => \A k \in Object : holds[t][k] <= MaxHolds
  BY <1>2, <1>3 DEF HoldsInv, ThreadInv, Placed, UnrefPlaces, SetPlaces, GetPlaces
<1>13. Base'
  BY <1>1, <1>4, <1>8, <1>10, <1>11, <1>12, BaseKept
<1>14. \A k \in Object : object'[k].lock = object[k].lock /\ (object[k].ever => object'[k].ever)
  BY <1>2, <1>5
<1>15. ObjectLocks'
  BY <1>1, <1>3, <1>4, <1>14, ObjectLocksKept
<1>16. \A k \in Object : data'[k].lock = data[k].lock
  BY <1>2, <1>6 DEF SetsData, Types
<1>17. thread[t].at \notin DataLocked /\ "first" \notin DataLocked
  BY <1>3 DEF DataLocked
<1>18. DataLocks'
  BY <1>1, <1>4, <1>16, <1>17, DataLocksKept
<1>19. \A k \in Weak : weak[k].lock = t <=> thread[t].r = k
  BY <1>1, <1>3 DEF WeakLocks, HasWeak, WeakLocked
<1>20. \A k \in Weak : \/ weak'[k] = weak[k]
                       \/ weak[k].lock \in {None, t} /\ weak'[k].lock \in {None, t}
  BY <1>3, <1>7, <1>19 DEF SetsWeak
<1>21. \A k \in Weak : weak'[k].lock # t
  BY <1>2, <1>7, <1>19, <1>9 DEF SetsWeak
<1>22. "first" \notin WeakLocked
  BY <1>3 DEF WeakLocked
<1>23. WeakLocks'
  BY <1>1, <1>4, <1>20, <1>21, <1>22, WeakLocksReleased
<1>24. thread[t].ptr = weak[thread[t].r].ptr
  BY <1>1, <1>3, <1>9 DEF WeakLocks, HasWeak, WeakLocked
<1>25. /\ thread[t].ptr \in Object => object'[thread[t].ptr].ever
       /\ thread[t].new \in Object /\ "first" # "create" => object'[thread[t].new].ever
  BY <1>1, <1>3, <1>9, <1>24, <1>14 DEF Lists
<1>26. /\ \A k \in Weak : weak'[k].ptr = weak[k].ptr
       /\ \A k \in Object : data'[k].list = data[k].list
  BY <1>2, <1>6, <1>7 DEF SetsData, SetsWeak
<1>27. Lists'
  BY <1>1, <1>4, <1>14, <1>25, <1>26, ListsKept
<1>28. Locks'
  BY <1>15, <1>18, <1>23 DEF Locks
<1>29. /\ \A w \in Thread \ {t} : thread'[w] = thread[w]
       /\ thread'[t].at = "first" /\ thread'[t].d = thread[t].d /\ thread'[t].mode = thread[t].mode
  BY <1>4 DEF Goes
<1>30. Types /\ \A x \in Object : LifeInv(x) /\ CountInv(x)
  BY <1>1, <1>2 DEF Life, LifeInv
<1>31. \A x \in Object : object'[x].freed = object[x].freed
  BY <1>2, <1>5
<1>32. \A x \in Object : object'[x].refs = object[x].refs
  BY <1>2, <1>5
<1>33. \A x \in Object, v \in Thread : holds'[v][x] = holds[v][x]
  BY <1>8
<1>34. \A x \in Object : object[x].ever => object'[x].ever
  BY <1>14
<1>35. \A x \in Object, k \in Weak : weak'[k].ptr = x => weak[k].ptr = x \/ object[x].refs # 0
  BY <1>26
<1>36. \A x \in Object \ {thread[t].d} : thread[t].d # x /\ thread'[t].d # x
  BY <1>29
<1>37. \A x \in Object \ {thread[t].d} : LifeInv(x)'
  BY <1>29, <1>30, <1>31, <1>32, <1>33, <1>34, <1>35, <1>36, LifeApart
<1>38. ASSUME NEW x \in Object, x = thread[t].d
       PROVE  LifeInv(x)'
  <2>1. Flies(t, x) /\ Flies(t, x)'
    BY <1>38, <1>3, <1>29 DEF Flies, Doomed
  <2>2. ~Sole(t, x)'
    BY <1>38, <1>3, <1>29 DEF Sole
  <2> QED
    BY <1>29, <1>30, <1>31, <1>32, <1>33, <1>34, <2>1, <2>2, LifeFlies
<1>39. Life'
  BY <1>37, <1>38 DEF Life
<1>40. /\ \A w \in Thread \ {t} : thread'[w] = thread[w]
       /\ thread'[t].d = thread[t].d /\ thread'[t].frozen = thread[t].frozen /\ thread'[t].old = thread[t].ptr
  BY <1>4 DEF Goes
<1>41. \A x \in Object : UsersInv(x) /\ FrozenInv(x)
  BY <1>1 DEF Rest, RestInv
<1>42. \A x \in Object : object'[x].ever = object[x].ever /\ object'[x].freed = object[x].freed
  BY <1>2, <1>5
<1>43. \A x \in Object \ {thread[t].ptr} : data'[x].refs = data[x].refs
  BY <1>2, <1>6 DEF SetsData
<1>44. \A x \in Object \ {thread[t].ptr} : thread'[t].old = x <=> thread[t].old = x
  BY <1>2, <1>3, <1>40, RefsAssumption DEF ThreadInv, Placed, UnrefPlaces, SetPlaces,
       GetPlaces
<1>45. \A x \in Object \ {thread[t].ptr} : UsersInv(x)'
  BY <1>40, <1>41, <1>42, <1>43, <1>44, UsersKept
<1>46. ASSUME NEW x \in Object, x = thread[t].ptr
       PROVE  UsersInv(x)'
  <2>1. thread[t].old # x /\ thread'[t].old = x
    BY <1>46, <1>2, <1>3, <1>40, RefsAssumption DEF ThreadInv, Placed, UnrefPlaces, SetPlaces, GetPlaces
  <2>2. data'[x].refs = data[x].refs + 1
    BY <1>46, <1>6 DEF SetsData
  <2> QED
    BY <1>40, <1>41, <1>42, <2>1, <2>2, UsersMore
<1>47. \A x \in Object : UsersInv(x)'
  BY <1>45, <1>46
<1>48. \A x \in Object : object'[x].freed = object[x].freed /\ object'[x].frozen = object[x].frozen
  BY <1>2, <1>5
<1>49. \A x \in Object : Freezes(t, x)' <=> Freezes(t, x)
  BY <1>2, <1>3, <1>40, RefsAssumption DEF Freezes, ThreadInv, Placed, UnrefPlaces, SetPlaces,
       GetPlaces
<1>50. \A x \in Object : FrozenInv(x)'
  BY <1>40, <1>41, <1>48, <1>49, FrozenKept
<1>51. \A x \in Object : FrozenInv(x)'
  BY <1>50
<1>52. Rest'
  BY <1>47, <1>51 DEF Rest, RestInv
<1> QED
  BY <1>13, <1>28, <1>27, <1>39, <1>52 DEF IInv

LEMMA StepLockFirst ==
  ASSUME IInv, NEW t \in Thread, LockFirst(t)
  PROVE  IInv'
<1>1. Base /\ ObjectLocks /\ DataLocks /\ WeakLocks /\ Lists /\ Life /\ Rest
  BY DEF IInv, Locks
<1>2. Types /\ ThreadInv(t) /\ HoldsInv(t) /\ thread[t] \in ThreadRecord /\ t # None
  BY <1>1, RefsAssumption DEF Base, Types
<1>3. /\ thread[t].at = "first"
      /\ First(t) # None => data[First(t)].lock = None
  BY <1>1, DidLockFirst
<1>4. Goes(t, "second", thread[t].d, thread[t].mode, thread[t].frozen, thread[t].r,
                thread[t].new, thread[t].old, thread[t].ptr)
  BY <1>1, DidLockFirst
<1>5. object' = object
  BY <1>1, DidLockFirst
<1>6. SetsData(First(t), data[First(t)].refs, t, data[First(t)].list)
  BY <1>1, DidLockFirst
<1>7. weak' = weak
  BY <1>1, DidLockFirst
<1>8. holds' = holds
  BY <1>1, DidLockFirst
<1>9. thread[t].r \in Weak
  BY <1>2, <1>3 DEF ThreadInv, Placed, UnrefPlaces, SetPlaces, GetPlaces
<1>10. /\ object' \in [Object -> ObjectType] /\ data' \in [Object -> DataType]
       /\ weak' \in [Weak -> WeakRecord]
  BY <1>2, <1>5, <1>6, <1>7 DEF Types, SetsData
<1>11. Placed("second", thread[t].d, thread[t].mode, thread[t].frozen, thread[t].r,
                 thread[t].new, thread[t].old, thread[t].ptr)
  BY <1>2, <1>3, <1>9, RefsAssumption DEF ThreadInv, ThreadRecord, Placed, UnrefPlaces,
       SetPlaces, GetPlaces
<1>12. /\ thread[t].new # None => holds[t][thread[t].new] # 0 \/ thread[t].new = thread[t].d
       /\ "second" \in GetPlaces => \A k \in Object : holds[t][k] <= MaxHolds
  BY <1>2, <1>3 DEF HoldsInv, ThreadInv, Placed, UnrefPlaces, SetPlaces, GetPlaces
<1>13. Base'
  BY <1>1, <1>4, <1>8, <1>10, <1>11, <1>12, BaseKept
<1>14. \A k \in Object : object'[k].lock = object[k].lock /\ (object[k].ever => object'[k].ever)
  BY <1>2, <1>5
<1>15. ObjectLocks'
  BY <1>1, <1>3, <1>4, <1>14, ObjectLocksKept
<1>16. \A k \in Object : data[k].lock = t <=> HasData(t, k)
  BY <1>1 DEF DataLocks
<1>17. \A k \in Object : HasData(t, k) <=> FALSE
  BY <1>3 DEF HasData
<1>18. \A k \in Object : HasData(t, k)' <=> First(t) = k
  BY <1>3, <1>4 DEF HasData, Goes, First, Order
<1>19. \A k \in Object : k # None
  BY RefsAssumption
<1>20. \A k \in Object : \/ data'[k].lock = data[k].lock
                         \/ data[k].lock \in {None, t} /\ data'[k].lock \in {None, t}
  BY <1>3, <1>6, <1>16, <1>17, <1>19 DEF SetsData
<1>21. \A k \in Object : data'[k].lock = t <=> HasData(t, k)'
  BY <1>2, <1>3, <1>6, <1>16, <1>17, <1>18, <1>19, <1>9 DEF SetsData
<1>22. DataLocks'
  BY <1>1, <1>4, <1>20, <1>21, DataLocksStep
<1>23. thread[t].at \notin WeakLocked /\ "second" \notin WeakLocked
  BY <1>3 DEF WeakLocked
<1>24. WeakLocks'
  BY <1>1, <1>4, <1>7, <1>23, WeakLocksKept
<1>25. /\ thread[t].old \in Object => object'[thread[t].old].ever
       /\ thread[t].new \in Object /\ "second" # "create" => object'[thread[t].new].ever
  BY <1>1, <1>2, <1>3, <1>14, RefsAssumption DEF Lists, ThreadInv, Placed, UnrefPlaces,
       SetPlaces, GetPlaces
<1>26. /\ \A k \in Weak : weak'[k].ptr = weak[k].ptr
       /\ \A k \in Object : data'[k].list = data[k].list
  BY <1>2, <1>6, <1>7 DEF SetsData
<1>27. Lists'
  BY <1>1, <1>4, <1>14, <1>25, <1>26, ListsKept
<1>28. Locks'
  BY <1>15, <1>22, <1>24 DEF Locks
<1>29. /\ \A w \in Thread \ {t} : thread'[w] = thread[w]
       /\ thread'[t].at = "second" /\ thread'[t].d = thread[t].d /\ thread'[t].mode = thread[t].mode
  BY <1>4 DEF Goes
<1>30. Types /\ \A x \in Object : LifeInv(x) /\ CountInv(x)
  BY <1>1, <1>2 DEF Life, LifeInv
<1>31. \A x \in Object : object'[x].freed = object[x].freed
  BY <1>2, <1>5
<1>32. \A x \in Object : object'[x].refs = object[x].refs
  BY <1>2, <1>5
<1>33. \A x \in Object, v \in Thread : holds'[v][x] = holds[v][x]
  BY <1>8
<1>34. \A x \in Object : object[x].ever => object'[x].ever
  BY <1>14
<1>35. \A x \in Object, k \in Weak : weak'[k].ptr = x => weak[k].ptr = x \/ object[x].refs # 0
  BY <1>26
<1>36. \A x \in Object \ {thread[t].d} : thread[t].d # x /\ thread'[t].d # x
  BY <1>29
<1>37. \A x \in Object \ {thread[t].d} : LifeInv(x)'
  BY <1>29, <1>30, <1>31, <1>32, <1>33, <1>34, <1>35, <1>36, LifeApart
<1>38. ASSUME NEW x \in Object, x = thread[t].d
       PROVE  LifeInv(x)'
  <2>1. Flies(t, x) /\ Flies(t, x)'
    BY <1>38, <1>3, <1>29 DEF Flies, Doomed
  <2>2. ~Sole(t, x)'
    BY <1>38, <1>3, <1>29 DEF Sole
  <2> QED
    BY <1>29, <1>30, <1>31, <1>32, <1>33, <1>34, <2>1, <2>2, LifeFlies
<1>39. Life'
  BY <1>37, <1>38 DEF Life
<1>40. /\ \A w \in Thread \ {t} : thread'[w] = thread[w]
       /\ thread'[t].d = thread[t].d /\ thread'[t].frozen = thread[t].frozen /\ thread'[t].old = thread[t].old
  BY <1>4 DEF Goes
<1>41. \A x \in Object : UsersInv(x) /\ FrozenInv(x)
  BY <1>1 DEF Rest, RestInv
<1>42. \A x \in Object : object'[x].ever = object[x].ever /\ object'[x].freed = object[x].freed
  BY <1>2, <1>5
<1>43. \A x \in Object : data'[x].refs = data[x].refs
  BY <1>2, <1>6 DEF SetsData
<1>44. \A x \in Object : thread'[t].old = x <=> thread[t].old = x
  BY <1>2, <1>3, <1>40, RefsAssumption DEF ThreadInv, Placed, UnrefPlaces, SetPlaces,
       GetPlaces
<1>45. \A x \in Object : UsersInv(x)'
  BY <1>40, <1>41, <1>42, <1>43, <1>44, UsersKept
<1>46. \A x \in Object : UsersInv(x)'
  BY <1>45
<1>47. \A x \in Object : object'[x].freed = object[x].freed /\ object'[x].frozen = object[x].frozen
  BY <1>2, <1>5
<1>48. \A x \in Object : Freezes(t, x)' <=> Freezes(t, x)
  BY <1>2, <1>3, <1>40, RefsAssumption DEF Freezes, ThreadInv, Placed, UnrefPlaces, SetPlaces,
       GetPlaces
<1>49. \A x \in Object : FrozenInv(x)'
  BY <1>40, <1>41, <1>47, <1>48, FrozenKept
<1>50. \A x \in Object : FrozenInv(x)'
  BY <1>49
<1>51. Rest'
  BY <1>46, <1>50 DEF Rest, RestInv
<1> QED
  BY <1>13, <1>28, <1>27, <1>39, <1>51 DEF IInv

LEMMA StepLockSecond ==
  ASSUME IInv, NEW t \in Thread, LockSecond(t)
  PROVE  IInv'
<1>1. Base /\ ObjectLocks /\ DataLocks /\ WeakLocks /\ Lists /\ Life /\ Rest
  BY DEF IInv, Locks
<1>2. Types /\ ThreadInv(t) /\ HoldsInv(t) /\ thread[t] \in ThreadRecord /\ t # None
  BY <1>1, RefsAssumption DEF Base, Types
<1>3. /\ thread[t].at = "second"
      /\ Second(t) # None => data[Second(t)].lock = None
  BY <1>1, DidLockSecond
<1>4. Goes(t, "lock", thread[t].d, thread[t].mode, thread[t].frozen, thread[t].r,
                thread[t].new, thread[t].old, thread[t].ptr)
  BY <1>1, DidLockSecond
<1>5. object' = object
  BY <1>1, DidLockSecond
<1>6. SetsData(Second(t), data[Second(t)].refs, t, data[Second(t)].list)
  BY <1>1, DidLockSecond
<1>7. weak' = weak
  BY <1>1, DidLockSecond
<1>8. holds' = holds
  BY <1>1, DidLockSecond
<1>9. thread[t].r \in Weak
  BY <1>2, <1>3 DEF ThreadInv, Placed, UnrefPlaces, SetPlaces, GetPlaces
<1>10. /\ object' \in [Object -> ObjectType] /\ data' \in [Object -> DataType]
       /\ weak' \in [Weak -> WeakRecord]
  BY <1>2, <1>5, <1>6, <1>7 DEF Types, SetsData
<1>11. Placed("lock", thread[t].d, thread[t].mode, thread[t].frozen, thread[t].r,
                 thread[t].new, thread[t].old, thread[t].ptr)
  BY <1>2, <1>3, <1>9, RefsAssumption DEF ThreadInv, ThreadRecord, Placed, UnrefPlaces,
       SetPlaces, GetPlaces
<1>12. /\ thread[t].new # None => holds[t][thread[t].new] # 0 \/ thread[t].new = thread[t].d
       /\ "lock" \in GetPlaces => \A k \in Object : holds[t][k] <= MaxHolds
  BY <1>2, <1>3 DEF HoldsInv, ThreadInv, Placed, UnrefPlaces, SetPlaces, GetPlaces
<1>13. Base'
  BY <1>1, <1>4, <1>8, <1>10, <1>11, <1>12, BaseKept
<1>14. \A k \in Object : object'[k].lock = object[k].lock /\ (object[k].ever => object'[k].ever)
  BY <1>2, <1>5
<1>15. ObjectLocks'
  BY <1>1, <1>3, <1>4, <1>14, ObjectLocksKept
<1>16. \A k \in Object : data[k].lock = t <=> HasData(t, k)
  BY <1>1 DEF DataLocks
<1>17. \A k \in Object : HasData(t, k) <=> First(t) = k
  BY <1>3 DEF HasData, First
<1>18. \A k \in Object : HasData(t, k)' <=> (thread[t].old = k \/ thread[t].new = k)
  BY <1>3, <1>4 DEF HasData, Goes
<1>19. \A k \in Object : k # None
  BY RefsAssumption
<1>20. \A k \in Object : \/ data'[k].lock = data[k].lock
                         \/ data[k].lock \in {None, t} /\ data'[k].lock \in {None, t}
  BY <1>3, <1>6, <1>16, <1>17, <1>19 DEF SetsData
<1>21. \A k \in Object : thread[t].old = k \/ thread[t].new = k <=> First(t) = k \/ Second(t) = k
  BY <1>2 DEF First, Second, Order
<1>22. \A k \in Object : data'[k].lock = t <=> HasData(t, k)'
  BY <1>2, <1>3, <1>6, <1>16, <1>17, <1>18, <1>21, <1>19, <1>9 DEF SetsData
<1>23. DataLocks'
  BY <1>1, <1>4, <1>20, <1>22, DataLocksStep
<1>24. thread[t].at \notin WeakLocked /\ "lock" \notin WeakLocked
  BY <1>3 DEF WeakLocked
<1>25. WeakLocks'
  BY <1>1, <1>4, <1>7, <1>24, WeakLocksKept
<1>26. /\ thread[t].old \in Object => object'[thread[t].old].ever
       /\ thread[t].new \in Object /\ "lock" # "create" => object'[thread[t].new].ever
  BY <1>1, <1>2, <1>3, <1>14, RefsAssumption DEF Lists, ThreadInv, Placed, UnrefPlaces,
       SetPlaces, GetPlaces
<1>27. /\ \A k \in Weak : weak'[k].ptr = weak[k].ptr
       /\ \A k \in Object : data'[k].list = data[k].list
  BY <1>2, <1>6, <1>7 DEF SetsData
<1>28. Lists'
  BY <1>1, <1>4, <1>14, <1>26, <1>27, ListsKept
<1>29. Locks'
  BY <1>15, <1>23, <1>25 DEF Locks
<1>30. /\ \A w \in Thread \ {t} : thread'[w] = thread[w]
       /\ thread'[t].at = "lock" /\ thread'[t].d = thread[t].d /\ thread'[t].mode = thread[t].mode
  BY <1>4 DEF Goes
<1>31. Types /\ \A x \in Object : LifeInv(x) /\ CountInv(x)
  BY <1>1, <1>2 DEF Life, LifeInv
<1>32. \A x \in Object : object'[x].freed = object[x].freed
  BY <1>2, <1>5
<1>33. \A x \in Object : object'[x].refs = object[x].refs
  BY <1>2, <1>5
<1>34. \A x \in Object, v \in Thread : holds'[v][x] = holds[v][x]
  BY <1>8
<1>35. \A x \in Object : object[x].ever => object'[x].ever
  BY <1>14
<1>36. \A x \in Object, k \in Weak : weak'[k].ptr = x => weak[k].ptr = x \/ object[x].refs # 0
  BY <1>27
<1>37. \A x \in Object \ {thread[t].d} : thread[t].d # x /\ thread'[t].d # x
  BY <1>30
<1>38. \A x \in Object \ {thread[t].d} : LifeInv(x)'
  BY <1>30, <1>31, <1>32, <1>33, <1>34, <1>35, <1>36, <1>37, LifeApart
<1>39. ASSUME NEW x \in Object, x = thread[t].d
       PROVE  LifeInv(x)'
  <2>1. Flies(t, x) /\ Flies(t, x)'
    BY <1>39, <1>3, <1>30 DEF Flies, Doomed
  <2>2. ~Sole(t, x)'
    BY <1>39, <1>3, <1>30 DEF Sole
  <2> QED
    BY <1>30, <1>31, <1>32, <1>33, <1>34, <1>35, <2>1, <2>2, LifeFlies
<1>40. Life'
  BY <1>38, <1>39 DEF Life
<1>41. /\ \A w \in Thread \ {t} : thread'[w] = thread[w]
       /\ thread'[t].d = thread[t].d /\ thread'[t].frozen = thread[t].frozen /\ thread'[t].old = thread[t].old
  BY <1>4 DEF Goes
<1>42. \A x \in Object : UsersInv(x) /\ FrozenInv(x)
  BY <1>1 DEF Rest, RestInv
<1>43. \A x \in Object : object'[x].ever = object[x].ever /\ object'[x].freed = object[x].freed
  BY <1>2, <1>5
<1>44. \A x \in Object : data'[x].refs = data[x].refs
  BY <1>2, <1>6 DEF SetsData
<1>45. \A x \in Object : thread'[t].old = x <=> thread[t].old = x
  BY <1>2, <1>3, <1>41, RefsAssumption DEF ThreadInv, Placed, UnrefPlaces, SetPlaces,
       GetPlaces
<1>46. \A x \in Object : UsersInv(x)'
  BY <1>41, <1>42, <1>43, <1>44, <1>45, UsersKept
<1>47. \A x \in Object : UsersInv(x)'
  BY <1>46
<1>48. \A x \in Object : object'[x].freed = object[x].freed /\ object'[x].frozen = object[x].frozen
  BY <1>2, <1>5
<1>49. \A x \in Object : Freezes(t, x)' <=> Freezes(t, x)
  BY <1>2, <1>3, <1>41, RefsAssumption DEF Freezes, ThreadInv, Placed, UnrefPlaces, SetPlaces,
       GetPlaces
<1>50. \A x \in Object : FrozenInv(x)'
  BY <1>41, <1>42, <1>48, <1>49, FrozenKept
<1>51. \A x \in Object : FrozenInv(x)'
  BY <1>50
<1>52. Rest'
  BY <1>47, <1>51 DEF Rest, RestInv
<1> QED
  BY <1>13, <1>29, <1>28, <1>40, <1>52 DEF IInv

LEMMA StepLockThird ==
  ASSUME IInv, NEW t \in Thread, LockThird(t)
  PROVE  IInv'
<1>1. Base /\ ObjectLocks /\ DataLocks /\ WeakLocks /\ Lists /\ Life /\ Rest
  BY DEF IInv, Locks
<1>2. Types /\ ThreadInv(t) /\ HoldsInv(t) /\ thread[t] \in ThreadRecord /\ t # None
  BY <1>1, RefsAssumption DEF Base, Types
<1>3. /\ thread[t].at = "lock"
      /\ weak[thread[t].r].lock = None
  BY <1>1, DidLockThird
<1>4. Goes(t, "commit", thread[t].d, thread[t].mode, thread[t].frozen, thread[t].r,
                thread[t].new, thread[t].old, weak[thread[t].r].ptr)
  BY <1>1, DidLockThird
<1>5. object' = object
  BY <1>1, DidLockThird
<1>6. data' = data
  BY <1>1, DidLockThird
<1>7. SetsWeak(thread[t].r, weak[thread[t].r].ptr, t)
  BY <1>1, DidLockThird
<1>8. holds' = holds
  BY <1>1, DidLockThird
<1>9. thread[t].r \in Weak
  BY <1>2, <1>3 DEF ThreadInv, Placed, UnrefPlaces, SetPlaces, GetPlaces
<1>10. /\ object' \in [Object -> ObjectType] /\ data' \in [Object -> DataType]
       /\ weak' \in [Weak -> WeakRecord]
  BY <1>2, <1>5, <1>6, <1>7 DEF Types, SetsWeak
<1>11. Placed("commit", thread[t].d, thread[t].mode, thread[t].frozen, thread[t].r,
                 thread[t].new, thread[t].old, weak[thread[t].r].ptr)
  BY <1>2, <1>3, <1>9, RefsAssumption DEF ThreadInv, ThreadRecord, Placed, UnrefPlaces,
       SetPlaces, GetPlaces
<1>12. /\ thread[t].new # None => holds[t][thread[t].new] # 0 \/ thread[t].new = thread[t].d
       /\ "commit" \in GetPlaces => \A k \in Object : holds[t][k] <= MaxHolds
  BY <1>2, <1>3 DEF HoldsInv, ThreadInv, Placed, UnrefPlaces, SetPlaces, GetPlaces
<1>13. Base'
  BY <1>1, <1>4, <1>8, <1>10, <1>11, <1>12, BaseKept
<1>14. \A k \in Object : object'[k].lock = object[k].lock /\ (object[k].ever => object'[k].ever)
  BY <1>2, <1>5
<1>15. ObjectLocks'
  BY <1>1, <1>3, <1>4, <1>14, ObjectLocksKept
<1>16. \A k \in Object : data'[k].lock = data[k].lock
  BY <1>2, <1>6
<1>17. \A k \in Object : \/ data'[k].lock = data[k].lock
                         \/ data[k].lock \in {None, t} /\ data'[k].lock \in {None, t}
  BY <1>16
<1>18. \A k \in Object : data[k].lock = t <=> HasData(t, k)
  BY <1>1 DEF DataLocks
<1>19. \A k \in Object : HasData(t, k) <=> (thread[t].old = k \/ thread[t].new = k)
  BY <1>3 DEF HasData
<1>20. \A k \in Object : HasData(t, k)' <=> (thread[t].old = k \/ thread[t].new = k)
  BY <1>3, <1>4 DEF HasData, Goes
<1>21. \A k \in Object : data'[k].lock = t <=> HasData(t, k)'
  BY <1>16, <1>18, <1>19, <1>20
<1>22. DataLocks'
  BY <1>1, <1>4, <1>17, <1>21, DataLocksStep
<1>23. \A k \in Weak : weak[k].lock = t <=> FALSE
  BY <1>1, <1>3 DEF WeakLocks, HasWeak, WeakLocked
<1>24. \A k \in Weak : \/ weak'[k] = weak[k]
                       \/ weak[k].lock \in {None, t} /\ weak'[k].lock \in {None, t}
  BY <1>3, <1>7, <1>23 DEF SetsWeak
<1>25. \A k \in Weak : weak'[k].lock = t <=> thread[t].r = k
  BY <1>7, <1>23, <1>9 DEF SetsWeak
<1>26. "commit" \in WeakLocked /\ weak[thread[t].r].ptr = weak'[thread[t].r].ptr
  BY <1>3, <1>7 DEF SetsWeak, WeakLocked
<1>27. /\ \A u \in Thread \ {t} : thread'[u] = thread[u]
       /\ thread'[t].at \in WeakLocked /\ thread'[t].r = thread[t].r /\ thread'[t].ptr = weak'[thread[t].r].ptr
  BY <1>4, <1>26 DEF Goes
<1>28. \A k \in Weak : weak'[k].lock = t <=> thread'[t].r = k
  BY <1>25, <1>27
<1>29. WeakLocks'
  BY <1>1, <1>24, <1>27, <1>28, WeakLocksTaken
<1>30. /\ thread[t].old \in Object => object'[thread[t].old].ever
       /\ thread[t].new \in Object /\ "commit" # "create" => object'[thread[t].new].ever
  BY <1>1, <1>2, <1>3, <1>14, RefsAssumption DEF Lists, ThreadInv, Placed, UnrefPlaces,
       SetPlaces, GetPlaces
<1>31. /\ \A k \in Weak : weak'[k].ptr = weak[k].ptr
       /\ \A k \in Object : data'[k].list = data[k].list
  BY <1>2, <1>6, <1>7 DEF SetsWeak
<1>32. Lists'
  BY <1>1, <1>4, <1>14, <1>30, <1>31, ListsKept
<1>33. Locks'
  BY <1>15, <1>22, <1>29 DEF Locks
<1>34. /\ \A w \in Thread \ {t} : thread'[w] = thread[w]
       /\ thread'[t].at = "commit" /\ thread'[t].d = thread[t].d /\ thread'[t].mode = thread[t].mode
  BY <1>4 DEF Goes
<1>35. Types /\ \A x \in Object : LifeInv(x) /\ CountInv(x)
  BY <1>1, <1>2 DEF Life, LifeInv
<1>36. \A x \in Object : object'[x].freed = object[x].freed
  BY <1>2, <1>5
<1>37. \A x \in Object : object'[x].refs = object[x].refs
  BY <1>2, <1>5
<1>38. \A x \in Object, v \in Thread : holds'[v][x] = holds[v][x]
  BY <1>8
<1>39. \A x \in Object : object[x].ever => object'[x].ever
  BY <1>14
<1>40. \A x \in Object, k \in Weak : weak'[k].ptr = x => weak[k].ptr = x \/ object[x].refs # 0
  BY <1>31
<1>41. \A x \in Object \ {thread[t].d} : thread[t].d # x /\ thread'[t].d # x
  BY <1>34
<1>42. \A x \in Object \ {thread[t].d} : LifeInv(x)'
  BY <1>34, <1>35, <1>36, <1>37, <1>38, <1>39, <1>40, <1>41, LifeApart
<1>43. ASSUME NEW x \in Object, x = thread[t].d
       PROVE  LifeInv(x)'
  <2>1. Flies(t, x) /\ Flies(t, x)'
    BY <1>43, <1>3, <1>34 DEF Flies, Doomed
  <2>2. ~Sole(t, x)'
    BY <1>43, <1>3, <1>34 DEF Sole
  <2> QED
    BY <1>34, <1>35, <1>36, <1>37, <1>38, <1>39, <2>1, <2>2, LifeFlies
<1>44. Life'
  BY <1>42, <1>43 DEF Life
<1>45. /\ \A w \in Thread \ {t} : thread'[w] = thread[w]
       /\ thread'[t].d = thread[t].d /\ thread'[t].frozen = thread[t].frozen /\ thread'[t].old = thread[t].old
  BY <1>4 DEF Goes
<1>46. \A x \in Object : UsersInv(x) /\ FrozenInv(x)
  BY <1>1 DEF Rest, RestInv
<1>47. \A x \in Object : object'[x].ever = object[x].ever /\ object'[x].freed = object[x].freed
  BY <1>2, <1>5
<1>48. \A x \in Object : data'[x].refs = data[x].refs
  BY <1>2, <1>6
<1>49. \A x \in Object : thread'[t].old = x <=> thread[t].old = x
  BY <1>2, <1>3, <1>45, RefsAssumption DEF ThreadInv, Placed, UnrefPlaces, SetPlaces,
       GetPlaces
<1>50. \A x \in Object : UsersInv(x)'
  BY <1>45, <1>46, <1>47, <1>48, <1>49, UsersKept
<1>51. \A x \in Object : UsersInv(x)'
  BY <1>50
<1>52. \A x \in Object : object'[x].freed = object[x].freed /\ object'[x].frozen = object[x].frozen
  BY <1>2, <1>5
<1>53. \A x \in Object : Freezes(t, x)' <=> Freezes(t, x)
  BY <1>2, <1>3, <1>45, RefsAssumption DEF Freezes, ThreadInv, Placed, UnrefPlaces, SetPlaces,
       GetPlaces
<1>54. \A x \in Object : FrozenInv(x)'
  BY <1>45, <1>46, <1>52, <1>53, FrozenKept
<1>55. \A x \in Object : FrozenInv(x)'
  BY <1>54
<1>56. Rest'
  BY <1>51, <1>55 DEF Rest, RestInv
<1> QED
  BY <1>13, <1>33, <1>32, <1>44, <1>56 DEF IInv

LEMMA StepCommitLost ==
  ASSUME IInv, NEW t \in Thread, Commit(t), Lost(t)
  PROVE  IInv'
<1>1. Base /\ ObjectLocks /\ DataLocks /\ WeakLocks /\ Lists /\ Life /\ Rest
  BY DEF IInv, Locks
<1>2. Types /\ ThreadInv(t) /\ HoldsInv(t) /\ thread[t] \in ThreadRecord /\ t # None
  BY <1>1, RefsAssumption DEF Base, Types
<1>3. /\ thread[t].at = "commit"
      /\ thread[t].ptr # None /\ thread[t].ptr # thread[t].old
  BY <1>1, DidCommitLost
<1>4. Goes(t, "release", thread[t].d, thread[t].mode, thread[t].frozen, thread[t].r,
                thread[t].new, thread[t].old, thread[t].ptr)
  BY <1>1, DidCommitLost
<1>5. object' = object
  BY <1>1, DidCommitLost
<1>6. /\ data' \in [Object -> DataType]
      /\ \A o \in Object : data'[o].refs = data[o].refs
      /\ \A o \in Object : data'[o].lock = IF o = thread[t].old \/ o = thread[t].new THEN None ELSE data[o].lock
      /\ \A o \in Object : data'[o].list = data[o].list
  BY <1>1, DidCommitLost
<1>7. SetsWeak(thread[t].r, weak[thread[t].r].ptr, None)
  BY <1>1, DidCommitLost
<1>8. holds' = holds
  BY <1>1, DidCommitLost
<1>9. thread[t].r \in Weak
  BY <1>2, <1>3 DEF ThreadInv, Placed, UnrefPlaces, SetPlaces, GetPlaces
<1>10. /\ object' \in [Object -> ObjectType] /\ data' \in [Object -> DataType]
       /\ weak' \in [Weak -> WeakRecord]
  BY <1>2, <1>5, <1>6, <1>7 DEF Types, SetsWeak
<1>11. Placed("release", thread[t].d, thread[t].mode, thread[t].frozen, thread[t].r,
                 thread[t].new, thread[t].old, thread[t].ptr)
  BY <1>2, <1>3, <1>9, RefsAssumption DEF ThreadInv, ThreadRecord, Placed, UnrefPlaces,
       SetPlaces, GetPlaces
<1>12. /\ thread[t].new # None => holds[t][thread[t].new] # 0 \/ thread[t].new = thread[t].d
       /\ "release" \in GetPlaces => \A k \in Object : holds[t][k] <= MaxHolds
  BY <1>2, <1>3 DEF HoldsInv, ThreadInv, Placed, UnrefPlaces, SetPlaces, GetPlaces
<1>13. Base'
  BY <1>1, <1>4, <1>8, <1>10, <1>11, <1>12, BaseKept
<1>14. \A k \in Object : object'[k].lock = object[k].lock /\ (object[k].ever => object'[k].ever)
  BY <1>2, <1>5
<1>15. ObjectLocks'
  BY <1>1, <1>3, <1>4, <1>14, ObjectLocksKept
<1>16. \A k \in Object : data[k].lock = t <=> HasData(t, k)
  BY <1>1 DEF DataLocks
<1>17. \A k \in Object : HasData(t, k) <=> (thread[t].old = k \/ thread[t].new = k)
  BY <1>3 DEF HasData
<1>18. \A k \in Object : HasData(t, k)' <=> FALSE
  BY <1>3, <1>4 DEF HasData, Goes
<1>19. \A k \in Object : \/ data'[k].lock = data[k].lock
                         \/ data[k].lock \in {None, t} /\ data'[k].lock \in {None, t}
  BY <1>3, <1>6, <1>16, <1>17
<1>20. \A k \in Object : data'[k].lock = t <=> HasData(t, k)'
  BY <1>2, <1>3, <1>6, <1>16, <1>17, <1>18, <1>9
<1>21. DataLocks'
  BY <1>1, <1>4, <1>19, <1>20, DataLocksStep
<1>22. \A k \in Weak : weak[k].lock = t <=> thread[t].r = k
  BY <1>1, <1>3 DEF WeakLocks, HasWeak, WeakLocked
<1>23. \A k \in Weak : \/ weak'[k] = weak[k]
                       \/ weak[k].lock \in {None, t} /\ weak'[k].lock \in {None, t}
  BY <1>3, <1>7, <1>22 DEF SetsWeak
<1>24. \A k \in Weak : weak'[k].lock # t
  BY <1>2, <1>7, <1>22, <1>9 DEF SetsWeak
<1>25. "release" \notin WeakLocked
  BY <1>3 DEF WeakLocked
<1>26. WeakLocks'
  BY <1>1, <1>4, <1>23, <1>24, <1>25, WeakLocksReleased
<1>27. thread[t].ptr = weak[thread[t].r].ptr
  BY <1>1, <1>3, <1>9 DEF WeakLocks, HasWeak, WeakLocked
<1>28. /\ thread[t].old \in Object => object'[thread[t].old].ever
       /\ thread[t].new \in Object /\ "release" # "create" => object'[thread[t].new].ever
  BY <1>1, <1>2, <1>3, <1>14, RefsAssumption DEF Lists, ThreadInv, Placed, UnrefPlaces,
       SetPlaces, GetPlaces
<1>29. /\ \A k \in Weak : weak'[k].ptr = weak[k].ptr
       /\ \A k \in Object : data'[k].list = data[k].list
  BY <1>2, <1>6, <1>7 DEF SetsWeak
<1>30. Lists'
  BY <1>1, <1>4, <1>14, <1>28, <1>29, ListsKept
<1>31. Locks'
  BY <1>15, <1>21, <1>26 DEF Locks
<1>32. /\ \A w \in Thread \ {t} : thread'[w] = thread[w]
       /\ thread'[t].at = "release" /\ thread'[t].d = thread[t].d /\ thread'[t].mode = thread[t].mode
  BY <1>4 DEF Goes
<1>33. Types /\ \A x \in Object : LifeInv(x) /\ CountInv(x)
  BY <1>1, <1>2 DEF Life, LifeInv
<1>34. \A x \in Object : object'[x].freed = object[x].freed
  BY <1>2, <1>5
<1>35. \A x \in Object : object'[x].refs = object[x].refs
  BY <1>2, <1>5
<1>36. \A x \in Object, v \in Thread : holds'[v][x] = holds[v][x]
  BY <1>8
<1>37. \A x \in Object : object[x].ever => object'[x].ever
  BY <1>14
<1>38. \A x \in Object, k \in Weak : weak'[k].ptr = x => weak[k].ptr = x \/ object[x].refs # 0
  BY <1>29
<1>39. \A x \in Object \ {thread[t].d} : thread[t].d # x /\ thread'[t].d # x
  BY <1>32
<1>40. \A x \in Object \ {thread[t].d} : LifeInv(x)'
  BY <1>32, <1>33, <1>34, <1>35, <1>36, <1>37, <1>38, <1>39, LifeApart
<1>41. ASSUME NEW x \in Object, x = thread[t].d
       PROVE  LifeInv(x)'
  <2>1. Flies(t, x) /\ Flies(t, x)'
    BY <1>41, <1>3, <1>32 DEF Flies, Doomed
  <2>2. ~Sole(t, x)'
    BY <1>41, <1>3, <1>32 DEF Sole
  <2> QED
    BY <1>32, <1>33, <1>34, <1>35, <1>36, <1>37, <2>1, <2>2, LifeFlies
<1>42. Life'
  BY <1>40, <1>41 DEF Life
<1>43. /\ \A w \in Thread \ {t} : thread'[w] = thread[w]
       /\ thread'[t].d = thread[t].d /\ thread'[t].frozen = thread[t].frozen /\ thread'[t].old = thread[t].old
  BY <1>4 DEF Goes
<1>44. \A x \in Object : UsersInv(x) /\ FrozenInv(x)
  BY <1>1 DEF Rest, RestInv
<1>45. \A x \in Object : object'[x].ever = object[x].ever /\ object'[x].freed = object[x].freed
  BY <1>2, <1>5
<1>46. \A x \in Object : data'[x].refs = data[x].refs
  BY <1>2, <1>6
<1>47. \A x \in Object : thread'[t].old = x <=> thread[t].old = x
  BY <1>2, <1>3, <1>43, RefsAssumption DEF ThreadInv, Placed, UnrefPlaces, SetPlaces,
       GetPlaces
<1>48. \A x \in Object : UsersInv(x)'
  BY <1>43, <1>44, <1>45, <1>46, <1>47, UsersKept
<1>49. \A x \in Object : UsersInv(x)'
  BY <1>48
<1>50. \A x \in Object : object'[x].freed = object[x].freed /\ object'[x].frozen = object[x].frozen
  BY <1>2, <1>5
<1>51. \A x \in Object : Freezes(t, x)' <=> Freezes(t, x)
  BY <1>2, <1>3, <1>43, RefsAssumption DEF Freezes, ThreadInv, Placed, UnrefPlaces, SetPlaces,
       GetPlaces
<1>52. \A x \in Object : FrozenInv(x)'
  BY <1>43, <1>44, <1>50, <1>51, FrozenKept
<1>53. \A x \in Object : FrozenInv(x)'
  BY <1>52
<1>54. Rest'
  BY <1>49, <1>53 DEF Rest, RestInv
<1> QED
  BY <1>13, <1>31, <1>30, <1>42, <1>54 DEF IInv

LEMMA StepCommitMoves ==
  ASSUME IInv, NEW t \in Thread, Commit(t), ~Lost(t)
  PROVE  IInv'
<1>1. Base /\ ObjectLocks /\ DataLocks /\ WeakLocks /\ Lists /\ Life /\ Rest
  BY DEF IInv, Locks
<1>2. Types /\ ThreadInv(t) /\ HoldsInv(t) /\ thread[t] \in ThreadRecord /\ t # None
  BY <1>1, RefsAssumption DEF Base, Types
<1>3. /\ thread[t].at = "commit"
      /\ (thread[t].ptr = None \/ thread[t].ptr = thread[t].old)
  BY <1>1, DidCommitMoves
<1>4. Goes(t, "release", thread[t].d, thread[t].mode, thread[t].frozen, thread[t].r,
                thread[t].new, thread[t].old, thread[t].ptr)
  BY <1>1, DidCommitMoves
<1>5. object' = object
  BY <1>1, DidCommitMoves
<1>6. /\ data' \in [Object -> DataType]
      /\ \A o \in Object : data'[o].refs = data[o].refs
      /\ \A o \in Object : data'[o].lock = IF o = thread[t].old \/ o = thread[t].new THEN None ELSE data[o].lock
      /\ \A o \in Object : data'[o].list = IF o = thread[t].new THEN data[o].list \cup {thread[t].r}
                                        ELSE IF o = thread[t].old THEN data[o].list \ {thread[t].r} ELSE data[o].list
  BY <1>1, DidCommitMoves
<1>7. SetsWeak(thread[t].r, thread[t].new, None)
  BY <1>1, DidCommitMoves
<1>8. holds' = holds
  BY <1>1, DidCommitMoves
<1>9. thread[t].r \in Weak
  BY <1>2, <1>3 DEF ThreadInv, Placed, UnrefPlaces, SetPlaces, GetPlaces
<1>10. /\ object' \in [Object -> ObjectType] /\ data' \in [Object -> DataType]
       /\ weak' \in [Weak -> WeakRecord]
  BY <1>2, <1>5, <1>6, <1>7 DEF Types, SetsWeak
<1>11. Placed("release", thread[t].d, thread[t].mode, thread[t].frozen, thread[t].r,
                 thread[t].new, thread[t].old, thread[t].ptr)
  BY <1>2, <1>3, <1>9, RefsAssumption DEF ThreadInv, ThreadRecord, Placed, UnrefPlaces,
       SetPlaces, GetPlaces
<1>12. /\ thread[t].new # None => holds[t][thread[t].new] # 0 \/ thread[t].new = thread[t].d
       /\ "release" \in GetPlaces => \A k \in Object : holds[t][k] <= MaxHolds
  BY <1>2, <1>3 DEF HoldsInv, ThreadInv, Placed, UnrefPlaces, SetPlaces, GetPlaces
<1>13. Base'
  BY <1>1, <1>4, <1>8, <1>10, <1>11, <1>12, BaseKept
<1>14. \A k \in Object : object'[k].lock = object[k].lock /\ (object[k].ever => object'[k].ever)
  BY <1>2, <1>5
<1>15. ObjectLocks'
  BY <1>1, <1>3, <1>4, <1>14, ObjectLocksKept
<1>16. \A k \in Object : data[k].lock = t <=> HasData(t, k)
  BY <1>1 DEF DataLocks
<1>17. \A k \in Object : HasData(t, k) <=> (thread[t].old = k \/ thread[t].new = k)
  BY <1>3 DEF HasData
<1>18. \A k \in Object : HasData(t, k)' <=> FALSE
  BY <1>3, <1>4 DEF HasData, Goes
<1>19. \A k \in Object : \/ data'[k].lock = data[k].lock
                         \/ data[k].lock \in {None, t} /\ data'[k].lock \in {None, t}
  BY <1>3, <1>6, <1>16, <1>17
<1>20. \A k \in Object : data'[k].lock = t <=> HasData(t, k)'
  BY <1>2, <1>3, <1>6, <1>16, <1>17, <1>18, <1>9
<1>21. DataLocks'
  BY <1>1, <1>4, <1>19, <1>20, DataLocksStep
<1>22. \A k \in Weak : weak[k].lock = t <=> thread[t].r = k
  BY <1>1, <1>3 DEF WeakLocks, HasWeak, WeakLocked
<1>23. \A k \in Weak : \/ weak'[k] = weak[k]
                       \/ weak[k].lock \in {None, t} /\ weak'[k].lock \in {None, t}
  BY <1>3, <1>7, <1>22 DEF SetsWeak
<1>24. \A k \in Weak : weak'[k].lock # t
  BY <1>2, <1>7, <1>22, <1>9 DEF SetsWeak
<1>25. "release" \notin WeakLocked
  BY <1>3 DEF WeakLocked
<1>26. WeakLocks'
  BY <1>1, <1>4, <1>23, <1>24, <1>25, WeakLocksReleased
<1>27. thread[t].ptr = weak[thread[t].r].ptr
  BY <1>1, <1>3, <1>9 DEF WeakLocks, HasWeak, WeakLocked
<1>28. /\ thread[t].old \in Object => object'[thread[t].old].ever
       /\ thread[t].new \in Object /\ "release" # "create" => object'[thread[t].new].ever
  BY <1>1, <1>2, <1>3, <1>14, RefsAssumption DEF Lists, ThreadInv, Placed, UnrefPlaces,
       SetPlaces, GetPlaces
<1>29. \A k \in Weak, o \in Object : weak'[k].ptr = o <=> k \in data'[o].list
  <2> SUFFICES ASSUME NEW k \in Weak, NEW o \in Object
               PROVE  weak'[k].ptr = o <=> k \in data'[o].list
    OBVIOUS
  <2>1. (weak[k].ptr = o <=> k \in data[o].list) /\ o # None /\ thread[t].old # thread[t].new
    BY <1>1, <1>2, <1>3, RefsAssumption DEF Lists, ThreadInv, Placed
  <2>2. CASE k = thread[t].r
    <3>1. weak'[k].ptr = thread[t].new
      BY <1>7, <2>2 DEF SetsWeak
    <3>2. CASE o = thread[t].new
      BY <1>6, <2>2, <3>1, <3>2
    <3>3. CASE o = thread[t].old
      BY <1>6, <2>1, <2>2, <3>1, <3>3
    <3>4. CASE o # thread[t].new /\ o # thread[t].old
      <4>1. weak[k].ptr # o
        BY <1>3, <1>27, <2>1, <2>2, <3>4
      <4> QED
        BY <1>6, <2>1, <3>1, <3>4, <4>1
    <3> QED
      BY <3>2, <3>3, <3>4
  <2>3. CASE k # thread[t].r
    <3>1. weak'[k] = weak[k]
      BY <1>7, <2>3 DEF SetsWeak
    <3>2. k \in data'[o].list <=> k \in data[o].list
      BY <1>6, <2>3
    <3> QED
      BY <2>1, <3>1, <3>2
  <2> QED
    BY <2>2, <2>3
<1>30. \A k \in Weak, o \in Object : weak'[k].ptr = o => object'[o].ever
  BY <1>1, <1>3, <1>9, <1>7, <1>14, RefsAssumption DEF Lists, SetsWeak
<1>31. Lists'
  BY <1>1, <1>4, <1>14, <1>28, <1>29, <1>30, ListsStep
<1>32. Locks'
  BY <1>15, <1>21, <1>26 DEF Locks
<1>33. /\ \A w \in Thread \ {t} : thread'[w] = thread[w]
       /\ thread'[t].at = "release" /\ thread'[t].d = thread[t].d /\ thread'[t].mode = thread[t].mode
  BY <1>4 DEF Goes
<1>34. Types /\ \A x \in Object : LifeInv(x) /\ CountInv(x)
  BY <1>1, <1>2 DEF Life, LifeInv
<1>35. \A x \in Object : object'[x].freed = object[x].freed
  BY <1>2, <1>5
<1>36. \A x \in Object : object'[x].refs = object[x].refs
  BY <1>2, <1>5
<1>37. \A x \in Object, v \in Thread : holds'[v][x] = holds[v][x]
  BY <1>8
<1>38. \A x \in Object : object[x].ever => object'[x].ever
  BY <1>14
<1>39. thread[t].new \in Object => object[thread[t].new].refs # 0
  <2> SUFFICES ASSUME thread[t].new \in Object
               PROVE  object[thread[t].new].refs # 0
    OBVIOUS
  <2>1. CASE holds[t][thread[t].new] # 0
    BY <1>34, <2>1, HolderCounts
  <2>2. CASE thread[t].new = thread[t].d
    <3>1. Flies(t, thread[t].new)
      BY <1>3, <2>2 DEF Flies, Doomed
    <3> QED
      BY <1>34, <3>1, FlierCounts
  <2> QED
    BY <1>2, <2>1, <2>2, RefsAssumption DEF HoldsInv
<1>40. \A x \in Object, k \in Weak : weak'[k].ptr = x => weak[k].ptr = x \/ object[x].refs # 0
  BY <1>7, <1>39 DEF SetsWeak
<1>41. \A x \in Object \ {thread[t].d} : thread[t].d # x /\ thread'[t].d # x
  BY <1>33
<1>42. \A x \in Object \ {thread[t].d} : LifeInv(x)'
  BY <1>33, <1>34, <1>35, <1>36, <1>37, <1>38, <1>40, <1>41, LifeApart
<1>43. ASSUME NEW x \in Object, x = thread[t].d
       PROVE  LifeInv(x)'
  <2>1. Flies(t, x) /\ Flies(t, x)'
    BY <1>43, <1>3, <1>33 DEF Flies, Doomed
  <2>2. ~Sole(t, x)'
    BY <1>43, <1>3, <1>33 DEF Sole
  <2> QED
    BY <1>33, <1>34, <1>35, <1>36, <1>37, <1>38, <2>1, <2>2, LifeFlies
<1>44. Life'
  BY <1>42, <1>43 DEF Life
<1>45. /\ \A w \in Thread \ {t} : thread'[w] = thread[w]
       /\ thread'[t].d = thread[t].d /\ thread'[t].frozen = thread[t].frozen /\ thread'[t].old = thread[t].old
  BY <1>4 DEF Goes
<1>46. \A x \in Object : UsersInv(x) /\ FrozenInv(x)
  BY <1>1 DEF Rest, RestInv
<1>47. \A x \in Object : object'[x].ever = object[x].ever /\ object'[x].freed = object[x].freed
  BY <1>2, <1>5
<1>48. \A x \in Object : data'[x].refs = data[x].refs
  BY <1>2, <1>6
<1>49. \A x \in Object : thread'[t].old = x <=> thread[t].old = x
  BY <1>2, <1>3, <1>45, RefsAssumption DEF ThreadInv, Placed, UnrefPlaces, SetPlaces,
       GetPlaces
<1>50. \A x \in Object : UsersInv(x)'
  BY <1>45, <1>46, <1>47, <1>48, <1>49, UsersKept
<1>51. \A x \in Object : UsersInv(x)'
  BY <1>50
<1>52. \A x \in Object : object'[x].freed = object[x].freed /\ object'[x].frozen = object[x].frozen
  BY <1>2, <1>5
<1>53. \A x \in Object : Freezes(t, x)' <=> Freezes(t, x)
  BY <1>2, <1>3, <1>45, RefsAssumption DEF Freezes, ThreadInv, Placed, UnrefPlaces, SetPlaces,
       GetPlaces
<1>54. \A x \in Object : FrozenInv(x)'
  BY <1>45, <1>46, <1>52, <1>53, FrozenKept
<1>55. \A x \in Object : FrozenInv(x)'
  BY <1>54
<1>56. Rest'
  BY <1>51, <1>55 DEF Rest, RestInv
<1> QED
  BY <1>13, <1>32, <1>31, <1>44, <1>56 DEF IInv

LEMMA StepReleaseIdle ==
  ASSUME IInv, NEW t \in Thread, Release(t), thread[t].d = None
  PROVE  IInv'
<1>1. Base /\ ObjectLocks /\ DataLocks /\ WeakLocks /\ Lists /\ Life /\ Rest
  BY DEF IInv, Locks
<1>2. Types /\ ThreadInv(t) /\ HoldsInv(t) /\ thread[t] \in ThreadRecord /\ t # None
  BY <1>1, RefsAssumption DEF Base, Types
<1>3. /\ thread[t].at = "release"
      /\ thread[t].d = None
  BY <1>1, DidReleaseIdle
<1>4. Goes(t, "idle", None, "check", FALSE, None, None, None, None)
  BY <1>1, DidReleaseIdle
<1>5. object' = object
  BY <1>1, DidReleaseIdle
<1>6. SetsData(thread[t].old, data[thread[t].old].refs - 1, data[thread[t].old].lock, data[thread[t].old].list)
  BY <1>1, DidReleaseIdle
<1>7. weak' = weak
  BY <1>1, DidReleaseIdle
<1>8. holds' = holds
  BY <1>1, DidReleaseIdle
<1>9. thread[t].r \in Weak
  BY <1>2, <1>3 DEF ThreadInv, Placed, UnrefPlaces, SetPlaces, GetPlaces
<1>10. /\ object' \in [Object -> ObjectType] /\ data' \in [Object -> DataType]
       /\ weak' \in [Weak -> WeakRecord]
  BY <1>2, <1>5, <1>6, <1>7 DEF Types, SetsData
<1>11. Placed("idle", None, "check", FALSE, None, None, None, None)
  BY <1>2, <1>3, <1>9, RefsAssumption DEF ThreadInv, ThreadRecord, Placed, UnrefPlaces,
       SetPlaces, GetPlaces
<1>12. /\ None # None => holds[t][None] # 0 \/ None = None
       /\ "idle" \in GetPlaces => \A k \in Object : holds[t][k] <= MaxHolds
  BY <1>2, <1>3 DEF HoldsInv, ThreadInv, Placed, UnrefPlaces, SetPlaces, GetPlaces
<1>13. Base'
  BY <1>1, <1>4, <1>8, <1>10, <1>11, <1>12, BaseKept
<1>14. \A k \in Object : object'[k].lock = object[k].lock /\ (object[k].ever => object'[k].ever)
  BY <1>2, <1>5
<1>15. ObjectLocks'
  BY <1>1, <1>3, <1>4, <1>14, ObjectLocksKept
<1>16. \A k \in Object : data'[k].lock = data[k].lock
  BY <1>2, <1>6 DEF SetsData, Types
<1>17. thread[t].at \notin DataLocked /\ "idle" \notin DataLocked
  BY <1>3 DEF DataLocked
<1>18. DataLocks'
  BY <1>1, <1>4, <1>16, <1>17, DataLocksKept
<1>19. thread[t].at \notin WeakLocked /\ "idle" \notin WeakLocked
  BY <1>3 DEF WeakLocked
<1>20. WeakLocks'
  BY <1>1, <1>4, <1>7, <1>19, WeakLocksKept
<1>21. /\ None \in Object => object'[None].ever
       /\ None \in Object /\ "idle" # "create" => object'[None].ever
  BY <1>1, <1>2, <1>3, <1>14, RefsAssumption DEF Lists, ThreadInv, Placed, UnrefPlaces,
       SetPlaces, GetPlaces
<1>22. /\ \A k \in Weak : weak'[k].ptr = weak[k].ptr
       /\ \A k \in Object : data'[k].list = data[k].list
  BY <1>2, <1>6, <1>7 DEF SetsData
<1>23. Lists'
  BY <1>1, <1>4, <1>14, <1>21, <1>22, ListsKept
<1>24. Locks'
  BY <1>15, <1>18, <1>20 DEF Locks
<1>25. /\ \A w \in Thread \ {t} : thread'[w] = thread[w]
       /\ thread'[t].at = "idle" /\ thread'[t].d = None /\ thread'[t].mode = "check"
  BY <1>4 DEF Goes
<1>26. Types /\ \A x \in Object : LifeInv(x) /\ CountInv(x)
  BY <1>1, <1>2 DEF Life, LifeInv
<1>27. \A x \in Object : object'[x].freed = object[x].freed
  BY <1>2, <1>5
<1>28. \A x \in Object : object'[x].refs = object[x].refs
  BY <1>2, <1>5
<1>29. \A x \in Object, v \in Thread : holds'[v][x] = holds[v][x]
  BY <1>8
<1>30. \A x \in Object : object[x].ever => object'[x].ever
  BY <1>14
<1>31. \A x \in Object, k \in Weak : weak'[k].ptr = x => weak[k].ptr = x \/ object[x].refs # 0
  BY <1>22
<1>32. thread[t].d = None /\ thread'[t].d = None
  BY <1>2, <1>3, <1>25 DEF ThreadInv, Placed, UnrefPlaces, SetPlaces, GetPlaces
<1>33. \A x \in Object : thread[t].d # x /\ thread'[t].d # x
  BY <1>32, RefsAssumption
<1>34. Life'
  BY <1>25, <1>26, <1>27, <1>28, <1>29, <1>30, <1>31, <1>33, LifeApart DEF Life
<1>35. /\ \A w \in Thread \ {t} : thread'[w] = thread[w]
       /\ thread'[t].d = None /\ thread'[t].frozen = FALSE /\ thread'[t].old = None
  BY <1>4 DEF Goes
<1>36. \A x \in Object : UsersInv(x) /\ FrozenInv(x)
  BY <1>1 DEF Rest, RestInv
<1>37. \A x \in Object : object'[x].ever = object[x].ever /\ object'[x].freed = object[x].freed
  BY <1>2, <1>5
<1>38. \A x \in Object \ {thread[t].old} : data'[x].refs = data[x].refs
  BY <1>2, <1>6 DEF SetsData
<1>39. \A x \in Object \ {thread[t].old} : thread'[t].old = x <=> thread[t].old = x
  BY <1>2, <1>3, <1>35, RefsAssumption DEF ThreadInv, Placed, UnrefPlaces, SetPlaces,
       GetPlaces
<1>40. \A x \in Object \ {thread[t].old} : UsersInv(x)'
  BY <1>35, <1>36, <1>37, <1>38, <1>39, UsersKept
<1>41. ASSUME NEW x \in Object, x = thread[t].old
       PROVE  UsersInv(x)'
  <2>1. thread[t].old = x /\ thread'[t].old # x
    BY <1>41, <1>2, <1>3, <1>35, RefsAssumption DEF ThreadInv, Placed, UnrefPlaces, SetPlaces, GetPlaces
  <2>2. data'[x].refs = data[x].refs - 1
    BY <1>41, <1>3, <1>6 DEF SetsData
  <2> QED
    BY <1>35, <1>36, <1>37, <2>1, <2>2, UsersLess
<1>42. \A x \in Object : UsersInv(x)'
  BY <1>40, <1>41
<1>43. \A x \in Object : object'[x].freed = object[x].freed /\ object'[x].frozen = object[x].frozen
  BY <1>2, <1>5
<1>44. \A x \in Object : Freezes(t, x)' <=> Freezes(t, x)
  BY <1>2, <1>3, <1>35, RefsAssumption DEF Freezes, ThreadInv, Placed, UnrefPlaces, SetPlaces,
       GetPlaces
<1>45. \A x \in Object : FrozenInv(x)'
  BY <1>35, <1>36, <1>43, <1>44, FrozenKept
<1>46. \A x \in Object : FrozenInv(x)'
  BY <1>45
<1>47. Rest'
  BY <1>42, <1>46 DEF Rest, RestInv
<1> QED
  BY <1>13, <1>24, <1>23, <1>34, <1>47 DEF IInv

LEMMA StepReleaseDispose ==
  ASSUME IInv, NEW t \in Thread, Release(t), thread[t].d # None
  PROVE  IInv'
<1>1. Base /\ ObjectLocks /\ DataLocks /\ WeakLocks /\ Lists /\ Life /\ Rest
  BY DEF IInv, Locks
<1>2. Types /\ ThreadInv(t) /\ HoldsInv(t) /\ thread[t] \in ThreadRecord /\ t # None
  BY <1>1, RefsAssumption DEF Base, Types
<1>3. /\ thread[t].at = "release"
      /\ thread[t].d # None
  BY <1>1, DidReleaseDispose
<1>4. Goes(t, "dispose", thread[t].d, thread[t].mode, thread[t].frozen, None, None, None, None)
  BY <1>1, DidReleaseDispose
<1>5. object' = object
  BY <1>1, DidReleaseDispose
<1>6. SetsData(thread[t].old, data[thread[t].old].refs - 1, data[thread[t].old].lock, data[thread[t].old].list)
  BY <1>1, DidReleaseDispose
<1>7. weak' = weak
  BY <1>1, DidReleaseDispose
<1>8. holds' = holds
  BY <1>1, DidReleaseDispose
<1>9. thread[t].r \in Weak
  BY <1>2, <1>3 DEF ThreadInv, Placed, UnrefPlaces, SetPlaces, GetPlaces
<1>10. /\ object' \in [Object -> ObjectType] /\ data' \in [Object -> DataType]
       /\ weak' \in [Weak -> WeakRecord]
  BY <1>2, <1>5, <1>6, <1>7 DEF Types, SetsData
<1>11. Placed("dispose", thread[t].d, thread[t].mode, thread[t].frozen, None, None, None, None)
  BY <1>2, <1>3, <1>9, RefsAssumption DEF ThreadInv, ThreadRecord, Placed, UnrefPlaces,
       SetPlaces, GetPlaces
<1>12. /\ None # None => holds[t][None] # 0 \/ None = thread[t].d
       /\ "dispose" \in GetPlaces => \A k \in Object : holds[t][k] <= MaxHolds
  BY <1>2, <1>3 DEF HoldsInv, ThreadInv, Placed, UnrefPlaces, SetPlaces, GetPlaces
<1>13. Base'
  BY <1>1, <1>4, <1>8, <1>10, <1>11, <1>12, BaseKept
<1>14. \A k \in Object : object'[k].lock = object[k].lock /\ (object[k].ever => object'[k].ever)
  BY <1>2, <1>5
<1>15. ObjectLocks'
  BY <1>1, <1>3, <1>4, <1>14, ObjectLocksKept
<1>16. \A k \in Object : data'[k].lock = data[k].lock
  BY <1>2, <1>6 DEF SetsData, Types
<1>17. thread[t].at \notin DataLocked /\ "dispose" \notin DataLocked
  BY <1>3 DEF DataLocked
<1>18. DataLocks'
  BY <1>1, <1>4, <1>16, <1>17, DataLocksKept
<1>19. thread[t].at \notin WeakLocked /\ "dispose" \notin WeakLocked
  BY <1>3 DEF WeakLocked
<1>20. WeakLocks'
  BY <1>1, <1>4, <1>7, <1>19, WeakLocksKept
<1>21. /\ None \in Object => object'[None].ever
       /\ None \in Object /\ "dispose" # "create" => object'[None].ever
  BY <1>1, <1>2, <1>3, <1>14, RefsAssumption DEF Lists, ThreadInv, Placed, UnrefPlaces,
       SetPlaces, GetPlaces
<1>22. /\ \A k \in Weak : weak'[k].ptr = weak[k].ptr
       /\ \A k \in Object : data'[k].list = data[k].list
  BY <1>2, <1>6, <1>7 DEF SetsData
<1>23. Lists'
  BY <1>1, <1>4, <1>14, <1>21, <1>22, ListsKept
<1>24. Locks'
  BY <1>15, <1>18, <1>20 DEF Locks
<1>25. /\ \A w \in Thread \ {t} : thread'[w] = thread[w]
       /\ thread'[t].at = "dispose" /\ thread'[t].d = thread[t].d /\ thread'[t].mode = thread[t].mode
  BY <1>4 DEF Goes
<1>26. Types /\ \A x \in Object : LifeInv(x) /\ CountInv(x)
  BY <1>1, <1>2 DEF Life, LifeInv
<1>27. \A x \in Object : object'[x].freed = object[x].freed
  BY <1>2, <1>5
<1>28. \A x \in Object : object'[x].refs = object[x].refs
  BY <1>2, <1>5
<1>29. \A x \in Object, v \in Thread : holds'[v][x] = holds[v][x]
  BY <1>8
<1>30. \A x \in Object : object[x].ever => object'[x].ever
  BY <1>14
<1>31. \A x \in Object, k \in Weak : weak'[k].ptr = x => weak[k].ptr = x \/ object[x].refs # 0
  BY <1>22
<1>32. \A x \in Object \ {thread[t].d} : thread[t].d # x /\ thread'[t].d # x
  BY <1>25
<1>33. \A x \in Object \ {thread[t].d} : LifeInv(x)'
  BY <1>25, <1>26, <1>27, <1>28, <1>29, <1>30, <1>31, <1>32, LifeApart
<1>34. ASSUME NEW x \in Object, x = thread[t].d
       PROVE  LifeInv(x)'
  <2>1. Flies(t, x) /\ Flies(t, x)'
    BY <1>34, <1>3, <1>25 DEF Flies, Doomed
  <2>2. ~Sole(t, x)'
    BY <1>34, <1>3, <1>25 DEF Sole
  <2> QED
    BY <1>25, <1>26, <1>27, <1>28, <1>29, <1>30, <2>1, <2>2, LifeFlies
<1>35. Life'
  BY <1>33, <1>34 DEF Life
<1>36. /\ \A w \in Thread \ {t} : thread'[w] = thread[w]
       /\ thread'[t].d = thread[t].d /\ thread'[t].frozen = thread[t].frozen /\ thread'[t].old = None
  BY <1>4 DEF Goes
<1>37. \A x \in Object : UsersInv(x) /\ FrozenInv(x)
  BY <1>1 DEF Rest, RestInv
<1>38. \A x \in Object : object'[x].ever = object[x].ever /\ object'[x].freed = object[x].freed
  BY <1>2, <1>5
<1>39. \A x \in Object \ {thread[t].old} : data'[x].refs = data[x].refs
  BY <1>2, <1>6 DEF SetsData
<1>40. \A x \in Object \ {thread[t].old} : thread'[t].old = x <=> thread[t].old = x
  BY <1>2, <1>3, <1>36, RefsAssumption DEF ThreadInv, Placed, UnrefPlaces, SetPlaces,
       GetPlaces
<1>41. \A x \in Object \ {thread[t].old} : UsersInv(x)'
  BY <1>36, <1>37, <1>38, <1>39, <1>40, UsersKept
<1>42. ASSUME NEW x \in Object, x = thread[t].old
       PROVE  UsersInv(x)'
  <2>1. thread[t].old = x /\ thread'[t].old # x
    BY <1>42, <1>2, <1>3, <1>36, RefsAssumption DEF ThreadInv, Placed, UnrefPlaces, SetPlaces, GetPlaces
  <2>2. data'[x].refs = data[x].refs - 1
    BY <1>42, <1>3, <1>6 DEF SetsData
  <2> QED
    BY <1>36, <1>37, <1>38, <2>1, <2>2, UsersLess
<1>43. \A x \in Object : UsersInv(x)'
  BY <1>41, <1>42
<1>44. \A x \in Object : object'[x].freed = object[x].freed /\ object'[x].frozen = object[x].frozen
  BY <1>2, <1>5
<1>45. \A x \in Object : Freezes(t, x)' <=> Freezes(t, x)
  BY <1>2, <1>3, <1>36, RefsAssumption DEF Freezes, ThreadInv, Placed, UnrefPlaces, SetPlaces,
       GetPlaces
<1>46. \A x \in Object : FrozenInv(x)'
  BY <1>36, <1>37, <1>44, <1>45, FrozenKept
<1>47. \A x \in Object : FrozenInv(x)'
  BY <1>46
<1>48. Rest'
  BY <1>43, <1>47 DEF Rest, RestInv
<1> QED
  BY <1>13, <1>24, <1>23, <1>35, <1>48 DEF IInv

LEMMA StepWeakRefGet ==
  ASSUME IInv, NEW t \in Thread, NEW r \in Weak, WeakRefGet(t, r)
  PROVE  IInv'
<1>1. Base /\ ObjectLocks /\ DataLocks /\ WeakLocks /\ Lists /\ Life /\ Rest
  BY DEF IInv, Locks
<1>2. Types /\ ThreadInv(t) /\ HoldsInv(t) /\ thread[t] \in ThreadRecord /\ t # None
  BY <1>1, RefsAssumption DEF Base, Types
<1>3. /\ thread[t].at = "idle"
      /\ weak[r].lock = None /\ \A o \in Object : holds[t][o] <= MaxHolds
  BY <1>1, DidWeakRefGet
<1>4. Goes(t, "get reference", thread[t].d, thread[t].mode, thread[t].frozen, r,
                thread[t].new, thread[t].old, weak[r].ptr)
  BY <1>1, DidWeakRefGet
<1> DEFINE read == weak[r].ptr
<1>5. Goes(t, "get reference", thread[t].d, thread[t].mode, thread[t].frozen, r, thread[t].new, thread[t].old, read)
  BY <1>4
<1>6. read = weak[r].ptr
  OBVIOUS
<1> HIDE DEF read
<1>7. object' = object
  BY <1>1, DidWeakRefGet
<1>8. data' = data
  BY <1>1, DidWeakRefGet
<1>9. SetsWeak(r, weak[r].ptr, t)
  BY <1>1, DidWeakRefGet
<1>10. holds' = holds
  BY <1>1, DidWeakRefGet
<1>11. /\ object' \in [Object -> ObjectType] /\ data' \in [Object -> DataType]
       /\ weak' \in [Weak -> WeakRecord]
  BY <1>2, <1>7, <1>8, <1>9 DEF Types, SetsWeak
<1>12. Placed("get reference", thread[t].d, thread[t].mode, thread[t].frozen, r, thread[t].new,
                 thread[t].old, read)
  BY <1>2, <1>3, RefsAssumption DEF ThreadInv, ThreadRecord, Placed, UnrefPlaces, SetPlaces,
       GetPlaces
<1>13. /\ thread[t].new # None => holds[t][thread[t].new] # 0 \/ thread[t].new = thread[t].d
       /\ "get reference" \in GetPlaces => \A k \in Object : holds[t][k] <= MaxHolds
  BY <1>2, <1>3 DEF HoldsInv, ThreadInv, Placed, UnrefPlaces, SetPlaces, GetPlaces
<1>14. Base'
  BY <1>1, <1>5, <1>10, <1>11, <1>12, <1>13, BaseKept
<1>15. \A k \in Object : object'[k].lock = object[k].lock /\ (object[k].ever => object'[k].ever)
  BY <1>2, <1>7
<1>16. ObjectLocks'
  BY <1>1, <1>3, <1>5, <1>15, ObjectLocksKept
<1>17. \A k \in Object : data'[k].lock = data[k].lock
  BY <1>2, <1>8
<1>18. thread[t].at \notin DataLocked /\ "get reference" \notin DataLocked
  BY <1>3 DEF DataLocked
<1>19. DataLocks'
  BY <1>1, <1>5, <1>17, <1>18, DataLocksKept
<1>20. \A k \in Weak : weak[k].lock = t <=> FALSE
  BY <1>1, <1>3 DEF WeakLocks, HasWeak, WeakLocked
<1>21. \A k \in Weak : \/ weak'[k] = weak[k]
                       \/ weak[k].lock \in {None, t} /\ weak'[k].lock \in {None, t}
  BY <1>3, <1>9, <1>20 DEF SetsWeak
<1>22. \A k \in Weak : weak'[k].lock = t <=> r = k
  BY <1>9, <1>20 DEF SetsWeak
<1>23. "get reference" \in WeakLocked /\ read = weak'[r].ptr
  BY <1>3, <1>9, <1>6 DEF SetsWeak, WeakLocked
<1>24. /\ \A u \in Thread \ {t} : thread'[u] = thread[u]
       /\ thread'[t].at \in WeakLocked /\ thread'[t].r = r /\ thread'[t].ptr = weak'[r].ptr
  BY <1>5, <1>23 DEF Goes
<1>25. \A k \in Weak : weak'[k].lock = t <=> thread'[t].r = k
  BY <1>22, <1>24
<1>26. WeakLocks'
  BY <1>1, <1>21, <1>24, <1>25, WeakLocksTaken
<1>27. /\ thread[t].old \in Object => object'[thread[t].old].ever
       /\ thread[t].new \in Object /\ "get reference" # "create" => object'[thread[t].new].ever
  BY <1>1, <1>2, <1>3, <1>15, RefsAssumption DEF Lists, ThreadInv, Placed, UnrefPlaces,
       SetPlaces, GetPlaces
<1>28. /\ \A k \in Weak : weak'[k].ptr = weak[k].ptr
       /\ \A k \in Object : data'[k].list = data[k].list
  BY <1>2, <1>8, <1>9 DEF SetsWeak
<1>29. Lists'
  BY <1>1, <1>5, <1>15, <1>27, <1>28, ListsKept
<1>30. Locks'
  BY <1>16, <1>19, <1>26 DEF Locks
<1>31. /\ \A w \in Thread \ {t} : thread'[w] = thread[w]
       /\ thread'[t].at = "get reference" /\ thread'[t].d = thread[t].d /\ thread'[t].mode = thread[t].mode
  BY <1>5 DEF Goes
<1>32. Types /\ \A x \in Object : LifeInv(x) /\ CountInv(x)
  BY <1>1, <1>2 DEF Life, LifeInv
<1>33. \A x \in Object : object'[x].freed = object[x].freed
  BY <1>2, <1>7
<1>34. \A x \in Object : object'[x].refs = object[x].refs
  BY <1>2, <1>7
<1>35. \A x \in Object, v \in Thread : holds'[v][x] = holds[v][x]
  BY <1>10
<1>36. \A x \in Object : object[x].ever => object'[x].ever
  BY <1>15
<1>37. \A x \in Object, k \in Weak : weak'[k].ptr = x => weak[k].ptr = x \/ object[x].refs # 0
  BY <1>28
<1>38. thread[t].d = None /\ thread'[t].d = None
  BY <1>2, <1>3, <1>31 DEF ThreadInv, Placed, UnrefPlaces, SetPlaces, GetPlaces
<1>39. \A x \in Object : thread[t].d # x /\ thread'[t].d # x
  BY <1>38, RefsAssumption
<1>40. Life'
  BY <1>31, <1>32, <1>33, <1>34, <1>35, <1>36, <1>37, <1>39, LifeApart DEF Life
<1>41. /\ \A w \in Thread \ {t} : thread'[w] = thread[w]
       /\ thread'[t].d = thread[t].d /\ thread'[t].frozen = thread[t].frozen /\ thread'[t].old = thread[t].old
  BY <1>5 DEF Goes
<1>42. \A x \in Object : UsersInv(x) /\ FrozenInv(x)
  BY <1>1 DEF Rest, RestInv
<1>43. \A x \in Object : object'[x].ever = object[x].ever /\ object'[x].freed = object[x].freed
  BY <1>2, <1>7
<1>44. \A x \in Object : data'[x].refs = data[x].refs
  BY <1>2, <1>8
<1>45. \A x \in Object : thread'[t].old = x <=> thread[t].old = x
  BY <1>2, <1>3, <1>41, RefsAssumption DEF ThreadInv, Placed, UnrefPlaces, SetPlaces,
       GetPlaces
<1>46. \A x \in Object : UsersInv(x)'
  BY <1>41, <1>42, <1>43, <1>44, <1>45, UsersKept
<1>47. \A x \in Object : UsersInv(x)'
  BY <1>46
<1>48. \A x \in Object : object'[x].freed = object[x].freed /\ object'[x].frozen = object[x].frozen
  BY <1>2, <1>7
<1>49. \A x \in Object : Freezes(t, x)' <=> Freezes(t, x)
  BY <1>2, <1>3, <1>41, RefsAssumption DEF Freezes, ThreadInv, Placed, UnrefPlaces, SetPlaces,
       GetPlaces
<1>50. \A x \in Object : FrozenInv(x)'
  BY <1>41, <1>42, <1>48, <1>49, FrozenKept
<1>51. \A x \in Object : FrozenInv(x)'
  BY <1>50
<1>52. Rest'
  BY <1>47, <1>51 DEF Rest, RestInv
<1> QED
  BY <1>14, <1>30, <1>29, <1>40, <1>52 DEF IInv

LEMMA StepGetReferenceNone ==
  ASSUME IInv, NEW t \in Thread, GetReference(t), thread[t].ptr = None
  PROVE  IInv'
<1>1. Base /\ ObjectLocks /\ DataLocks /\ WeakLocks /\ Lists /\ Life /\ Rest
  BY DEF IInv, Locks
<1>2. Types /\ ThreadInv(t) /\ HoldsInv(t) /\ thread[t] \in ThreadRecord /\ t # None
  BY <1>1, RefsAssumption DEF Base, Types
<1>3. thread[t].at = "get reference"
  BY <1>1, DidGetReferenceNone
<1>4. Goes(t, "idle", None, "check", FALSE, None, None, None, None)
  BY <1>1, DidGetReferenceNone
<1>5. object' = object
  BY <1>1, DidGetReferenceNone
<1>6. data' = data
  BY <1>1, DidGetReferenceNone
<1>7. SetsWeak(thread[t].r, weak[thread[t].r].ptr, None)
  BY <1>1, DidGetReferenceNone
<1>8. holds' = holds
  BY <1>1, DidGetReferenceNone
<1>9. thread[t].r \in Weak
  BY <1>2, <1>3 DEF ThreadInv, Placed, UnrefPlaces, SetPlaces, GetPlaces
<1>10. /\ object' \in [Object -> ObjectType] /\ data' \in [Object -> DataType]
       /\ weak' \in [Weak -> WeakRecord]
  BY <1>2, <1>5, <1>6, <1>7 DEF Types, SetsWeak
<1>11. Placed("idle", None, "check", FALSE, None, None, None, None)
  BY <1>2, <1>3, <1>9, RefsAssumption DEF ThreadInv, ThreadRecord, Placed, UnrefPlaces,
       SetPlaces, GetPlaces
<1>12. /\ None # None => holds[t][None] # 0 \/ None = None
       /\ "idle" \in GetPlaces => \A k \in Object : holds[t][k] <= MaxHolds
  BY <1>2, <1>3 DEF HoldsInv, ThreadInv, Placed, UnrefPlaces, SetPlaces, GetPlaces
<1>13. Base'
  BY <1>1, <1>4, <1>8, <1>10, <1>11, <1>12, BaseKept
<1>14. \A k \in Object : object'[k].lock = object[k].lock /\ (object[k].ever => object'[k].ever)
  BY <1>2, <1>5
<1>15. ObjectLocks'
  BY <1>1, <1>3, <1>4, <1>14, ObjectLocksKept
<1>16. \A k \in Object : data'[k].lock = data[k].lock
  BY <1>2, <1>6
<1>17. thread[t].at \notin DataLocked /\ "idle" \notin DataLocked
  BY <1>3 DEF DataLocked
<1>18. DataLocks'
  BY <1>1, <1>4, <1>16, <1>17, DataLocksKept
<1>19. \A k \in Weak : weak[k].lock = t <=> thread[t].r = k
  BY <1>1, <1>3 DEF WeakLocks, HasWeak, WeakLocked
<1>20. \A k \in Weak : \/ weak'[k] = weak[k]
                       \/ weak[k].lock \in {None, t} /\ weak'[k].lock \in {None, t}
  BY <1>3, <1>7, <1>19 DEF SetsWeak
<1>21. \A k \in Weak : weak'[k].lock # t
  BY <1>2, <1>7, <1>19, <1>9 DEF SetsWeak
<1>22. "idle" \notin WeakLocked
  BY <1>3 DEF WeakLocked
<1>23. WeakLocks'
  BY <1>1, <1>4, <1>20, <1>21, <1>22, WeakLocksReleased
<1>24. thread[t].ptr = weak[thread[t].r].ptr
  BY <1>1, <1>3, <1>9 DEF WeakLocks, HasWeak, WeakLocked
<1>25. /\ None \in Object => object'[None].ever
       /\ None \in Object /\ "idle" # "create" => object'[None].ever
  BY <1>1, <1>2, <1>3, <1>14, RefsAssumption DEF Lists, ThreadInv, Placed, UnrefPlaces,
       SetPlaces, GetPlaces
<1>26. /\ \A k \in Weak : weak'[k].ptr = weak[k].ptr
       /\ \A k \in Object : data'[k].list = data[k].list
  BY <1>2, <1>6, <1>7 DEF SetsWeak
<1>27. Lists'
  BY <1>1, <1>4, <1>14, <1>25, <1>26, ListsKept
<1>28. Locks'
  BY <1>15, <1>18, <1>23 DEF Locks
<1>29. /\ \A w \in Thread \ {t} : thread'[w] = thread[w]
       /\ thread'[t].at = "idle" /\ thread'[t].d = None /\ thread'[t].mode = "check"
  BY <1>4 DEF Goes
<1>30. Types /\ \A x \in Object : LifeInv(x) /\ CountInv(x)
  BY <1>1, <1>2 DEF Life, LifeInv
<1>31. \A x \in Object : object'[x].freed = object[x].freed
  BY <1>2, <1>5
<1>32. \A x \in Object : object'[x].refs = object[x].refs
  BY <1>2, <1>5
<1>33. \A x \in Object, v \in Thread : holds'[v][x] = holds[v][x]
  BY <1>8
<1>34. \A x \in Object : object[x].ever => object'[x].ever
  BY <1>14
<1>35. \A x \in Object, k \in Weak : weak'[k].ptr = x => weak[k].ptr = x \/ object[x].refs # 0
  BY <1>26
<1>36. thread[t].d = None /\ thread'[t].d = None
  BY <1>2, <1>3, <1>29 DEF ThreadInv, Placed, UnrefPlaces, SetPlaces, GetPlaces
<1>37. \A x \in Object : thread[t].d # x /\ thread'[t].d # x
  BY <1>36, RefsAssumption
<1>38. Life'
  BY <1>29, <1>30, <1>31, <1>32, <1>33, <1>34, <1>35, <1>37, LifeApart DEF Life
<1>39. /\ \A w \in Thread \ {t} : thread'[w] = thread[w]
       /\ thread'[t].d = None /\ thread'[t].frozen = FALSE /\ thread'[t].old = None
  BY <1>4 DEF Goes
<1>40. \A x \in Object : UsersInv(x) /\ FrozenInv(x)
  BY <1>1 DEF Rest, RestInv
<1>41. \A x \in Object : object'[x].ever = object[x].ever /\ object'[x].freed = object[x].freed
  BY <1>2, <1>5
<1>42. \A x \in Object : data'[x].refs = data[x].refs
  BY <1>2, <1>6
<1>43. \A x \in Object : thread'[t].old = x <=> thread[t].old = x
  BY <1>2, <1>3, <1>39, RefsAssumption DEF ThreadInv, Placed, UnrefPlaces, SetPlaces,
       GetPlaces
<1>44. \A x \in Object : UsersInv(x)'
  BY <1>39, <1>40, <1>41, <1>42, <1>43, UsersKept
<1>45. \A x \in Object : UsersInv(x)'
  BY <1>44
<1>46. \A x \in Object : object'[x].freed = object[x].freed /\ object'[x].frozen = object[x].frozen
  BY <1>2, <1>5
<1>47. \A x \in Object : Freezes(t, x)' <=> Freezes(t, x)
  BY <1>2, <1>3, <1>39, RefsAssumption DEF Freezes, ThreadInv, Placed, UnrefPlaces, SetPlaces,
       GetPlaces
<1>48. \A x \in Object : FrozenInv(x)'
  BY <1>39, <1>40, <1>46, <1>47, FrozenKept
<1>49. \A x \in Object : FrozenInv(x)'
  BY <1>48
<1>50. Rest'
  BY <1>45, <1>49 DEF Rest, RestInv
<1> QED
  BY <1>13, <1>28, <1>27, <1>38, <1>50 DEF IInv

LEMMA StepGetReferenceSome ==
  ASSUME IInv, NEW t \in Thread, GetReference(t), thread[t].ptr # None
  PROVE  IInv'
<1>1. Base /\ ObjectLocks /\ DataLocks /\ WeakLocks /\ Lists /\ Life /\ Rest
  BY DEF IInv, Locks
<1>2. Types /\ ThreadInv(t) /\ HoldsInv(t) /\ thread[t] \in ThreadRecord /\ t # None
  BY <1>1, RefsAssumption DEF Base, Types
<1>3. /\ thread[t].at = "get reference"
      /\ thread[t].ptr # None
  BY <1>1, DidGetReferenceSome
<1>4. Goes(t, "get data", thread[t].d, thread[t].mode, thread[t].frozen, thread[t].r,
                thread[t].new, thread[t].ptr, thread[t].ptr)
  BY <1>1, DidGetReferenceSome
<1>5. object' = object
  BY <1>1, DidGetReferenceSome
<1>6. SetsData(thread[t].ptr, data[thread[t].ptr].refs + 1, data[thread[t].ptr].lock, data[thread[t].ptr].list)
  BY <1>1, DidGetReferenceSome
<1>7. SetsWeak(thread[t].r, weak[thread[t].r].ptr, None)
  BY <1>1, DidGetReferenceSome
<1>8. holds' = holds
  BY <1>1, DidGetReferenceSome
<1>9. thread[t].r \in Weak
  BY <1>2, <1>3 DEF ThreadInv, Placed, UnrefPlaces, SetPlaces, GetPlaces
<1>10. /\ object' \in [Object -> ObjectType] /\ data' \in [Object -> DataType]
       /\ weak' \in [Weak -> WeakRecord]
  BY <1>2, <1>5, <1>6, <1>7 DEF Types, SetsData, SetsWeak
<1>11. Placed("get data", thread[t].d, thread[t].mode, thread[t].frozen, thread[t].r,
                 thread[t].new, thread[t].ptr, thread[t].ptr)
  BY <1>2, <1>3, <1>9, RefsAssumption DEF ThreadInv, ThreadRecord, Placed, UnrefPlaces,
       SetPlaces, GetPlaces
<1>12. /\ thread[t].new # None => holds[t][thread[t].new] # 0 \/ thread[t].new = thread[t].d
       /\ "get data" \in GetPlaces => \A k \in Object : holds[t][k] <= MaxHolds
  BY <1>2, <1>3 DEF HoldsInv, ThreadInv, Placed, UnrefPlaces, SetPlaces, GetPlaces
<1>13. Base'
  BY <1>1, <1>4, <1>8, <1>10, <1>11, <1>12, BaseKept
<1>14. \A k \in Object : object'[k].lock = object[k].lock /\ (object[k].ever => object'[k].ever)
  BY <1>2, <1>5
<1>15. ObjectLocks'
  BY <1>1, <1>3, <1>4, <1>14, ObjectLocksKept
<1>16. \A k \in Object : data'[k].lock = data[k].lock
  BY <1>2, <1>6 DEF SetsData, Types
<1>17. thread[t].at \notin DataLocked /\ "get data" \notin DataLocked
  BY <1>3 DEF DataLocked
<1>18. DataLocks'
  BY <1>1, <1>4, <1>16, <1>17, DataLocksKept
<1>19. \A k \in Weak : weak[k].lock = t <=> thread[t].r = k
  BY <1>1, <1>3 DEF WeakLocks, HasWeak, WeakLocked
<1>20. \A k \in Weak : \/ weak'[k] = weak[k]
                       \/ weak[k].lock \in {None, t} /\ weak'[k].lock \in {None, t}
  BY <1>3, <1>7, <1>19 DEF SetsWeak
<1>21. \A k \in Weak : weak'[k].lock # t
  BY <1>2, <1>7, <1>19, <1>9 DEF SetsWeak
<1>22. "get data" \notin WeakLocked
  BY <1>3 DEF WeakLocked
<1>23. WeakLocks'
  BY <1>1, <1>4, <1>20, <1>21, <1>22, WeakLocksReleased
<1>24. thread[t].ptr = weak[thread[t].r].ptr
  BY <1>1, <1>3, <1>9 DEF WeakLocks, HasWeak, WeakLocked
<1>25. /\ thread[t].ptr \in Object => object'[thread[t].ptr].ever
       /\ thread[t].new \in Object /\ "get data" # "create" => object'[thread[t].new].ever
  BY <1>1, <1>3, <1>9, <1>24, <1>14 DEF Lists
<1>26. /\ \A k \in Weak : weak'[k].ptr = weak[k].ptr
       /\ \A k \in Object : data'[k].list = data[k].list
  BY <1>2, <1>6, <1>7 DEF SetsData, SetsWeak
<1>27. Lists'
  BY <1>1, <1>4, <1>14, <1>25, <1>26, ListsKept
<1>28. Locks'
  BY <1>15, <1>18, <1>23 DEF Locks
<1>29. /\ \A w \in Thread \ {t} : thread'[w] = thread[w]
       /\ thread'[t].at = "get data" /\ thread'[t].d = thread[t].d /\ thread'[t].mode = thread[t].mode
  BY <1>4 DEF Goes
<1>30. Types /\ \A x \in Object : LifeInv(x) /\ CountInv(x)
  BY <1>1, <1>2 DEF Life, LifeInv
<1>31. \A x \in Object : object'[x].freed = object[x].freed
  BY <1>2, <1>5
<1>32. \A x \in Object : object'[x].refs = object[x].refs
  BY <1>2, <1>5
<1>33. \A x \in Object, v \in Thread : holds'[v][x] = holds[v][x]
  BY <1>8
<1>34. \A x \in Object : object[x].ever => object'[x].ever
  BY <1>14
<1>35. \A x \in Object, k \in Weak : weak'[k].ptr = x => weak[k].ptr = x \/ object[x].refs # 0
  BY <1>26
<1>36. thread[t].d = None /\ thread'[t].d = None
  BY <1>2, <1>3, <1>29 DEF ThreadInv, Placed, UnrefPlaces, SetPlaces, GetPlaces
<1>37. \A x \in Object : thread[t].d # x /\ thread'[t].d # x
  BY <1>36, RefsAssumption
<1>38. Life'
  BY <1>29, <1>30, <1>31, <1>32, <1>33, <1>34, <1>35, <1>37, LifeApart DEF Life
<1>39. /\ \A w \in Thread \ {t} : thread'[w] = thread[w]
       /\ thread'[t].d = thread[t].d /\ thread'[t].frozen = thread[t].frozen /\ thread'[t].old = thread[t].ptr
  BY <1>4 DEF Goes
<1>40. \A x \in Object : UsersInv(x) /\ FrozenInv(x)
  BY <1>1 DEF Rest, RestInv
<1>41. \A x \in Object : object'[x].ever = object[x].ever /\ object'[x].freed = object[x].freed
  BY <1>2, <1>5
<1>42. \A x \in Object \ {thread[t].ptr} : data'[x].refs = data[x].refs
  BY <1>2, <1>6 DEF SetsData
<1>43. \A x \in Object \ {thread[t].ptr} : thread'[t].old = x <=> thread[t].old = x
  BY <1>2, <1>3, <1>39, RefsAssumption DEF ThreadInv, Placed, UnrefPlaces, SetPlaces,
       GetPlaces
<1>44. \A x \in Object \ {thread[t].ptr} : UsersInv(x)'
  BY <1>39, <1>40, <1>41, <1>42, <1>43, UsersKept
<1>45. ASSUME NEW x \in Object, x = thread[t].ptr
       PROVE  UsersInv(x)'
  <2>1. thread[t].old # x /\ thread'[t].old = x
    BY <1>45, <1>2, <1>3, <1>39, RefsAssumption DEF ThreadInv, Placed, UnrefPlaces, SetPlaces, GetPlaces
  <2>2. data'[x].refs = data[x].refs + 1
    BY <1>45, <1>6 DEF SetsData
  <2> QED
    BY <1>39, <1>40, <1>41, <2>1, <2>2, UsersMore
<1>46. \A x \in Object : UsersInv(x)'
  BY <1>44, <1>45
<1>47. \A x \in Object : object'[x].freed = object[x].freed /\ object'[x].frozen = object[x].frozen
  BY <1>2, <1>5
<1>48. \A x \in Object : Freezes(t, x)' <=> Freezes(t, x)
  BY <1>2, <1>3, <1>39, RefsAssumption DEF Freezes, ThreadInv, Placed, UnrefPlaces, SetPlaces,
       GetPlaces
<1>49. \A x \in Object : FrozenInv(x)'
  BY <1>39, <1>40, <1>47, <1>48, FrozenKept
<1>50. \A x \in Object : FrozenInv(x)'
  BY <1>49
<1>51. Rest'
  BY <1>46, <1>50 DEF Rest, RestInv
<1> QED
  BY <1>13, <1>28, <1>27, <1>38, <1>51 DEF IInv

LEMMA StepGetData ==
  ASSUME IInv, NEW t \in Thread, GetData(t)
  PROVE  IInv'
<1>1. Base /\ ObjectLocks /\ DataLocks /\ WeakLocks /\ Lists /\ Life /\ Rest
  BY DEF IInv, Locks
<1>2. Types /\ ThreadInv(t) /\ HoldsInv(t) /\ thread[t] \in ThreadRecord /\ t # None
  BY <1>1, RefsAssumption DEF Base, Types
<1>3. /\ thread[t].at = "get data"
      /\ data[thread[t].old].lock = None
  BY <1>1, DidGetData
<1>4. Goes(t, "get lock", thread[t].d, thread[t].mode, thread[t].frozen, thread[t].r,
                thread[t].new, thread[t].old, thread[t].ptr)
  BY <1>1, DidGetData
<1>5. object' = object
  BY <1>1, DidGetData
<1>6. SetsData(thread[t].old, data[thread[t].old].refs, t, data[thread[t].old].list)
  BY <1>1, DidGetData
<1>7. weak' = weak
  BY <1>1, DidGetData
<1>8. holds' = holds
  BY <1>1, DidGetData
<1>9. thread[t].r \in Weak /\ thread[t].old \in Object
  BY <1>2, <1>3 DEF ThreadInv, Placed, UnrefPlaces, SetPlaces, GetPlaces
<1>10. /\ object' \in [Object -> ObjectType] /\ data' \in [Object -> DataType]
       /\ weak' \in [Weak -> WeakRecord]
  BY <1>2, <1>5, <1>6, <1>7 DEF Types, SetsData
<1>11. Placed("get lock", thread[t].d, thread[t].mode, thread[t].frozen, thread[t].r,
                 thread[t].new, thread[t].old, thread[t].ptr)
  BY <1>2, <1>3, <1>9, RefsAssumption DEF ThreadInv, ThreadRecord, Placed, UnrefPlaces,
       SetPlaces, GetPlaces
<1>12. /\ thread[t].new # None => holds[t][thread[t].new] # 0 \/ thread[t].new = thread[t].d
       /\ "get lock" \in GetPlaces => \A k \in Object : holds[t][k] <= MaxHolds
  BY <1>2, <1>3 DEF HoldsInv, ThreadInv, Placed, UnrefPlaces, SetPlaces, GetPlaces
<1>13. Base'
  BY <1>1, <1>4, <1>8, <1>10, <1>11, <1>12, BaseKept
<1>14. \A k \in Object : object'[k].lock = object[k].lock /\ (object[k].ever => object'[k].ever)
  BY <1>2, <1>5
<1>15. ObjectLocks'
  BY <1>1, <1>3, <1>4, <1>14, ObjectLocksKept
<1>16. \A k \in Object : data[k].lock = t <=> HasData(t, k)
  BY <1>1 DEF DataLocks
<1>17. \A k \in Object : HasData(t, k) <=> FALSE
  BY <1>3 DEF HasData
<1>18. \A k \in Object : HasData(t, k)' <=> thread[t].old = k
  BY <1>3, <1>4 DEF HasData, Goes
<1>19. \A k \in Object : \/ data'[k].lock = data[k].lock
                         \/ data[k].lock \in {None, t} /\ data'[k].lock \in {None, t}
  BY <1>3, <1>6, <1>16, <1>17 DEF SetsData
<1>20. \A k \in Object : data'[k].lock = t <=> HasData(t, k)'
  BY <1>2, <1>3, <1>6, <1>16, <1>17, <1>18, <1>9 DEF SetsData
<1>21. DataLocks'
  BY <1>1, <1>4, <1>19, <1>20, DataLocksStep
<1>22. thread[t].at \notin WeakLocked /\ "get lock" \notin WeakLocked
  BY <1>3 DEF WeakLocked
<1>23. WeakLocks'
  BY <1>1, <1>4, <1>7, <1>22, WeakLocksKept
<1>24. /\ thread[t].old \in Object => object'[thread[t].old].ever
       /\ thread[t].new \in Object /\ "get lock" # "create" => object'[thread[t].new].ever
  BY <1>1, <1>2, <1>3, <1>14, RefsAssumption DEF Lists, ThreadInv, Placed, UnrefPlaces,
       SetPlaces, GetPlaces
<1>25. /\ \A k \in Weak : weak'[k].ptr = weak[k].ptr
       /\ \A k \in Object : data'[k].list = data[k].list
  BY <1>2, <1>6, <1>7 DEF SetsData
<1>26. Lists'
  BY <1>1, <1>4, <1>14, <1>24, <1>25, ListsKept
<1>27. Locks'
  BY <1>15, <1>21, <1>23 DEF Locks
<1>28. /\ \A w \in Thread \ {t} : thread'[w] = thread[w]
       /\ thread'[t].at = "get lock" /\ thread'[t].d = thread[t].d /\ thread'[t].mode = thread[t].mode
  BY <1>4 DEF Goes
<1>29. Types /\ \A x \in Object : LifeInv(x) /\ CountInv(x)
  BY <1>1, <1>2 DEF Life, LifeInv
<1>30. \A x \in Object : object'[x].freed = object[x].freed
  BY <1>2, <1>5
<1>31. \A x \in Object : object'[x].refs = object[x].refs
  BY <1>2, <1>5
<1>32. \A x \in Object, v \in Thread : holds'[v][x] = holds[v][x]
  BY <1>8
<1>33. \A x \in Object : object[x].ever => object'[x].ever
  BY <1>14
<1>34. \A x \in Object, k \in Weak : weak'[k].ptr = x => weak[k].ptr = x \/ object[x].refs # 0
  BY <1>25
<1>35. thread[t].d = None /\ thread'[t].d = None
  BY <1>2, <1>3, <1>28 DEF ThreadInv, Placed, UnrefPlaces, SetPlaces, GetPlaces
<1>36. \A x \in Object : thread[t].d # x /\ thread'[t].d # x
  BY <1>35, RefsAssumption
<1>37. Life'
  BY <1>28, <1>29, <1>30, <1>31, <1>32, <1>33, <1>34, <1>36, LifeApart DEF Life
<1>38. /\ \A w \in Thread \ {t} : thread'[w] = thread[w]
       /\ thread'[t].d = thread[t].d /\ thread'[t].frozen = thread[t].frozen /\ thread'[t].old = thread[t].old
  BY <1>4 DEF Goes
<1>39. \A x \in Object : UsersInv(x) /\ FrozenInv(x)
  BY <1>1 DEF Rest, RestInv
<1>40. \A x \in Object : object'[x].ever = object[x].ever /\ object'[x].freed = object[x].freed
  BY <1>2, <1>5
<1>41. \A x \in Object : data'[x].refs = data[x].refs
  BY <1>2, <1>6 DEF SetsData
<1>42. \A x \in Object : thread'[t].old = x <=> thread[t].old = x
  BY <1>2, <1>3, <1>38, RefsAssumption DEF ThreadInv, Placed, UnrefPlaces, SetPlaces,
       GetPlaces
<1>43. \A x \in Object : UsersInv(x)'
  BY <1>38, <1>39, <1>40, <1>41, <1>42, UsersKept
<1>44. \A x \in Object : UsersInv(x)'
  BY <1>43
<1>45. \A x \in Object : object'[x].freed = object[x].freed /\ object'[x].frozen = object[x].frozen
  BY <1>2, <1>5
<1>46. \A x \in Object : Freezes(t, x)' <=> Freezes(t, x)
  BY <1>2, <1>3, <1>38, RefsAssumption DEF Freezes, ThreadInv, Placed, UnrefPlaces, SetPlaces,
       GetPlaces
<1>47. \A x \in Object : FrozenInv(x)'
  BY <1>38, <1>39, <1>45, <1>46, FrozenKept
<1>48. \A x \in Object : FrozenInv(x)'
  BY <1>47
<1>49. Rest'
  BY <1>44, <1>48 DEF Rest, RestInv
<1> QED
  BY <1>13, <1>27, <1>26, <1>37, <1>49 DEF IInv

LEMMA StepGetLock ==
  ASSUME IInv, NEW t \in Thread, GetLock(t)
  PROVE  IInv'
<1>1. Base /\ ObjectLocks /\ DataLocks /\ WeakLocks /\ Lists /\ Life /\ Rest
  BY DEF IInv, Locks
<1>2. Types /\ ThreadInv(t) /\ HoldsInv(t) /\ thread[t] \in ThreadRecord /\ t # None
  BY <1>1, RefsAssumption DEF Base, Types
<1>3. /\ thread[t].at = "get lock"
      /\ weak[thread[t].r].lock = None
  BY <1>1, DidGetLock
<1>4. Goes(t, "get object", thread[t].d, thread[t].mode, thread[t].frozen, thread[t].r,
                thread[t].new, thread[t].old, weak[thread[t].r].ptr)
  BY <1>1, DidGetLock
<1> DEFINE read == weak[thread[t].r].ptr
<1>5. Goes(t, "get object", thread[t].d, thread[t].mode, thread[t].frozen, thread[t].r, thread[t].new, thread[t].old, read)
  BY <1>4
<1>6. read = weak[thread[t].r].ptr
  OBVIOUS
<1> HIDE DEF read
<1>7. object' = object
  BY <1>1, DidGetLock
<1>8. data' = data
  BY <1>1, DidGetLock
<1>9. SetsWeak(thread[t].r, weak[thread[t].r].ptr, t)
  BY <1>1, DidGetLock
<1>10. holds' = holds
  BY <1>1, DidGetLock
<1>11. thread[t].r \in Weak /\ thread[t].old \in Object
  BY <1>2, <1>3 DEF ThreadInv, Placed, UnrefPlaces, SetPlaces, GetPlaces
<1>12. /\ object' \in [Object -> ObjectType] /\ data' \in [Object -> DataType]
       /\ weak' \in [Weak -> WeakRecord]
  BY <1>2, <1>7, <1>8, <1>9 DEF Types, SetsWeak
<1>13. Placed("get object", thread[t].d, thread[t].mode, thread[t].frozen, thread[t].r,
                 thread[t].new, thread[t].old, read)
  BY <1>2, <1>3, <1>11, RefsAssumption DEF ThreadInv, ThreadRecord, Placed, UnrefPlaces,
       SetPlaces, GetPlaces
<1>14. /\ thread[t].new # None => holds[t][thread[t].new] # 0 \/ thread[t].new = thread[t].d
       /\ "get object" \in GetPlaces => \A k \in Object : holds[t][k] <= MaxHolds
  BY <1>2, <1>3 DEF HoldsInv, ThreadInv, Placed, UnrefPlaces, SetPlaces, GetPlaces
<1>15. Base'
  BY <1>1, <1>5, <1>10, <1>12, <1>13, <1>14, BaseKept
<1>16. \A k \in Object : object'[k].lock = object[k].lock /\ (object[k].ever => object'[k].ever)
  BY <1>2, <1>7
<1>17. ObjectLocks'
  BY <1>1, <1>3, <1>5, <1>16, ObjectLocksKept
<1>18. \A k \in Object : data'[k].lock = data[k].lock
  BY <1>2, <1>8
<1>19. \A k \in Object : \/ data'[k].lock = data[k].lock
                         \/ data[k].lock \in {None, t} /\ data'[k].lock \in {None, t}
  BY <1>18
<1>20. \A k \in Object : data[k].lock = t <=> HasData(t, k)
  BY <1>1 DEF DataLocks
<1>21. \A k \in Object : HasData(t, k) <=> thread[t].old = k
  BY <1>3 DEF HasData
<1>22. \A k \in Object : HasData(t, k)' <=> thread[t].old = k
  BY <1>3, <1>5 DEF HasData, Goes
<1>23. \A k \in Object : data'[k].lock = t <=> HasData(t, k)'
  BY <1>18, <1>20, <1>21, <1>22
<1>24. DataLocks'
  BY <1>1, <1>5, <1>19, <1>23, DataLocksStep
<1>25. \A k \in Weak : weak[k].lock = t <=> FALSE
  BY <1>1, <1>3 DEF WeakLocks, HasWeak, WeakLocked
<1>26. \A k \in Weak : \/ weak'[k] = weak[k]
                       \/ weak[k].lock \in {None, t} /\ weak'[k].lock \in {None, t}
  BY <1>3, <1>9, <1>25 DEF SetsWeak
<1>27. \A k \in Weak : weak'[k].lock = t <=> thread[t].r = k
  BY <1>9, <1>25, <1>11 DEF SetsWeak
<1>28. "get object" \in WeakLocked /\ read = weak'[thread[t].r].ptr
  BY <1>3, <1>9, <1>6 DEF SetsWeak, WeakLocked
<1>29. /\ \A u \in Thread \ {t} : thread'[u] = thread[u]
       /\ thread'[t].at \in WeakLocked /\ thread'[t].r = thread[t].r /\ thread'[t].ptr = weak'[thread[t].r].ptr
  BY <1>5, <1>28 DEF Goes
<1>30. \A k \in Weak : weak'[k].lock = t <=> thread'[t].r = k
  BY <1>27, <1>29
<1>31. WeakLocks'
  BY <1>1, <1>26, <1>29, <1>30, WeakLocksTaken
<1>32. /\ thread[t].old \in Object => object'[thread[t].old].ever
       /\ thread[t].new \in Object /\ "get object" # "create" => object'[thread[t].new].ever
  BY <1>1, <1>2, <1>3, <1>16, RefsAssumption DEF Lists, ThreadInv, Placed, UnrefPlaces,
       SetPlaces, GetPlaces
<1>33. /\ \A k \in Weak : weak'[k].ptr = weak[k].ptr
       /\ \A k \in Object : data'[k].list = data[k].list
  BY <1>2, <1>8, <1>9 DEF SetsWeak
<1>34. Lists'
  BY <1>1, <1>5, <1>16, <1>32, <1>33, ListsKept
<1>35. Locks'
  BY <1>17, <1>24, <1>31 DEF Locks
<1>36. /\ \A w \in Thread \ {t} : thread'[w] = thread[w]
       /\ thread'[t].at = "get object" /\ thread'[t].d = thread[t].d /\ thread'[t].mode = thread[t].mode
  BY <1>5 DEF Goes
<1>37. Types /\ \A x \in Object : LifeInv(x) /\ CountInv(x)
  BY <1>1, <1>2 DEF Life, LifeInv
<1>38. \A x \in Object : object'[x].freed = object[x].freed
  BY <1>2, <1>7
<1>39. \A x \in Object : object'[x].refs = object[x].refs
  BY <1>2, <1>7
<1>40. \A x \in Object, v \in Thread : holds'[v][x] = holds[v][x]
  BY <1>10
<1>41. \A x \in Object : object[x].ever => object'[x].ever
  BY <1>16
<1>42. \A x \in Object, k \in Weak : weak'[k].ptr = x => weak[k].ptr = x \/ object[x].refs # 0
  BY <1>33
<1>43. thread[t].d = None /\ thread'[t].d = None
  BY <1>2, <1>3, <1>36 DEF ThreadInv, Placed, UnrefPlaces, SetPlaces, GetPlaces
<1>44. \A x \in Object : thread[t].d # x /\ thread'[t].d # x
  BY <1>43, RefsAssumption
<1>45. Life'
  BY <1>36, <1>37, <1>38, <1>39, <1>40, <1>41, <1>42, <1>44, LifeApart DEF Life
<1>46. /\ \A w \in Thread \ {t} : thread'[w] = thread[w]
       /\ thread'[t].d = thread[t].d /\ thread'[t].frozen = thread[t].frozen /\ thread'[t].old = thread[t].old
  BY <1>5 DEF Goes
<1>47. \A x \in Object : UsersInv(x) /\ FrozenInv(x)
  BY <1>1 DEF Rest, RestInv
<1>48. \A x \in Object : object'[x].ever = object[x].ever /\ object'[x].freed = object[x].freed
  BY <1>2, <1>7
<1>49. \A x \in Object : data'[x].refs = data[x].refs
  BY <1>2, <1>8
<1>50. \A x \in Object : thread'[t].old = x <=> thread[t].old = x
  BY <1>2, <1>3, <1>46, RefsAssumption DEF ThreadInv, Placed, UnrefPlaces, SetPlaces,
       GetPlaces
<1>51. \A x \in Object : UsersInv(x)'
  BY <1>46, <1>47, <1>48, <1>49, <1>50, UsersKept
<1>52. \A x \in Object : UsersInv(x)'
  BY <1>51
<1>53. \A x \in Object : object'[x].freed = object[x].freed /\ object'[x].frozen = object[x].frozen
  BY <1>2, <1>7
<1>54. \A x \in Object : Freezes(t, x)' <=> Freezes(t, x)
  BY <1>2, <1>3, <1>46, RefsAssumption DEF Freezes, ThreadInv, Placed, UnrefPlaces, SetPlaces,
       GetPlaces
<1>55. \A x \in Object : FrozenInv(x)'
  BY <1>46, <1>47, <1>53, <1>54, FrozenKept
<1>56. \A x \in Object : FrozenInv(x)'
  BY <1>55
<1>57. Rest'
  BY <1>52, <1>56 DEF Rest, RestInv
<1> QED
  BY <1>15, <1>35, <1>34, <1>45, <1>57 DEF IInv

LEMMA StepGetObjectTakes ==
  ASSUME IInv, NEW t \in Thread, GetObject(t), thread[t].ptr = thread[t].old
  PROVE  IInv'
<1>1. Base /\ ObjectLocks /\ DataLocks /\ WeakLocks /\ Lists /\ Life /\ Rest
  BY DEF IInv, Locks
<1>2. Types /\ ThreadInv(t) /\ HoldsInv(t) /\ thread[t] \in ThreadRecord /\ t # None
  BY <1>1, RefsAssumption DEF Base, Types
<1>3. /\ thread[t].at = "get object"
      /\ thread[t].ptr = thread[t].old
  BY <1>1, DidGetObjectTakes
<1>4. Goes(t, "release", thread[t].d, thread[t].mode, thread[t].frozen, thread[t].r,
                thread[t].new, thread[t].old, thread[t].ptr)
  BY <1>1, DidGetObjectTakes
<1>5. SetsObject(thread[t].old, object[thread[t].old].refs + 1, object[thread[t].old].freed,
                object[thread[t].old].ever, object[thread[t].old].frozen,
                object[thread[t].old].lock)
  BY <1>1, DidGetObjectTakes
<1>6. /\ data' \in [Object -> DataType]
      /\ \A o \in Object : data'[o].refs = data[o].refs
      /\ \A o \in Object : data'[o].lock = IF o = thread[t].old THEN None ELSE data[o].lock
      /\ \A o \in Object : data'[o].list = data[o].list
  BY <1>1, DidGetObjectTakes
<1>7. SetsWeak(thread[t].r, weak[thread[t].r].ptr, None)
  BY <1>1, DidGetObjectTakes
<1>8. SetsHolds(t, thread[t].old, holds[t][thread[t].old] + 1)
  BY <1>1, DidGetObjectTakes
<1>9. thread[t].r \in Weak /\ thread[t].old \in Object
  BY <1>2, <1>3 DEF ThreadInv, Placed, UnrefPlaces, SetPlaces, GetPlaces
<1>10. /\ object' \in [Object -> ObjectType] /\ data' \in [Object -> DataType]
       /\ weak' \in [Weak -> WeakRecord]
  BY <1>2, <1>5, <1>6, <1>7 DEF Types, SetsObject, SetsWeak
<1>11. Placed("release", thread[t].d, thread[t].mode, thread[t].frozen, thread[t].r,
                 thread[t].new, thread[t].old, thread[t].ptr)
  BY <1>2, <1>3, <1>9, RefsAssumption DEF ThreadInv, ThreadRecord, Placed, UnrefPlaces,
       SetPlaces, GetPlaces
<1>12. /\ thread[t].new # None => holds'[t][thread[t].new] # 0 \/ thread[t].new = thread[t].d
       /\ "release" \in GetPlaces => \A k \in Object : holds'[t][k] <= MaxHolds
  BY <1>2, <1>3, <1>8 DEF HoldsInv, ThreadInv, Placed, UnrefPlaces, SetPlaces, GetPlaces
<1>13. \A v \in Thread \ {t}, k \in Object :
         /\ holds[v][k] # 0 => holds'[v][k] # 0
         /\ holds[v][k] <= MaxHolds => holds'[v][k] <= MaxHolds
  BY <1>8 DEF SetsHolds
<1>14. holds' \in [Thread -> [Object -> 0 .. MaxHolds + 1]]
  BY <1>8 DEF SetsHolds
<1>15. Base'
  BY <1>1, <1>4, <1>10, <1>11, <1>12, <1>13, <1>14, BaseStep
<1>16. \A k \in Object : object'[k].lock = object[k].lock /\ (object[k].ever => object'[k].ever)
  BY <1>2, <1>5 DEF SetsObject, Types
<1>17. ObjectLocks'
  BY <1>1, <1>3, <1>4, <1>16, ObjectLocksKept
<1>18. \A k \in Object : data[k].lock = t <=> HasData(t, k)
  BY <1>1 DEF DataLocks
<1>19. \A k \in Object : HasData(t, k) <=> thread[t].old = k
  BY <1>3 DEF HasData
<1>20. \A k \in Object : HasData(t, k)' <=> FALSE
  BY <1>3, <1>4 DEF HasData, Goes
<1>21. \A k \in Object : \/ data'[k].lock = data[k].lock
                         \/ data[k].lock \in {None, t} /\ data'[k].lock \in {None, t}
  BY <1>3, <1>6, <1>18, <1>19
<1>22. \A k \in Object : data'[k].lock # t
  <2> SUFFICES ASSUME NEW k \in Object
               PROVE  data'[k].lock # t
    OBVIOUS
  <2>1. CASE k = thread[t].old
    BY <1>2, <1>6, <2>1
  <2>2. CASE k # thread[t].old
    BY <1>6, <1>18, <1>19, <2>2
  <2> QED
    BY <2>1, <2>2
<1>23. \A k \in Object : data'[k].lock = t <=> HasData(t, k)'
  BY <1>20, <1>22
<1>24. DataLocks'
  BY <1>1, <1>4, <1>21, <1>23, DataLocksStep
<1>25. \A k \in Weak : weak[k].lock = t <=> thread[t].r = k
  BY <1>1, <1>3 DEF WeakLocks, HasWeak, WeakLocked
<1>26. \A k \in Weak : \/ weak'[k] = weak[k]
                       \/ weak[k].lock \in {None, t} /\ weak'[k].lock \in {None, t}
  BY <1>3, <1>7, <1>25 DEF SetsWeak
<1>27. \A k \in Weak : weak'[k].lock # t
  BY <1>2, <1>7, <1>25, <1>9 DEF SetsWeak
<1>28. "release" \notin WeakLocked
  BY <1>3 DEF WeakLocked
<1>29. WeakLocks'
  BY <1>1, <1>4, <1>26, <1>27, <1>28, WeakLocksReleased
<1>30. thread[t].ptr = weak[thread[t].r].ptr
  BY <1>1, <1>3, <1>9 DEF WeakLocks, HasWeak, WeakLocked
<1>31. /\ thread[t].old \in Object => object'[thread[t].old].ever
       /\ thread[t].new \in Object /\ "release" # "create" => object'[thread[t].new].ever
  BY <1>1, <1>2, <1>3, <1>16, RefsAssumption DEF Lists, ThreadInv, Placed, UnrefPlaces,
       SetPlaces, GetPlaces
<1>32. /\ \A k \in Weak : weak'[k].ptr = weak[k].ptr
       /\ \A k \in Object : data'[k].list = data[k].list
  BY <1>2, <1>6, <1>7 DEF SetsWeak
<1>33. Lists'
  BY <1>1, <1>4, <1>16, <1>31, <1>32, ListsKept
<1>34. Locks'
  BY <1>17, <1>24, <1>29 DEF Locks
<1>35. /\ \A w \in Thread \ {t} : thread'[w] = thread[w]
       /\ thread'[t].at = "release" /\ thread'[t].d = thread[t].d /\ thread'[t].mode = thread[t].mode
  BY <1>4 DEF Goes
<1>36. Types /\ \A x \in Object : LifeInv(x) /\ CountInv(x)
  BY <1>1, <1>2 DEF Life, LifeInv
<1>37. \A x \in Object : object'[x].freed = object[x].freed
  BY <1>2, <1>5 DEF SetsObject
<1>38. \A x \in Object \ {thread[t].old} : object'[x].refs = object[x].refs
  BY <1>2, <1>5 DEF SetsObject
<1>39. \A x \in Object \ {thread[t].old}, v \in Thread : holds'[v][x] = holds[v][x]
  BY <1>8 DEF SetsHolds
<1>40. \A x \in Object : object[x].ever => object'[x].ever
  BY <1>16
<1>41. \A x \in Object, k \in Weak : weak'[k].ptr = x => weak[k].ptr = x \/ object[x].refs # 0
  BY <1>32
<1>42. thread[t].d = None /\ thread'[t].d = None
  BY <1>2, <1>3, <1>35 DEF ThreadInv, Placed, UnrefPlaces, SetPlaces, GetPlaces
<1>43. \A x \in Object \ {thread[t].old} : thread[t].d # x /\ thread'[t].d # x
  BY <1>42, RefsAssumption
<1>44. \A x \in Object \ {thread[t].old} : LifeInv(x)'
  BY <1>35, <1>36, <1>37, <1>38, <1>39, <1>40, <1>41, <1>43, LifeApart
<1>45. ASSUME NEW x \in Object, x = thread[t].old
       PROVE  LifeInv(x)'
  <2>1. data[x].lock = t /\ object[x].ever
    BY <1>1, <1>3, <1>45 DEF DataLocks, HasData, Lists
  <2>2. ASSUME NEW u \in Thread, thread[u].at = "clearing", thread[u].d = x
      PROVE  FALSE
    <3>1. HasData(u, x)
      BY <2>2 DEF HasData
    <3>2. u = t
      BY <1>1, <2>1, <3>1 DEF DataLocks
    <3> QED
      BY <1>3, <2>2, <3>2
  <2>3. weak[thread[t].r].ptr = x
    BY <1>45, <1>3, <1>30
  <2>4. \A u \in Thread : ~(thread[u].at = "clearing" /\ Doomed(u, x))
    BY <2>2 DEF Doomed
  <2>5. object[x].refs # 0 /\ Types
    BY <1>36, <1>9, <2>3, <2>4 DEF LifeInv, PointedInv
  <2>6. ~Doomed(t, x)' /\ ~Sole(t, x)'
    BY <1>45, <1>3, <1>35, RefsAssumption DEF Doomed, Sole
  <2>7. Flies(t, x)' <=> Flies(t, x)
    BY <1>45, <1>3, <1>35 DEF Flies, Doomed
  <2>8. InFlight(x)' = InFlight(x)
    BY <1>35, <1>45, <2>7, FlightSame
  <2>9. SetsHolds(t, x, holds[t][x] + 1)
    BY <1>45, <1>8
  <2>10. Cardinality(Held(x))' = Cardinality(Held(x)) + 1
    BY <2>5, <2>9, HeldMore
  <2>11. Cardinality(InFlight(x))' + Cardinality(Held(x))' =
           Cardinality(InFlight(x)) + Cardinality(Held(x)) + 1
    BY <1>36, <1>45, <2>8, <2>10, CountsFinite
  <2>12. object'[x].refs = object[x].refs + 1
    BY <1>45, <1>5 DEF SetsObject
  <2>13. \A v \in Thread \ {t} : ~Sole(v, x)
    BY <2>1, <2>2 DEF Sole
  <2>14. /\ LifeInv(x) /\ object'[x].freed = object[x].freed
         /\ object[x].ever => object'[x].ever
    BY <1>36, <1>37, <1>40
  <2>15. \A w \in Thread \ {t} : thread'[w] = thread[w]
    BY <1>35
  <2> QED
    BY <2>14, <2>15, <2>5, <2>6, <2>11, <2>12, <2>13, LifeMore
<1>46. Life'
  BY <1>44, <1>45 DEF Life
<1>47. /\ \A w \in Thread \ {t} : thread'[w] = thread[w]
       /\ thread'[t].d = thread[t].d /\ thread'[t].frozen = thread[t].frozen /\ thread'[t].old = thread[t].old
  BY <1>4 DEF Goes
<1>48. \A x \in Object : UsersInv(x) /\ FrozenInv(x)
  BY <1>1 DEF Rest, RestInv
<1>49. \A x \in Object : object'[x].ever = object[x].ever /\ object'[x].freed = object[x].freed
  BY <1>2, <1>5 DEF SetsObject
<1>50. \A x \in Object : data'[x].refs = data[x].refs
  BY <1>2, <1>6
<1>51. \A x \in Object : thread'[t].old = x <=> thread[t].old = x
  BY <1>2, <1>3, <1>47, RefsAssumption DEF ThreadInv, Placed, UnrefPlaces, SetPlaces,
       GetPlaces
<1>52. \A x \in Object : UsersInv(x)'
  BY <1>47, <1>48, <1>49, <1>50, <1>51, UsersKept
<1>53. \A x \in Object : UsersInv(x)'
  BY <1>52
<1>54. \A x \in Object : object'[x].freed = object[x].freed /\ object'[x].frozen = object[x].frozen
  BY <1>2, <1>5 DEF SetsObject
<1>55. \A x \in Object : Freezes(t, x)' <=> Freezes(t, x)
  BY <1>2, <1>3, <1>47, RefsAssumption DEF Freezes, ThreadInv, Placed, UnrefPlaces, SetPlaces,
       GetPlaces
<1>56. \A x \in Object : FrozenInv(x)'
  BY <1>47, <1>48, <1>54, <1>55, FrozenKept
<1>57. \A x \in Object : FrozenInv(x)'
  BY <1>56
<1>58. Rest'
  BY <1>53, <1>57 DEF Rest, RestInv
<1> QED
  BY <1>15, <1>34, <1>33, <1>46, <1>58 DEF IInv

LEMMA StepGetObjectNone ==
  ASSUME IInv, NEW t \in Thread, GetObject(t), thread[t].ptr = None
  PROVE  IInv'
<1>1. Base /\ ObjectLocks /\ DataLocks /\ WeakLocks /\ Lists /\ Life /\ Rest
  BY DEF IInv, Locks
<1>2. Types /\ ThreadInv(t) /\ HoldsInv(t) /\ thread[t] \in ThreadRecord /\ t # None
  BY <1>1, RefsAssumption DEF Base, Types
<1>3. /\ thread[t].at = "get object"
      /\ thread[t].ptr = None
  BY <1>1, DidGetObjectNone
<1>4. Goes(t, "release", thread[t].d, thread[t].mode, thread[t].frozen, thread[t].r,
                thread[t].new, thread[t].old, thread[t].ptr)
  BY <1>1, DidGetObjectNone
<1>5. object' = object
  BY <1>1, DidGetObjectNone
<1>6. /\ data' \in [Object -> DataType]
      /\ \A o \in Object : data'[o].refs = data[o].refs
      /\ \A o \in Object : data'[o].lock = IF o = thread[t].old THEN None ELSE data[o].lock
      /\ \A o \in Object : data'[o].list = data[o].list
  BY <1>1, DidGetObjectNone
<1>7. SetsWeak(thread[t].r, weak[thread[t].r].ptr, None)
  BY <1>1, DidGetObjectNone
<1>8. holds' = holds
  BY <1>1, DidGetObjectNone
<1>9. thread[t].r \in Weak /\ thread[t].old \in Object
  BY <1>2, <1>3 DEF ThreadInv, Placed, UnrefPlaces, SetPlaces, GetPlaces
<1>10. /\ object' \in [Object -> ObjectType] /\ data' \in [Object -> DataType]
       /\ weak' \in [Weak -> WeakRecord]
  BY <1>2, <1>5, <1>6, <1>7 DEF Types, SetsWeak
<1>11. Placed("release", thread[t].d, thread[t].mode, thread[t].frozen, thread[t].r,
                 thread[t].new, thread[t].old, thread[t].ptr)
  BY <1>2, <1>3, <1>9, RefsAssumption DEF ThreadInv, ThreadRecord, Placed, UnrefPlaces,
       SetPlaces, GetPlaces
<1>12. /\ thread[t].new # None => holds[t][thread[t].new] # 0 \/ thread[t].new = thread[t].d
       /\ "release" \in GetPlaces => \A k \in Object : holds[t][k] <= MaxHolds
  BY <1>2, <1>3 DEF HoldsInv, ThreadInv, Placed, UnrefPlaces, SetPlaces, GetPlaces
<1>13. Base'
  BY <1>1, <1>4, <1>8, <1>10, <1>11, <1>12, BaseKept
<1>14. \A k \in Object : object'[k].lock = object[k].lock /\ (object[k].ever => object'[k].ever)
  BY <1>2, <1>5
<1>15. ObjectLocks'
  BY <1>1, <1>3, <1>4, <1>14, ObjectLocksKept
<1>16. \A k \in Object : data[k].lock = t <=> HasData(t, k)
  BY <1>1 DEF DataLocks
<1>17. \A k \in Object : HasData(t, k) <=> thread[t].old = k
  BY <1>3 DEF HasData
<1>18. \A k \in Object : HasData(t, k)' <=> FALSE
  BY <1>3, <1>4 DEF HasData, Goes
<1>19. \A k \in Object : \/ data'[k].lock = data[k].lock
                         \/ data[k].lock \in {None, t} /\ data'[k].lock \in {None, t}
  BY <1>3, <1>6, <1>16, <1>17
<1>20. \A k \in Object : data'[k].lock # t
  <2> SUFFICES ASSUME NEW k \in Object
               PROVE  data'[k].lock # t
    OBVIOUS
  <2>1. CASE k = thread[t].old
    BY <1>2, <1>6, <2>1
  <2>2. CASE k # thread[t].old
    BY <1>6, <1>16, <1>17, <2>2
  <2> QED
    BY <2>1, <2>2
<1>21. \A k \in Object : data'[k].lock = t <=> HasData(t, k)'
  BY <1>18, <1>20
<1>22. DataLocks'
  BY <1>1, <1>4, <1>19, <1>21, DataLocksStep
<1>23. \A k \in Weak : weak[k].lock = t <=> thread[t].r = k
  BY <1>1, <1>3 DEF WeakLocks, HasWeak, WeakLocked
<1>24. \A k \in Weak : \/ weak'[k] = weak[k]
                       \/ weak[k].lock \in {None, t} /\ weak'[k].lock \in {None, t}
  BY <1>3, <1>7, <1>23 DEF SetsWeak
<1>25. \A k \in Weak : weak'[k].lock # t
  BY <1>2, <1>7, <1>23, <1>9 DEF SetsWeak
<1>26. "release" \notin WeakLocked
  BY <1>3 DEF WeakLocked
<1>27. WeakLocks'
  BY <1>1, <1>4, <1>24, <1>25, <1>26, WeakLocksReleased
<1>28. thread[t].ptr = weak[thread[t].r].ptr
  BY <1>1, <1>3, <1>9 DEF WeakLocks, HasWeak, WeakLocked
<1>29. /\ thread[t].old \in Object => object'[thread[t].old].ever
       /\ thread[t].new \in Object /\ "release" # "create" => object'[thread[t].new].ever
  BY <1>1, <1>2, <1>3, <1>14, RefsAssumption DEF Lists, ThreadInv, Placed, UnrefPlaces,
       SetPlaces, GetPlaces
<1>30. /\ \A k \in Weak : weak'[k].ptr = weak[k].ptr
       /\ \A k \in Object : data'[k].list = data[k].list
  BY <1>2, <1>6, <1>7 DEF SetsWeak
<1>31. Lists'
  BY <1>1, <1>4, <1>14, <1>29, <1>30, ListsKept
<1>32. Locks'
  BY <1>15, <1>22, <1>27 DEF Locks
<1>33. /\ \A w \in Thread \ {t} : thread'[w] = thread[w]
       /\ thread'[t].at = "release" /\ thread'[t].d = thread[t].d /\ thread'[t].mode = thread[t].mode
  BY <1>4 DEF Goes
<1>34. Types /\ \A x \in Object : LifeInv(x) /\ CountInv(x)
  BY <1>1, <1>2 DEF Life, LifeInv
<1>35. \A x \in Object : object'[x].freed = object[x].freed
  BY <1>2, <1>5
<1>36. \A x \in Object : object'[x].refs = object[x].refs
  BY <1>2, <1>5
<1>37. \A x \in Object, v \in Thread : holds'[v][x] = holds[v][x]
  BY <1>8
<1>38. \A x \in Object : object[x].ever => object'[x].ever
  BY <1>14
<1>39. \A x \in Object, k \in Weak : weak'[k].ptr = x => weak[k].ptr = x \/ object[x].refs # 0
  BY <1>30
<1>40. thread[t].d = None /\ thread'[t].d = None
  BY <1>2, <1>3, <1>33 DEF ThreadInv, Placed, UnrefPlaces, SetPlaces, GetPlaces
<1>41. \A x \in Object : thread[t].d # x /\ thread'[t].d # x
  BY <1>40, RefsAssumption
<1>42. Life'
  BY <1>33, <1>34, <1>35, <1>36, <1>37, <1>38, <1>39, <1>41, LifeApart DEF Life
<1>43. /\ \A w \in Thread \ {t} : thread'[w] = thread[w]
       /\ thread'[t].d = thread[t].d /\ thread'[t].frozen = thread[t].frozen /\ thread'[t].old = thread[t].old
  BY <1>4 DEF Goes
<1>44. \A x \in Object : UsersInv(x) /\ FrozenInv(x)
  BY <1>1 DEF Rest, RestInv
<1>45. \A x \in Object : object'[x].ever = object[x].ever /\ object'[x].freed = object[x].freed
  BY <1>2, <1>5
<1>46. \A x \in Object : data'[x].refs = data[x].refs
  BY <1>2, <1>6
<1>47. \A x \in Object : thread'[t].old = x <=> thread[t].old = x
  BY <1>2, <1>3, <1>43, RefsAssumption DEF ThreadInv, Placed, UnrefPlaces, SetPlaces,
       GetPlaces
<1>48. \A x \in Object : UsersInv(x)'
  BY <1>43, <1>44, <1>45, <1>46, <1>47, UsersKept
<1>49. \A x \in Object : UsersInv(x)'
  BY <1>48
<1>50. \A x \in Object : object'[x].freed = object[x].freed /\ object'[x].frozen = object[x].frozen
  BY <1>2, <1>5
<1>51. \A x \in Object : Freezes(t, x)' <=> Freezes(t, x)
  BY <1>2, <1>3, <1>43, RefsAssumption DEF Freezes, ThreadInv, Placed, UnrefPlaces, SetPlaces,
       GetPlaces
<1>52. \A x \in Object : FrozenInv(x)'
  BY <1>43, <1>44, <1>50, <1>51, FrozenKept
<1>53. \A x \in Object : FrozenInv(x)'
  BY <1>52
<1>54. Rest'
  BY <1>49, <1>53 DEF Rest, RestInv
<1> QED
  BY <1>13, <1>32, <1>31, <1>42, <1>54 DEF IInv

LEMMA StepGetObjectOther ==
  ASSUME IInv, NEW t \in Thread, GetObject(t), thread[t].ptr # thread[t].old, thread[t].ptr #
         None
  PROVE  IInv'
<1>1. Base /\ ObjectLocks /\ DataLocks /\ WeakLocks /\ Lists /\ Life /\ Rest
  BY DEF IInv, Locks
<1>2. Types /\ ThreadInv(t) /\ HoldsInv(t) /\ thread[t] \in ThreadRecord /\ t # None
  BY <1>1, RefsAssumption DEF Base, Types
<1>3. /\ thread[t].at = "get object"
      /\ thread[t].ptr # thread[t].old /\ thread[t].ptr # None
  BY <1>1, DidGetObjectOther
<1>4. Goes(t, "get data", thread[t].d, thread[t].mode, thread[t].frozen, thread[t].r,
                thread[t].new, thread[t].ptr, thread[t].ptr)
  BY <1>1, DidGetObjectOther
<1>5. object' = object
  BY <1>1, DidGetObjectOther
<1>6. /\ data' \in [Object -> DataType]
      /\ \A o \in Object : data'[o].refs = IF o = thread[t].ptr THEN data[o].refs + 1
                                        ELSE IF o = thread[t].old THEN data[o].refs - 1 ELSE data[o].refs
      /\ \A o \in Object : data'[o].lock = IF o = thread[t].old THEN None ELSE data[o].lock
      /\ \A o \in Object : data'[o].list = data[o].list
  BY <1>1, DidGetObjectOther
<1>7. SetsWeak(thread[t].r, weak[thread[t].r].ptr, None)
  BY <1>1, DidGetObjectOther
<1>8. holds' = holds
  BY <1>1, DidGetObjectOther
<1>9. thread[t].r \in Weak /\ thread[t].old \in Object
  BY <1>2, <1>3 DEF ThreadInv, Placed, UnrefPlaces, SetPlaces, GetPlaces
<1>10. /\ object' \in [Object -> ObjectType] /\ data' \in [Object -> DataType]
       /\ weak' \in [Weak -> WeakRecord]
  BY <1>2, <1>5, <1>6, <1>7 DEF Types, SetsWeak
<1>11. Placed("get data", thread[t].d, thread[t].mode, thread[t].frozen, thread[t].r,
                 thread[t].new, thread[t].ptr, thread[t].ptr)
  BY <1>2, <1>3, <1>9, RefsAssumption DEF ThreadInv, ThreadRecord, Placed, UnrefPlaces,
       SetPlaces, GetPlaces
<1>12. /\ thread[t].new # None => holds[t][thread[t].new] # 0 \/ thread[t].new = thread[t].d
       /\ "get data" \in GetPlaces => \A k \in Object : holds[t][k] <= MaxHolds
  BY <1>2, <1>3 DEF HoldsInv, ThreadInv, Placed, UnrefPlaces, SetPlaces, GetPlaces
<1>13. Base'
  BY <1>1, <1>4, <1>8, <1>10, <1>11, <1>12, BaseKept
<1>14. \A k \in Object : object'[k].lock = object[k].lock /\ (object[k].ever => object'[k].ever)
  BY <1>2, <1>5
<1>15. ObjectLocks'
  BY <1>1, <1>3, <1>4, <1>14, ObjectLocksKept
<1>16. \A k \in Object : data[k].lock = t <=> HasData(t, k)
  BY <1>1 DEF DataLocks
<1>17. \A k \in Object : HasData(t, k) <=> thread[t].old = k
  BY <1>3 DEF HasData
<1>18. \A k \in Object : HasData(t, k)' <=> FALSE
  BY <1>3, <1>4 DEF HasData, Goes
<1>19. \A k \in Object : \/ data'[k].lock = data[k].lock
                         \/ data[k].lock \in {None, t} /\ data'[k].lock \in {None, t}
  BY <1>3, <1>6, <1>16, <1>17
<1>20. \A k \in Object : data'[k].lock # t
  <2> SUFFICES ASSUME NEW k \in Object
               PROVE  data'[k].lock # t
    OBVIOUS
  <2>1. CASE k = thread[t].old
    BY <1>2, <1>6, <2>1
  <2>2. CASE k # thread[t].old
    BY <1>6, <1>16, <1>17, <2>2
  <2> QED
    BY <2>1, <2>2
<1>21. \A k \in Object : data'[k].lock = t <=> HasData(t, k)'
  BY <1>18, <1>20
<1>22. DataLocks'
  BY <1>1, <1>4, <1>19, <1>21, DataLocksStep
<1>23. \A k \in Weak : weak[k].lock = t <=> thread[t].r = k
  BY <1>1, <1>3 DEF WeakLocks, HasWeak, WeakLocked
<1>24. \A k \in Weak : \/ weak'[k] = weak[k]
                       \/ weak[k].lock \in {None, t} /\ weak'[k].lock \in {None, t}
  BY <1>3, <1>7, <1>23 DEF SetsWeak
<1>25. \A k \in Weak : weak'[k].lock # t
  BY <1>2, <1>7, <1>23, <1>9 DEF SetsWeak
<1>26. "get data" \notin WeakLocked
  BY <1>3 DEF WeakLocked
<1>27. WeakLocks'
  BY <1>1, <1>4, <1>24, <1>25, <1>26, WeakLocksReleased
<1>28. thread[t].ptr = weak[thread[t].r].ptr
  BY <1>1, <1>3, <1>9 DEF WeakLocks, HasWeak, WeakLocked
<1>29. /\ thread[t].ptr \in Object => object'[thread[t].ptr].ever
       /\ thread[t].new \in Object /\ "get data" # "create" => object'[thread[t].new].ever
  BY <1>1, <1>3, <1>9, <1>28, <1>14 DEF Lists
<1>30. /\ \A k \in Weak : weak'[k].ptr = weak[k].ptr
       /\ \A k \in Object : data'[k].list = data[k].list
  BY <1>2, <1>6, <1>7 DEF SetsWeak
<1>31. Lists'
  BY <1>1, <1>4, <1>14, <1>29, <1>30, ListsKept
<1>32. Locks'
  BY <1>15, <1>22, <1>27 DEF Locks
<1>33. /\ \A w \in Thread \ {t} : thread'[w] = thread[w]
       /\ thread'[t].at = "get data" /\ thread'[t].d = thread[t].d /\ thread'[t].mode = thread[t].mode
  BY <1>4 DEF Goes
<1>34. Types /\ \A x \in Object : LifeInv(x) /\ CountInv(x)
  BY <1>1, <1>2 DEF Life, LifeInv
<1>35. \A x \in Object : object'[x].freed = object[x].freed
  BY <1>2, <1>5
<1>36. \A x \in Object : object'[x].refs = object[x].refs
  BY <1>2, <1>5
<1>37. \A x \in Object, v \in Thread : holds'[v][x] = holds[v][x]
  BY <1>8
<1>38. \A x \in Object : object[x].ever => object'[x].ever
  BY <1>14
<1>39. \A x \in Object, k \in Weak : weak'[k].ptr = x => weak[k].ptr = x \/ object[x].refs # 0
  BY <1>30
<1>40. thread[t].d = None /\ thread'[t].d = None
  BY <1>2, <1>3, <1>33 DEF ThreadInv, Placed, UnrefPlaces, SetPlaces, GetPlaces
<1>41. \A x \in Object : thread[t].d # x /\ thread'[t].d # x
  BY <1>40, RefsAssumption
<1>42. Life'
  BY <1>33, <1>34, <1>35, <1>36, <1>37, <1>38, <1>39, <1>41, LifeApart DEF Life
<1>43. /\ \A w \in Thread \ {t} : thread'[w] = thread[w]
       /\ thread'[t].d = thread[t].d /\ thread'[t].frozen = thread[t].frozen /\ thread'[t].old = thread[t].ptr
  BY <1>4 DEF Goes
<1>44. \A x \in Object : UsersInv(x) /\ FrozenInv(x)
  BY <1>1 DEF Rest, RestInv
<1>45. \A x \in Object : object'[x].ever = object[x].ever /\ object'[x].freed = object[x].freed
  BY <1>2, <1>5
<1>46. \A x \in Object \ {thread[t].ptr, thread[t].old} : data'[x].refs = data[x].refs
  BY <1>2, <1>6
<1>47. \A x \in Object \ {thread[t].ptr, thread[t].old} : thread'[t].old = x <=> thread[t].old = x
  BY <1>2, <1>3, <1>43, RefsAssumption DEF ThreadInv, Placed, UnrefPlaces, SetPlaces,
       GetPlaces
<1>48. \A x \in Object \ {thread[t].ptr, thread[t].old} : UsersInv(x)'
  BY <1>43, <1>44, <1>45, <1>46, <1>47, UsersKept
<1>49. ASSUME NEW x \in Object, x = thread[t].ptr
       PROVE  UsersInv(x)'
  <2>1. thread[t].old # x /\ thread'[t].old = x
    BY <1>49, <1>2, <1>3, <1>43, RefsAssumption DEF ThreadInv, Placed, UnrefPlaces, SetPlaces, GetPlaces
  <2>2. data'[x].refs = data[x].refs + 1
    BY <1>49, <1>6
  <2> QED
    BY <1>43, <1>44, <1>45, <2>1, <2>2, UsersMore
<1>50. ASSUME NEW x \in Object, x = thread[t].old
       PROVE  UsersInv(x)'
  <2>1. thread[t].old = x /\ thread'[t].old # x
    BY <1>50, <1>2, <1>3, <1>43, RefsAssumption DEF ThreadInv, Placed, UnrefPlaces, SetPlaces, GetPlaces
  <2>2. data'[x].refs = data[x].refs - 1
    BY <1>50, <1>3, <1>6
  <2> QED
    BY <1>43, <1>44, <1>45, <2>1, <2>2, UsersLess
<1>51. \A x \in Object : UsersInv(x)'
  BY <1>48, <1>49, <1>50
<1>52. \A x \in Object : object'[x].freed = object[x].freed /\ object'[x].frozen = object[x].frozen
  BY <1>2, <1>5
<1>53. \A x \in Object : Freezes(t, x)' <=> Freezes(t, x)
  BY <1>2, <1>3, <1>43, RefsAssumption DEF Freezes, ThreadInv, Placed, UnrefPlaces, SetPlaces,
       GetPlaces
<1>54. \A x \in Object : FrozenInv(x)'
  BY <1>43, <1>44, <1>52, <1>53, FrozenKept
<1>55. \A x \in Object : FrozenInv(x)'
  BY <1>54
<1>56. Rest'
  BY <1>51, <1>55 DEF Rest, RestInv
<1> QED
  BY <1>13, <1>32, <1>31, <1>42, <1>56 DEF IInv

--------------------------------------------------------------------------------
(* The invariant holds. *)

LEMMA InitHolds == Init => IInv
<1> SUFFICES ASSUME Init
             PROVE  IInv
  OBVIOUS
<1>1. /\ \A t \in Thread : thread[t] = Resting /\ thread[t].d = None /\ thread[t].old = None
      /\ \A t \in Thread : thread[t].at = "idle" /\ thread[t].new = None /\ thread[t].r = None
      /\ \A t \in Thread : thread[t].frozen = FALSE /\ thread[t].ptr = None
  BY DEF Init, Resting
<1>2. \A o \in Object : /\ object[o].refs = 1 /\ ~object[o].freed /\ ~object[o].ever
                        /\ object[o].frozen = 0 /\ object[o].lock = None
                        /\ data[o].refs = 0 /\ data[o].lock = None /\ data[o].list = {}
  BY DEF Init
<1>3. \A r \in Weak : weak[r].ptr = None /\ weak[r].lock = None
  BY DEF Init
<1>4. Types
  <2>1. object \in [Object -> ObjectType]
    BY DEF Init, ObjectType
  <2>2. data \in [Object -> DataType]
    BY DEF Init, DataType
  <2>3. weak \in [Weak -> WeakRecord]
    BY DEF Init, WeakRecord
  <2>4. thread \in [Thread -> ThreadRecord]
    BY DEF Init, ThreadRecord, Resting, Places
  <2>5. holds \in [Thread -> [Object -> 0 .. MaxHolds + 1]]
    BY RefsAssumption DEF Init
  <2> QED
    BY <2>1, <2>2, <2>3, <2>4, <2>5 DEF Types
<1>5. Base
  <2>1. \A t \in Thread : ThreadInv(t)
    BY <1>1 DEF ThreadInv, Placed, UnrefPlaces, SetPlaces, GetPlaces
  <2>2. \A t \in Thread : HoldsInv(t)
    BY <1>1 DEF HoldsInv, GetPlaces
  <2> QED
    BY <1>4, <2>1, <2>2 DEF Base
<1>6. Locks
  <2>1. ObjectLocks
    BY <1>1, <1>2, RefsAssumption DEF ObjectLocks
  <2>2. DataLocks
    BY <1>1, <1>2, RefsAssumption DEF DataLocks, HasData
  <2>3. WeakLocks
    BY <1>1, <1>3, RefsAssumption DEF WeakLocks, HasWeak, WeakLocked
  <2> QED
    BY <2>1, <2>2, <2>3 DEF Locks
<1>7. Lists
  BY <1>1, <1>2, <1>3, RefsAssumption DEF Lists
<1>8. ASSUME NEW o \in Object
      PROVE  LifeInv(o) /\ RestInv(o)
  <2>1. o # None /\ \A t \in Thread : thread[t].d # o /\ thread[t].old # o
    BY <1>1, RefsAssumption
  <2>2. InFlight(o) = {} /\ Users(o) = {} /\ Freezers(o) = {}
    BY <2>1 DEF InFlight, Users, Freezers, Freezes, D
  <2>3. \A t \in Thread : holds[t][o] = IF Owner[o] = t THEN 1 ELSE 0
    BY DEF Init
  <2>4. Held(o) = {<<Owner[o], 1>>}
    <3>1. MaxHolds \in Nat /\ Owner[o] \in Thread
      BY RefsAssumption
    <3>2. ASSUME NEW x \in Thread \X (1 .. MaxHolds + 1)
          PROVE  x[2] <= holds[x[1]][o] <=> x = <<Owner[o], 1>>
      <4>1. x = <<x[1], x[2]>> /\ x[1] \in Thread /\ x[2] \in 1 .. MaxHolds + 1
        OBVIOUS
      <4>2. CASE x[1] = Owner[o]
        BY <2>3, <3>1, <4>1, <4>2
      <4>3. CASE x[1] # Owner[o]
        BY <2>3, <3>1, <4>1, <4>3
      <4> QED
        BY <4>2, <4>3
    <3>3. <<Owner[o], 1>> \in Thread \X (1 .. MaxHolds + 1)
      BY <3>1
    <3> QED
      BY <3>2, <3>3 DEF Held
  <2>5. Cardinality({}) = 0 /\ Cardinality({<<Owner[o], 1>>}) = 1
    BY FS_EmptySet, FS_Singleton
  <2>6. CountInv(o)
    BY <1>2, <2>2, <2>4, <2>5 DEF CountInv
  <2>7. EndInv(o)
    BY <1>2, <2>1 DEF EndInv, Doomed
  <2>8. PointedInv(o) /\ SoleInv(o)
    BY <1>2, <2>1 DEF PointedInv, SoleInv, Sole
  <2>9. Bit(object[o].ever /\ ~object[o].freed) = 0
    BY <1>2 DEF Bit
  <2>10. UsersInv(o) /\ FrozenInv(o)
    BY <1>2, <2>2, <2>5, <2>9 DEF UsersInv, FrozenInv
  <2> QED
    BY <2>6, <2>7, <2>8, <2>10 DEF LifeInv, RestInv
<1> QED
  BY <1>5, <1>6, <1>7, <1>8 DEF IInv, Life, Rest

LEMMA AnyUnrefDrops ==
  ASSUME IInv, NEW t \in Thread, UnrefDrops(t)
  PROVE  IInv'
<1>1. Types /\ thread[t] \in ThreadRecord /\ ThreadInv(t)
  BY DEF IInv, Base, Types
<1>2. CASE object[thread[t].d].refs > 2
  BY <1>2, StepUnrefMany
<1>3. CASE object[thread[t].d].refs = 2
  BY <1>3, StepUnrefTwo
<1>4. CASE object[thread[t].d].refs = 1
  BY <1>4, StepUnrefLast
<1>5. \/ object[thread[t].d].refs > 2
      \/ object[thread[t].d].refs = 2
      \/ object[thread[t].d].refs = 1
  BY <1>1 DEF ThreadRecord, UnrefDrops, DropOne, D
<1> QED
  BY <1>2, <1>3, <1>4, <1>5

LEMMA AnyClearNothing ==
  ASSUME IInv, NEW t \in Thread, ClearNothing(t)
  PROVE  IInv'
<1>1. Types /\ thread[t] \in ThreadRecord /\ ThreadInv(t)
  BY DEF IInv, Base, Types
<1>2. CASE thread[t].mode = "check"
  BY <1>2, StepClearNothingCheck
<1>3. CASE thread[t].mode = "drop"
  BY <1>3, StepClearNothingDrop
<1>4. CASE thread[t].mode = "run"
  BY <1>4, StepClearNothingRun
<1>5. \/ thread[t].mode = "check"
      \/ thread[t].mode = "drop"
      \/ thread[t].mode = "run"
  BY <1>1 DEF ThreadRecord
<1> QED
  BY <1>2, <1>3, <1>4, <1>5

LEMMA AnyClearLocks ==
  ASSUME IInv, NEW t \in Thread, ClearLocks(t)
  PROVE  IInv'
<1>1. Types /\ thread[t] \in ThreadRecord /\ ThreadInv(t)
  BY DEF IInv, Base, Types
<1>2. CASE Alone(t) /\ thread[t].mode # "drop"
  BY <1>2, StepClearLocksKeeps
<1>3. CASE Alone(t) /\ thread[t].mode = "drop"
  BY <1>3, StepClearLocksDrops
<1>4. CASE ~Alone(t) /\ thread[t].mode = "check"
  BY <1>4, StepClearNotAloneChecks
<1>5. CASE ~Alone(t) /\ thread[t].mode = "drop"
  BY <1>5, StepClearNotAloneDrops
<1>6. \/ Alone(t) /\ thread[t].mode # "drop"
      \/ Alone(t) /\ thread[t].mode = "drop"
      \/ ~Alone(t) /\ thread[t].mode = "check"
      \/ ~Alone(t) /\ thread[t].mode = "drop"
  BY <1>1 DEF ThreadRecord, ClearLocks, Alone
<1> QED
  BY <1>2, <1>3, <1>4, <1>5, <1>6

LEMMA AnyClearUnlocks ==
  ASSUME IInv, NEW t \in Thread, ClearUnlocks(t)
  PROVE  IInv'
<1>1. Types /\ thread[t] \in ThreadRecord /\ ThreadInv(t)
  BY DEF IInv, Base, Types
<1>2. CASE thread[t].mode = "check"
  BY <1>2, StepClearUnlocksCheck
<1>3. CASE thread[t].mode = "drop"
  BY <1>3, StepClearUnlocksDrop
<1>4. CASE thread[t].mode = "run"
  BY <1>4, StepClearUnlocksRun
<1>5. \/ thread[t].mode = "check"
      \/ thread[t].mode = "drop"
      \/ thread[t].mode = "run"
  BY <1>1 DEF ThreadRecord
<1> QED
  BY <1>2, <1>3, <1>4, <1>5

LEMMA AnyDecrement ==
  ASSUME IInv, NEW t \in Thread, Decrement(t)
  PROVE  IInv'
<1>1. Types /\ thread[t] \in ThreadRecord /\ ThreadInv(t)
  BY DEF IInv, Base, Types
<1>2. CASE thread[t].frozen = FALSE /\ object[thread[t].d].refs > 2
  BY <1>2, StepDecrementMany
<1>3. CASE thread[t].frozen = FALSE /\ object[thread[t].d].refs = 2
  BY <1>3, StepDecrementTwo
<1>4. CASE thread[t].frozen = TRUE /\ object[thread[t].d].refs > 1
  BY <1>4, StepDecrementThaws
<1>5. CASE object[thread[t].d].refs = 1
  BY <1>5, StepDecrementLast
<1>6. \/ thread[t].frozen = FALSE /\ object[thread[t].d].refs > 2
      \/ thread[t].frozen = FALSE /\ object[thread[t].d].refs = 2
      \/ thread[t].frozen = TRUE /\ object[thread[t].d].refs > 1
      \/ object[thread[t].d].refs = 1
  BY <1>1 DEF ThreadRecord, Decrement, DropOne, D
<1> QED
  BY <1>2, <1>3, <1>4, <1>5, <1>6

LEMMA AnyRunDisposed ==
  ASSUME IInv, NEW t \in Thread, RunDisposed(t)
  PROVE  IInv'
<1>1. Types /\ thread[t] \in ThreadRecord /\ ThreadInv(t)
  BY DEF IInv, Base, Types
<1>2. CASE object[thread[t].d].ever
  BY <1>2, StepRunDisposedEver
<1>3. CASE ~object[thread[t].d].ever
  BY <1>3, StepRunDisposedNever
<1>4. \/ object[thread[t].d].ever
      \/ ~object[thread[t].d].ever
  BY <1>1 DEF ThreadRecord
<1> QED
  BY <1>2, <1>3, <1>4

LEMMA AnyRead ==
  ASSUME IInv, NEW t \in Thread, Read(t)
  PROVE  IInv'
<1>1. Types /\ thread[t] \in ThreadRecord /\ ThreadInv(t)
  BY DEF IInv, Base, Types
<1>2. CASE weak[thread[t].r].ptr = thread[t].new /\ thread[t].d = None
  BY <1>2, StepReadSameIdle
<1>3. CASE weak[thread[t].r].ptr = thread[t].new /\ thread[t].d # None
  BY <1>3, StepReadSameDispose
<1>4. CASE weak[thread[t].r].ptr # thread[t].new
  BY <1>4, StepReadOther
<1>5. \/ weak[thread[t].r].ptr = thread[t].new /\ thread[t].d = None
      \/ weak[thread[t].r].ptr = thread[t].new /\ thread[t].d # None
      \/ weak[thread[t].r].ptr # thread[t].new
  BY <1>1 DEF ThreadRecord, Read, R
<1> QED
  BY <1>2, <1>3, <1>4, <1>5

LEMMA AnyCommit ==
  ASSUME IInv, NEW t \in Thread, Commit(t)
  PROVE  IInv'
<1>1. Types /\ thread[t] \in ThreadRecord /\ ThreadInv(t)
  BY DEF IInv, Base, Types
<1>2. CASE Lost(t)
  BY <1>2, StepCommitLost
<1>3. CASE ~Lost(t)
  BY <1>3, StepCommitMoves
<1>4. \/ Lost(t)
      \/ ~Lost(t)
  BY <1>1 DEF ThreadRecord
<1> QED
  BY <1>2, <1>3, <1>4

LEMMA AnyRelease ==
  ASSUME IInv, NEW t \in Thread, Release(t)
  PROVE  IInv'
<1>1. Types /\ thread[t] \in ThreadRecord /\ ThreadInv(t)
  BY DEF IInv, Base, Types
<1>2. CASE thread[t].d = None
  BY <1>2, StepReleaseIdle
<1>3. CASE thread[t].d # None
  BY <1>3, StepReleaseDispose
<1>4. \/ thread[t].d = None
      \/ thread[t].d # None
  BY <1>1 DEF ThreadRecord
<1> QED
  BY <1>2, <1>3, <1>4

LEMMA AnyGetReference ==
  ASSUME IInv, NEW t \in Thread, GetReference(t)
  PROVE  IInv'
<1>1. Types /\ thread[t] \in ThreadRecord /\ ThreadInv(t)
  BY DEF IInv, Base, Types
<1>2. CASE thread[t].ptr = None
  BY <1>2, StepGetReferenceNone
<1>3. CASE thread[t].ptr # None
  BY <1>3, StepGetReferenceSome
<1>4. \/ thread[t].ptr = None
      \/ thread[t].ptr # None
  BY <1>1 DEF ThreadRecord
<1> QED
  BY <1>2, <1>3, <1>4

LEMMA AnyGetObject ==
  ASSUME IInv, NEW t \in Thread, GetObject(t)
  PROVE  IInv'
<1>1. Types /\ thread[t] \in ThreadRecord /\ ThreadInv(t)
  BY DEF IInv, Base, Types
<1>2. CASE thread[t].ptr = thread[t].old
  BY <1>2, StepGetObjectTakes
<1>3. CASE thread[t].ptr = None
  BY <1>3, StepGetObjectNone
<1>4. CASE thread[t].ptr # thread[t].old /\ thread[t].ptr # None
  BY <1>4, StepGetObjectOther
<1>5. \/ thread[t].ptr = thread[t].old
      \/ thread[t].ptr = None
      \/ thread[t].ptr # thread[t].old /\ thread[t].ptr # None
  BY <1>1 DEF ThreadRecord
<1> QED
  BY <1>2, <1>3, <1>4, <1>5

LEMMA GoOnKeeps ==
  ASSUME IInv, NEW t \in Thread, GoOn(t)
  PROVE  IInv'
<1>1. CASE UnrefDrops(t)
  BY <1>1, AnyUnrefDrops
<1>2. CASE Toggle(t)
  BY <1>2, StepToggle
<1>3. CASE ClearNothing(t)
  BY <1>3, AnyClearNothing
<1>4. CASE ClearLocks(t)
  BY <1>4, AnyClearLocks
<1>5. CASE ClearUnlocks(t)
  BY <1>5, AnyClearUnlocks
<1>6. CASE \E r \in Weak : ClearNext(t, r)
  BY <1>6, StepClearNext
<1>7. CASE Freeze(t)
  BY <1>7, StepFreeze
<1>8. CASE Disposed(t)
  BY <1>8, StepDisposed
<1>9. CASE Decrement(t)
  BY <1>9, AnyDecrement
<1>10. CASE Thaw(t)
  BY <1>10, StepThaw
<1>11. CASE Finalize(t)
  BY <1>11, StepFinalize
<1>12. CASE RunDisposed(t)
  BY <1>12, AnyRunDisposed
<1>13. CASE Create(t)
  BY <1>13, StepCreate
<1>14. CASE Read(t)
  BY <1>14, AnyRead
<1>15. CASE Reference(t)
  BY <1>15, StepReference
<1>16. CASE LockFirst(t)
  BY <1>16, StepLockFirst
<1>17. CASE LockSecond(t)
  BY <1>17, StepLockSecond
<1>18. CASE LockThird(t)
  BY <1>18, StepLockThird
<1>19. CASE Commit(t)
  BY <1>19, AnyCommit
<1>20. CASE Release(t)
  BY <1>20, AnyRelease
<1>21. CASE GetReference(t)
  BY <1>21, AnyGetReference
<1>22. CASE GetData(t)
  BY <1>22, StepGetData
<1>23. CASE GetLock(t)
  BY <1>23, StepGetLock
<1>24. CASE GetObject(t)
  BY <1>24, AnyGetObject
<1> QED
  BY <1>1, <1>2, <1>3, <1>4, <1>5, <1>6, <1>7, <1>8, <1>9, <1>10, <1>11, <1>12, <1>13, <1>14,
       <1>15, <1>16, <1>17, <1>18, <1>19, <1>20, <1>21, <1>22, <1>23, <1>24 DEF GoOn

LEMMA CallKeeps ==
  ASSUME IInv, NEW t \in Thread, Call(t)
  PROVE  IInv'
<1>1. ASSUME NEW o \in Object, Unref(t, o)
      PROVE  IInv'
  BY <1>1, StepUnref
<1>2. ASSUME NEW o \in Object, RunDispose(t, o)
      PROVE  IInv'
  BY <1>2, StepRunDispose
<1>3. ASSUME NEW o \in Object, NEW u \in Thread, Ref(t, u, o)
      PROVE  IInv'
  BY <1>3, StepRef
<1>4. ASSUME Resurrect(t)
      PROVE  IInv'
  BY <1>4, StepResurrect
<1>5. ASSUME NEW r \in Weak, WeakRefGet(t, r)
      PROVE  IInv'
  BY <1>5, StepWeakRefGet
<1>6. ASSUME NEW r \in Weak, NEW n \in Object \cup {None}, WeakRefSet(t, r, n)
      PROVE  IInv'
  <2>1. CASE n = None
    BY <1>6, <2>1, StepWeakRefSetNone
  <2>2. CASE n \in Object
    BY <1>6, <2>2, StepWeakRefSetObject
  <2> QED
    BY <2>1, <2>2
<1> QED
  BY <1>1, <1>2, <1>3, <1>4, <1>5, <1>6 DEF Call

LEMMA StutterKeeps ==
  ASSUME IInv, UNCHANGED vars
  PROVE  IInv'
<1> USE DEF vars
<1>1. Base'
  BY DEF IInv, Base, Types, ThreadInv, HoldsInv
<1>2. Locks'
  <2>1. ObjectLocks' = ObjectLocks
    BY DEF ObjectLocks
  <2>2. DataLocks' = DataLocks
    BY DEF DataLocks, HasData, First, Order
  <2>3. WeakLocks' = WeakLocks
    BY DEF WeakLocks, HasWeak
  <2> QED
    BY <2>1, <2>2, <2>3 DEF IInv, Locks
<1>3. Lists'
  BY DEF IInv, Lists
<1>4. \A o \in Object : CountInv(o)' = CountInv(o)
  BY DEF CountInv, InFlight, Held, D
<1>5. \A o \in Object : EndInv(o)' = EndInv(o) /\ PointedInv(o)' = PointedInv(o)
  BY DEF EndInv, PointedInv, Doomed
<1>6. \A o \in Object : SoleInv(o)' = SoleInv(o)
  BY DEF SoleInv, Sole
<1>7. Life'
  BY <1>4, <1>5, <1>6 DEF IInv, Life, LifeInv
<1>8. \A o \in Object : UsersInv(o)' = UsersInv(o) /\ FrozenInv(o)' = FrozenInv(o)
  BY DEF UsersInv, FrozenInv, Users, Freezers, Freezes
<1>9. Rest'
  BY <1>8 DEF IInv, Rest, RestInv
<1> QED
  BY <1>1, <1>2, <1>3, <1>7, <1>9 DEF IInv

\* The invariant is inductive: what each thread works on, who has which lock, that the lists
\* and the GWeakRefs agree, and every count, after any steps of any number of threads.
THEOREM Inductive == Spec => []IInv
<1>1. IInv /\ [Next]_vars => IInv'
  <2>1. ASSUME IInv, NEW t \in Thread, GoOn(t) \/ Call(t)
        PROVE  IInv'
    BY <2>1, GoOnKeeps, CallKeeps
  <2>2. ASSUME IInv, UNCHANGED vars
        PROVE  IInv'
    BY <2>2, StutterKeeps
  <2> QED
    BY <2>1, <2>2 DEF Next
<1> QED
  BY <1>1, InitHolds, PTL DEF Spec

--------------------------------------------------------------------------------
(* What it implies. *)

\* An object that a GWeakRef points to is not freed.
LEMMA PointedLives ==
  ASSUME IInv, NEW r \in Weak, NEW o \in Object, weak[r].ptr = o
  PROVE  ~object[o].freed
<1>1. EndInv(o) /\ PointedInv(o)
  BY DEF IInv, Life, LifeInv
<1>2. CASE object[o].refs # 0
  BY <1>1, <1>2 DEF EndInv
<1>3. CASE object[o].refs = 0
  <2>1. PICK t \in Thread : thread[t].at = "clearing" /\ Doomed(t, o)
    BY <1>1, <1>3 DEF PointedInv
  <2>2. thread[t].d = o
    BY <2>1 DEF Doomed
  <2> QED
    BY <1>1, <2>2 DEF EndInv
<1> QED
  BY <1>2, <1>3

LEMMA TypesExact ==
  ASSUME IInv
  PROVE  TypeOK
<1>1. Types
  BY DEF IInv, Base
<1>2. ASSUME NEW o \in Object
      PROVE  object[o].frozen \in Nat /\ data[o].refs \in Nat
  <2>1. UsersInv(o) /\ FrozenInv(o)
    BY DEF IInv, Rest, RestInv
  <2>2. Bit(object[o].ever /\ ~object[o].freed) \in Nat
    BY DEF Bit
  <2> QED
    BY <2>1, <2>2, UsersFinite DEF UsersInv, FrozenInv
<1>3. object \in [Object -> ObjectRecord]
  <2>1. \A o \in Object : object[o] \in ObjectType
    BY <1>1 DEF Types
  <2>2. \A o \in Object : object[o] \in ObjectRecord
    BY <1>2, <2>1 DEF ObjectType, ObjectRecord
  <2> QED
    BY <1>1, <2>2 DEF Types
<1>4. data \in [Object -> DataRecord]
  <2>1. \A o \in Object : data[o] \in DataType
    BY <1>1 DEF Types
  <2>2. \A o \in Object : data[o] \in DataRecord
    BY <1>2, <2>1 DEF DataType, DataRecord
  <2> QED
    BY <1>1, <2>2 DEF Types
<1> QED
  BY <1>1, <1>3, <1>4 DEF TypeOK, Types

LEMMA NothingFreedUsed ==
  ASSUME IInv
  PROVE  NoUseAfterFree
<1>1. Types /\ (\A t \in Thread : ThreadInv(t) /\ thread[t] \in ThreadRecord) /\ WeakLocks /\ Lists
  BY DEF IInv, Base, Locks, Types
<1>2. ASSUME NEW t \in Thread, thread[t].d # None
      PROVE  ~object[thread[t].d].freed
  <2>1. thread[t].d \in Object
    BY <1>1, <1>2 DEF ThreadRecord
  <2> QED
    BY <2>1 DEF IInv, Life, LifeInv, EndInv
<1>3. ASSUME NEW t \in Thread, thread[t].ptr # None,
             thread[t].at \in {"reference", "commit", "get reference", "get object"}
      PROVE  ~object[thread[t].ptr].freed
  <2>1. thread[t].ptr \in Object /\ thread[t].r \in Weak
    BY <1>1, <1>3 DEF ThreadRecord, ThreadInv, Placed, SetPlaces, GetPlaces
  <2>2. HasWeak(t, thread[t].r)
    BY <1>3 DEF HasWeak, WeakLocked
  <2>3. weak[thread[t].r].ptr = thread[t].ptr
    BY <1>1, <2>1, <2>2 DEF WeakLocks
  <2> QED
    BY <2>1, <2>3, PointedLives
<1>4. ASSUME NEW t \in Thread, thread[t].old # None
      PROVE  data[thread[t].old].refs > 0
  <2>1. thread[t].old \in Object
    BY <1>1, <1>4 DEF ThreadRecord
  <2>2. t \in Users(thread[t].old)
    BY DEF Users
  <2>3. Cardinality(Users(thread[t].old)) \in Nat /\ Cardinality(Users(thread[t].old)) # 0
    BY <2>1, <2>2, UsersFinite, FS_EmptySet
  <2>4. UsersInv(thread[t].old)
    BY <2>1 DEF IInv, Rest, RestInv
  <2> DEFINE b == Bit(object[thread[t].old].ever /\ ~object[thread[t].old].freed)
  <2>5. b \in Nat
    BY DEF Bit
  <2>6. data[thread[t].old].refs = b + Cardinality(Users(thread[t].old))
    BY <2>4 DEF UsersInv
  <2> HIDE DEF b
  <2> QED
    BY <2>3, <2>5, <2>6
<1>5. ASSUME NEW o \in Object, data[o].list # {}
      PROVE  data[o].refs > 0 /\ ~object[o].freed
  <2>1. PICK r \in Weak : r \in data[o].list
    BY <1>1, <1>5 DEF Types, DataType
  <2>2. weak[r].ptr = o /\ object[o].ever
    BY <1>1, <2>1 DEF Lists
  <2>3. ~object[o].freed
    BY <2>2, PointedLives
  <2>4. Bit(object[o].ever /\ ~object[o].freed) = 1
    BY <2>2, <2>3 DEF Bit
  <2>5. UsersInv(o)
    BY DEF IInv, Rest, RestInv
  <2> QED
    BY <2>3, <2>4, <2>5, UsersFinite DEF UsersInv
<1> QED
  BY <1>2, <1>3, <1>4, <1>5 DEF NoUseAfterFree

LEMMA AllFreed ==
  ASSUME IInv
  PROVE  NothingLeaks
<1> SUFFICES ASSUME \A t \in Thread : thread[t].at = "idle", NEW o \in Object
             PROVE  IF \A t \in Thread : holds[t][o] = 0
                    THEN object[o].freed /\ data[o].refs = 0
                    ELSE /\ ~object[o].freed /\ object[o].frozen = 0
                         /\ (data[o].refs > 0) = object[o].ever
  BY DEF NothingLeaks, At
<1>1. Types /\ \A t \in Thread : ThreadInv(t)
  BY DEF IInv, Base
<1>2. \A t \in Thread : thread[t].d = None /\ thread[t].old = None
  BY <1>1 DEF ThreadInv, Placed
<1>3. o # None
  BY RefsAssumption
<1>4. CountInv(o) /\ EndInv(o) /\ UsersInv(o) /\ FrozenInv(o)
  BY DEF IInv, Life, LifeInv, Rest, RestInv
<1>5. InFlight(o) = {} /\ Users(o) = {} /\ Freezers(o) = {}
  BY <1>2, <1>3 DEF InFlight, Users, Freezers, Freezes, D
<1>6. Cardinality({}) = 0
  BY FS_EmptySet
<1>7. data[o].refs = Bit(object[o].ever /\ ~object[o].freed)
  <2>1. Bit(object[o].ever /\ ~object[o].freed) \in Nat
    BY DEF Bit
  <2> QED
    BY <1>4, <1>5, <1>6, <2>1 DEF UsersInv
<1>8. CASE \A t \in Thread : holds[t][o] = 0
  <2>1. Held(o) = {}
    BY <1>8 DEF Held
  <2>2. object[o].refs = 0
    BY <1>4, <1>5, <1>6, <2>1 DEF CountInv
  <2>3. \A t \in Thread : ~Doomed(t, o)
    BY <1>2, <1>3 DEF Doomed
  <2>4. object[o].freed
    BY <1>4, <2>2, <2>3 DEF EndInv
  <2>5. data[o].refs = 0
    BY <1>7, <2>4 DEF Bit
  <2> QED
    BY <1>8, <2>4, <2>5
<1>9. CASE ~(\A t \in Thread : holds[t][o] = 0)
  <2>1. PICK u \in Thread : holds[u][o] # 0
    BY <1>9
  <2>2. object[o].refs # 0
    BY <1>1, <1>4, <2>1, HolderCounts
  <2>3. ~object[o].freed
    BY <1>4, <2>2 DEF EndInv
  <2>4. object[o].frozen = 0
    BY <1>4, <1>5, <1>6, <2>3 DEF FrozenInv
  <2>5. object[o].ever \in BOOLEAN
    BY <1>1 DEF Types, ObjectType
  <2>6. CASE object[o].ever = TRUE
    <3>1. data[o].refs = 1
      BY <1>7, <2>3, <2>6 DEF Bit
    <3>2. (data[o].refs > 0) = TRUE
      BY <3>1
    <3>3. (data[o].refs > 0) = object[o].ever
      BY <2>6, <3>2
    <3> QED
      BY <1>9, <2>3, <2>4, <3>3
  <2>7. CASE object[o].ever = FALSE
    <3>1. data[o].refs = 0
      BY <1>7, <2>3, <2>7 DEF Bit
    <3>2. (data[o].refs > 0) = FALSE
      BY <3>1
    <3>3. (data[o].refs > 0) = object[o].ever
      BY <2>7, <3>2
    <3> QED
      BY <1>9, <2>3, <2>4, <3>3
  <2> QED
    BY <2>5, <2>6, <2>7
<1> QED
  BY <1>8, <1>9

\* A thread that is about to take a reference through a GWeakRef finds the object alive.
LEMMA TakesFromTheLiving ==
  ASSUME IInv, NEW t \in Thread, thread[t].at = "get object", thread[t].ptr = thread[t].old
  PROVE  object[thread[t].ptr].refs # 0
<1>1. /\ DataLocks /\ WeakLocks /\ ThreadInv(t)
      /\ \A o \in Object : PointedInv(o)
  BY DEF IInv, Base, Locks, Life, LifeInv
<1>2. thread[t].old \in Object /\ thread[t].r \in Weak
  BY <1>1 DEF ThreadInv, Placed, GetPlaces
<1>3. HasWeak(t, thread[t].r) /\ HasData(t, thread[t].old)
  BY DEF HasWeak, WeakLocked, HasData
<1>4. weak[thread[t].r].ptr = thread[t].old /\ data[thread[t].old].lock = t
  BY <1>1, <1>2, <1>3 DEF WeakLocks, DataLocks
<1>5. ASSUME NEW u \in Thread, thread[u].at = "clearing", Doomed(u, thread[t].old)
      PROVE  FALSE
  <2>1. HasData(u, thread[t].old)
    BY <1>5 DEF HasData, Doomed
  <2>2. data[thread[t].old].lock = u
    BY <1>1, <1>2, <2>1 DEF DataLocks
  <2> QED
    BY <1>4, <1>5, <2>2
<1> QED
  BY <1>1, <1>2, <1>4, <1>5 DEF PointedInv

LEMMA WeakExact ==
  ASSUME IInv
  PROVE  WeakRefsExact
<1>1. Types /\ (\A t \in Thread : ThreadInv(t) /\ thread[t] \in ThreadRecord) /\ Lists
  BY DEF IInv, Base, Types
<1>2. ASSUME NEW t \in Thread, thread[t].at = "get object", thread[t].ptr = thread[t].old
      PROVE  object[thread[t].ptr].refs > 0
  <2>1. object[thread[t].ptr].refs # 0
    BY <1>2, TakesFromTheLiving
  <2>2. thread[t].ptr \in Object
    BY <1>1, <1>2 DEF ThreadInv, Placed
  <2>3. object[thread[t].ptr].refs \in Nat
    BY <1>1, <2>2 DEF Types, ObjectType
  <2> QED
    BY <2>1, <2>3
<1>3. ASSUME NEW t \in Thread, thread[t].at = "clear", thread[t].mode = "drop",
             ~object[thread[t].d].ever
      PROVE  object[thread[t].d].refs = 1
  <2>1. thread[t].d \in Object
    BY <1>1, <1>3 DEF ThreadInv, Placed, UnrefPlaces
  <2>2. Sole(t, thread[t].d)
    BY <1>3 DEF Sole
  <2> QED
    BY <2>1, <2>2 DEF IInv, Life, LifeInv, SoleInv
<1>4. NoneFromTheDead
  BY <1>2, <1>3 DEF NoneFromTheDead
<1>5. WeakListExact
  BY <1>1 DEF WeakListExact, Lists
<1> QED
  BY <1>4, <1>5 DEF WeakRefsExact

\* However ref, unref, run_dispose, dispose() and the operations of GWeakRef race, in any
\* number of threads: every count is exact, no object and no WeakRefData is touched after
\* it is freed, and when every call has returned what has no reference is freed.
THEOREM RefsSafe == Spec => []RefCounting
<1>1. IInv => RefCounting
  <2>1. IInv => RefsExact
    BY DEF IInv, Life, LifeInv, CountInv, RefsExact
  <2> QED
    BY <2>1, TypesExact, NothingFreedUsed, AllFreed DEF RefCounting
<1> QED
  BY <1>1, Inductive, PTL

\* g_weak_ref_get never brings back an object whose last reference is gone, and a GWeakRef
\* is always in the list of the object it points to.
THEOREM WeakRefsSafe == Spec => []WeakRefsExact
<1>1. IInv => WeakRefsExact
  BY WeakExact
<1> QED
  BY <1>1, Inductive, PTL

\* The locks of objects, of WeakRefData and of GWeakRefs are held exactly by the threads
\* between taking and releasing them, and a thread that holds a GWeakRef has its pointer.
THEOREM LocksHeld == Spec => []Locks
<1>1. IInv => Locks
  BY DEF IInv
<1> QED
  BY <1>1, Inductive, PTL

\* g_object_unref clears weak pointers only while no other reference is left.
THEOREM ClearsOnlyLast == Spec => ClearedOnlyLast
<1> DEFINE Cleared1 == \A t \in Thread, r \in Weak :
             ClearNext(t, r) /\ thread[t].mode # "run" => object[D(t)].refs <= 1
<1>1. IInv => Cleared1
  <2> SUFFICES ASSUME IInv, NEW t \in Thread, NEW r \in Weak, ClearNext(t, r),
                      thread[t].mode # "run"
               PROVE  object[thread[t].d].refs <= 1
    BY DEF D
  <2>1. /\ thread[t].at = "clearing" /\ ThreadInv(t) /\ thread[t] \in ThreadRecord
    BY DEF IInv, Base, Types, ClearNext, At
  <2>2. thread[t].d \in Object /\ thread[t].mode \in {"check", "drop"}
    BY <2>1 DEF ThreadInv, Placed, UnrefPlaces, ThreadRecord
  <2>3. EndInv(thread[t].d) /\ SoleInv(thread[t].d)
    BY <2>2 DEF IInv, Life, LifeInv
  <2>4. CASE thread[t].mode = "check"
    BY <2>1, <2>3, <2>4 DEF SoleInv, Sole
  <2>5. CASE thread[t].mode = "drop"
    BY <2>1, <2>3, <2>5 DEF EndInv, Doomed
  <2> QED
    BY <2>2, <2>4, <2>5
<1>2. IInv => [Cleared1]_vars
  BY <1>1
<1> QED
  BY <1>2, Inductive, PTL DEF ClearedOnlyLast

================================================================================
