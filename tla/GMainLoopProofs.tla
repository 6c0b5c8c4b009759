----------------------------- MODULE GMainLoopProofs -----------------------------
(*****************************************************************************)
(* Proofs about the ownership of a main context, for any number of threads  *)
(* and loops and any depth of nesting.                                      *)
(*****************************************************************************)
EXTENDS GMainLoop, TLAPS

\* The calls of t form a chain: each leaves its own weight in the count.
Chain(t) == \A i \in 1 .. Depth(t) :
              /\ stack[t][i].at # "wait"
              /\ stack[t][i].count = CountBelow(t, i) + Weight(stack[t][i].kind)

\* What OwnerBalanced says of the owner, and of every other thread: it has no
\* call in progress on the context, or just one, which waits.
OwnerOK(t) == Depth(t) > 0 /\ Chain(t) /\ Top(t).count = ownerCount
OtherOK(t) == Depth(t) = 0 \/ (Depth(t) = 1 /\ stack[t][1].at = "wait")

Owned == /\ owner = NoThread <=> ownerCount = 0
         /\ \A t \in Thread : owner = t => OwnerOK(t)
         /\ \A t \in Thread : owner # t => OtherOK(t)

IInv == TypeOK /\ Owned

\* The shapes an action can have, as far as ownership is concerned.
Push(t, f) == stack' = [stack EXCEPT ![t] = Append(@, f)]
Pop(t) == Depth(t) > 0 /\ stack' = [stack EXCEPT ![t] = Below(t)]
Replace(t, f) == Depth(t) > 0 /\ stack' = [stack EXCEPT ![t] = [@ EXCEPT ![Depth(t)] = f]]
SameOwner == owner' = owner /\ ownerCount' = ownerCount
--------------------------------------------------------------------------------
\* Operations on the stack of one thread.
LEMMA PushFacts ==
  ASSUME TypeOK, NEW t \in Thread, NEW f \in Frame, Push(t, f)
  PROVE  /\ stack' \in [Thread -> Seq(Frame)]
         /\ \A u \in Thread \ {t} : stack'[u] = stack[u]
         /\ Len(stack'[t]) = Depth(t) + 1
         /\ stack'[t][Depth(t) + 1] = f
         /\ \A i \in 1 .. Depth(t) : stack'[t][i] = stack[t][i]
<1>1. stack[t] \in Seq(Frame) /\ stack'[t] = Append(stack[t], f)
  BY DEF TypeOK, Push
<1>2. Append(stack[t], f) \in Seq(Frame)
  BY <1>1
<1> QED
  BY <1>1, <1>2 DEF TypeOK, Push, Depth

LEMMA PopFacts ==
  ASSUME TypeOK, NEW t \in Thread, Pop(t)
  PROVE  /\ stack' \in [Thread -> Seq(Frame)]
         /\ \A u \in Thread \ {t} : stack'[u] = stack[u]
         /\ Len(stack'[t]) = Depth(t) - 1
         /\ \A i \in 1 .. Depth(t) - 1 : stack'[t][i] = stack[t][i]
<1>1. stack[t] \in Seq(Frame) /\ stack'[t] = SubSeq(stack[t], 1, Len(stack[t]) - 1)
  BY DEF TypeOK, Pop, Below, Depth
<1>2. Len(stack[t]) \in Nat /\ Len(stack[t]) > 0
  BY <1>1 DEF Pop, Depth
<1>3. /\ SubSeq(stack[t], 1, Len(stack[t]) - 1) \in Seq(Frame)
      /\ Len(SubSeq(stack[t], 1, Len(stack[t]) - 1)) = Len(stack[t]) - 1
      /\ \A i \in 1 .. Len(stack[t]) - 1 :
           SubSeq(stack[t], 1, Len(stack[t]) - 1)[i] = stack[t][i]
  BY <1>1, <1>2
<1> QED
  BY <1>1, <1>3 DEF TypeOK, Pop, Below, Depth

LEMMA ReplaceFacts ==
  ASSUME TypeOK, NEW t \in Thread, NEW f \in Frame, Replace(t, f)
  PROVE  /\ stack' \in [Thread -> Seq(Frame)]
         /\ \A u \in Thread \ {t} : stack'[u] = stack[u]
         /\ Len(stack'[t]) = Depth(t)
         /\ stack'[t][Depth(t)] = f
         /\ \A i \in 1 .. Depth(t) - 1 : stack'[t][i] = stack[t][i]
<1>1. stack[t] \in Seq(Frame) /\ stack'[t] = [stack[t] EXCEPT ![Len(stack[t])] = f]
  BY DEF TypeOK, Replace, Depth
<1>2. Len(stack[t]) \in Nat /\ Len(stack[t]) > 0
  BY <1>1 DEF Replace, Depth
<1>3. [stack[t] EXCEPT ![Len(stack[t])] = f] \in Seq(Frame)
  BY <1>1, <1>2
<1> QED
  BY <1>1, <1>2, <1>3 DEF TypeOK, Replace, Depth

--------------------------------------------------------------------------------
\* Each shape of step keeps the ownership invariant.

LEMMA Same == ASSUME Owned, SameOwner, UNCHANGED stack
              PROVE  Owned'
  BY DEF Owned, SameOwner, OwnerOK, OtherOK, Chain, CountBelow, Depth, Top

LEMMA CountBelowType ==
  ASSUME TypeOK, NEW t \in Thread, NEW i \in 1 .. Depth(t)
  PROVE  CountBelow(t, i) \in Nat
<1>1. CASE i = 1
  BY <1>1 DEF CountBelow
<1>2. CASE i # 1
  <2>1. stack[t] \in Seq(Frame) /\ i - 1 \in 1 .. Len(stack[t])
    BY <1>2 DEF TypeOK, Depth
  <2>2. stack[t][i - 1] \in Frame
    BY <2>1
  <2> QED
    BY <1>2, <2>2 DEF CountBelow, Frame
<1> QED
  BY <1>1, <1>2

\* A thread whose stack does not change and that is not the owner.
LEMMA OtherKept ==
  ASSUME NEW u \in Thread, OtherOK(u), stack'[u] = stack[u]
  PROVE  OtherOK(u)'
  BY DEF OtherOK, Depth

LEMMA PushOwning ==
  ASSUME TypeOK, Owned, NEW t \in Thread, NEW f \in Frame,
         CanAcquire(t), ~TopAt(t, {"wait"}), Push(t, f), owner' = t,
         f.at # "wait", f.count = ownerCount + Weight(f.kind),
         ownerCount' = ownerCount + Weight(f.kind)
  PROVE  Owned'
<1> USE OwnerAssumption
<1> DEFINE d == Depth(t)
<1>1. ownerCount \in Nat /\ Weight(f.kind) \in {1, 2} /\ d \in Nat
  BY DEF TypeOK, Weight, Depth
<1>2. d = 0 \/ owner = t
  BY <1>1 DEF Owned, OtherOK, TopAt, Top
<1>3. d = 0 => ownerCount = 0
  BY <1>1 DEF CanAcquire, Owned, OwnerOK
<1>4. d > 0 => Chain(t) /\ stack[t][d].count = ownerCount
  BY <1>1, <1>2 DEF Owned, OwnerOK, Top
<1>5. /\ Depth(t)' = d + 1
      /\ stack'[t][d + 1] = f
      /\ \A i \in 1 .. d : stack'[t][i] = stack[t][i]
  BY PushFacts DEF Depth
<1>6. Chain(t)'
  <2> SUFFICES ASSUME NEW i \in 1 .. d + 1
               PROVE  /\ stack'[t][i].at # "wait"
                      /\ stack'[t][i].count = CountBelow(t, i)' + Weight(stack'[t][i].kind)
    BY <1>5 DEF Chain
  <2>1. CASE i = d + 1
    BY <1>1, <1>3, <1>4, <1>5, <2>1 DEF CountBelow
  <2>2. CASE i \in 1 .. d
    <3>1. CountBelow(t, i)' = CountBelow(t, i)
      BY <1>1, <1>5, <2>2 DEF CountBelow
    <3> QED
      BY <1>1, <1>4, <1>5, <2>2, <3>1 DEF Chain
  <2> QED
    BY <1>1, <2>1, <2>2
<1>7. OwnerOK(t)'
  BY <1>1, <1>5, <1>6 DEF OwnerOK, Top
<1>8. ASSUME NEW u \in Thread, u # t PROVE OtherOK(u)'
  BY <1>8, PushFacts, OtherKept DEF CanAcquire, Owned
<1> QED
  BY <1>1, <1>7, <1>8 DEF Owned

LEMMA PushWaiting ==
  ASSUME TypeOK, Owned, NEW t \in Thread, NEW f \in Frame,
         ~CanAcquire(t), ~TopAt(t, {"wait"}), Push(t, f), SameOwner, f.at = "wait"
  PROVE  Owned'
<1>1. Depth(t) = 0 /\ owner # t
  BY DEF TypeOK, CanAcquire, Owned, OtherOK, TopAt, Top
<1>2. OtherOK(t)'
  <2>0. Len(stack'[t]) = Depth(t) + 1 /\ stack'[t][Depth(t) + 1] = f
    BY PushFacts
  <2>1. Len(stack'[t]) = 1 /\ stack'[t][1] = f
    BY <1>1, <2>0
  <2> QED
    BY <2>1 DEF OtherOK, Depth
<1>3. ASSUME NEW u \in Thread, u # t PROVE stack'[u] = stack[u]
  BY <1>3, PushFacts
<1>4. ASSUME NEW u \in Thread, owner = u PROVE OwnerOK(u)'
  BY <1>1, <1>3, <1>4 DEF Owned, SameOwner, OwnerOK, Chain, CountBelow, Depth, Top
<1>5. ASSUME NEW u \in Thread, owner # u, u # t PROVE OtherOK(u)'
  BY <1>3, <1>5, OtherKept DEF Owned
<1> QED
  BY <1>2, <1>4, <1>5 DEF Owned, SameOwner

LEMMA PopOwning ==
  ASSUME TypeOK, Owned, NEW t \in Thread, Pop(t), Top(t).at # "wait",
         ownerCount' = ownerCount - Weight(Top(t).kind),
         \/ ownerCount' = 0 /\ owner' = NoThread
         \/ ownerCount' # 0 /\ owner' = owner
  PROVE  Owned' /\ ownerCount' \in Nat
<1> USE OwnerAssumption
<1> DEFINE d == Depth(t)
<1>1. d \in Nat /\ d > 0 /\ stack[t][d] \in Frame
  BY DEF TypeOK, Pop, Depth
<1>2. owner = t
  BY <1>1 DEF Owned, OtherOK, Top
<1>3. Chain(t) /\ stack[t][d].count = ownerCount /\ ownerCount \in Nat
  BY <1>2 DEF TypeOK, Owned, OwnerOK, Top
<1>4. ownerCount' = CountBelow(t, d)
  <2>1. stack[t][d].count = CountBelow(t, d) + Weight(stack[t][d].kind)
    BY <1>1, <1>3 DEF Chain
  <2>2. CountBelow(t, d) \in Nat
    BY <1>1, CountBelowType
  <2> QED
    BY <1>3, <2>1, <2>2 DEF Top, Weight
<1>5. /\ Depth(t)' = d - 1
      /\ \A i \in 1 .. d - 1 : stack'[t][i] = stack[t][i]
      /\ \A u \in Thread \ {t} : stack'[u] = stack[u]
  BY PopFacts DEF Depth
<1>6. ASSUME NEW u \in Thread, u # t PROVE OtherOK(u)'
  BY <1>2, <1>5, <1>6, OtherKept DEF Owned
<1>7. CASE d = 1
  <2>1. ownerCount' = 0
    BY <1>4, <1>7 DEF CountBelow
  <2>2. OtherOK(t)'
    BY <1>5, <1>7 DEF OtherOK
  <2> QED
    BY <1>6, <2>1, <2>2 DEF Owned
<1>8. CASE d > 1
  <2>1. stack[t][d - 1].count = ownerCount'
    BY <1>1, <1>4, <1>8 DEF CountBelow
  <2>2. CountBelow(t, d - 1) \in Nat
    BY <1>1, <1>8, CountBelowType
  <2>3. ownerCount' \in Nat /\ ownerCount' # 0
    BY <1>1, <1>3, <1>8, <2>1, <2>2 DEF Chain, Weight
  <2>4. Chain(t)'
    BY <1>1, <1>3, <1>5, <1>8 DEF Chain, CountBelow
  <2>5. OwnerOK(t)'
    BY <1>1, <1>5, <1>8, <2>1, <2>4 DEF OwnerOK, Top
  <2> QED
    BY <1>2, <1>6, <2>3, <2>5 DEF Owned
<1> QED
  BY <1>1, <1>7, <1>8

LEMMA PopWaiting ==
  ASSUME TypeOK, Owned, NEW t \in Thread, Pop(t), Top(t).at = "wait", SameOwner
  PROVE  Owned'
<1>1. Depth(t) \in Nat /\ Depth(t) > 0
  BY DEF TypeOK, Pop, Depth
<1>2. Depth(t) = 1 /\ owner # t
  BY <1>1 DEF Owned, OwnerOK, OtherOK, Chain, Top
<1>3. OtherOK(t)'
  BY <1>2, PopFacts DEF OtherOK, Depth
<1>4. ASSUME NEW u \in Thread, u # t PROVE stack'[u] = stack[u]
  BY <1>4, PopFacts
<1>5. ASSUME NEW u \in Thread, owner = u PROVE OwnerOK(u)'
  BY <1>2, <1>4, <1>5 DEF Owned, SameOwner, OwnerOK, Chain, CountBelow, Depth, Top
<1>6. ASSUME NEW u \in Thread, owner # u, u # t PROVE OtherOK(u)'
  BY <1>4, <1>6, OtherKept DEF Owned
<1> QED
  BY <1>3, <1>5, <1>6 DEF Owned, SameOwner

\* The call on top moves on; owner and count stay.
LEMMA ReplaceOwning ==
  ASSUME TypeOK, Owned, NEW t \in Thread, NEW f \in Frame, Replace(t, f), SameOwner,
         Top(t).at # "wait", f.at # "wait", f.kind = Top(t).kind, f.count = Top(t).count
  PROVE  Owned'
<1> DEFINE d == Depth(t)
<1>1. d \in Nat /\ d > 0
  BY DEF TypeOK, Replace, Depth
<1>2. owner = t
  BY <1>1 DEF Owned, OtherOK, Top
<1>3. Chain(t) /\ Top(t).count = ownerCount
  BY <1>2 DEF Owned, OwnerOK
<1>4. /\ Depth(t)' = d
      /\ stack'[t][d] = f
      /\ \A i \in 1 .. d - 1 : stack'[t][i] = stack[t][i]
      /\ \A u \in Thread \ {t} : stack'[u] = stack[u]
  BY ReplaceFacts DEF Depth
<1>5. Chain(t)'
  <2> SUFFICES ASSUME NEW i \in 1 .. d
               PROVE  /\ stack'[t][i].at # "wait"
                      /\ stack'[t][i].count = CountBelow(t, i)' + Weight(stack'[t][i].kind)
    BY <1>4 DEF Chain
  <2>1. CountBelow(t, i)' = CountBelow(t, i)
    BY <1>1, <1>4 DEF CountBelow
  <2> QED
    BY <1>1, <1>3, <1>4, <2>1 DEF Chain, Top
<1>6. OwnerOK(t)'
  BY <1>1, <1>3, <1>4, <1>5 DEF OwnerOK, Top, SameOwner
<1>7. ASSUME NEW u \in Thread, u # t PROVE OtherOK(u)'
  BY <1>2, <1>4, <1>7, OtherKept DEF Owned
<1> QED
  BY <1>2, <1>6, <1>7 DEF Owned, SameOwner

\* A waiting thread becomes the owner.
LEMMA WaitToOwner ==
  ASSUME TypeOK, Owned, NEW t \in Thread, NEW f \in Frame, Replace(t, f),
         owner = NoThread, Top(t).at = "wait", f.at # "wait", owner' = t,
         f.count = Weight(f.kind), ownerCount' = Weight(f.kind)
  PROVE  Owned'
<1> USE OwnerAssumption
<1>1. Depth(t) = 1
  BY DEF TypeOK, Owned, OtherOK, Replace, Depth
<1>2. Depth(t)' = 1 /\ stack'[t][1] = f /\ \A u \in Thread \ {t} : stack'[u] = stack[u]
  BY <1>1, ReplaceFacts DEF Depth
<1>3. OwnerOK(t)'
  BY <1>2 DEF OwnerOK, Chain, CountBelow, Top, Weight
<1>4. ASSUME NEW u \in Thread, u # t PROVE OtherOK(u)'
  BY <1>2, <1>4, OtherKept DEF Owned
<1> QED
  BY <1>3, <1>4 DEF Owned, Weight

--------------------------------------------------------------------------------
\* The actions, in terms of these shapes.

LEMMA WithoutWaiterType == ASSUME TypeOK, NEW t \in Thread
                           PROVE  WithoutWaiter(t) \in Seq(Thread)
<1>1. CASE \E i \in DOMAIN waiters : waiters[i] = t
  <2>1. Position(t) \in 1 .. Len(waiters) /\ waiters \in Seq(Thread)
    BY <1>1 DEF Position, TypeOK
  <2>2. /\ SubSeq(waiters, 1, Position(t) - 1) \in Seq(Thread)
        /\ SubSeq(waiters, Position(t) + 1, Len(waiters)) \in Seq(Thread)
    BY <2>1
  <2> QED
    BY <1>1, <2>2 DEF WithoutWaiter
<1>2. CASE ~\E i \in DOMAIN waiters : waiters[i] = t
  BY <1>2 DEF WithoutWaiter, TypeOK
<1> QED
  BY <1>1, <1>2

LEMMA WakeWaiterType ==
  ASSUME TypeOK, NEW queue \in Seq(Thread), WakeWaiter(queue)
  PROVE  waiters' \in Seq(Thread) /\ asleep' \subseteq Thread
<1>1. queue # <<>> => Tail(queue) \in Seq(Thread)
  OBVIOUS
<1>2. waiters' \in Seq(Thread)
  BY <1>1 DEF WakeWaiter
<1>3. asleep' \subseteq Thread
  BY DEF TypeOK, WakeWaiter
<1> QED
  BY <1>2, <1>3

LEMMA AcquireStep ==
  ASSUME IInv, NEW t \in Thread, NEW kind \in Kinds, NEW loop \in Loop \cup {NoLoop},
         NEW at \in Labels \ {"wait"}, Caller(t), AcquireAndPush(t, kind, loop, at),
         running' \subseteq Loop, wakeup' \in BOOLEAN
  PROVE  IInv'
<1> DEFINE f == NewFrame(kind, loop, at, ownerCount + Weight(kind))
<1>1. f \in Frame /\ f.kind = kind /\ f.at = at /\ f.count = ownerCount + Weight(kind)
  BY DEF IInv, TypeOK, NewFrame, Frame, Weight
<1>2. Push(t, f) /\ CanAcquire(t) /\ owner' = t /\ ownerCount' = ownerCount + Weight(kind)
  BY DEF AcquireAndPush, Push
<1>3. ~TopAt(t, {"wait"})
  BY DEF Caller, TopAt, Callback
<1>4. Owned'
  BY <1>1, <1>2, <1>3, PushOwning DEF IInv
<1>5. stack' \in [Thread -> Seq(Frame)]
  BY <1>1, <1>2, PushFacts DEF IInv
<1>6. ownerCount' \in Nat
  BY <1>2 DEF IInv, TypeOK, Weight
<1>7. TypeOK'
  BY <1>2, <1>5, <1>6 DEF IInv, TypeOK, AcquireAndPush
<1> QED
  BY <1>4, <1>7 DEF IInv

LEMMA WaitStep ==
  ASSUME IInv, NEW t \in Thread, NEW kind \in Kinds, NEW loop \in Loop \cup {NoLoop},
         Caller(t), WaitAndPush(t, kind, loop), running' \subseteq Loop, wakeup' \in BOOLEAN
  PROVE  IInv'
<1> DEFINE f == NewFrame(kind, loop, "wait", 0)
<1>1. f \in Frame /\ f.at = "wait"
  BY DEF NewFrame, Frame, Labels
<1>2. Push(t, f) /\ ~CanAcquire(t) /\ SameOwner
  BY DEF WaitAndPush, Push, SameOwner
<1>3. ~TopAt(t, {"wait"})
  BY DEF Caller, TopAt, Callback
<1>4. Owned'
  BY <1>1, <1>2, <1>3, PushWaiting DEF IInv
<1>5. stack' \in [Thread -> Seq(Frame)]
  BY <1>1, <1>2, PushFacts DEF IInv
<1>6. waiters' \in Seq(Thread) /\ asleep' \subseteq Thread
  BY DEF IInv, TypeOK, WaitAndPush
<1>7. TypeOK'
  BY <1>2, <1>5, <1>6 DEF IInv, TypeOK, SameOwner
<1> QED
  BY <1>4, <1>7 DEF IInv

LEMMA ReleaseStep ==
  ASSUME IInv, NEW t \in Thread, Depth(t) > 0, Top(t).at # "wait", ReleaseAndPop(t),
         running' \subseteq Loop, wakeup' \in BOOLEAN
  PROVE  IInv'
<1>1. Pop(t)
  BY DEF ReleaseAndPop, Pop
<1>2. Owned' /\ ownerCount' \in Nat
  BY <1>1, PopOwning DEF IInv, ReleaseAndPop
<1>3. stack' \in [Thread -> Seq(Frame)]
  BY <1>1, PopFacts DEF IInv
<1>4. waiters' \in Seq(Thread) /\ asleep' \subseteq Thread
  BY WakeWaiterType DEF IInv, TypeOK, ReleaseAndPop
<1>5. owner' \in Thread \cup {NoThread}
  BY DEF IInv, TypeOK, ReleaseAndPop
<1>6. TypeOK'
  BY <1>2, <1>3, <1>4, <1>5 DEF IInv, TypeOK
<1> QED
  BY <1>2, <1>6 DEF IInv

LEMMA MoveStep ==
  ASSUME IInv, NEW t \in Thread, Depth(t) > 0, Top(t).at # "wait",
         NEW at \in Labels \ {"wait"}, MoveTop(t, at),
         UNCHANGED <<owner, ownerCount, waiters, asleep>>,
         running' \subseteq Loop, wakeup' \in BOOLEAN
  PROVE  IInv'
<1> DEFINE f == [Top(t) EXCEPT !.at = at]
<1>0. Top(t) \in Frame
  BY DEF IInv, TypeOK, Top, Depth
<1>1. f \in Frame /\ f.at = at /\ f.kind = Top(t).kind /\ f.count = Top(t).count
  BY <1>0 DEF Frame
<1>2. Replace(t, f)
  BY DEF Replace, MoveTop, Top
<1>3. SameOwner
  BY DEF SameOwner
<1>4. Owned'
  BY <1>1, <1>2, <1>3, ReplaceOwning DEF IInv
<1>5. stack' \in [Thread -> Seq(Frame)]
  BY <1>1, <1>2, ReplaceFacts DEF IInv
<1>6. TypeOK'
  BY <1>5 DEF IInv, TypeOK
<1> QED
  BY <1>4, <1>6 DEF IInv

LEMMA EndStep ==
  ASSUME IInv, NEW t \in Thread, Depth(t) > 0, Top(t).at # "wait", EndIteration(t),
         running' \subseteq Loop, wakeup' \in BOOLEAN
  PROVE  IInv'
<1>1. CASE ReleaseAndPop(t)
  BY <1>1, ReleaseStep
<1>2. ASSUME NEW at \in {"prepare", "poll"}, MoveTop(t, at),
             UNCHANGED <<owner, ownerCount, waiters, asleep>>
      PROVE  IInv'
  BY <1>2, MoveStep DEF Labels, Callback
<1> QED
  BY <1>1, <1>2 DEF EndIteration

LEMMA AfterCheckStep ==
  ASSUME IInv, NEW t \in Thread, Depth(t) > 0, Top(t).at # "wait", AfterCheck(t),
         running' \subseteq Loop, wakeup' \in BOOLEAN
  PROVE  IInv'
<1>1. CASE EndIteration(t)
  BY <1>1, EndStep
<1>2. CASE MoveTop(t, "dispatch") /\ UNCHANGED <<owner, ownerCount, waiters, asleep>>
  BY <1>2, MoveStep DEF Labels, Callback
<1> QED
  BY <1>1, <1>2 DEF AfterCheck

\* The four ways a wait for the context ends.
LEMMA WaitReturnStep == ASSUME IInv, NEW t \in Thread, WaitReturn(t) PROVE IInv'
<1> DEFINE f == Top(t)
           quit == f.kind = "run" /\ f.loop \notin running
<1> USE OwnerAssumption
<1>0. Depth(t) > 0 /\ Top(t).at = "wait"
  BY DEF WaitReturn, TopAt
<1>1. Depth(t) > 0 /\ Top(t).at = "wait" /\ Top(t) \in Frame
  BY <1>0 DEF IInv, TypeOK, Top, Depth
<1>2. WithoutWaiter(t) \in Seq(Thread)
  BY WithoutWaiterType DEF IInv
<1>3. running' \subseteq Loop /\ wakeup' \in BOOLEAN
  BY DEF WaitReturn, IInv, TypeOK
<1>4. ASSUME owner = NoThread, ~quit, owner' = t, ownerCount' = Weight(f.kind),
             NEW at \in StartLabels,
             stack' = [stack EXCEPT ![t][Depth(t)] =
                         [f EXCEPT !.at = at, !.count = Weight(f.kind)]],
             waiters' = WithoutWaiter(t), UNCHANGED asleep
      PROVE  IInv'
  <2> DEFINE g == [f EXCEPT !.at = at, !.count = Weight(f.kind)]
  <2>1. at \in Labels /\ at # "wait"
    BY <1>4 DEF StartLabels, Labels, Callback
  <2>2. g \in Frame /\ g.at # "wait" /\ g.kind = f.kind /\ g.count = Weight(f.kind)
    BY <1>1, <2>1 DEF Frame, Weight
  <2>3. Replace(t, g)
    BY <1>1, <1>4 DEF Replace
  <2>4. Owned'
    BY <1>1, <1>4, <2>2, <2>3, WaitToOwner DEF IInv
  <2>5. stack' \in [Thread -> Seq(Frame)]
    BY <2>2, <2>3, ReplaceFacts DEF IInv
  <2>6. ownerCount' \in Nat
    BY <1>4 DEF Weight
  <2>7. TypeOK'
    BY <1>2, <1>3, <1>4, <2>5, <2>6 DEF IInv, TypeOK
  <2> QED
    BY <2>4, <2>7 DEF IInv
<1>5. ASSUME stack' = [stack EXCEPT ![t] = Below(t)], UNCHANGED <<owner, ownerCount>>,
             waiters' \in Seq(Thread), asleep' \subseteq Thread
      PROVE  IInv'
  <2>1. Pop(t) /\ SameOwner
    BY <1>1, <1>5 DEF Pop, SameOwner
  <2>2. Owned'
    BY <1>1, <2>1, PopWaiting DEF IInv
  <2>3. stack' \in [Thread -> Seq(Frame)]
    BY <2>1, PopFacts DEF IInv
  <2>4. TypeOK'
    BY <1>3, <1>5, <2>3 DEF IInv, TypeOK
  <2> QED
    BY <2>2, <2>4 DEF IInv
<1>6. ASSUME WakeWaiter(WithoutWaiter(t))
      PROVE  waiters' \in Seq(Thread) /\ asleep' \subseteq Thread
  BY <1>2, <1>6, WakeWaiterType DEF IInv
<1>7. ASSUME waiters' = Append(WithoutWaiter(t), t), asleep' = asleep \cup {t},
             UNCHANGED <<owner, ownerCount, stack>>
      PROVE  IInv'
  <2>1. waiters' \in Seq(Thread) /\ asleep' \subseteq Thread
    BY <1>2, <1>7 DEF IInv, TypeOK
  <2>2. TypeOK'
    BY <1>3, <1>7, <2>1 DEF IInv, TypeOK
  <2>3. Owned'
    BY <1>7, Same DEF IInv, SameOwner
  <2> QED
    BY <2>2, <2>3 DEF IInv
<1>8. asleep \subseteq Thread
  BY DEF IInv, TypeOK
<1> QED
  BY <1>2, <1>4, <1>5, <1>6, <1>7, <1>8 DEF WaitReturn

\* Ownership of the context is balanced: this is OwnerBalanced, strengthened.
LEMMA Invariance == Spec => []IInv
<1>1. Init => IInv
  <2> SUFFICES ASSUME Init PROVE IInv
    OBVIOUS
  <2>0. <<>> \in Seq(Thread) /\ <<>> \in Seq(Frame)
    OBVIOUS
  <2>1. TypeOK
    BY <2>0 DEF Init, TypeOK
  <2>2. \A t \in Thread : owner # t /\ Depth(t) = 0
    BY OwnerAssumption DEF Init, Depth
  <2> QED
    BY <2>1, <2>2 DEF Init, IInv, Owned, OtherOK
<1>2. IInv /\ [Next]_vars => IInv'
  <2> SUFFICES ASSUME IInv, [Next]_vars PROVE IInv'
    OBVIOUS
  <2>0. running \subseteq Loop /\ wakeup \in BOOLEAN
    BY DEF IInv, TypeOK
  <2>1. ASSUME NEW t \in Thread, Acquire(t) PROVE IInv'
    BY <2>0, <2>1, AcquireStep DEF Acquire, Kinds, Labels
  <2>2. ASSUME NEW t \in Thread, Release(t) PROVE IInv'
    BY <2>0, <2>2, ReleaseStep DEF Release, TopAt
  <2>3. ASSUME NEW t \in Thread, IterationBegin(t) PROVE IInv'
    <3>1. ASSUME NEW kind \in {"iteration", "nonblocking", "pending"}, NEW at \in StartLabels,
                 AcquireAndPush(t, kind, NoLoop, at)
          PROVE  IInv'
      BY <2>0, <2>3, <3>1, AcquireStep DEF IterationBegin, Kinds, StartLabels, Labels, Callback
    <3>2. CASE WaitAndPush(t, "iteration", NoLoop)
      BY <2>0, <2>3, <3>2, WaitStep DEF IterationBegin, Kinds
    <3> QED
      BY <2>3, <3>1, <3>2 DEF IterationBegin
  <2>4. ASSUME NEW t \in Thread, NEW l \in Loop, RunBegin(t, l) PROVE IInv'
    <3>0. running' \subseteq Loop /\ wakeup' \in BOOLEAN /\ Caller(t)
      BY <2>0, <2>4 DEF RunBegin
    <3>1. ASSUME NEW at \in StartLabels, AcquireAndPush(t, "run", l, at)
          PROVE  IInv'
      BY <3>0, <3>1, AcquireStep DEF Kinds, StartLabels, Labels, Callback
    <3>2. CASE WaitAndPush(t, "run", l)
      BY <3>0, <3>2, WaitStep DEF Kinds
    <3> QED
      BY <2>4, <3>1, <3>2 DEF RunBegin
  <2>5. ASSUME NEW t \in Thread, NEW l \in Loop, Quit(t, l) PROVE IInv'
    BY <2>0, <2>5, Same DEF Quit, IInv, TypeOK, SameOwner
  <2>6. ASSUME NEW t \in Thread, Wakeup(t) PROVE IInv'
    BY <2>0, <2>6, Same DEF Wakeup, IInv, TypeOK, SameOwner
  <2>7. ASSUME NEW t \in Thread, SpuriousWake(t) PROVE IInv'
    BY <2>0, <2>7, Same DEF SpuriousWake, IInv, TypeOK, SameOwner
  <2>8. ASSUME NEW t \in Thread, WaitReturn(t) PROVE IInv'
    BY <2>8, WaitReturnStep
  <2>9. ASSUME NEW t \in Thread, PrepareEnd(t) PROVE IInv'
    BY <2>0, <2>9, MoveStep DEF PrepareEnd, TopAt, Labels
  <2>10. ASSUME NEW t \in Thread, PollReturn(t) PROVE IInv'
    BY <2>0, <2>10, MoveStep DEF PollReturn, TopAt, Labels
  <2>11. ASSUME NEW t \in Thread, PollEvent(t) PROVE IInv'
    BY <2>0, <2>11, MoveStep DEF PollEvent, TopAt, Labels
  <2>12. ASSUME NEW t \in Thread, CheckBegin(t) PROVE IInv'
    <3>1. Depth(t) > 0 /\ Top(t).at # "wait" /\ running' \subseteq Loop /\ wakeup' \in BOOLEAN
      BY <2>0, <2>12 DEF CheckBegin, TopAt
    <3>2. CASE MoveTop(t, "check") /\ UNCHANGED <<owner, ownerCount, waiters, asleep>>
      BY <3>1, <3>2, MoveStep DEF Labels, Callback
    <3>3. CASE AfterCheck(t)
      BY <3>1, <3>3, AfterCheckStep
    <3> QED
      BY <2>12, <3>2, <3>3 DEF CheckBegin
  <2>13. ASSUME NEW t \in Thread, CheckEnd(t) PROVE IInv'
    BY <2>0, <2>13, AfterCheckStep DEF CheckEnd, TopAt
  <2>14. ASSUME NEW t \in Thread, DispatchEnd(t) PROVE IInv'
    BY <2>0, <2>14, EndStep DEF DispatchEnd, TopAt
  <2>15. CASE UNCHANGED vars
    BY <2>15, Same DEF vars, IInv, TypeOK, SameOwner
  <2> QED
    BY <2>1, <2>2, <2>3, <2>4, <2>5, <2>6, <2>7, <2>8, <2>9,
       <2>10, <2>11, <2>12, <2>13, <2>14, <2>15 DEF Next
<1> QED
  BY <1>1, <1>2, PTL DEF Spec

\* Every variable keeps its type.
THEOREM TypeCorrect == Spec => []TypeOK
  BY Invariance, PTL DEF IInv

\* Only the owner iterates, and owner_count is what its calls have acquired.
THEOREM OwnerSafe == Spec => []OwnerBalanced
<1>1. IInv => OwnerBalanced
  <2> SUFFICES ASSUME IInv PROVE OwnerBalanced
    OBVIOUS
  <2>1. \A t \in Thread : DOMAIN stack[t] = 1 .. Depth(t) /\ Depth(t) \in Nat
    BY DEF IInv, TypeOK, Depth
  <2>2. ASSUME NEW t \in Thread, NEW i \in DOMAIN stack[t], Owning(t, i)
        PROVE  /\ owner = t
               /\ stack[t][i].count = CountBelow(t, i) + Weight(stack[t][i].kind)
    BY <2>1, <2>2 DEF IInv, Owned, OwnerOK, OtherOK, Chain, Owning
  <2> QED
    BY <2>2 DEF OwnerBalanced, IInv, Owned, OwnerOK
<1>2. Spec => []IInv
  BY Invariance
<1> QED
  BY <1>1, <1>2, PTL

--------------------------------------------------------------------------------
(* A quit is not slept through. *)

\* A call that will poll without testing is_running again; R are the loops that run.
Heeds(f, R) == f.kind = "run" /\ f.at \in {"prepare", "poll"} => f.loop \in R
AllHeed == \A t \in Thread : \A i \in 1 .. Depth(t) : Heeds(stack[t][i], running)

\* Only the innermost call of a thread is not in a callback or an acquire.
Nested == \A t \in Thread : \A i \in 1 .. Depth(t) - 1 :
            stack[t][i].at \in Callback \cup {"held"}

\* QuitWakesPoll of the calls in prepare too, and of all that are in progress.
QInv == IInv /\ Nested /\ (wakeup \/ AllHeed)

\* The shapes of a step again.
LEMMA PushHeeds ==
  ASSUME TypeOK, Nested, NEW t \in Thread, NEW f \in Frame, Caller(t), Push(t, f),
         running \subseteq running'
  PROVE  Nested' /\ (AllHeed /\ Heeds(f, running') => AllHeed')
<1> DEFINE d == Depth(t)
<1>1. /\ d \in Nat /\ Depth(t)' = d + 1 /\ stack'[t][d + 1] = f
      /\ \A i \in 1 .. d : stack'[t][i] = stack[t][i]
      /\ \A u \in Thread \ {t} : stack'[u] = stack[u] /\ Depth(u)' = Depth(u)
  BY PushFacts DEF Depth, TypeOK
<1>2. d > 0 => stack[t][d].at \in Callback \cup {"held"}
  BY <1>1 DEF Caller, TopAt, Top
<1>3. ASSUME NEW u \in Thread, NEW i \in 1 .. Depth(u)' - 1
      PROVE  stack'[u][i].at \in Callback \cup {"held"}
  <2>1. CASE u = t
    BY <1>1, <1>2, <1>3, <2>1 DEF Nested
  <2>2. CASE u # t
    BY <1>1, <1>3, <2>2 DEF Nested
  <2> QED
    BY <2>1, <2>2
<1>4. ASSUME AllHeed, Heeds(f, running'), NEW u \in Thread, NEW i \in 1 .. Depth(u)'
      PROVE  Heeds(stack'[u][i], running')
  <2>1. CASE u = t /\ i = d + 1
    BY <1>1, <1>4, <2>1
  <2>2. CASE u = t /\ i # d + 1
    BY <1>1, <1>4, <2>2 DEF AllHeed, Heeds
  <2>3. CASE u # t
    BY <1>1, <1>4, <2>3 DEF AllHeed, Heeds
  <2> QED
    BY <2>1, <2>2, <2>3
<1> QED
  BY <1>3, <1>4 DEF Nested, AllHeed

LEMMA PopHeeds ==
  ASSUME TypeOK, Nested, NEW t \in Thread, Pop(t), UNCHANGED running
  PROVE  Nested' /\ (AllHeed => AllHeed')
<1> DEFINE d == Depth(t)
<1>1. /\ d \in Nat /\ Depth(t)' = d - 1
      /\ \A i \in 1 .. d - 1 : stack'[t][i] = stack[t][i]
      /\ \A u \in Thread \ {t} : stack'[u] = stack[u] /\ Depth(u)' = Depth(u)
  BY PopFacts DEF Depth, TypeOK
<1>2. ASSUME NEW u \in Thread, NEW i \in 1 .. Depth(u)'
      PROVE  stack'[u][i] = stack[u][i] /\ i \in 1 .. Depth(u)
             /\ (i < Depth(u)' => i \in 1 .. Depth(u) - 1)
  <2>1. CASE u = t
    BY <1>1, <1>2, <2>1
  <2>2. CASE u # t
    <3>1. Depth(u) \in Nat
      BY DEF TypeOK, Depth
    <3> QED
      BY <1>1, <1>2, <2>2, <3>1
  <2> QED
    BY <2>1, <2>2
<1>3. \A u \in Thread : Depth(u)' \in Nat
  BY PopFacts DEF Depth
<1> QED
  BY <1>2, <1>3 DEF Nested, AllHeed

LEMMA ReplaceHeeds ==
  ASSUME TypeOK, Nested, NEW t \in Thread, NEW f \in Frame, Replace(t, f), UNCHANGED running
  PROVE  Nested' /\ (AllHeed /\ Heeds(f, running) => AllHeed')
<1> DEFINE d == Depth(t)
<1>1. /\ d \in Nat /\ Depth(t)' = d /\ stack'[t][d] = f
      /\ \A i \in 1 .. d - 1 : stack'[t][i] = stack[t][i]
      /\ \A u \in Thread \ {t} : stack'[u] = stack[u] /\ Depth(u)' = Depth(u)
  BY ReplaceFacts DEF Depth, TypeOK
<1>2. ASSUME NEW u \in Thread, NEW i \in 1 .. Depth(u)' - 1
      PROVE  stack'[u][i].at \in Callback \cup {"held"}
  <2>1. CASE u = t
    BY <1>1, <1>2, <2>1 DEF Nested
  <2>2. CASE u # t
    BY <1>1, <1>2, <2>2 DEF Nested
  <2> QED
    BY <2>1, <2>2
<1>3. ASSUME AllHeed, Heeds(f, running), NEW u \in Thread, NEW i \in 1 .. Depth(u)'
      PROVE  Heeds(stack'[u][i], running)
  <2>1. CASE u = t /\ i = d
    BY <1>1, <1>3, <2>1
  <2>2. CASE u = t /\ i # d
    BY <1>1, <1>3, <2>2 DEF AllHeed
  <2>3. CASE u # t
    BY <1>1, <1>3, <2>3 DEF AllHeed
  <2> QED
    BY <2>1, <2>2, <2>3
<1> QED
  BY <1>2, <1>3 DEF Nested, AllHeed

\* The call on top moves to a label at which it has tested is_running, or the same it
\* had before.
LEMMA MoveHeeds ==
  ASSUME IInv, Nested, NEW t \in Thread, Depth(t) > 0, NEW at \in Labels, MoveTop(t, at),
         UNCHANGED running
  PROVE  /\ Nested'
         /\ (\/ at \notin {"prepare", "poll"}
             \/ Top(t).at \in {"prepare", "poll"}
             \/ Top(t).kind = "run" => Top(t).loop \in running)
            => (AllHeed => AllHeed')
<1> DEFINE f == [Top(t) EXCEPT !.at = at]
<1>0. Top(t) \in Frame /\ Depth(t) \in Nat
  BY DEF IInv, TypeOK, Top, Depth
<1>1. f \in Frame /\ f.at = at /\ f.kind = Top(t).kind /\ f.loop = Top(t).loop
  BY <1>0 DEF Frame
<1>2. Replace(t, f)
  BY DEF Replace, MoveTop, Top
<1>3. Nested' /\ (AllHeed /\ Heeds(f, running) => AllHeed')
  BY <1>1, <1>2, ReplaceHeeds DEF IInv
<1>4. AllHeed => Heeds(Top(t), running)
  BY <1>0 DEF AllHeed, Top
<1> QED
  BY <1>1, <1>3, <1>4 DEF Heeds

LEMMA EndHeeds ==
  ASSUME IInv, Nested, NEW t \in Thread, Depth(t) > 0, EndIteration(t), UNCHANGED running
  PROVE  Nested' /\ (AllHeed => AllHeed')
<1>1. CASE ReleaseAndPop(t)
  <2>1. Pop(t)
    BY <1>1 DEF ReleaseAndPop, Pop
  <2> QED
    BY <2>1, PopHeeds DEF IInv
<1>2. ASSUME NEW at \in {"prepare", "poll"}, MoveTop(t, at),
             Top(t).kind = "run", Top(t).loop \in running
      PROVE  Nested' /\ (AllHeed => AllHeed')
  <2>1. at \in Labels
    BY <1>2 DEF Labels, Callback
  <2> QED
    BY <1>2, <2>1, MoveHeeds
<1> QED
  BY <1>1, <1>2 DEF EndIteration

LEMMA AfterCheckHeeds ==
  ASSUME IInv, Nested, NEW t \in Thread, Depth(t) > 0, AfterCheck(t), UNCHANGED running
  PROVE  Nested' /\ (AllHeed => AllHeed')
<1>1. CASE EndIteration(t)
  BY <1>1, EndHeeds
<1>2. CASE MoveTop(t, "dispatch")
  <2>1. "dispatch" \in Labels
    BY DEF Labels, Callback
  <2> QED
    BY <1>2, <2>1, MoveHeeds
<1> QED
  BY <1>1, <1>2 DEF AfterCheck

\* Where g_main_context_check acknowledges the wakeup, no call is in poll() or will be
\* before it tests is_running: there is none in prepare, and only the innermost call of
\* the owner could be in poll().
LEMMA CheckHeeds ==
  ASSUME QInv, NEW t \in Thread, TopAt(t, {"polled", "woken"}), ~InCheckOrPrepare
  PROVE  AllHeed
<1> SUFFICES ASSUME NEW u \in Thread, NEW i \in 1 .. Depth(u)
             PROVE  stack[u][i].at \notin {"prepare", "poll"}
  BY DEF AllHeed, Heeds
<1>1. /\ \A v \in Thread : Depth(v) \in Nat /\ DOMAIN stack[v] = 1 .. Depth(v)
      /\ Depth(t) > 0 /\ stack[t][Depth(t)].at \in {"polled", "woken"}
  BY DEF QInv, IInv, TypeOK, Depth, TopAt, Top
<1>2. stack[u][i].at # "prepare"
  BY <1>1 DEF InCheckOrPrepare
<1>3. owner = t
  BY <1>1 DEF QInv, IInv, Owned, OtherOK
<1>4. CASE u # t
  BY <1>1, <1>3, <1>4 DEF QInv, IInv, Owned, OtherOK
<1>5. CASE u = t /\ i = Depth(t)
  BY <1>1, <1>5
<1>6. CASE u = t /\ i # Depth(t)
  BY <1>1, <1>2, <1>6 DEF QInv, Nested, Callback
<1> QED
  BY <1>4, <1>5, <1>6

LEMMA QuitStep == QInv /\ [Next]_vars => Nested' /\ (wakeup' \/ AllHeed')
<1> SUFFICES ASSUME QInv, [Next]_vars
             PROVE  Nested' /\ (wakeup' \/ AllHeed')
  OBVIOUS
<1>0. IInv /\ TypeOK /\ Nested /\ (wakeup \/ AllHeed)
  BY DEF QInv, IInv
<1>1. ASSUME NEW t \in Thread, NEW kind \in Kinds, NEW loop \in Loop \cup {NoLoop},
             NEW at \in Labels, NEW count \in Nat, Caller(t),
             Push(t, NewFrame(kind, loop, at, count)), UNCHANGED wakeup,
             running \subseteq running', kind = "run" => loop \in running'
      PROVE  Nested' /\ (wakeup' \/ AllHeed')
  <2> DEFINE f == NewFrame(kind, loop, at, count)
  <2>1. f \in Frame /\ Heeds(f, running')
    BY <1>1 DEF NewFrame, Frame, Heeds
  <2> QED
    BY <1>0, <1>1, <2>1, PushHeeds
<1>2. ASSUME NEW t \in Thread, Pop(t), UNCHANGED <<wakeup, running>>
      PROVE  Nested' /\ (wakeup' \/ AllHeed')
  BY <1>0, <1>2, PopHeeds
<1>3. ASSUME UNCHANGED stack
      PROVE  Nested' /\ (AllHeed /\ UNCHANGED running => AllHeed')
  BY <1>0, <1>3 DEF Nested, AllHeed, Depth
<1>4. ASSUME NEW t \in Thread, Acquire(t) PROVE Nested' /\ (wakeup' \/ AllHeed')
  <2>1. ownerCount + Weight("acquire") \in Nat /\ "acquire" \in Kinds /\ "held" \in Labels
    BY <1>0 DEF TypeOK, Weight, Kinds, Labels
  <2>2. Push(t, NewFrame("acquire", NoLoop, "held", ownerCount + Weight("acquire")))
    BY <1>4 DEF Acquire, AcquireAndPush, Push
  <2> QED
    BY <1>1, <1>4, <2>1, <2>2 DEF Acquire
<1>5. ASSUME NEW t \in Thread, Release(t) PROVE Nested' /\ (wakeup' \/ AllHeed')
  BY <1>2, <1>5 DEF Release, ReleaseAndPop, Pop, TopAt
<1>6. ASSUME NEW t \in Thread, IterationBegin(t) PROVE Nested' /\ (wakeup' \/ AllHeed')
  <2>1. ASSUME NEW kind \in {"iteration", "nonblocking", "pending"}, NEW at \in StartLabels,
               AcquireAndPush(t, kind, NoLoop, at)
        PROVE  Nested' /\ (wakeup' \/ AllHeed')
    <3>1. /\ ownerCount + Weight(kind) \in Nat /\ kind \in Kinds /\ kind # "run"
          /\ at \in Labels
      BY <1>0, <2>1 DEF TypeOK, Weight, Kinds, Labels, StartLabels, Callback
    <3>2. Push(t, NewFrame(kind, NoLoop, at, ownerCount + Weight(kind)))
      BY <2>1 DEF AcquireAndPush, Push
    <3> QED
      BY <1>1, <1>6, <3>1, <3>2 DEF IterationBegin
  <2>2. CASE WaitAndPush(t, "iteration", NoLoop)
    <3>1. Push(t, NewFrame("iteration", NoLoop, "wait", 0))
      BY <2>2 DEF WaitAndPush, Push
    <3>2. "iteration" \in Kinds /\ "wait" \in Labels
      BY DEF Kinds, Labels
    <3> QED
      BY <1>1, <1>6, <3>1, <3>2 DEF IterationBegin
  <2> QED
    BY <1>6, <2>1, <2>2 DEF IterationBegin
<1>7. ASSUME NEW t \in Thread, NEW l \in Loop, RunBegin(t, l)
      PROVE  Nested' /\ (wakeup' \/ AllHeed')
  <2>0. /\ Caller(t) /\ UNCHANGED wakeup /\ running \subseteq running' /\ l \in running'
        /\ "run" \in Kinds
    BY <1>7 DEF RunBegin, Kinds
  <2>1. ASSUME NEW at \in StartLabels, AcquireAndPush(t, "run", l, at)
        PROVE  Nested' /\ (wakeup' \/ AllHeed')
    <3>1. ownerCount + Weight("run") \in Nat /\ at \in Labels
      BY <1>0, <2>1 DEF TypeOK, Weight, Labels, StartLabels, Callback
    <3>2. Push(t, NewFrame("run", l, at, ownerCount + Weight("run")))
      BY <2>1 DEF AcquireAndPush, Push
    <3> QED
      BY <1>1, <2>0, <3>1, <3>2
  <2>2. CASE WaitAndPush(t, "run", l)
    <3>1. Push(t, NewFrame("run", l, "wait", 0)) /\ "wait" \in Labels
      BY <2>2 DEF WaitAndPush, Push, Labels
    <3> QED
      BY <1>1, <2>0, <3>1
  <2> QED
    BY <1>7, <2>1, <2>2 DEF RunBegin
<1>8. ASSUME NEW t \in Thread, NEW l \in Loop, Quit(t, l)
      PROVE  Nested' /\ (wakeup' \/ AllHeed')
  BY <1>3, <1>8 DEF Quit
<1>9. ASSUME NEW t \in Thread, Wakeup(t) \/ SpuriousWake(t)
      PROVE  Nested' /\ (wakeup' \/ AllHeed')
  BY <1>0, <1>3, <1>9 DEF Wakeup, SpuriousWake
<1>10. ASSUME NEW t \in Thread, WaitReturn(t) PROVE Nested' /\ (wakeup' \/ AllHeed')
  <2> DEFINE f == Top(t)
             quit == f.kind = "run" /\ f.loop \notin running
  <2>0. /\ Depth(t) > 0 /\ UNCHANGED <<running, wakeup>>
    BY <1>10 DEF WaitReturn, TopAt
  <2>1. f \in Frame
    BY <1>0, <2>0 DEF TypeOK, Top, Depth
  <2>2. ASSUME ~quit, NEW at \in StartLabels,
               stack' = [stack EXCEPT ![t][Depth(t)] =
                           [f EXCEPT !.at = at, !.count = Weight(f.kind)]]
        PROVE  Nested' /\ (wakeup' \/ AllHeed')
    <3> DEFINE g == [f EXCEPT !.at = at, !.count = Weight(f.kind)]
    <3>1. at \in Labels /\ Weight(f.kind) \in Nat
      BY <2>2 DEF StartLabels, Labels, Callback, Weight
    <3>2. g \in Frame /\ g.kind = f.kind /\ g.loop = f.loop
      BY <2>1, <3>1 DEF Frame
    <3>3. Replace(t, g)
      BY <2>0, <2>2 DEF Replace
    <3>4. Heeds(g, running)
      BY <2>2, <3>2 DEF Heeds
    <3> QED
      BY <1>0, <2>0, <3>2, <3>3, <3>4, ReplaceHeeds
  <2>3. ASSUME stack' = [stack EXCEPT ![t] = Below(t)]
        PROVE  Nested' /\ (wakeup' \/ AllHeed')
    BY <1>2, <2>0, <2>3 DEF Pop
  <2>4. ASSUME UNCHANGED stack
        PROVE  Nested' /\ (wakeup' \/ AllHeed')
    BY <1>0, <1>3, <2>0, <2>4
  <2> QED
    BY <1>10, <2>2, <2>3, <2>4 DEF WaitReturn
<1>11. ASSUME NEW t \in Thread, PrepareEnd(t) \/ PollReturn(t) \/ PollEvent(t)
       PROVE  Nested' /\ (wakeup' \/ AllHeed')
  <2>1. Depth(t) > 0 /\ UNCHANGED <<running, wakeup>> /\ Top(t).at \in {"prepare", "poll"}
    BY <1>11 DEF PrepareEnd, PollReturn, PollEvent, TopAt
  <2>2. \E at \in Labels : MoveTop(t, at)
    BY <1>11 DEF PrepareEnd, PollReturn, PollEvent, Labels
  <2> QED
    BY <1>0, <2>1, <2>2, MoveHeeds
<1>12. ASSUME NEW t \in Thread, CheckBegin(t) PROVE Nested' /\ (wakeup' \/ AllHeed')
  <2>0. TopAt(t, {"polled", "woken"}) /\ Depth(t) > 0 /\ UNCHANGED running
    BY <1>12 DEF CheckBegin, TopAt
  <2>1. CASE ~InCheckOrPrepare
    <3>1. AllHeed
      BY <2>0, <2>1, CheckHeeds
    <3>2. CASE MoveTop(t, "check")
      <4>1. "check" \in Labels
        BY DEF Labels, Callback
      <4> QED
        BY <1>0, <2>0, <3>1, <3>2, <4>1, MoveHeeds
    <3>3. CASE AfterCheck(t)
      BY <1>0, <2>0, <3>1, <3>3, AfterCheckHeeds
    <3> QED
      BY <1>12, <2>1, <3>2, <3>3 DEF CheckBegin
  <2>2. CASE InCheckOrPrepare
    <3>1. AfterCheck(t) /\ UNCHANGED wakeup
      BY <1>12, <2>2 DEF CheckBegin
    <3> QED
      BY <1>0, <2>0, <3>1, AfterCheckHeeds
  <2> QED
    BY <2>1, <2>2
<1>13. ASSUME NEW t \in Thread, CheckEnd(t) PROVE Nested' /\ (wakeup' \/ AllHeed')
  BY <1>0, <1>13, AfterCheckHeeds DEF CheckEnd, TopAt
<1>14. ASSUME NEW t \in Thread, DispatchEnd(t) PROVE Nested' /\ (wakeup' \/ AllHeed')
  BY <1>0, <1>14, EndHeeds DEF DispatchEnd, TopAt
<1>15. CASE UNCHANGED vars
  BY <1>0, <1>3, <1>15 DEF vars
<1> QED
  BY <1>4, <1>5, <1>6, <1>7, <1>8, <1>9, <1>10, <1>11, <1>12, <1>13, <1>14, <1>15 DEF Next

\* A loop that was quit never sleeps in poll(), whatever is nested in it and whoever
\* acknowledged a wakeup: g_main_loop_quit's wakeup is only acknowledged by a call after
\* which every loop tests is_running before it polls again.
THEOREM QuitSafe == Spec => []QuitWakesPoll
<1>1. Init => Nested /\ AllHeed
  BY DEF Init, Nested, AllHeed, Depth
<1>2. QInv => QuitWakesPoll
  <2> SUFFICES ASSUME QInv, NEW t \in Thread, TopAt(t, {"poll"}), Top(t).kind = "run",
                      Top(t).loop \notin running, ~wakeup
               PROVE  FALSE
    BY DEF QuitWakesPoll
  <2>1. AllHeed /\ Depth(t) \in Nat /\ Depth(t) > 0
    BY DEF QInv, IInv, TypeOK, TopAt, Depth
  <2> QED
    BY <2>1 DEF AllHeed, Heeds, TopAt, Top
<1>3. Spec => []IInv
  BY Invariance
<1> QED
  BY <1>1, <1>2, <1>3, QuitStep, PTL DEF Spec, QInv
================================================================================
