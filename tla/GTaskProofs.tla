------------------------------ MODULE GTaskProofs ------------------------------
(*****************************************************************************)
(* Proofs about GTask, for any number of tasks, whoever starts them and      *)
(* however large the pool is.  IInv says, of each task, in which places its  *)
(* actors can be together (Stage, Handled, Connected), whose references it   *)
(* has (Refs), that at most one actor is about to complete it (Once), and    *)
(* what its flags mean (Flags, Read).  A step works on one task and          *)
(* does nothing to the others (Frame), so that each action needs one lemma   *)
(* about one task; all have the same steps: the invariant (1, 2), the guards *)
(* (3), what is left in task[t] (4), where the actors are (5 to 8), then the *)
(* terms of the sum of references, the sum, the tokens of those who may      *)
(* complete the task, and the other parts of the invariant.                  *)
(*****************************************************************************)
EXTENDS GTask, FiniteSetTheorems, TLAPS

Bit(b) == IF b THEN 1 ELSE 0

Starting == {"new", "check", "connect", "push"}
Handling == {"handler", "complete", "finish", "notify", "end"}
\* The function has not ended yet.
Early == {"none", "queued", "popped"} \cup InFunction

\* Which calls and threads a task can have, by its kind.
Stage(t) ==
  /\ task[t].kind = "plain" => /\ caller[t] \in {"new", "done"}
                               /\ worker[t] \in {"none", "operation", "gone"}
                               /\ caller[t] = "new" <=> worker[t] = "none"
                               /\ ~task[t].connected /\ ~task[t].complete /\ ~task[t].cancelled
  /\ task[t].kind # "plain" => /\ worker[t] # "operation"
                               /\ worker[t] = "none" <=> caller[t] \in Starting
  /\ caller[t] \in {"wait", "asleep", "completing"} => task[t].kind = "sync"
  /\ caller[t] = "return" => task[t].kind = "async"
  /\ caller[t] = "new" => task[t].refs = 0 /\ ~task[t].freed
  /\ caller[t] \in {"new", "check"} => ~task[t].cancelled /\ ~task[t].complete
  /\ caller[t] \in {"new", "check", "connect"} => ~task[t].connected
  /\ caller[t] = "connect" => t \in Cancellable /\ ~task[t].complete
  /\ task[t].connected => t \in Cancellable
  /\ task[t].cancelled => t \in Cancellable /\ cancel.flag
  /\ worker[t] = "queued" <=> t \in pool.queue
  /\ task[t].kind = "sync" => task[t].calls = 0 /\ task[t].idles = 0 /\ main.task # t

\* Where the thread that cancels and the main loop are.
PlaceInv ==
  /\ cancel.task \in Task <=> cancel.at \in Handling
  /\ cancel.at # "idle" => cancel.flag
  /\ main.task \in Task <=> main.at # "loop"
  /\ main.at # "loop" => main.drops \in {1, 2}

\* The handler runs for a task that has connected it, and waits for its mutex.
Handled(t) == cancel.task = t =>
  /\ t \in Cancellable /\ task[t].kind # "plain" /\ caller[t] \notin {"new", "check", "connect"}
  /\ cancel.at # "handler" => caller[t] # "push"

\* The references to a task: of the call that starts it, of the pool's thread or the
\* operation, of the handler, two of each idle source, and those of the main loop.
CallerRef(t) == Bit(caller[t] \notin {"new", "done"})
WorkerRef(t) == Bit(worker[t] \notin {"none", "cleanup", "counted", "gone"})
HandlerRef(t) == Bit(task[t].connected \/ cancel.task = t)
MainRef(t) == IF main.task = t THEN main.drops ELSE 0
Refs(t) ==
  /\ task[t].refs = CallerRef(t) + WorkerRef(t) + HandlerRef(t) + 2 * task[t].idles + MainRef(t)
  /\ caller[t] # "new" => (task[t].freed <=> task[t].refs = 0)

\* Who is about to complete a task: the call that starts it, the pool's thread or the
\* operation, the handler, and the main loop.
CallerToken(t) == Bit(caller[t] = "return" \/ (caller[t] = "push" /\ task[t].complete))
WorkerToken(t) == Bit(worker[t] \in {"operation", "finish", "set finish", "notify", "set notify"})
CancelToken(t) == Bit(cancel.task = t /\ cancel.at \in {"finish", "notify"})
MainToken(t) == Bit(main.at = "callback" /\ main.task = t)
Tokens(t) == CallerToken(t) + WorkerToken(t) + CancelToken(t) + MainToken(t)
             + task[t].calls + task[t].idles
Once(t) ==
  /\ Tokens(t) <= 1
  /\ task[t].kind = "plain" /\ caller[t] = "new" => Tokens(t) = 0
  /\ task[t].kind # "plain" /\ ~task[t].complete /\ ~task[t].freed => Tokens(t) = 0

\* A handler stays connected until the task is completed, and who completes it
\* disconnects it.
Connected(t) == task[t].connected =>
  \/ /\ ~task[t].complete
     /\ \/ caller[t] = "push"
        \/ worker[t] \in {"queued", "popped", "running", "returning", "set complete", "complete"}
  \/ /\ task[t].complete
     /\ worker[t] \in {"finish", "set finish"} \/ (cancel.task = t /\ cancel.at = "finish")

\* What complete and cancelled say.
Flags(t) ==
  /\ task[t].cancelled /\ task[t].onCancel /\ ~task[t].complete =>
       cancel.task = t /\ cancel.at = "complete"
  /\ cancel.task = t /\ cancel.at = "complete" => task[t].cancelled /\ task[t].onCancel
  /\ cancel.task = t /\ cancel.at \in {"finish", "notify"} => task[t].complete
  /\ worker[t] \in {"finish", "set finish", "notify", "set notify", "unref"} => task[t].complete
  /\ worker[t] = "set complete" => task[t].cancelled /\ ~task[t].sure
  /\ task[t].sure => ~task[t].onCancel
  /\ task[t].complete /\ worker[t] \in Early => task[t].cancelled /\ ~task[t].sure
  /\ caller[t] \in {"return", "completing"} => task[t].complete
  /\ task[t].kind = "async" /\ (main.task = t \/ task[t].idles # 0) => task[t].complete

\* The result is read after the function.
Read(t) == task[t].outcome = "read" => worker[t] \notin Early

\* The pool counts its threads.
Counted == InFunction \cup {"complete", "finish", "notify", "unref", "cleanup", "counted"}
RunningInv == pool.running = Cardinality({t \in Task : worker[t] \in Counted})

TaskInv(t) == /\ Stage(t) /\ Handled(t) /\ Refs(t) /\ Once(t) /\ Connected(t) /\ Flags(t)
              /\ Read(t)
IInv == TypeOK /\ PlaceInv /\ (\A t \in Task : TaskInv(t)) /\ RunningInv

CancelType == [flag : BOOLEAN, at : CancelPlaces, task : Task \cup {None}, left : SUBSET Task]
MainType == [at : {"loop", "callback", "completing"}, task : Task \cup {None}, drops : 0 .. 2]

\* A step does nothing to the task u.
Frame(u) ==
  /\ task'[u] = task[u] /\ caller'[u] = caller[u] /\ worker'[u] = worker[u]
  /\ cancel'.task = u <=> cancel.task = u
  /\ cancel.task = u => cancel'.at = cancel.at
  /\ cancel.flag => cancel'.flag
  /\ main'.task = u <=> main.task = u
  /\ main.task = u => main'.at = main.at /\ main'.drops = main.drops
  /\ u \in pool'.queue <=> u \in pool.queue

\* What the variables but the pool keep in a step.
TypesKept == /\ task' \in [Task -> TaskRecord]
             /\ caller' \in [Task -> CallerPlaces] /\ worker' \in [Task -> WorkerPlaces]
             /\ cancel' \in CancelType /\ main' \in MainType /\ PlaceInv'

\* A step works on the task t, and keeps what holds of it.
Kept(t) == TypesKept /\ TaskInv(t)' /\ \A u \in Task \ {t} : Frame(u)

\* Nobody refers to the task.
Unused(t) == /\ caller[t] \in {"new", "done"} /\ worker[t] \in {"none", "cleanup", "counted", "gone"}
             /\ ~task[t].connected /\ cancel.task # t /\ main.task # t /\ task[t].idles = 0
Lives(t) == (task[t].freed \/ caller[t] = "new") => Unused(t)

\* The record q is the record r with n references fewer.
Loses(r, q, n) ==
  /\ q \in TaskRecord /\ q.refs = r.refs - n /\ q.kind = r.kind /\ q.connected = r.connected
  /\ q.idles = r.idles /\ q.calls = r.calls
  /\ r.refs # n => /\ q.freed = r.freed /\ q.cancelled = r.cancelled /\ q.complete = r.complete
                   /\ q.onCancel = r.onCancel /\ q.sure = r.sure /\ q.outcome = r.outcome
  /\ r.refs = n => /\ q.freed /\ ~q.cancelled /\ ~q.complete /\ ~q.onCancel /\ q.sure
                   /\ q.outcome = "none"
--------------------------------------------------------------------------------
\* The last reference frees the task.
LEMMA DroppedFacts ==
  ASSUME NEW r \in TaskRecord, NEW n \in Nat, r.refs >= n
  PROVE  Loses(r, Dropped(r, n), n)
<1>1. CASE r.refs = n
  <2> DEFINE q == [r EXCEPT !.refs = 0, !.freed = TRUE, !.cancelled = FALSE,
                           !.complete = FALSE, !.onCancel = FALSE, !.sure = TRUE, !.returned = FALSE,
                           !.outcome = "none"]
  <2>1. q \in TaskRecord
    BY DEF TaskRecord
  <2>2. q.refs = 0 /\ q.kind = r.kind /\ q.connected = r.connected /\ q.idles = r.idles /\ q.calls = r.calls
    BY DEF TaskRecord
  <2>3. q.freed /\ ~q.cancelled /\ ~q.complete /\ ~q.onCancel /\ q.sure /\ q.outcome = "none"
    BY DEF TaskRecord
  <2>4. Dropped(r, n) = q
    BY <1>1 DEF Dropped
  <2> HIDE DEF q
  <2> QED
    BY <1>1, <2>1, <2>2, <2>3, <2>4 DEF Loses
<1>2. CASE r.refs # n
  <2>1. r.refs - n \in Nat
    BY <1>2 DEF TaskRecord
  <2> QED
    BY <1>2, <2>1 DEF Dropped, Loses, TaskRecord
<1> QED
  BY <1>1, <1>2

\* The terms of the two sums.
LEMMA BitType == \A b \in BOOLEAN : Bit(b) \in {0, 1} /\ (Bit(b) = 0 <=> ~b)
  BY DEF Bit
LEMMA Terms ==
  ASSUME NEW t \in Task, TypeOK, PlaceInv
  PROVE  /\ CallerRef(t) \in {0, 1} /\ WorkerRef(t) \in {0, 1} /\ HandlerRef(t) \in {0, 1}
         /\ MainRef(t) \in 0 .. 2
         /\ CallerToken(t) \in {0, 1} /\ WorkerToken(t) \in {0, 1} /\ CancelToken(t) \in {0, 1}
         /\ MainToken(t) \in {0, 1}
<1>1. MainRef(t) \in 0 .. 2
  BY DEF MainRef, TypeOK
<1> QED
  BY <1>1 DEF CallerRef, WorkerRef, HandlerRef, CallerToken, WorkerToken, CancelToken,
     MainToken, Bit

\* A task that is freed is not used.
LEMMA NoneLeft ==
  ASSUME NEW a \in {0, 1}, NEW b \in {0, 1}, NEW c \in {0, 1}, NEW d \in 0 .. 2, NEW i \in Nat,
         a + b + c + 2 * i + d = 0
  PROVE  a = 0 /\ b = 0 /\ c = 0 /\ d = 0 /\ i = 0
  OBVIOUS
LEMMA FreedUnused ==
  ASSUME NEW t \in Task, TypeOK, PlaceInv, Stage(t), Refs(t)
  PROVE  Lives(t)
<1> SUFFICES ASSUME task[t].freed \/ caller[t] = "new" PROVE Unused(t)
  BY DEF Lives
<1>1. task[t].refs = 0 /\ task[t].idles \in Nat
  BY DEF Stage, Refs, TypeOK, TaskRecord
<1>2. CallerRef(t) = 0 /\ WorkerRef(t) = 0 /\ HandlerRef(t) = 0 /\ MainRef(t) = 0 /\ task[t].idles = 0
  BY <1>1, Terms, NoneLeft DEF Refs
<1>3. main.task # t
  BY <1>2 DEF MainRef, PlaceInv
<1>4. caller[t] \in {"new", "done"}
  BY <1>1, <1>2 DEF CallerRef, Bit
<1>5. worker[t] \in {"none", "cleanup", "counted", "gone"}
  BY <1>2 DEF WorkerRef, Bit
<1>6. ~task[t].connected /\ cancel.task # t
  BY <1>2 DEF HandlerRef, Bit
<1> QED
  BY <1>2, <1>3, <1>4, <1>5, <1>6 DEF Unused

\* A task that no step works on keeps what holds of it.
LEMMA FrameKeeps == ASSUME NEW u \in Task, TaskInv(u), Frame(u) PROVE TaskInv(u)'
<1> USE DEF Frame, TaskInv
<1>1. Stage(u)' /\ Handled(u)'
  BY DEF Stage, Handled
<1>2. Refs(u)'
  BY DEF Refs, CallerRef, WorkerRef, HandlerRef, MainRef
<1>3. Once(u)'
  BY DEF Once, Tokens, CallerToken, WorkerToken, CancelToken, MainToken
<1>4. Connected(u)' /\ Flags(u)' /\ Read(u)'
  BY DEF Connected, Flags, Read
<1> QED
  BY <1>1, <1>2, <1>3, <1>4

\* The main loop takes an idle source.
LEMMA DispatchStep ==
  ASSUME IInv, NEW t \in Task, Dispatch(t)
  PROVE  Kept(t)
<1>1. /\ TypeOK /\ PlaceInv /\ TaskInv(t) /\ task[t] \in TaskRecord /\ None # t
      /\ task[t].refs \in Nat /\ task[t].idles \in Nat /\ task[t].calls \in Nat
  BY TaskAssumption DEF IInv, TypeOK, TaskRecord
<1>2. /\ Stage(t) /\ Handled(t) /\ Refs(t) /\ Once(t) /\ Connected(t) /\ Flags(t) /\ Read(t)
      /\ Lives(t)
  BY <1>1, FreedUnused DEF TaskInv
<1>3. /\ main.at = "loop"
      /\ task[t].idles # 0 /\ task[t].idles - 1 \in Nat /\ task[t].kind # "sync"
      /\ main.task \notin Task
  BY <1>1, <1>2 DEF Dispatch, PlaceInv, TypeOK, Stage
<1> DEFINE r == [task[t] EXCEPT !.idles = @ - 1]
<1>b. /\ r \in TaskRecord
      /\ r.kind = task[t].kind
      /\ r.refs = task[t].refs
      /\ r.freed = task[t].freed
      /\ r.cancelled = task[t].cancelled
      /\ r.complete = task[t].complete
      /\ r.onCancel = task[t].onCancel
      /\ r.sure = task[t].sure
      /\ r.connected = task[t].connected
      /\ r.idles = task[t].idles - 1
      /\ r.calls = task[t].calls
      /\ r.outcome = task[t].outcome
  BY <1>1, <1>3 DEF TaskRecord, InIdle
<1>c. task' = [task EXCEPT ![t] = r]
  BY <1>1, <1>3 DEF Dispatch, Set, TypeOK
<1>e. r \in TaskRecord
  BY <1>b
<1> HIDE DEF r
<1>f. task'[t] = r
  BY <1>1, <1>c DEF TypeOK
<1>a. task' \in [Task -> TaskRecord] /\ \A u \in Task \ {t} : task'[u] = task[u]
  BY <1>1, <1>c, <1>e DEF TypeOK
<1>4. /\ task'[t].kind = task[t].kind
      /\ task'[t].refs = task[t].refs
      /\ task'[t].freed = task[t].freed
      /\ task'[t].cancelled = task[t].cancelled
      /\ task'[t].complete = task[t].complete
      /\ task'[t].onCancel = task[t].onCancel
      /\ task'[t].sure = task[t].sure
      /\ task'[t].connected = task[t].connected
      /\ task'[t].idles = task[t].idles - 1
      /\ task'[t].calls = task[t].calls
      /\ task'[t].outcome = task[t].outcome
  BY <1>b, <1>f
<1>5. /\ caller'[t] = caller[t]
      /\ worker'[t] = worker[t]
  BY <1>1, <1>3 DEF Dispatch, CallerAt, WorkerAt, TypeOK, CallerPlaces, WorkerPlaces
<1>g. /\ caller' \in [Task -> CallerPlaces] /\ worker' \in [Task -> WorkerPlaces]
      /\ \A u \in Task \ {t} : caller'[u] = caller[u] /\ worker'[u] = worker[u]
  BY <1>1, <1>3 DEF Dispatch, CallerAt, WorkerAt, TypeOK, CallerPlaces, WorkerPlaces
<1>6. /\ cancel' = cancel
      /\ main'.at = "callback" /\ main'.task = t /\ main'.drops = 2
      /\ t \in pool'.queue <=> t \in pool.queue
  BY <1>1, <1>3 DEF Dispatch, CancelAt, TypeOK, CancelType, MainType, CancelPlaces
<1>h. /\ cancel' \in CancelType /\ main' \in MainType
      /\ pool'.queue = pool.queue
  BY <1>1, <1>3 DEF Dispatch, CancelAt, TypeOK, CancelType, MainType, CancelPlaces
<1>7. PlaceInv'
  BY <1>1, <1>3, <1>6, <1>h, TaskAssumption DEF PlaceInv, Handling, TypeOK
<1>8. \A u \in Task \ {t} : Frame(u)
  BY <1>1, <1>3, <1>a, <1>g, <1>6, <1>h, TaskAssumption DEF Frame, PlaceInv, Handling, TypeOK
<1>9. /\ CallerRef(t)' = CallerRef(t)
      /\ WorkerRef(t)' = WorkerRef(t)
      /\ HandlerRef(t)' = HandlerRef(t)
      /\ MainRef(t) = 0 /\ MainRef(t)' = 2
  <2>1. CallerRef(t)' = CallerRef(t)
    BY <1>1, <1>2, <1>3, <1>4, <1>5, <1>6 DEF CallerRef, Bit, Lives, Unused, Stage,
       Starting, Flags, Handled, PlaceInv, Handling
  <2>2. WorkerRef(t)' = WorkerRef(t)
    BY <1>1, <1>2, <1>3, <1>4, <1>5, <1>6 DEF WorkerRef, Bit, Lives, Unused, Stage,
       Starting, Flags, Handled, PlaceInv, Handling
  <2>3. HandlerRef(t)' = HandlerRef(t)
    BY <1>1, <1>2, <1>3, <1>4, <1>5, <1>6 DEF HandlerRef, Bit, Lives, Unused, Stage,
       Starting, Flags, Handled, PlaceInv, Handling
  <2>4. MainRef(t) = 0 /\ MainRef(t)' = 2
    BY <1>1, <1>2, <1>3, <1>4, <1>5, <1>6 DEF MainRef, Bit, Lives, Unused, Stage, Starting,
       Flags, Handled, PlaceInv, Handling
  <2> QED
    BY <2>1, <2>2, <2>3, <2>4
<1>10. Refs(t)'
  <2>1. task'[t].refs = CallerRef(t)' + WorkerRef(t)' + HandlerRef(t)' + 2 * task'[t].idles + MainRef(t)'
    BY <1>1, <1>2, <1>3, <1>4, <1>9, Terms DEF Refs
  <2>2. caller'[t] # "new" => (task'[t].freed <=> task'[t].refs = 0)
    BY <1>1, <1>2, <1>3, <1>4, <1>5 DEF Refs, Stage, Lives, Unused
  <2> QED
    BY <2>1, <2>2 DEF Refs
<1>12. /\ CallerToken(t)' = CallerToken(t)
       /\ WorkerToken(t)' = WorkerToken(t)
       /\ CancelToken(t)' = CancelToken(t)
       /\ MainToken(t) = 0 /\ MainToken(t)' = 1
  <2>1. CallerToken(t)' = CallerToken(t)
    BY <1>1, <1>2, <1>3, <1>4, <1>5, <1>6 DEF CallerToken, Bit, Lives, Unused, Stage,
       Starting, Flags, Handled, PlaceInv, Handling
  <2>2. WorkerToken(t)' = WorkerToken(t)
    BY <1>1, <1>2, <1>3, <1>4, <1>5, <1>6 DEF WorkerToken, Bit, Lives, Unused, Stage,
       Starting, Flags, Handled, PlaceInv, Handling
  <2>3. CancelToken(t)' = CancelToken(t)
    BY <1>1, <1>2, <1>3, <1>4, <1>5, <1>6 DEF CancelToken, Bit, Lives, Unused, Stage,
       Starting, Flags, Handled, PlaceInv, Handling
  <2>4. MainToken(t) = 0 /\ MainToken(t)' = 1
    BY <1>1, <1>2, <1>3, <1>4, <1>5, <1>6 DEF MainToken, Bit, Lives, Unused, Stage,
       Starting, Flags, Handled, PlaceInv, Handling
  <2> QED
    BY <2>1, <2>2, <2>3, <2>4
<1>13. Once(t)'
  <2>1. Tokens(t)' = Tokens(t)
    BY <1>1, <1>2, <1>3, <1>4, <1>12, Terms DEF Tokens
  <2> QED
    BY <1>1, <1>2, <1>3, <1>4, <1>5, <1>6, <2>1 DEF Once, Stage, Flags, Lives, Unused
<1>14. Stage(t)'
  BY <1>1, <1>2, <1>3, <1>4, <1>5, <1>6 DEF Stage, Starting, Flags, Lives, Unused, PlaceInv
<1>15. Handled(t)'
  BY <1>1, <1>2, <1>3, <1>4, <1>5, <1>6 DEF Handled, Handling, Stage, Starting, Lives,
     Unused, PlaceInv
<1>16. Connected(t)'
  BY <1>1, <1>2, <1>3, <1>4, <1>5, <1>6 DEF Connected, Stage, Starting, Handled, Flags,
     Lives, Unused, PlaceInv
<1>17. Flags(t)'
  BY <1>1, <1>2, <1>3, <1>4, <1>5, <1>6 DEF Flags, Stage, Starting, Handled, Handling,
     Early, InFunction, IsCancelled, Lives, Unused, PlaceInv
<1>18. Read(t)'
  BY <1>1, <1>2, <1>3, <1>4, <1>5, <1>6 DEF Read, Stage, Flags, Starting, Early, InFunction,
     IsCancelled, Propagate, Lives, Unused, PlaceInv
<1> QED
  BY <1>a, <1>g, <1>h, <1>7, <1>8, <1>10, <1>13, <1>14, <1>15, <1>16, <1>17, <1>18 DEF Kept,
     TypesKept, TaskInv

\* The callback is called.
LEMMA CallbackStep ==
  ASSUME IInv, NEW t \in Task, t = main.task, Callback
  PROVE  Kept(t)
<1>1. /\ TypeOK /\ PlaceInv /\ TaskInv(t) /\ task[t] \in TaskRecord /\ None # t
      /\ task[t].refs \in Nat /\ task[t].idles \in Nat /\ task[t].calls \in Nat
  BY TaskAssumption DEF IInv, TypeOK, TaskRecord
<1>2. /\ Stage(t) /\ Handled(t) /\ Refs(t) /\ Once(t) /\ Connected(t) /\ Flags(t) /\ Read(t)
      /\ Lives(t)
  BY <1>1, FreedUnused DEF TaskInv
<1>3. /\ main.at = "callback"
      /\ task[t].kind # "sync"
      /\ Propagate(t) \in {"none", "cancelled", "read"}
      /\ task[t].calls + 1 \in Nat
  BY <1>1, <1>2 DEF Callback, PlaceInv, TypeOK, Stage, Propagate
<1> DEFINE r == [task[t] EXCEPT !.calls = @ + 1, !.outcome = Propagate(t)]
<1>b. /\ r \in TaskRecord
      /\ r.kind = task[t].kind
      /\ r.refs = task[t].refs
      /\ r.freed = task[t].freed
      /\ r.cancelled = task[t].cancelled
      /\ r.complete = task[t].complete
      /\ r.onCancel = task[t].onCancel
      /\ r.sure = task[t].sure
      /\ r.connected = task[t].connected
      /\ r.idles = task[t].idles
      /\ r.calls = task[t].calls + 1
      /\ r.outcome = Propagate(t)
  BY <1>1, <1>3 DEF TaskRecord, InIdle
<1>c. task' = [task EXCEPT ![t] = r]
  BY <1>1, <1>3 DEF Callback, Set, TypeOK
<1>e. r \in TaskRecord
  BY <1>b
<1> HIDE DEF r
<1>f. task'[t] = r
  BY <1>1, <1>c DEF TypeOK
<1>a. task' \in [Task -> TaskRecord] /\ \A u \in Task \ {t} : task'[u] = task[u]
  BY <1>1, <1>c, <1>e DEF TypeOK
<1>4. /\ task'[t].kind = task[t].kind
      /\ task'[t].refs = task[t].refs
      /\ task'[t].freed = task[t].freed
      /\ task'[t].cancelled = task[t].cancelled
      /\ task'[t].complete = task[t].complete
      /\ task'[t].onCancel = task[t].onCancel
      /\ task'[t].sure = task[t].sure
      /\ task'[t].connected = task[t].connected
      /\ task'[t].idles = task[t].idles
      /\ task'[t].calls = task[t].calls + 1
      /\ task'[t].outcome = Propagate(t)
  BY <1>b, <1>f
<1>5. /\ caller'[t] = caller[t]
      /\ worker'[t] = worker[t]
  BY <1>1, <1>3 DEF Callback, CallerAt, WorkerAt, TypeOK, CallerPlaces, WorkerPlaces
<1>g. /\ caller' \in [Task -> CallerPlaces] /\ worker' \in [Task -> WorkerPlaces]
      /\ \A u \in Task \ {t} : caller'[u] = caller[u] /\ worker'[u] = worker[u]
  BY <1>1, <1>3 DEF Callback, CallerAt, WorkerAt, TypeOK, CallerPlaces, WorkerPlaces
<1>6. /\ cancel' = cancel
      /\ main'.at = "completing" /\ main'.task = t /\ main'.drops = main.drops
      /\ t \in pool'.queue <=> t \in pool.queue
  BY <1>1, <1>3 DEF Callback, CancelAt, TypeOK, CancelType, MainType, CancelPlaces
<1>h. /\ cancel' \in CancelType /\ main' \in MainType
      /\ pool'.queue = pool.queue
  BY <1>1, <1>3 DEF Callback, CancelAt, TypeOK, CancelType, MainType, CancelPlaces
<1>7. PlaceInv'
  BY <1>1, <1>3, <1>6, <1>h, TaskAssumption DEF PlaceInv, Handling, TypeOK
<1>8. \A u \in Task \ {t} : Frame(u)
  BY <1>1, <1>3, <1>a, <1>g, <1>6, <1>h, TaskAssumption DEF Frame, PlaceInv, Handling, TypeOK
<1>9. /\ CallerRef(t)' = CallerRef(t)
      /\ WorkerRef(t)' = WorkerRef(t)
      /\ HandlerRef(t)' = HandlerRef(t)
      /\ MainRef(t)' = MainRef(t)
  <2>1. CallerRef(t)' = CallerRef(t)
    BY <1>1, <1>2, <1>3, <1>4, <1>5, <1>6 DEF CallerRef, Bit, Lives, Unused, Stage,
       Starting, Flags, Handled, PlaceInv, Handling
  <2>2. WorkerRef(t)' = WorkerRef(t)
    BY <1>1, <1>2, <1>3, <1>4, <1>5, <1>6 DEF WorkerRef, Bit, Lives, Unused, Stage,
       Starting, Flags, Handled, PlaceInv, Handling
  <2>3. HandlerRef(t)' = HandlerRef(t)
    BY <1>1, <1>2, <1>3, <1>4, <1>5, <1>6 DEF HandlerRef, Bit, Lives, Unused, Stage,
       Starting, Flags, Handled, PlaceInv, Handling
  <2>4. MainRef(t)' = MainRef(t)
    BY <1>1, <1>2, <1>3, <1>4, <1>5, <1>6 DEF MainRef, Bit, Lives, Unused, Stage, Starting,
       Flags, Handled, PlaceInv, Handling
  <2> QED
    BY <2>1, <2>2, <2>3, <2>4
<1>10. Refs(t)'
  <2>1. task'[t].refs = CallerRef(t)' + WorkerRef(t)' + HandlerRef(t)' + 2 * task'[t].idles + MainRef(t)'
    BY <1>1, <1>2, <1>3, <1>4, <1>9, Terms DEF Refs
  <2>2. caller'[t] # "new" => (task'[t].freed <=> task'[t].refs = 0)
    BY <1>1, <1>2, <1>3, <1>4, <1>5 DEF Refs, Stage, Lives, Unused
  <2> QED
    BY <2>1, <2>2 DEF Refs
<1>12. /\ CallerToken(t)' = CallerToken(t)
       /\ WorkerToken(t)' = WorkerToken(t)
       /\ CancelToken(t)' = CancelToken(t)
       /\ MainToken(t) = 1 /\ MainToken(t)' = 0
  <2>1. CallerToken(t)' = CallerToken(t)
    BY <1>1, <1>2, <1>3, <1>4, <1>5, <1>6 DEF CallerToken, Bit, Lives, Unused, Stage,
       Starting, Flags, Handled, PlaceInv, Handling
  <2>2. WorkerToken(t)' = WorkerToken(t)
    BY <1>1, <1>2, <1>3, <1>4, <1>5, <1>6 DEF WorkerToken, Bit, Lives, Unused, Stage,
       Starting, Flags, Handled, PlaceInv, Handling
  <2>3. CancelToken(t)' = CancelToken(t)
    BY <1>1, <1>2, <1>3, <1>4, <1>5, <1>6 DEF CancelToken, Bit, Lives, Unused, Stage,
       Starting, Flags, Handled, PlaceInv, Handling
  <2>4. MainToken(t) = 1 /\ MainToken(t)' = 0
    BY <1>1, <1>2, <1>3, <1>4, <1>5, <1>6 DEF MainToken, Bit, Lives, Unused, Stage,
       Starting, Flags, Handled, PlaceInv, Handling
  <2> QED
    BY <2>1, <2>2, <2>3, <2>4
<1>13. Once(t)'
  <2>1. Tokens(t)' = Tokens(t)
    BY <1>1, <1>2, <1>3, <1>4, <1>12, Terms DEF Tokens
  <2> QED
    BY <1>1, <1>2, <1>3, <1>4, <1>5, <1>6, <2>1 DEF Once, Stage, Flags, Lives, Unused
<1>14. Stage(t)'
  BY <1>1, <1>2, <1>3, <1>4, <1>5, <1>6 DEF Stage, Starting, Flags, Lives, Unused, PlaceInv
<1>15. Handled(t)'
  BY <1>1, <1>2, <1>3, <1>4, <1>5, <1>6 DEF Handled, Handling, Stage, Starting, Lives,
     Unused, PlaceInv
<1>16. Connected(t)'
  BY <1>1, <1>2, <1>3, <1>4, <1>5, <1>6 DEF Connected, Stage, Starting, Handled, Flags,
     Lives, Unused, PlaceInv
<1>17. Flags(t)'
  BY <1>1, <1>2, <1>3, <1>4, <1>5, <1>6 DEF Flags, Stage, Starting, Handled, Handling,
     Early, InFunction, IsCancelled, Lives, Unused, PlaceInv
<1>18. Read(t)'
  <2>1. task[t].kind \in {"async", "plain"}
    BY <1>1, <1>3 DEF TaskRecord, Kind
  <2>2. CASE task[t].kind = "plain"
    <3>1. worker[t] \in {"operation", "gone"}
      BY <1>2, <1>3, <2>2 DEF Stage, Lives, Unused
    <3> QED
      BY <1>5, <3>1 DEF Read, Early, InFunction
  <2>3. CASE task[t].kind = "async"
    <3>1. worker[t] \in Early => IsCancelled(t)
      BY <1>1, <1>2, <1>3, <2>3 DEF Flags, Stage, IsCancelled
    <3> QED
      BY <1>4, <1>5, <3>1 DEF Read, Propagate
  <2> QED
    BY <2>1, <2>2, <2>3
<1> QED
  BY <1>a, <1>g, <1>h, <1>7, <1>8, <1>10, <1>13, <1>14, <1>15, <1>16, <1>17, <1>18 DEF Kept,
     TypesKept, TaskInv

\* The main loop drops its references.
LEMMA CompletedStep ==
  ASSUME IInv, NEW t \in Task, t = main.task, Completed
  PROVE  Kept(t)
<1>1. /\ TypeOK /\ PlaceInv /\ TaskInv(t) /\ task[t] \in TaskRecord /\ None # t
      /\ task[t].refs \in Nat /\ task[t].idles \in Nat /\ task[t].calls \in Nat
  BY TaskAssumption DEF IInv, TypeOK, TaskRecord
<1>2. /\ Stage(t) /\ Handled(t) /\ Refs(t) /\ Once(t) /\ Connected(t) /\ Flags(t) /\ Read(t)
      /\ Lives(t)
  BY <1>1, FreedUnused DEF TaskInv
<1>3. /\ main.at = "completing"
      /\ task[t].kind # "sync"
      /\ main.drops \in {1, 2}
  BY <1>1, <1>2 DEF Completed, PlaceInv, TypeOK, Stage
<1> DEFINE r0 == task[t]
<1>b. /\ r0 \in TaskRecord
      /\ r0.kind = task[t].kind
      /\ r0.refs = task[t].refs
      /\ r0.freed = task[t].freed
      /\ r0.cancelled = task[t].cancelled
      /\ r0.complete = task[t].complete
      /\ r0.onCancel = task[t].onCancel
      /\ r0.sure = task[t].sure
      /\ r0.connected = task[t].connected
      /\ r0.idles = task[t].idles
      /\ r0.calls = task[t].calls
      /\ r0.outcome = task[t].outcome
  BY <1>1, <1>3 DEF TaskRecord, InIdle
<1> DEFINE r == Dropped(r0, main.drops)
<1>c. task' = [task EXCEPT ![t] = r]
  BY <1>3 DEF Completed, Set
<1> HIDE DEF r0
<1>d. Loses(r0, r, main.drops)
  <2>1. task[t].refs >= main.drops /\ main.drops \in Nat
    BY <1>1, <1>2, <1>3, Terms DEF Refs, CallerRef, WorkerRef, HandlerRef, MainRef, Bit
  <2> QED
    BY <1>b, <2>1, DroppedFacts
<1> HIDE DEF r
<1>e. r \in TaskRecord
  BY <1>d DEF Loses
<1>f. task'[t] = r
  BY <1>1, <1>c DEF TypeOK
<1>a. task' \in [Task -> TaskRecord] /\ \A u \in Task \ {t} : task'[u] = task[u]
  BY <1>1, <1>c, <1>e DEF TypeOK
<1>4. /\ task'[t].refs = task[t].refs - main.drops
      /\ task'[t].kind = task[t].kind
      /\ task'[t].connected = task[t].connected
      /\ task'[t].idles = task[t].idles
      /\ task'[t].calls = task[t].calls
      /\ task[t].refs # main.drops =>
           /\ task'[t].freed = task[t].freed
           /\ task'[t].cancelled = task[t].cancelled
           /\ task'[t].complete = task[t].complete
           /\ task'[t].onCancel = task[t].onCancel
           /\ task'[t].sure = task[t].sure
           /\ task'[t].outcome = task[t].outcome
      /\ task[t].refs = main.drops =>
           /\ task'[t].freed /\ ~task'[t].cancelled /\ ~task'[t].complete
           /\ ~task'[t].onCancel /\ task'[t].sure /\ task'[t].outcome = "none"
  BY <1>b, <1>d, <1>f DEF Loses
<1>5. /\ caller'[t] = caller[t]
      /\ worker'[t] = worker[t]
  BY <1>1, <1>3 DEF Completed, CallerAt, WorkerAt, TypeOK, CallerPlaces, WorkerPlaces
<1>g. /\ caller' \in [Task -> CallerPlaces] /\ worker' \in [Task -> WorkerPlaces]
      /\ \A u \in Task \ {t} : caller'[u] = caller[u] /\ worker'[u] = worker[u]
  BY <1>1, <1>3 DEF Completed, CallerAt, WorkerAt, TypeOK, CallerPlaces, WorkerPlaces
<1>6. /\ cancel' = cancel
      /\ main'.at = "loop" /\ main'.task = None /\ main'.drops = 0
      /\ t \in pool'.queue <=> t \in pool.queue
  BY <1>1, <1>3 DEF Completed, CancelAt, TypeOK, CancelType, MainType, CancelPlaces
<1>h. /\ cancel' \in CancelType /\ main' \in MainType
      /\ pool'.queue = pool.queue
  BY <1>1, <1>3 DEF Completed, CancelAt, TypeOK, CancelType, MainType, CancelPlaces
<1>7. PlaceInv'
  BY <1>1, <1>3, <1>6, <1>h, TaskAssumption DEF PlaceInv, Handling, TypeOK
<1>8. \A u \in Task \ {t} : Frame(u)
  BY <1>1, <1>3, <1>a, <1>g, <1>6, <1>h, TaskAssumption DEF Frame, PlaceInv, Handling, TypeOK
<1>9. /\ CallerRef(t)' = CallerRef(t)
      /\ WorkerRef(t)' = WorkerRef(t)
      /\ HandlerRef(t)' = HandlerRef(t)
      /\ MainRef(t) = main.drops /\ MainRef(t)' = 0
  <2>1. CallerRef(t)' = CallerRef(t)
    BY <1>1, <1>2, <1>3, <1>4, <1>5, <1>6 DEF CallerRef, Bit, Lives, Unused, Stage,
       Starting, Flags, Handled, PlaceInv, Handling
  <2>2. WorkerRef(t)' = WorkerRef(t)
    BY <1>1, <1>2, <1>3, <1>4, <1>5, <1>6 DEF WorkerRef, Bit, Lives, Unused, Stage,
       Starting, Flags, Handled, PlaceInv, Handling
  <2>3. HandlerRef(t)' = HandlerRef(t)
    BY <1>1, <1>2, <1>3, <1>4, <1>5, <1>6 DEF HandlerRef, Bit, Lives, Unused, Stage,
       Starting, Flags, Handled, PlaceInv, Handling
  <2>4. MainRef(t) = main.drops /\ MainRef(t)' = 0
    BY <1>1, <1>2, <1>3, <1>4, <1>5, <1>6 DEF MainRef, Bit, Lives, Unused, Stage, Starting,
       Flags, Handled, PlaceInv, Handling
  <2> QED
    BY <2>1, <2>2, <2>3, <2>4
<1>10. Refs(t)'
  <2>1. task'[t].refs = CallerRef(t)' + WorkerRef(t)' + HandlerRef(t)' + 2 * task'[t].idles + MainRef(t)'
    BY <1>1, <1>2, <1>3, <1>4, <1>9, Terms DEF Refs
  <2>2. task[t].refs >= main.drops /\ main.drops > 0 /\ caller[t] # "new" /\ ~task[t].freed
    BY <1>1, <1>2, <1>3, <1>9, Terms DEF Refs, Stage, Lives, Unused, PlaceInv
  <2>3. task'[t].freed <=> task'[t].refs = 0
    BY <1>1, <1>3, <1>4, <2>2
  <2> QED
    BY <2>1, <2>3 DEF Refs
<1>11. task'[t].freed => Unused(t)'
  <2> SUFFICES ASSUME task'[t].freed PROVE Unused(t)'
    OBVIOUS
  <2>1. task'[t].refs = 0
    BY <1>3, <1>4, <1>5, <1>10, <1>2 DEF Refs, Stage, Lives, Unused
  <2>2. /\ CallerRef(t)' \in {0, 1} /\ WorkerRef(t)' \in {0, 1} /\ HandlerRef(t)' \in {0, 1}
        /\ MainRef(t)' \in 0 .. 2 /\ task'[t].idles \in Nat
    BY <1>1, <1>3, <1>4, <1>9, Terms
  <2>3. /\ CallerRef(t)' = 0 /\ WorkerRef(t)' = 0 /\ HandlerRef(t)' = 0 /\ MainRef(t)' = 0
        /\ task'[t].idles = 0
    BY <1>10, <2>1, <2>2, NoneLeft DEF Refs
  <2>4. caller'[t] \in {"new", "done"}
    BY <2>3 DEF CallerRef, Bit
  <2>5. worker'[t] \in {"none", "cleanup", "counted", "gone"}
    BY <2>3 DEF WorkerRef, Bit
  <2>6. ~task'[t].connected /\ cancel'.task # t
    BY <2>3 DEF HandlerRef, Bit
  <2>7. main'.task # t
    BY <1>7, <2>3 DEF MainRef, PlaceInv
  <2> QED
    BY <2>3, <2>4, <2>5, <2>6, <2>7 DEF Unused
<1>12. /\ CallerToken(t)' = CallerToken(t)
       /\ WorkerToken(t)' = WorkerToken(t)
       /\ CancelToken(t)' = CancelToken(t)
       /\ MainToken(t)' = MainToken(t)
  <2>1. CallerToken(t)' = CallerToken(t)
    BY <1>1, <1>2, <1>3, <1>4, <1>5, <1>6, <1>11 DEF CallerToken, Bit, Lives, Unused, Stage,
       Starting, Flags, Handled, PlaceInv, Handling
  <2>2. WorkerToken(t)' = WorkerToken(t)
    BY <1>1, <1>2, <1>3, <1>4, <1>5, <1>6, <1>11 DEF WorkerToken, Bit, Lives, Unused, Stage,
       Starting, Flags, Handled, PlaceInv, Handling
  <2>3. CancelToken(t)' = CancelToken(t)
    BY <1>1, <1>2, <1>3, <1>4, <1>5, <1>6, <1>11 DEF CancelToken, Bit, Lives, Unused, Stage,
       Starting, Flags, Handled, PlaceInv, Handling
  <2>4. MainToken(t)' = MainToken(t)
    BY <1>1, <1>2, <1>3, <1>4, <1>5, <1>6, <1>11 DEF MainToken, Bit, Lives, Unused, Stage,
       Starting, Flags, Handled, PlaceInv, Handling
  <2> QED
    BY <2>1, <2>2, <2>3, <2>4
<1>13. Once(t)'
  <2>1. Tokens(t)' = Tokens(t)
    BY <1>1, <1>2, <1>3, <1>4, <1>12, Terms DEF Tokens
  <2> QED
    BY <1>1, <1>2, <1>3, <1>4, <1>5, <1>6, <1>11, <2>1 DEF Once, Stage, Flags, Lives, Unused
<1>14. Stage(t)'
  <2>1. CASE task[t].refs = main.drops
    <3>1. /\ task'[t].freed /\ ~task'[t].cancelled /\ ~task'[t].complete
          /\ ~task'[t].onCancel /\ Unused(t)'
      BY <1>4, <1>11, <2>1
    <3> QED
      BY <1>2, <1>3, <1>4, <1>5, <1>6, <2>1, <3>1 DEF Stage, Starting, Flags, Lives, Unused
  <2>2. CASE task[t].refs # main.drops
    BY <1>1, <1>2, <1>3, <1>4, <1>5, <1>6, <1>11, <2>2 DEF Stage, Starting, Flags, Lives, Unused, PlaceInv
  <2> QED
    BY <2>1, <2>2
<1>15. Handled(t)'
  BY <1>1, <1>2, <1>3, <1>4, <1>5, <1>6, <1>11 DEF Handled, Handling, Stage, Starting,
     Lives, Unused, PlaceInv
<1>16. Connected(t)'
  <2>1. CASE task[t].refs = main.drops
    <3>1. /\ task'[t].freed /\ ~task'[t].cancelled /\ ~task'[t].complete
          /\ ~task'[t].onCancel /\ Unused(t)'
      BY <1>4, <1>11, <2>1
    <3> QED
      BY <3>1 DEF Connected, Unused
  <2>2. CASE task[t].refs # main.drops
    BY <1>1, <1>2, <1>3, <1>4, <1>5, <1>6, <1>11, <2>2 DEF Connected, Stage, Starting, Handled, Flags, Lives, Unused, PlaceInv
  <2> QED
    BY <2>1, <2>2
<1>17. Flags(t)'
  <2>1. CASE task[t].refs = main.drops
    <3>1. /\ task'[t].freed /\ ~task'[t].cancelled /\ ~task'[t].complete
          /\ ~task'[t].onCancel /\ Unused(t)'
      BY <1>4, <1>11, <2>1
    <3> QED
      BY <3>1 DEF Flags, Unused
  <2>2. CASE task[t].refs # main.drops
    BY <1>1, <1>2, <1>3, <1>4, <1>5, <1>6, <1>11, <2>2 DEF Flags, Stage, Starting, Handled, Handling, Early, InFunction,
       IsCancelled, Lives, Unused, PlaceInv
  <2> QED
    BY <2>1, <2>2
<1>18. Read(t)'
  BY <1>1, <1>2, <1>3, <1>4, <1>5, <1>6, <1>11 DEF Read, Stage, Flags, Starting, Early,
     InFunction, IsCancelled, Propagate, Lives, Unused, PlaceInv
<1> QED
  BY <1>a, <1>g, <1>h, <1>7, <1>8, <1>10, <1>13, <1>14, <1>15, <1>16, <1>17, <1>18 DEF Kept,
     TypesKept, TaskInv

\* A task is made.
LEMMA NewStep ==
  ASSUME IInv, NEW t \in Task, NEW b \in BOOLEAN, New(t, b)
  PROVE  Kept(t)
<1>1. /\ TypeOK /\ PlaceInv /\ TaskInv(t) /\ task[t] \in TaskRecord /\ None # t
      /\ task[t].refs \in Nat /\ task[t].idles \in Nat /\ task[t].calls \in Nat
  BY TaskAssumption DEF IInv, TypeOK, TaskRecord
<1>2. /\ Stage(t) /\ Handled(t) /\ Refs(t) /\ Once(t) /\ Connected(t) /\ Flags(t) /\ Read(t)
      /\ Lives(t)
  BY <1>1, FreedUnused DEF TaskInv
<1>3. caller[t] = "new" /\ worker[t] = "none" /\ b \in BOOLEAN /\ (~b) \in BOOLEAN
  BY <1>1, <1>2 DEF New, PlaceInv, TypeOK, Stage, Starting
<1> DEFINE r == [task[t] EXCEPT !.refs = 1, !.onCancel = b, !.sure = ~b]
<1>b. /\ r \in TaskRecord
      /\ r.kind = task[t].kind
      /\ r.refs = 1
      /\ r.freed = task[t].freed
      /\ r.cancelled = task[t].cancelled
      /\ r.complete = task[t].complete
      /\ r.onCancel = b
      /\ r.sure = (~b)
      /\ r.connected = task[t].connected
      /\ r.idles = task[t].idles
      /\ r.calls = task[t].calls
      /\ r.outcome = task[t].outcome
  BY <1>1, <1>3 DEF TaskRecord, InIdle
<1>c. task' = [task EXCEPT ![t] = r]
  BY <1>1, <1>3 DEF New, Set, TypeOK
<1>e. r \in TaskRecord
  BY <1>b
<1> HIDE DEF r
<1>f. task'[t] = r
  BY <1>1, <1>c DEF TypeOK
<1>a. task' \in [Task -> TaskRecord] /\ \A u \in Task \ {t} : task'[u] = task[u]
  BY <1>1, <1>c, <1>e DEF TypeOK
<1>4. /\ task'[t].kind = task[t].kind
      /\ task'[t].refs = 1
      /\ task'[t].freed = task[t].freed
      /\ task'[t].cancelled = task[t].cancelled
      /\ task'[t].complete = task[t].complete
      /\ task'[t].onCancel = b
      /\ task'[t].sure = (~b)
      /\ task'[t].connected = task[t].connected
      /\ task'[t].idles = task[t].idles
      /\ task'[t].calls = task[t].calls
      /\ task'[t].outcome = task[t].outcome
  BY <1>b, <1>f
<1>5. /\ caller'[t] = (IF task[t].kind = "plain" THEN "done" ELSE "check")
      /\ worker'[t] = (IF task[t].kind = "plain" THEN "operation" ELSE "none")
  BY <1>1, <1>3 DEF New, CallerAt, WorkerAt, TypeOK, CallerPlaces, WorkerPlaces
<1>g. /\ caller' \in [Task -> CallerPlaces] /\ worker' \in [Task -> WorkerPlaces]
      /\ \A u \in Task \ {t} : caller'[u] = caller[u] /\ worker'[u] = worker[u]
  BY <1>1, <1>3 DEF New, CallerAt, WorkerAt, TypeOK, CallerPlaces, WorkerPlaces
<1>6. /\ cancel' = cancel
      /\ main' = main
      /\ t \in pool'.queue <=> t \in pool.queue
  BY <1>1, <1>3 DEF New, CancelAt, TypeOK, CancelType, MainType, CancelPlaces
<1>h. /\ cancel' \in CancelType /\ main' \in MainType
      /\ pool'.queue = pool.queue
  BY <1>1, <1>3 DEF New, CancelAt, TypeOK, CancelType, MainType, CancelPlaces
<1>7. PlaceInv'
  BY <1>1, <1>3, <1>6, <1>h, TaskAssumption DEF PlaceInv, Handling, TypeOK
<1>8. \A u \in Task \ {t} : Frame(u)
  BY <1>1, <1>3, <1>a, <1>g, <1>6, <1>h, TaskAssumption DEF Frame, PlaceInv, Handling, TypeOK
<1>9. /\ CallerRef(t) = 0 /\ CallerRef(t)' = (IF task[t].kind = "plain" THEN 0 ELSE 1)
      /\ WorkerRef(t) = 0 /\ WorkerRef(t)' = (IF task[t].kind = "plain" THEN 1 ELSE 0)
      /\ HandlerRef(t)' = HandlerRef(t)
      /\ MainRef(t)' = MainRef(t)
  <2>1. CallerRef(t) = 0 /\ CallerRef(t)' = (IF task[t].kind = "plain" THEN 0 ELSE 1)
    BY <1>1, <1>2, <1>3, <1>4, <1>5, <1>6 DEF CallerRef, Bit, Lives, Unused, Stage,
       Starting, Flags, Handled, PlaceInv, Handling
  <2>2. WorkerRef(t) = 0 /\ WorkerRef(t)' = (IF task[t].kind = "plain" THEN 1 ELSE 0)
    BY <1>1, <1>2, <1>3, <1>4, <1>5, <1>6 DEF WorkerRef, Bit, Lives, Unused, Stage,
       Starting, Flags, Handled, PlaceInv, Handling
  <2>3. HandlerRef(t)' = HandlerRef(t)
    BY <1>1, <1>2, <1>3, <1>4, <1>5, <1>6 DEF HandlerRef, Bit, Lives, Unused, Stage,
       Starting, Flags, Handled, PlaceInv, Handling
  <2>4. MainRef(t)' = MainRef(t)
    BY <1>1, <1>2, <1>3, <1>4, <1>5, <1>6 DEF MainRef, Bit, Lives, Unused, Stage, Starting,
       Flags, Handled, PlaceInv, Handling
  <2> QED
    BY <2>1, <2>2, <2>3, <2>4
<1>10. Refs(t)'
  <2>1. task'[t].refs = CallerRef(t)' + WorkerRef(t)' + HandlerRef(t)' + 2 * task'[t].idles + MainRef(t)'
    <3>1. task[t].refs = 0 /\ HandlerRef(t) + 2 * task[t].idles + MainRef(t) = 0
      BY <1>1, <1>2, <1>3, <1>9, Terms DEF Refs, Stage
    <3>2. CASE task[t].kind = "plain"
      BY <1>1, <1>4, <1>9, <3>1, <3>2, Terms
    <3>3. CASE task[t].kind # "plain"
      BY <1>1, <1>4, <1>9, <3>1, <3>3, Terms
    <3> QED
      BY <3>2, <3>3
  <2>2. caller'[t] # "new" => (task'[t].freed <=> task'[t].refs = 0)
    BY <1>1, <1>2, <1>3, <1>4, <1>5 DEF Refs, Stage, Lives, Unused
  <2> QED
    BY <2>1, <2>2 DEF Refs
<1>12. /\ CallerToken(t)' = CallerToken(t)
       /\ WorkerToken(t) = 0 /\ WorkerToken(t)' = (IF task[t].kind = "plain" THEN 1 ELSE 0)
       /\ CancelToken(t)' = CancelToken(t)
       /\ MainToken(t)' = MainToken(t)
  <2>1. CallerToken(t)' = CallerToken(t)
    BY <1>1, <1>2, <1>3, <1>4, <1>5, <1>6 DEF CallerToken, Bit, Lives, Unused, Stage,
       Starting, Flags, Handled, PlaceInv, Handling
  <2>2. WorkerToken(t) = 0 /\ WorkerToken(t)' = (IF task[t].kind = "plain" THEN 1 ELSE 0)
    BY <1>1, <1>2, <1>3, <1>4, <1>5, <1>6 DEF WorkerToken, Bit, Lives, Unused, Stage,
       Starting, Flags, Handled, PlaceInv, Handling
  <2>3. CancelToken(t)' = CancelToken(t)
    BY <1>1, <1>2, <1>3, <1>4, <1>5, <1>6 DEF CancelToken, Bit, Lives, Unused, Stage,
       Starting, Flags, Handled, PlaceInv, Handling
  <2>4. MainToken(t)' = MainToken(t)
    BY <1>1, <1>2, <1>3, <1>4, <1>5, <1>6 DEF MainToken, Bit, Lives, Unused, Stage,
       Starting, Flags, Handled, PlaceInv, Handling
  <2> QED
    BY <2>1, <2>2, <2>3, <2>4
<1>13. Once(t)'
  <2>1. Tokens(t)' = (IF task[t].kind = "plain" THEN 1 ELSE 0) + Tokens(t)
    BY <1>1, <1>2, <1>3, <1>4, <1>12, Terms DEF Tokens
  <2> QED
    BY <1>1, <1>2, <1>3, <1>4, <1>5, <1>6, <2>1 DEF Once, Stage, Flags, Lives, Unused
<1>14. Stage(t)'
  BY <1>1, <1>2, <1>3, <1>4, <1>5, <1>6 DEF Stage, Starting, Flags, Lives, Unused, PlaceInv
<1>15. Handled(t)'
  BY <1>1, <1>2, <1>3, <1>4, <1>5, <1>6 DEF Handled, Handling, Stage, Starting, Lives,
     Unused, PlaceInv
<1>16. Connected(t)'
  BY <1>1, <1>2, <1>3, <1>4, <1>5, <1>6 DEF Connected, Stage, Starting, Handled, Flags,
     Lives, Unused, PlaceInv
<1>17. Flags(t)'
  BY <1>1, <1>2, <1>3, <1>4, <1>5, <1>6 DEF Flags, Stage, Starting, Handled, Handling,
     Early, InFunction, IsCancelled, Lives, Unused, PlaceInv
<1>18. Read(t)'
  BY <1>1, <1>2, <1>3, <1>4, <1>5, <1>6 DEF Read, Stage, Flags, Starting, Early, InFunction,
     IsCancelled, Propagate, Lives, Unused, PlaceInv
<1> QED
  BY <1>a, <1>g, <1>h, <1>7, <1>8, <1>10, <1>13, <1>14, <1>15, <1>16, <1>17, <1>18 DEF Kept,
     TypesKept, TaskInv

\* The mutex is taken and the cancellable looked at.
LEMMA CheckStep ==
  ASSUME IInv, NEW t \in Task, Check(t)
  PROVE  Kept(t)
<1>1. /\ TypeOK /\ PlaceInv /\ TaskInv(t) /\ task[t] \in TaskRecord /\ None # t
      /\ task[t].refs \in Nat /\ task[t].idles \in Nat /\ task[t].calls \in Nat
  BY TaskAssumption DEF IInv, TypeOK, TaskRecord
<1>2. /\ Stage(t) /\ Handled(t) /\ Refs(t) /\ Once(t) /\ Connected(t) /\ Flags(t) /\ Read(t)
      /\ Lives(t)
  BY <1>1, FreedUnused DEF TaskInv
<1> DEFINE early == task[t].onCancel /\ IsCancelled(t)
<1>3. /\ caller[t] = "check" /\ worker[t] = "none" /\ task[t].kind # "plain"
      /\ early \in BOOLEAN
      /\ early => task[t].onCancel /\ t \in Cancellable /\ cancel.flag
      /\ task[t].onCancel /\ t \in Cancellable /\ cancel.flag => early
  BY <1>1, <1>2 DEF Check, PlaceInv, TypeOK, Stage, IsCancelled, Starting
<1> HIDE DEF early
<1> DEFINE r == [task[t] EXCEPT !.cancelled = early, !.complete = early]
<1>b. /\ r \in TaskRecord
      /\ r.kind = task[t].kind
      /\ r.refs = task[t].refs
      /\ r.freed = task[t].freed
      /\ r.cancelled = early
      /\ r.complete = early
      /\ r.onCancel = task[t].onCancel
      /\ r.sure = task[t].sure
      /\ r.connected = task[t].connected
      /\ r.idles = task[t].idles
      /\ r.calls = task[t].calls
      /\ r.outcome = task[t].outcome
  BY <1>1, <1>3 DEF TaskRecord, InIdle
<1>c. task' = [task EXCEPT ![t] = r]
  BY <1>1, <1>3 DEF Check, early, Set, TypeOK
<1>e. r \in TaskRecord
  BY <1>b
<1> HIDE DEF r
<1>f. task'[t] = r
  BY <1>1, <1>c DEF TypeOK
<1>a. task' \in [Task -> TaskRecord] /\ \A u \in Task \ {t} : task'[u] = task[u]
  BY <1>1, <1>c, <1>e DEF TypeOK
<1>4. /\ task'[t].kind = task[t].kind
      /\ task'[t].refs = task[t].refs
      /\ task'[t].freed = task[t].freed
      /\ task'[t].cancelled = early
      /\ task'[t].complete = early
      /\ task'[t].onCancel = task[t].onCancel
      /\ task'[t].sure = task[t].sure
      /\ task'[t].connected = task[t].connected
      /\ task'[t].idles = task[t].idles
      /\ task'[t].calls = task[t].calls
      /\ task'[t].outcome = task[t].outcome
  BY <1>b, <1>f
<1>5. /\ caller'[t] = (IF early \/ t \notin Cancellable THEN "push" ELSE "connect")
      /\ worker'[t] = worker[t]
  BY <1>1, <1>3 DEF Check, early, CallerAt, WorkerAt, TypeOK, CallerPlaces, WorkerPlaces
<1>g. /\ caller' \in [Task -> CallerPlaces] /\ worker' \in [Task -> WorkerPlaces]
      /\ \A u \in Task \ {t} : caller'[u] = caller[u] /\ worker'[u] = worker[u]
  BY <1>1, <1>3 DEF Check, early, CallerAt, WorkerAt, TypeOK, CallerPlaces, WorkerPlaces
<1>6. /\ cancel' = cancel
      /\ main' = main
      /\ t \in pool'.queue <=> t \in pool.queue
  BY <1>1, <1>3 DEF Check, early, CancelAt, TypeOK, CancelType, MainType, CancelPlaces
<1>h. /\ cancel' \in CancelType /\ main' \in MainType
      /\ pool'.queue = pool.queue
  BY <1>1, <1>3 DEF Check, early, CancelAt, TypeOK, CancelType, MainType, CancelPlaces
<1>7. PlaceInv'
  BY <1>1, <1>3, <1>6, <1>h, TaskAssumption DEF PlaceInv, Handling, TypeOK
<1>8. \A u \in Task \ {t} : Frame(u)
  BY <1>1, <1>3, <1>a, <1>g, <1>6, <1>h, TaskAssumption DEF Frame, PlaceInv, Handling, TypeOK
<1>9. /\ CallerRef(t)' = CallerRef(t)
      /\ WorkerRef(t)' = WorkerRef(t)
      /\ HandlerRef(t)' = HandlerRef(t)
      /\ MainRef(t)' = MainRef(t)
  <2>1. CallerRef(t)' = CallerRef(t)
    BY <1>1, <1>2, <1>3, <1>4, <1>5, <1>6 DEF CallerRef, Bit, Lives, Unused, Stage,
       Starting, Flags, Handled, PlaceInv, Handling
  <2>2. WorkerRef(t)' = WorkerRef(t)
    BY <1>1, <1>2, <1>3, <1>4, <1>5, <1>6 DEF WorkerRef, Bit, Lives, Unused, Stage,
       Starting, Flags, Handled, PlaceInv, Handling
  <2>3. HandlerRef(t)' = HandlerRef(t)
    BY <1>1, <1>2, <1>3, <1>4, <1>5, <1>6 DEF HandlerRef, Bit, Lives, Unused, Stage,
       Starting, Flags, Handled, PlaceInv, Handling
  <2>4. MainRef(t)' = MainRef(t)
    BY <1>1, <1>2, <1>3, <1>4, <1>5, <1>6 DEF MainRef, Bit, Lives, Unused, Stage, Starting,
       Flags, Handled, PlaceInv, Handling
  <2> QED
    BY <2>1, <2>2, <2>3, <2>4
<1>10. Refs(t)'
  <2>1. task'[t].refs = CallerRef(t)' + WorkerRef(t)' + HandlerRef(t)' + 2 * task'[t].idles + MainRef(t)'
    BY <1>1, <1>2, <1>3, <1>4, <1>9, Terms DEF Refs
  <2>2. caller'[t] # "new" => (task'[t].freed <=> task'[t].refs = 0)
    BY <1>1, <1>2, <1>3, <1>4, <1>5 DEF Refs, Stage, Lives, Unused
  <2> QED
    BY <2>1, <2>2 DEF Refs
<1>12. /\ CallerToken(t) = 0 /\ CallerToken(t)' = Bit(early)
       /\ WorkerToken(t)' = WorkerToken(t)
       /\ CancelToken(t)' = CancelToken(t)
       /\ MainToken(t)' = MainToken(t)
  <2>1. CallerToken(t) = 0 /\ CallerToken(t)' = Bit(early)
    BY <1>1, <1>2, <1>3, <1>4, <1>5, <1>6 DEF CallerToken, Bit, Lives, Unused, Stage,
       Starting, Flags, Handled, PlaceInv, Handling
  <2>2. WorkerToken(t)' = WorkerToken(t)
    BY <1>1, <1>2, <1>3, <1>4, <1>5, <1>6 DEF WorkerToken, Bit, Lives, Unused, Stage,
       Starting, Flags, Handled, PlaceInv, Handling
  <2>3. CancelToken(t)' = CancelToken(t)
    BY <1>1, <1>2, <1>3, <1>4, <1>5, <1>6 DEF CancelToken, Bit, Lives, Unused, Stage,
       Starting, Flags, Handled, PlaceInv, Handling
  <2>4. MainToken(t)' = MainToken(t)
    BY <1>1, <1>2, <1>3, <1>4, <1>5, <1>6 DEF MainToken, Bit, Lives, Unused, Stage,
       Starting, Flags, Handled, PlaceInv, Handling
  <2> QED
    BY <2>1, <2>2, <2>3, <2>4
<1>13. Once(t)'
  <2>1. Tokens(t)' = Tokens(t) + Bit(early)
    BY <1>1, <1>2, <1>3, <1>4, <1>12, Terms DEF Tokens, Bit
  <2> QED
    BY <1>1, <1>2, <1>3, <1>4, <1>5, <1>6, <2>1 DEF Once, Stage, Flags, Lives, Unused, Bit
<1>14. Stage(t)'
  BY <1>1, <1>2, <1>3, <1>4, <1>5, <1>6 DEF Stage, Starting, Flags, Lives, Unused, PlaceInv
<1>15. Handled(t)'
  BY <1>1, <1>2, <1>3, <1>4, <1>5, <1>6 DEF Handled, Handling, Stage, Starting, Lives,
     Unused, PlaceInv
<1>16. Connected(t)'
  BY <1>1, <1>2, <1>3, <1>4, <1>5, <1>6 DEF Connected, Stage, Starting, Handled, Flags,
     Lives, Unused, PlaceInv
<1>17. Flags(t)'
  BY <1>1, <1>2, <1>3, <1>4, <1>5, <1>6 DEF Flags, Stage, Starting, Handled, Handling,
     Early, InFunction, IsCancelled, Lives, Unused, PlaceInv
<1>18. Read(t)'
  BY <1>1, <1>2, <1>3, <1>4, <1>5, <1>6 DEF Read, Stage, Flags, Starting, Early, InFunction,
     IsCancelled, Propagate, Lives, Unused, PlaceInv
<1> QED
  BY <1>a, <1>g, <1>h, <1>7, <1>8, <1>10, <1>13, <1>14, <1>15, <1>16, <1>17, <1>18 DEF Kept,
     TypesKept, TaskInv

\* The handler is connected.
LEMMA ConnectStep ==
  ASSUME IInv, NEW t \in Task, Connect(t)
  PROVE  Kept(t)
<1>1. /\ TypeOK /\ PlaceInv /\ TaskInv(t) /\ task[t] \in TaskRecord /\ None # t
      /\ task[t].refs \in Nat /\ task[t].idles \in Nat /\ task[t].calls \in Nat
  BY TaskAssumption DEF IInv, TypeOK, TaskRecord
<1>2. /\ Stage(t) /\ Handled(t) /\ Refs(t) /\ Once(t) /\ Connected(t) /\ Flags(t) /\ Read(t)
      /\ Lives(t)
  BY <1>1, FreedUnused DEF TaskInv
<1>3. /\ caller[t] = "connect" /\ worker[t] = "none" /\ task[t].kind # "plain"
      /\ task[t].refs + 1 \in Nat
  BY <1>1, <1>2 DEF Connect, PlaceInv, TypeOK, Stage, Starting
<1> DEFINE r == [task[t] EXCEPT !.connected = TRUE, !.refs = @ + 1]
<1>b. /\ r \in TaskRecord
      /\ r.kind = task[t].kind
      /\ r.refs = task[t].refs + 1
      /\ r.freed = task[t].freed
      /\ r.cancelled = task[t].cancelled
      /\ r.complete = task[t].complete
      /\ r.onCancel = task[t].onCancel
      /\ r.sure = task[t].sure
      /\ r.connected = TRUE
      /\ r.idles = task[t].idles
      /\ r.calls = task[t].calls
      /\ r.outcome = task[t].outcome
  BY <1>1, <1>3 DEF TaskRecord, InIdle
<1>c. task' = [task EXCEPT ![t] = r]
  BY <1>1, <1>3 DEF Connect, Set, TypeOK
<1>e. r \in TaskRecord
  BY <1>b
<1> HIDE DEF r
<1>f. task'[t] = r
  BY <1>1, <1>c DEF TypeOK
<1>a. task' \in [Task -> TaskRecord] /\ \A u \in Task \ {t} : task'[u] = task[u]
  BY <1>1, <1>c, <1>e DEF TypeOK
<1>4. /\ task'[t].kind = task[t].kind
      /\ task'[t].refs = task[t].refs + 1
      /\ task'[t].freed = task[t].freed
      /\ task'[t].cancelled = task[t].cancelled
      /\ task'[t].complete = task[t].complete
      /\ task'[t].onCancel = task[t].onCancel
      /\ task'[t].sure = task[t].sure
      /\ task'[t].connected = TRUE
      /\ task'[t].idles = task[t].idles
      /\ task'[t].calls = task[t].calls
      /\ task'[t].outcome = task[t].outcome
  BY <1>b, <1>f
<1>5. /\ caller'[t] = "push"
      /\ worker'[t] = worker[t]
  BY <1>1, <1>3 DEF Connect, CallerAt, WorkerAt, TypeOK, CallerPlaces, WorkerPlaces
<1>g. /\ caller' \in [Task -> CallerPlaces] /\ worker' \in [Task -> WorkerPlaces]
      /\ \A u \in Task \ {t} : caller'[u] = caller[u] /\ worker'[u] = worker[u]
  BY <1>1, <1>3 DEF Connect, CallerAt, WorkerAt, TypeOK, CallerPlaces, WorkerPlaces
<1>6. /\ cancel' = cancel
      /\ main' = main
      /\ t \in pool'.queue <=> t \in pool.queue
  BY <1>1, <1>3 DEF Connect, CancelAt, TypeOK, CancelType, MainType, CancelPlaces
<1>h. /\ cancel' \in CancelType /\ main' \in MainType
      /\ pool'.queue = pool.queue
  BY <1>1, <1>3 DEF Connect, CancelAt, TypeOK, CancelType, MainType, CancelPlaces
<1>7. PlaceInv'
  BY <1>1, <1>3, <1>6, <1>h, TaskAssumption DEF PlaceInv, Handling, TypeOK
<1>8. \A u \in Task \ {t} : Frame(u)
  BY <1>1, <1>3, <1>a, <1>g, <1>6, <1>h, TaskAssumption DEF Frame, PlaceInv, Handling, TypeOK
<1>9. /\ CallerRef(t)' = CallerRef(t)
      /\ WorkerRef(t)' = WorkerRef(t)
      /\ HandlerRef(t) = 0 /\ HandlerRef(t)' = 1
      /\ MainRef(t)' = MainRef(t)
  <2>1. CallerRef(t)' = CallerRef(t)
    BY <1>1, <1>2, <1>3, <1>4, <1>5, <1>6 DEF CallerRef, Bit, Lives, Unused, Stage,
       Starting, Flags, Handled, PlaceInv, Handling
  <2>2. WorkerRef(t)' = WorkerRef(t)
    BY <1>1, <1>2, <1>3, <1>4, <1>5, <1>6 DEF WorkerRef, Bit, Lives, Unused, Stage,
       Starting, Flags, Handled, PlaceInv, Handling
  <2>3. HandlerRef(t) = 0 /\ HandlerRef(t)' = 1
    BY <1>1, <1>2, <1>3, <1>4, <1>5, <1>6 DEF HandlerRef, Bit, Lives, Unused, Stage,
       Starting, Flags, Handled, PlaceInv, Handling
  <2>4. MainRef(t)' = MainRef(t)
    BY <1>1, <1>2, <1>3, <1>4, <1>5, <1>6 DEF MainRef, Bit, Lives, Unused, Stage, Starting,
       Flags, Handled, PlaceInv, Handling
  <2> QED
    BY <2>1, <2>2, <2>3, <2>4
<1>10. Refs(t)'
  <2>1. task'[t].refs = CallerRef(t)' + WorkerRef(t)' + HandlerRef(t)' + 2 * task'[t].idles + MainRef(t)'
    BY <1>1, <1>2, <1>3, <1>4, <1>9, Terms DEF Refs
  <2>2. caller'[t] # "new" => (task'[t].freed <=> task'[t].refs = 0)
    BY <1>1, <1>2, <1>3, <1>4, <1>5 DEF Refs, Stage, Lives, Unused
  <2> QED
    BY <2>1, <2>2 DEF Refs
<1>12. /\ CallerToken(t)' = CallerToken(t)
       /\ WorkerToken(t)' = WorkerToken(t)
       /\ CancelToken(t)' = CancelToken(t)
       /\ MainToken(t)' = MainToken(t)
  <2>1. CallerToken(t)' = CallerToken(t)
    BY <1>1, <1>2, <1>3, <1>4, <1>5, <1>6 DEF CallerToken, Bit, Lives, Unused, Stage,
       Starting, Flags, Handled, PlaceInv, Handling
  <2>2. WorkerToken(t)' = WorkerToken(t)
    BY <1>1, <1>2, <1>3, <1>4, <1>5, <1>6 DEF WorkerToken, Bit, Lives, Unused, Stage,
       Starting, Flags, Handled, PlaceInv, Handling
  <2>3. CancelToken(t)' = CancelToken(t)
    BY <1>1, <1>2, <1>3, <1>4, <1>5, <1>6 DEF CancelToken, Bit, Lives, Unused, Stage,
       Starting, Flags, Handled, PlaceInv, Handling
  <2>4. MainToken(t)' = MainToken(t)
    BY <1>1, <1>2, <1>3, <1>4, <1>5, <1>6 DEF MainToken, Bit, Lives, Unused, Stage,
       Starting, Flags, Handled, PlaceInv, Handling
  <2> QED
    BY <2>1, <2>2, <2>3, <2>4
<1>13. Once(t)'
  <2>1. Tokens(t)' = Tokens(t)
    BY <1>1, <1>2, <1>3, <1>4, <1>12, Terms DEF Tokens
  <2> QED
    BY <1>1, <1>2, <1>3, <1>4, <1>5, <1>6, <2>1 DEF Once, Stage, Flags, Lives, Unused
<1>14. Stage(t)'
  BY <1>1, <1>2, <1>3, <1>4, <1>5, <1>6 DEF Stage, Starting, Flags, Lives, Unused, PlaceInv
<1>15. Handled(t)'
  BY <1>1, <1>2, <1>3, <1>4, <1>5, <1>6 DEF Handled, Handling, Stage, Starting, Lives,
     Unused, PlaceInv
<1>16. Connected(t)'
  BY <1>1, <1>2, <1>3, <1>4, <1>5, <1>6 DEF Connected, Stage, Starting, Handled, Flags,
     Lives, Unused, PlaceInv
<1>17. Flags(t)'
  BY <1>1, <1>2, <1>3, <1>4, <1>5, <1>6 DEF Flags, Stage, Starting, Handled, Handling,
     Early, InFunction, IsCancelled, Lives, Unused, PlaceInv
<1>18. Read(t)'
  BY <1>1, <1>2, <1>3, <1>4, <1>5, <1>6 DEF Read, Stage, Flags, Starting, Early, InFunction,
     IsCancelled, Propagate, Lives, Unused, PlaceInv
<1> QED
  BY <1>a, <1>g, <1>h, <1>7, <1>8, <1>10, <1>13, <1>14, <1>15, <1>16, <1>17, <1>18 DEF Kept,
     TypesKept, TaskInv

\* The task is pushed.
LEMMA PushStep ==
  ASSUME IInv, NEW t \in Task, Push(t)
  PROVE  Kept(t)
<1>1. /\ TypeOK /\ PlaceInv /\ TaskInv(t) /\ task[t] \in TaskRecord /\ None # t
      /\ task[t].refs \in Nat /\ task[t].idles \in Nat /\ task[t].calls \in Nat
  BY TaskAssumption DEF IInv, TypeOK, TaskRecord
<1>2. /\ Stage(t) /\ Handled(t) /\ Refs(t) /\ Once(t) /\ Connected(t) /\ Flags(t) /\ Read(t)
      /\ Lives(t)
  BY <1>1, FreedUnused DEF TaskInv
<1> DEFINE more == task[t].kind = "sync" \/ task[t].complete
<1>3. /\ caller[t] = "push" /\ worker[t] = "none" /\ task[t].kind \in {"async", "sync"}
      /\ more <=> (task[t].kind = "sync" \/ task[t].complete)
      /\ more \in BOOLEAN
      /\ task[t].refs + 1 \in Nat
  BY <1>1, <1>2 DEF Push, PlaceInv, TypeOK, Stage, Starting, TaskRecord, Kind
<1> HIDE DEF more
<1> DEFINE r == IF more THEN [task[t] EXCEPT !.refs = @ + 1] ELSE task[t]
<1>b. /\ r \in TaskRecord
      /\ r.kind = task[t].kind
      /\ r.refs = (IF more THEN task[t].refs + 1 ELSE task[t].refs)
      /\ r.freed = task[t].freed
      /\ r.cancelled = task[t].cancelled
      /\ r.complete = task[t].complete
      /\ r.onCancel = task[t].onCancel
      /\ r.sure = task[t].sure
      /\ r.connected = task[t].connected
      /\ r.idles = task[t].idles
      /\ r.calls = task[t].calls
      /\ r.outcome = task[t].outcome
  BY <1>1, <1>3 DEF TaskRecord, InIdle
<1>c. task' = [task EXCEPT ![t] = r]
  BY <1>1, <1>3 DEF Push, more, Set, TypeOK
<1>e. r \in TaskRecord
  BY <1>b
<1> HIDE DEF r
<1>f. task'[t] = r
  BY <1>1, <1>c DEF TypeOK
<1>a. task' \in [Task -> TaskRecord] /\ \A u \in Task \ {t} : task'[u] = task[u]
  BY <1>1, <1>c, <1>e DEF TypeOK
<1>4. /\ task'[t].kind = task[t].kind
      /\ task'[t].refs = (IF more THEN task[t].refs + 1 ELSE task[t].refs)
      /\ task'[t].freed = task[t].freed
      /\ task'[t].cancelled = task[t].cancelled
      /\ task'[t].complete = task[t].complete
      /\ task'[t].onCancel = task[t].onCancel
      /\ task'[t].sure = task[t].sure
      /\ task'[t].connected = task[t].connected
      /\ task'[t].idles = task[t].idles
      /\ task'[t].calls = task[t].calls
      /\ task'[t].outcome = task[t].outcome
  BY <1>b, <1>f
<1>5. /\ caller'[t] = (IF task[t].kind = "sync" THEN "wait" ELSE IF task[t].complete THEN "return" ELSE "done")
      /\ worker'[t] = "queued"
  BY <1>1, <1>3 DEF Push, more, CallerAt, WorkerAt, TypeOK, CallerPlaces, WorkerPlaces
<1>g. /\ caller' \in [Task -> CallerPlaces] /\ worker' \in [Task -> WorkerPlaces]
      /\ \A u \in Task \ {t} : caller'[u] = caller[u] /\ worker'[u] = worker[u]
  BY <1>1, <1>3 DEF Push, more, CallerAt, WorkerAt, TypeOK, CallerPlaces, WorkerPlaces
<1>6. /\ cancel' = cancel
      /\ main' = main
      /\ t \in pool'.queue
  BY <1>1, <1>3 DEF Push, more, CancelAt, TypeOK, CancelType, MainType, CancelPlaces
<1>h. /\ cancel' \in CancelType /\ main' \in MainType
      /\ pool'.queue = pool.queue \cup {t}
  BY <1>1, <1>3 DEF Push, more, CancelAt, TypeOK, CancelType, MainType, CancelPlaces
<1>7. PlaceInv'
  BY <1>1, <1>3, <1>6, <1>h, TaskAssumption DEF PlaceInv, Handling, TypeOK
<1>8. \A u \in Task \ {t} : Frame(u)
  BY <1>1, <1>3, <1>a, <1>g, <1>6, <1>h, TaskAssumption DEF Frame, PlaceInv, Handling, TypeOK
<1>9. /\ CallerRef(t) = 1 /\ CallerRef(t)' = Bit(more)
      /\ WorkerRef(t) = 0 /\ WorkerRef(t)' = 1
      /\ HandlerRef(t)' = HandlerRef(t)
      /\ MainRef(t)' = MainRef(t)
  <2>1. CallerRef(t) = 1 /\ CallerRef(t)' = Bit(more)
    BY <1>1, <1>2, <1>3, <1>4, <1>5, <1>6 DEF CallerRef, Bit, Lives, Unused, Stage,
       Starting, Flags, Handled, PlaceInv, Handling
  <2>2. WorkerRef(t) = 0 /\ WorkerRef(t)' = 1
    BY <1>1, <1>2, <1>3, <1>4, <1>5, <1>6 DEF WorkerRef, Bit, Lives, Unused, Stage,
       Starting, Flags, Handled, PlaceInv, Handling
  <2>3. HandlerRef(t)' = HandlerRef(t)
    BY <1>1, <1>2, <1>3, <1>4, <1>5, <1>6 DEF HandlerRef, Bit, Lives, Unused, Stage,
       Starting, Flags, Handled, PlaceInv, Handling
  <2>4. MainRef(t)' = MainRef(t)
    BY <1>1, <1>2, <1>3, <1>4, <1>5, <1>6 DEF MainRef, Bit, Lives, Unused, Stage, Starting,
       Flags, Handled, PlaceInv, Handling
  <2> QED
    BY <2>1, <2>2, <2>3, <2>4
<1>10. Refs(t)'
  <2>1. task'[t].refs = CallerRef(t)' + WorkerRef(t)' + HandlerRef(t)' + 2 * task'[t].idles + MainRef(t)'
    BY <1>1, <1>2, <1>3, <1>4, <1>9, Terms DEF Refs, Bit
  <2>2. caller'[t] # "new" => (task'[t].freed <=> task'[t].refs = 0)
    BY <1>1, <1>2, <1>3, <1>4, <1>5 DEF Refs, Stage, Lives, Unused
  <2> QED
    BY <2>1, <2>2 DEF Refs
<1>12. /\ CallerToken(t) = Bit(task[t].complete) /\ CallerToken(t)' = Bit(task[t].complete /\ task[t].kind # "sync")
       /\ WorkerToken(t)' = WorkerToken(t)
       /\ CancelToken(t)' = CancelToken(t)
       /\ MainToken(t)' = MainToken(t)
  <2>1. CallerToken(t) = Bit(task[t].complete) /\ CallerToken(t)' = Bit(task[t].complete /\ task[t].kind # "sync")
    BY <1>1, <1>2, <1>3, <1>4, <1>5, <1>6 DEF CallerToken, Bit, Lives, Unused, Stage,
       Starting, Flags, Handled, PlaceInv, Handling
  <2>2. WorkerToken(t)' = WorkerToken(t)
    BY <1>1, <1>2, <1>3, <1>4, <1>5, <1>6 DEF WorkerToken, Bit, Lives, Unused, Stage,
       Starting, Flags, Handled, PlaceInv, Handling
  <2>3. CancelToken(t)' = CancelToken(t)
    BY <1>1, <1>2, <1>3, <1>4, <1>5, <1>6 DEF CancelToken, Bit, Lives, Unused, Stage,
       Starting, Flags, Handled, PlaceInv, Handling
  <2>4. MainToken(t)' = MainToken(t)
    BY <1>1, <1>2, <1>3, <1>4, <1>5, <1>6 DEF MainToken, Bit, Lives, Unused, Stage,
       Starting, Flags, Handled, PlaceInv, Handling
  <2> QED
    BY <2>1, <2>2, <2>3, <2>4
<1>13. Once(t)'
  <2>1. Tokens(t)' <= Tokens(t) /\ Tokens(t)' \in Nat /\ Tokens(t) \in Nat
    BY <1>1, <1>2, <1>3, <1>4, <1>12, Terms DEF Tokens, Bit
  <2> QED
    BY <1>1, <1>2, <1>3, <1>4, <1>5, <1>6, <2>1 DEF Once, Stage, Flags, Lives, Unused
<1>14. Stage(t)'
  BY <1>1, <1>2, <1>3, <1>4, <1>5, <1>6 DEF Stage, Starting, Flags, Lives, Unused, PlaceInv
<1>15. Handled(t)'
  BY <1>1, <1>2, <1>3, <1>4, <1>5, <1>6 DEF Handled, Handling, Stage, Starting, Lives,
     Unused, PlaceInv
<1>16. Connected(t)'
  BY <1>1, <1>2, <1>3, <1>4, <1>5, <1>6 DEF Connected, Stage, Starting, Handled, Flags,
     Lives, Unused, PlaceInv
<1>17. Flags(t)'
  BY <1>1, <1>2, <1>3, <1>4, <1>5, <1>6 DEF Flags, Stage, Starting, Handled, Handling,
     Early, InFunction, IsCancelled, Lives, Unused, PlaceInv
<1>18. Read(t)'
  BY <1>1, <1>2, <1>3, <1>4, <1>5, <1>6 DEF Read, Stage, Flags, Starting, Early, InFunction,
     IsCancelled, Propagate, Lives, Unused, PlaceInv
<1> QED
  BY <1>a, <1>g, <1>h, <1>7, <1>8, <1>10, <1>13, <1>14, <1>15, <1>16, <1>17, <1>18 DEF Kept,
     TypesKept, TaskInv

\* The call returns to the caller in an idle source.
LEMMA ReturnStep ==
  ASSUME IInv, NEW t \in Task, Return(t)
  PROVE  Kept(t)
<1>1. /\ TypeOK /\ PlaceInv /\ TaskInv(t) /\ task[t] \in TaskRecord /\ None # t
      /\ task[t].refs \in Nat /\ task[t].idles \in Nat /\ task[t].calls \in Nat
  BY TaskAssumption DEF IInv, TypeOK, TaskRecord
<1>2. /\ Stage(t) /\ Handled(t) /\ Refs(t) /\ Once(t) /\ Connected(t) /\ Flags(t) /\ Read(t)
      /\ Lives(t)
  BY <1>1, FreedUnused DEF TaskInv
<1>3. /\ caller[t] = "return" /\ task[t].kind = "async"
      /\ task[t].refs + 2 \in Nat /\ task[t].idles + 1 \in Nat /\ 1 \in Nat
  BY <1>1, <1>2 DEF Return, PlaceInv, TypeOK, Stage
<1> DEFINE r0 == InIdle(task[t])
<1>b. /\ r0 \in TaskRecord
      /\ r0.kind = task[t].kind
      /\ r0.refs = (task[t].refs + 2)
      /\ r0.freed = task[t].freed
      /\ r0.cancelled = task[t].cancelled
      /\ r0.complete = task[t].complete
      /\ r0.onCancel = task[t].onCancel
      /\ r0.sure = task[t].sure
      /\ r0.connected = task[t].connected
      /\ r0.idles = task[t].idles + 1
      /\ r0.calls = task[t].calls
      /\ r0.outcome = task[t].outcome
  BY <1>1, <1>3 DEF TaskRecord, InIdle
<1> DEFINE r == Dropped(r0, 1)
<1>c. task' = [task EXCEPT ![t] = r]
  BY <1>3 DEF Return, Set
<1> HIDE DEF r0
<1>d. Loses(r0, r, 1)
  <2>1. (task[t].refs + 2) >= 1 /\ 1 \in Nat
    BY <1>1, <1>2, <1>3, Terms DEF Refs, CallerRef, WorkerRef, HandlerRef, MainRef, Bit
  <2> QED
    BY <1>b, <2>1, DroppedFacts
<1> HIDE DEF r
<1>e. r \in TaskRecord
  BY <1>d DEF Loses
<1>f. task'[t] = r
  BY <1>1, <1>c DEF TypeOK
<1>a. task' \in [Task -> TaskRecord] /\ \A u \in Task \ {t} : task'[u] = task[u]
  BY <1>1, <1>c, <1>e DEF TypeOK
<1>4. /\ task'[t].refs = (task[t].refs + 2) - 1
      /\ task'[t].kind = task[t].kind
      /\ task'[t].connected = task[t].connected
      /\ task'[t].idles = task[t].idles + 1
      /\ task'[t].calls = task[t].calls
      /\ (task[t].refs + 2) # 1 =>
           /\ task'[t].freed = task[t].freed
           /\ task'[t].cancelled = task[t].cancelled
           /\ task'[t].complete = task[t].complete
           /\ task'[t].onCancel = task[t].onCancel
           /\ task'[t].sure = task[t].sure
           /\ task'[t].outcome = task[t].outcome
      /\ (task[t].refs + 2) = 1 =>
           /\ task'[t].freed /\ ~task'[t].cancelled /\ ~task'[t].complete
           /\ ~task'[t].onCancel /\ task'[t].sure /\ task'[t].outcome = "none"
  BY <1>b, <1>d, <1>f DEF Loses
<1>5. /\ caller'[t] = "done"
      /\ worker'[t] = worker[t]
  BY <1>1, <1>3 DEF Return, CallerAt, WorkerAt, TypeOK, CallerPlaces, WorkerPlaces
<1>g. /\ caller' \in [Task -> CallerPlaces] /\ worker' \in [Task -> WorkerPlaces]
      /\ \A u \in Task \ {t} : caller'[u] = caller[u] /\ worker'[u] = worker[u]
  BY <1>1, <1>3 DEF Return, CallerAt, WorkerAt, TypeOK, CallerPlaces, WorkerPlaces
<1>6. /\ cancel' = cancel
      /\ main' = main
      /\ t \in pool'.queue <=> t \in pool.queue
  BY <1>1, <1>3 DEF Return, CancelAt, TypeOK, CancelType, MainType, CancelPlaces
<1>h. /\ cancel' \in CancelType /\ main' \in MainType
      /\ pool'.queue = pool.queue
  BY <1>1, <1>3 DEF Return, CancelAt, TypeOK, CancelType, MainType, CancelPlaces
<1>7. PlaceInv'
  BY <1>1, <1>3, <1>6, <1>h, TaskAssumption DEF PlaceInv, Handling, TypeOK
<1>8. \A u \in Task \ {t} : Frame(u)
  BY <1>1, <1>3, <1>a, <1>g, <1>6, <1>h, TaskAssumption DEF Frame, PlaceInv, Handling, TypeOK
<1>9. /\ CallerRef(t) = 1 /\ CallerRef(t)' = 0
      /\ WorkerRef(t)' = WorkerRef(t)
      /\ HandlerRef(t)' = HandlerRef(t)
      /\ MainRef(t)' = MainRef(t)
  <2>1. CallerRef(t) = 1 /\ CallerRef(t)' = 0
    BY <1>1, <1>2, <1>3, <1>4, <1>5, <1>6 DEF CallerRef, Bit, Lives, Unused, Stage,
       Starting, Flags, Handled, PlaceInv, Handling
  <2>2. WorkerRef(t)' = WorkerRef(t)
    BY <1>1, <1>2, <1>3, <1>4, <1>5, <1>6 DEF WorkerRef, Bit, Lives, Unused, Stage,
       Starting, Flags, Handled, PlaceInv, Handling
  <2>3. HandlerRef(t)' = HandlerRef(t)
    BY <1>1, <1>2, <1>3, <1>4, <1>5, <1>6 DEF HandlerRef, Bit, Lives, Unused, Stage,
       Starting, Flags, Handled, PlaceInv, Handling
  <2>4. MainRef(t)' = MainRef(t)
    BY <1>1, <1>2, <1>3, <1>4, <1>5, <1>6 DEF MainRef, Bit, Lives, Unused, Stage, Starting,
       Flags, Handled, PlaceInv, Handling
  <2> QED
    BY <2>1, <2>2, <2>3, <2>4
<1>10. Refs(t)'
  <2>1. task'[t].refs = CallerRef(t)' + WorkerRef(t)' + HandlerRef(t)' + 2 * task'[t].idles + MainRef(t)'
    BY <1>1, <1>2, <1>3, <1>4, <1>9, Terms DEF Refs
  <2>2. task[t].refs >= 1 /\ 1 > 0 /\ caller[t] # "new" /\ ~task[t].freed
    BY <1>1, <1>2, <1>3, <1>9, Terms DEF Refs, Stage, Lives, Unused, PlaceInv
  <2>3. task'[t].freed <=> task'[t].refs = 0
    BY <1>1, <1>3, <1>4, <2>2
  <2> QED
    BY <2>1, <2>3 DEF Refs
<1>11. task'[t].freed => Unused(t)'
  <2> SUFFICES ASSUME task'[t].freed PROVE Unused(t)'
    OBVIOUS
  <2>1. task'[t].refs = 0
    BY <1>3, <1>4, <1>5, <1>10, <1>2 DEF Refs, Stage, Lives, Unused
  <2>2. /\ CallerRef(t)' \in {0, 1} /\ WorkerRef(t)' \in {0, 1} /\ HandlerRef(t)' \in {0, 1}
        /\ MainRef(t)' \in 0 .. 2 /\ task'[t].idles \in Nat
    BY <1>1, <1>3, <1>4, <1>9, Terms
  <2>3. /\ CallerRef(t)' = 0 /\ WorkerRef(t)' = 0 /\ HandlerRef(t)' = 0 /\ MainRef(t)' = 0
        /\ task'[t].idles = 0
    BY <1>10, <2>1, <2>2, NoneLeft DEF Refs
  <2>4. caller'[t] \in {"new", "done"}
    BY <2>3 DEF CallerRef, Bit
  <2>5. worker'[t] \in {"none", "cleanup", "counted", "gone"}
    BY <2>3 DEF WorkerRef, Bit
  <2>6. ~task'[t].connected /\ cancel'.task # t
    BY <2>3 DEF HandlerRef, Bit
  <2>7. main'.task # t
    BY <1>7, <2>3 DEF MainRef, PlaceInv
  <2> QED
    BY <2>3, <2>4, <2>5, <2>6, <2>7 DEF Unused
<1>12. /\ CallerToken(t) = 1 /\ CallerToken(t)' = 0
       /\ WorkerToken(t)' = WorkerToken(t)
       /\ CancelToken(t)' = CancelToken(t)
       /\ MainToken(t)' = MainToken(t)
  <2>1. CallerToken(t) = 1 /\ CallerToken(t)' = 0
    BY <1>1, <1>2, <1>3, <1>4, <1>5, <1>6, <1>11 DEF CallerToken, Bit, Lives, Unused, Stage,
       Starting, Flags, Handled, PlaceInv, Handling
  <2>2. WorkerToken(t)' = WorkerToken(t)
    BY <1>1, <1>2, <1>3, <1>4, <1>5, <1>6, <1>11 DEF WorkerToken, Bit, Lives, Unused, Stage,
       Starting, Flags, Handled, PlaceInv, Handling
  <2>3. CancelToken(t)' = CancelToken(t)
    BY <1>1, <1>2, <1>3, <1>4, <1>5, <1>6, <1>11 DEF CancelToken, Bit, Lives, Unused, Stage,
       Starting, Flags, Handled, PlaceInv, Handling
  <2>4. MainToken(t)' = MainToken(t)
    BY <1>1, <1>2, <1>3, <1>4, <1>5, <1>6, <1>11 DEF MainToken, Bit, Lives, Unused, Stage,
       Starting, Flags, Handled, PlaceInv, Handling
  <2> QED
    BY <2>1, <2>2, <2>3, <2>4
<1>13. Once(t)'
  <2>1. Tokens(t)' = Tokens(t)
    BY <1>1, <1>2, <1>3, <1>4, <1>12, Terms DEF Tokens
  <2> QED
    BY <1>1, <1>2, <1>3, <1>4, <1>5, <1>6, <1>11, <2>1 DEF Once, Stage, Flags, Lives, Unused
<1>14. Stage(t)'
  <2>1. CASE (task[t].refs + 2) = 1
    <3>1. /\ task'[t].freed /\ ~task'[t].cancelled /\ ~task'[t].complete
          /\ ~task'[t].onCancel /\ Unused(t)'
      BY <1>4, <1>11, <2>1
    <3> QED
      BY <1>2, <1>3, <1>4, <1>5, <1>6, <2>1, <3>1 DEF Stage, Starting, Flags, Lives, Unused
  <2>2. CASE (task[t].refs + 2) # 1
    BY <1>1, <1>2, <1>3, <1>4, <1>5, <1>6, <1>11, <2>2 DEF Stage, Starting, Flags, Lives, Unused, PlaceInv
  <2> QED
    BY <2>1, <2>2
<1>15. Handled(t)'
  BY <1>1, <1>2, <1>3, <1>4, <1>5, <1>6, <1>11 DEF Handled, Handling, Stage, Starting,
     Lives, Unused, PlaceInv
<1>16. Connected(t)'
  <2>1. CASE (task[t].refs + 2) = 1
    <3>1. /\ task'[t].freed /\ ~task'[t].cancelled /\ ~task'[t].complete
          /\ ~task'[t].onCancel /\ Unused(t)'
      BY <1>4, <1>11, <2>1
    <3> QED
      BY <3>1 DEF Connected, Unused
  <2>2. CASE (task[t].refs + 2) # 1
    BY <1>1, <1>2, <1>3, <1>4, <1>5, <1>6, <1>11, <2>2 DEF Connected, Stage, Starting, Handled, Flags, Lives, Unused, PlaceInv
  <2> QED
    BY <2>1, <2>2
<1>17. Flags(t)'
  <2>1. CASE (task[t].refs + 2) = 1
    <3>1. /\ task'[t].freed /\ ~task'[t].cancelled /\ ~task'[t].complete
          /\ ~task'[t].onCancel /\ Unused(t)'
      BY <1>4, <1>11, <2>1
    <3> QED
      BY <3>1 DEF Flags, Unused
  <2>2. CASE (task[t].refs + 2) # 1
    BY <1>1, <1>2, <1>3, <1>4, <1>5, <1>6, <1>11, <2>2 DEF Flags, Stage, Starting, Handled, Handling, Early, InFunction,
       IsCancelled, Lives, Unused, PlaceInv
  <2> QED
    BY <2>1, <2>2
<1>18. Read(t)'
  BY <1>1, <1>2, <1>3, <1>4, <1>5, <1>6, <1>11 DEF Read, Stage, Flags, Starting, Early,
     InFunction, IsCancelled, Propagate, Lives, Unused, PlaceInv
<1> QED
  BY <1>a, <1>g, <1>h, <1>7, <1>8, <1>10, <1>13, <1>14, <1>15, <1>16, <1>17, <1>18 DEF Kept,
     TypesKept, TaskInv

\* The call that waits looks at thread_complete.
LEMMA WaitStep ==
  ASSUME IInv, NEW t \in Task, Wait(t)
  PROVE  Kept(t)
<1>1. /\ TypeOK /\ PlaceInv /\ TaskInv(t) /\ task[t] \in TaskRecord /\ None # t
      /\ task[t].refs \in Nat /\ task[t].idles \in Nat /\ task[t].calls \in Nat
  BY TaskAssumption DEF IInv, TypeOK, TaskRecord
<1>2. /\ Stage(t) /\ Handled(t) /\ Refs(t) /\ Once(t) /\ Connected(t) /\ Flags(t) /\ Read(t)
      /\ Lives(t)
  BY <1>1, FreedUnused DEF TaskInv
<1>3. caller[t] = "wait" /\ task[t].kind = "sync"
  BY <1>1, <1>2 DEF Wait, PlaceInv, TypeOK, Stage
<1>4. task' = task
  BY DEF Wait
<1>a. task' \in [Task -> TaskRecord] /\ \A u \in Task \ {t} : task'[u] = task[u]
  BY <1>1, <1>4 DEF TypeOK
<1>5. /\ caller'[t] = (IF task[t].complete THEN "completing" ELSE "asleep")
      /\ worker'[t] = worker[t]
  BY <1>1, <1>3 DEF Wait, CallerAt, WorkerAt, TypeOK, CallerPlaces, WorkerPlaces
<1>g. /\ caller' \in [Task -> CallerPlaces] /\ worker' \in [Task -> WorkerPlaces]
      /\ \A u \in Task \ {t} : caller'[u] = caller[u] /\ worker'[u] = worker[u]
  BY <1>1, <1>3 DEF Wait, CallerAt, WorkerAt, TypeOK, CallerPlaces, WorkerPlaces
<1>6. /\ cancel' = cancel
      /\ main' = main
      /\ t \in pool'.queue <=> t \in pool.queue
  BY <1>1, <1>3 DEF Wait, CancelAt, TypeOK, CancelType, MainType, CancelPlaces
<1>h. /\ cancel' \in CancelType /\ main' \in MainType
      /\ pool'.queue = pool.queue
  BY <1>1, <1>3 DEF Wait, CancelAt, TypeOK, CancelType, MainType, CancelPlaces
<1>7. PlaceInv'
  BY <1>1, <1>3, <1>6, <1>h, TaskAssumption DEF PlaceInv, Handling, TypeOK
<1>8. \A u \in Task \ {t} : Frame(u)
  BY <1>1, <1>3, <1>a, <1>g, <1>6, <1>h, TaskAssumption DEF Frame, PlaceInv, Handling, TypeOK
<1>9. /\ CallerRef(t)' = CallerRef(t)
      /\ WorkerRef(t)' = WorkerRef(t)
      /\ HandlerRef(t)' = HandlerRef(t)
      /\ MainRef(t)' = MainRef(t)
  <2>1. CallerRef(t)' = CallerRef(t)
    BY <1>1, <1>2, <1>3, <1>4, <1>5, <1>6 DEF CallerRef, Bit, Lives, Unused, Stage,
       Starting, Flags, Handled, PlaceInv, Handling
  <2>2. WorkerRef(t)' = WorkerRef(t)
    BY <1>1, <1>2, <1>3, <1>4, <1>5, <1>6 DEF WorkerRef, Bit, Lives, Unused, Stage,
       Starting, Flags, Handled, PlaceInv, Handling
  <2>3. HandlerRef(t)' = HandlerRef(t)
    BY <1>1, <1>2, <1>3, <1>4, <1>5, <1>6 DEF HandlerRef, Bit, Lives, Unused, Stage,
       Starting, Flags, Handled, PlaceInv, Handling
  <2>4. MainRef(t)' = MainRef(t)
    BY <1>1, <1>2, <1>3, <1>4, <1>5, <1>6 DEF MainRef, Bit, Lives, Unused, Stage, Starting,
       Flags, Handled, PlaceInv, Handling
  <2> QED
    BY <2>1, <2>2, <2>3, <2>4
<1>10. Refs(t)'
  <2>1. task'[t].refs = CallerRef(t)' + WorkerRef(t)' + HandlerRef(t)' + 2 * task'[t].idles + MainRef(t)'
    BY <1>1, <1>2, <1>3, <1>4, <1>9, Terms DEF Refs
  <2>2. caller'[t] # "new" => (task'[t].freed <=> task'[t].refs = 0)
    BY <1>1, <1>2, <1>3, <1>4, <1>5 DEF Refs, Stage, Lives, Unused
  <2> QED
    BY <2>1, <2>2 DEF Refs
<1>12. /\ CallerToken(t)' = CallerToken(t)
       /\ WorkerToken(t)' = WorkerToken(t)
       /\ CancelToken(t)' = CancelToken(t)
       /\ MainToken(t)' = MainToken(t)
  <2>1. CallerToken(t)' = CallerToken(t)
    BY <1>1, <1>2, <1>3, <1>4, <1>5, <1>6 DEF CallerToken, Bit, Lives, Unused, Stage,
       Starting, Flags, Handled, PlaceInv, Handling
  <2>2. WorkerToken(t)' = WorkerToken(t)
    BY <1>1, <1>2, <1>3, <1>4, <1>5, <1>6 DEF WorkerToken, Bit, Lives, Unused, Stage,
       Starting, Flags, Handled, PlaceInv, Handling
  <2>3. CancelToken(t)' = CancelToken(t)
    BY <1>1, <1>2, <1>3, <1>4, <1>5, <1>6 DEF CancelToken, Bit, Lives, Unused, Stage,
       Starting, Flags, Handled, PlaceInv, Handling
  <2>4. MainToken(t)' = MainToken(t)
    BY <1>1, <1>2, <1>3, <1>4, <1>5, <1>6 DEF MainToken, Bit, Lives, Unused, Stage,
       Starting, Flags, Handled, PlaceInv, Handling
  <2> QED
    BY <2>1, <2>2, <2>3, <2>4
<1>13. Once(t)'
  <2>1. Tokens(t)' = Tokens(t)
    BY <1>1, <1>2, <1>3, <1>4, <1>12, Terms DEF Tokens
  <2> QED
    BY <1>1, <1>2, <1>3, <1>4, <1>5, <1>6, <2>1 DEF Once, Stage, Flags, Lives, Unused
<1>14. Stage(t)'
  BY <1>1, <1>2, <1>3, <1>4, <1>5, <1>6 DEF Stage, Starting, Flags, Lives, Unused, PlaceInv
<1>15. Handled(t)'
  BY <1>1, <1>2, <1>3, <1>4, <1>5, <1>6 DEF Handled, Handling, Stage, Starting, Lives,
     Unused, PlaceInv
<1>16. Connected(t)'
  BY <1>1, <1>2, <1>3, <1>4, <1>5, <1>6 DEF Connected, Stage, Starting, Handled, Flags,
     Lives, Unused, PlaceInv
<1>17. Flags(t)'
  BY <1>1, <1>2, <1>3, <1>4, <1>5, <1>6 DEF Flags, Stage, Starting, Handled, Handling,
     Early, InFunction, IsCancelled, Lives, Unused, PlaceInv
<1>18. Read(t)'
  BY <1>1, <1>2, <1>3, <1>4, <1>5, <1>6 DEF Read, Stage, Flags, Starting, Early, InFunction,
     IsCancelled, Propagate, Lives, Unused, PlaceInv
<1> QED
  BY <1>a, <1>g, <1>h, <1>7, <1>8, <1>10, <1>13, <1>14, <1>15, <1>16, <1>17, <1>18 DEF Kept,
     TypesKept, TaskInv

\* A wakeup may be spurious.
LEMMA SpuriousWakeupStep ==
  ASSUME IInv, NEW t \in Task, SpuriousWakeup(t)
  PROVE  Kept(t)
<1>1. /\ TypeOK /\ PlaceInv /\ TaskInv(t) /\ task[t] \in TaskRecord /\ None # t
      /\ task[t].refs \in Nat /\ task[t].idles \in Nat /\ task[t].calls \in Nat
  BY TaskAssumption DEF IInv, TypeOK, TaskRecord
<1>2. /\ Stage(t) /\ Handled(t) /\ Refs(t) /\ Once(t) /\ Connected(t) /\ Flags(t) /\ Read(t)
      /\ Lives(t)
  BY <1>1, FreedUnused DEF TaskInv
<1>3. caller[t] = "asleep" /\ task[t].kind = "sync"
  BY <1>1, <1>2 DEF SpuriousWakeup, PlaceInv, TypeOK, Stage
<1>4. task' = task
  BY DEF SpuriousWakeup
<1>a. task' \in [Task -> TaskRecord] /\ \A u \in Task \ {t} : task'[u] = task[u]
  BY <1>1, <1>4 DEF TypeOK
<1>5. /\ caller'[t] = "wait"
      /\ worker'[t] = worker[t]
  BY <1>1, <1>3 DEF SpuriousWakeup, CallerAt, WorkerAt, TypeOK, CallerPlaces, WorkerPlaces
<1>g. /\ caller' \in [Task -> CallerPlaces] /\ worker' \in [Task -> WorkerPlaces]
      /\ \A u \in Task \ {t} : caller'[u] = caller[u] /\ worker'[u] = worker[u]
  BY <1>1, <1>3 DEF SpuriousWakeup, CallerAt, WorkerAt, TypeOK, CallerPlaces, WorkerPlaces
<1>6. /\ cancel' = cancel
      /\ main' = main
      /\ t \in pool'.queue <=> t \in pool.queue
  BY <1>1, <1>3 DEF SpuriousWakeup, CancelAt, TypeOK, CancelType, MainType, CancelPlaces
<1>h. /\ cancel' \in CancelType /\ main' \in MainType
      /\ pool'.queue = pool.queue
  BY <1>1, <1>3 DEF SpuriousWakeup, CancelAt, TypeOK, CancelType, MainType, CancelPlaces
<1>7. PlaceInv'
  BY <1>1, <1>3, <1>6, <1>h, TaskAssumption DEF PlaceInv, Handling, TypeOK
<1>8. \A u \in Task \ {t} : Frame(u)
  BY <1>1, <1>3, <1>a, <1>g, <1>6, <1>h, TaskAssumption DEF Frame, PlaceInv, Handling, TypeOK
<1>9. /\ CallerRef(t)' = CallerRef(t)
      /\ WorkerRef(t)' = WorkerRef(t)
      /\ HandlerRef(t)' = HandlerRef(t)
      /\ MainRef(t)' = MainRef(t)
  <2>1. CallerRef(t)' = CallerRef(t)
    BY <1>1, <1>2, <1>3, <1>4, <1>5, <1>6 DEF CallerRef, Bit, Lives, Unused, Stage,
       Starting, Flags, Handled, PlaceInv, Handling
  <2>2. WorkerRef(t)' = WorkerRef(t)
    BY <1>1, <1>2, <1>3, <1>4, <1>5, <1>6 DEF WorkerRef, Bit, Lives, Unused, Stage,
       Starting, Flags, Handled, PlaceInv, Handling
  <2>3. HandlerRef(t)' = HandlerRef(t)
    BY <1>1, <1>2, <1>3, <1>4, <1>5, <1>6 DEF HandlerRef, Bit, Lives, Unused, Stage,
       Starting, Flags, Handled, PlaceInv, Handling
  <2>4. MainRef(t)' = MainRef(t)
    BY <1>1, <1>2, <1>3, <1>4, <1>5, <1>6 DEF MainRef, Bit, Lives, Unused, Stage, Starting,
       Flags, Handled, PlaceInv, Handling
  <2> QED
    BY <2>1, <2>2, <2>3, <2>4
<1>10. Refs(t)'
  <2>1. task'[t].refs = CallerRef(t)' + WorkerRef(t)' + HandlerRef(t)' + 2 * task'[t].idles + MainRef(t)'
    BY <1>1, <1>2, <1>3, <1>4, <1>9, Terms DEF Refs
  <2>2. caller'[t] # "new" => (task'[t].freed <=> task'[t].refs = 0)
    BY <1>1, <1>2, <1>3, <1>4, <1>5 DEF Refs, Stage, Lives, Unused
  <2> QED
    BY <2>1, <2>2 DEF Refs
<1>12. /\ CallerToken(t)' = CallerToken(t)
       /\ WorkerToken(t)' = WorkerToken(t)
       /\ CancelToken(t)' = CancelToken(t)
       /\ MainToken(t)' = MainToken(t)
  <2>1. CallerToken(t)' = CallerToken(t)
    BY <1>1, <1>2, <1>3, <1>4, <1>5, <1>6 DEF CallerToken, Bit, Lives, Unused, Stage,
       Starting, Flags, Handled, PlaceInv, Handling
  <2>2. WorkerToken(t)' = WorkerToken(t)
    BY <1>1, <1>2, <1>3, <1>4, <1>5, <1>6 DEF WorkerToken, Bit, Lives, Unused, Stage,
       Starting, Flags, Handled, PlaceInv, Handling
  <2>3. CancelToken(t)' = CancelToken(t)
    BY <1>1, <1>2, <1>3, <1>4, <1>5, <1>6 DEF CancelToken, Bit, Lives, Unused, Stage,
       Starting, Flags, Handled, PlaceInv, Handling
  <2>4. MainToken(t)' = MainToken(t)
    BY <1>1, <1>2, <1>3, <1>4, <1>5, <1>6 DEF MainToken, Bit, Lives, Unused, Stage,
       Starting, Flags, Handled, PlaceInv, Handling
  <2> QED
    BY <2>1, <2>2, <2>3, <2>4
<1>13. Once(t)'
  <2>1. Tokens(t)' = Tokens(t)
    BY <1>1, <1>2, <1>3, <1>4, <1>12, Terms DEF Tokens
  <2> QED
    BY <1>1, <1>2, <1>3, <1>4, <1>5, <1>6, <2>1 DEF Once, Stage, Flags, Lives, Unused
<1>14. Stage(t)'
  BY <1>1, <1>2, <1>3, <1>4, <1>5, <1>6 DEF Stage, Starting, Flags, Lives, Unused, PlaceInv
<1>15. Handled(t)'
  BY <1>1, <1>2, <1>3, <1>4, <1>5, <1>6 DEF Handled, Handling, Stage, Starting, Lives,
     Unused, PlaceInv
<1>16. Connected(t)'
  BY <1>1, <1>2, <1>3, <1>4, <1>5, <1>6 DEF Connected, Stage, Starting, Handled, Flags,
     Lives, Unused, PlaceInv
<1>17. Flags(t)'
  BY <1>1, <1>2, <1>3, <1>4, <1>5, <1>6 DEF Flags, Stage, Starting, Handled, Handling,
     Early, InFunction, IsCancelled, Lives, Unused, PlaceInv
<1>18. Read(t)'
  BY <1>1, <1>2, <1>3, <1>4, <1>5, <1>6 DEF Read, Stage, Flags, Starting, Early, InFunction,
     IsCancelled, Propagate, Lives, Unused, PlaceInv
<1> QED
  BY <1>a, <1>g, <1>h, <1>7, <1>8, <1>10, <1>13, <1>14, <1>15, <1>16, <1>17, <1>18 DEF Kept,
     TypesKept, TaskInv

\* The call that waits has its result.
LEMMA SyncCompletedStep ==
  ASSUME IInv, NEW t \in Task, SyncCompleted(t)
  PROVE  Kept(t)
<1>1. /\ TypeOK /\ PlaceInv /\ TaskInv(t) /\ task[t] \in TaskRecord /\ None # t
      /\ task[t].refs \in Nat /\ task[t].idles \in Nat /\ task[t].calls \in Nat
  BY TaskAssumption DEF IInv, TypeOK, TaskRecord
<1>2. /\ Stage(t) /\ Handled(t) /\ Refs(t) /\ Once(t) /\ Connected(t) /\ Flags(t) /\ Read(t)
      /\ Lives(t)
  BY <1>1, FreedUnused DEF TaskInv
<1>3. /\ caller[t] = "completing" /\ task[t].kind = "sync"
      /\ Propagate(t) \in {"none", "cancelled", "read"} /\ 1 \in Nat
  BY <1>1, <1>2 DEF SyncCompleted, PlaceInv, TypeOK, Stage, Propagate
<1> DEFINE r0 == [task[t] EXCEPT !.outcome = Propagate(t)]
<1>b. /\ r0 \in TaskRecord
      /\ r0.kind = task[t].kind
      /\ r0.refs = task[t].refs
      /\ r0.freed = task[t].freed
      /\ r0.cancelled = task[t].cancelled
      /\ r0.complete = task[t].complete
      /\ r0.onCancel = task[t].onCancel
      /\ r0.sure = task[t].sure
      /\ r0.connected = task[t].connected
      /\ r0.idles = task[t].idles
      /\ r0.calls = task[t].calls
      /\ r0.outcome = Propagate(t)
  BY <1>1, <1>3 DEF TaskRecord, InIdle
<1> DEFINE r == Dropped(r0, 1)
<1>c. task' = [task EXCEPT ![t] = r]
  BY <1>3 DEF SyncCompleted, Set
<1> HIDE DEF r0
<1>d. Loses(r0, r, 1)
  <2>1. task[t].refs >= 1 /\ 1 \in Nat
    BY <1>1, <1>2, <1>3, Terms DEF Refs, CallerRef, WorkerRef, HandlerRef, MainRef, Bit
  <2> QED
    BY <1>b, <2>1, DroppedFacts
<1> HIDE DEF r
<1>e. r \in TaskRecord
  BY <1>d DEF Loses
<1>f. task'[t] = r
  BY <1>1, <1>c DEF TypeOK
<1>a. task' \in [Task -> TaskRecord] /\ \A u \in Task \ {t} : task'[u] = task[u]
  BY <1>1, <1>c, <1>e DEF TypeOK
<1>4. /\ task'[t].refs = task[t].refs - 1
      /\ task'[t].kind = task[t].kind
      /\ task'[t].connected = task[t].connected
      /\ task'[t].idles = task[t].idles
      /\ task'[t].calls = task[t].calls
      /\ task[t].refs # 1 =>
           /\ task'[t].freed = task[t].freed
           /\ task'[t].cancelled = task[t].cancelled
           /\ task'[t].complete = task[t].complete
           /\ task'[t].onCancel = task[t].onCancel
           /\ task'[t].sure = task[t].sure
           /\ task'[t].outcome = Propagate(t)
      /\ task[t].refs = 1 =>
           /\ task'[t].freed /\ ~task'[t].cancelled /\ ~task'[t].complete
           /\ ~task'[t].onCancel /\ task'[t].sure /\ task'[t].outcome = "none"
  BY <1>b, <1>d, <1>f DEF Loses
<1>5. /\ caller'[t] = "done"
      /\ worker'[t] = worker[t]
  BY <1>1, <1>3 DEF SyncCompleted, CallerAt, WorkerAt, TypeOK, CallerPlaces, WorkerPlaces
<1>g. /\ caller' \in [Task -> CallerPlaces] /\ worker' \in [Task -> WorkerPlaces]
      /\ \A u \in Task \ {t} : caller'[u] = caller[u] /\ worker'[u] = worker[u]
  BY <1>1, <1>3 DEF SyncCompleted, CallerAt, WorkerAt, TypeOK, CallerPlaces, WorkerPlaces
<1>6. /\ cancel' = cancel
      /\ main' = main
      /\ t \in pool'.queue <=> t \in pool.queue
  BY <1>1, <1>3 DEF SyncCompleted, CancelAt, TypeOK, CancelType, MainType, CancelPlaces
<1>h. /\ cancel' \in CancelType /\ main' \in MainType
      /\ pool'.queue = pool.queue
  BY <1>1, <1>3 DEF SyncCompleted, CancelAt, TypeOK, CancelType, MainType, CancelPlaces
<1>7. PlaceInv'
  BY <1>1, <1>3, <1>6, <1>h, TaskAssumption DEF PlaceInv, Handling, TypeOK
<1>8. \A u \in Task \ {t} : Frame(u)
  BY <1>1, <1>3, <1>a, <1>g, <1>6, <1>h, TaskAssumption DEF Frame, PlaceInv, Handling, TypeOK
<1>9. /\ CallerRef(t) = 1 /\ CallerRef(t)' = 0
      /\ WorkerRef(t)' = WorkerRef(t)
      /\ HandlerRef(t)' = HandlerRef(t)
      /\ MainRef(t)' = MainRef(t)
  <2>1. CallerRef(t) = 1 /\ CallerRef(t)' = 0
    BY <1>1, <1>2, <1>3, <1>4, <1>5, <1>6 DEF CallerRef, Bit, Lives, Unused, Stage,
       Starting, Flags, Handled, PlaceInv, Handling
  <2>2. WorkerRef(t)' = WorkerRef(t)
    BY <1>1, <1>2, <1>3, <1>4, <1>5, <1>6 DEF WorkerRef, Bit, Lives, Unused, Stage,
       Starting, Flags, Handled, PlaceInv, Handling
  <2>3. HandlerRef(t)' = HandlerRef(t)
    BY <1>1, <1>2, <1>3, <1>4, <1>5, <1>6 DEF HandlerRef, Bit, Lives, Unused, Stage,
       Starting, Flags, Handled, PlaceInv, Handling
  <2>4. MainRef(t)' = MainRef(t)
    BY <1>1, <1>2, <1>3, <1>4, <1>5, <1>6 DEF MainRef, Bit, Lives, Unused, Stage, Starting,
       Flags, Handled, PlaceInv, Handling
  <2> QED
    BY <2>1, <2>2, <2>3, <2>4
<1>10. Refs(t)'
  <2>1. task'[t].refs = CallerRef(t)' + WorkerRef(t)' + HandlerRef(t)' + 2 * task'[t].idles + MainRef(t)'
    BY <1>1, <1>2, <1>3, <1>4, <1>9, Terms DEF Refs
  <2>2. task[t].refs >= 1 /\ 1 > 0 /\ caller[t] # "new" /\ ~task[t].freed
    BY <1>1, <1>2, <1>3, <1>9, Terms DEF Refs, Stage, Lives, Unused, PlaceInv
  <2>3. task'[t].freed <=> task'[t].refs = 0
    BY <1>1, <1>3, <1>4, <2>2
  <2> QED
    BY <2>1, <2>3 DEF Refs
<1>11. task'[t].freed => Unused(t)'
  <2> SUFFICES ASSUME task'[t].freed PROVE Unused(t)'
    OBVIOUS
  <2>1. task'[t].refs = 0
    BY <1>3, <1>4, <1>5, <1>10, <1>2 DEF Refs, Stage, Lives, Unused
  <2>2. /\ CallerRef(t)' \in {0, 1} /\ WorkerRef(t)' \in {0, 1} /\ HandlerRef(t)' \in {0, 1}
        /\ MainRef(t)' \in 0 .. 2 /\ task'[t].idles \in Nat
    BY <1>1, <1>3, <1>4, <1>9, Terms
  <2>3. /\ CallerRef(t)' = 0 /\ WorkerRef(t)' = 0 /\ HandlerRef(t)' = 0 /\ MainRef(t)' = 0
        /\ task'[t].idles = 0
    BY <1>10, <2>1, <2>2, NoneLeft DEF Refs
  <2>4. caller'[t] \in {"new", "done"}
    BY <2>3 DEF CallerRef, Bit
  <2>5. worker'[t] \in {"none", "cleanup", "counted", "gone"}
    BY <2>3 DEF WorkerRef, Bit
  <2>6. ~task'[t].connected /\ cancel'.task # t
    BY <2>3 DEF HandlerRef, Bit
  <2>7. main'.task # t
    BY <1>7, <2>3 DEF MainRef, PlaceInv
  <2> QED
    BY <2>3, <2>4, <2>5, <2>6, <2>7 DEF Unused
<1>12. /\ CallerToken(t)' = CallerToken(t)
       /\ WorkerToken(t)' = WorkerToken(t)
       /\ CancelToken(t)' = CancelToken(t)
       /\ MainToken(t)' = MainToken(t)
  <2>1. CallerToken(t)' = CallerToken(t)
    BY <1>1, <1>2, <1>3, <1>4, <1>5, <1>6, <1>11 DEF CallerToken, Bit, Lives, Unused, Stage,
       Starting, Flags, Handled, PlaceInv, Handling
  <2>2. WorkerToken(t)' = WorkerToken(t)
    BY <1>1, <1>2, <1>3, <1>4, <1>5, <1>6, <1>11 DEF WorkerToken, Bit, Lives, Unused, Stage,
       Starting, Flags, Handled, PlaceInv, Handling
  <2>3. CancelToken(t)' = CancelToken(t)
    BY <1>1, <1>2, <1>3, <1>4, <1>5, <1>6, <1>11 DEF CancelToken, Bit, Lives, Unused, Stage,
       Starting, Flags, Handled, PlaceInv, Handling
  <2>4. MainToken(t)' = MainToken(t)
    BY <1>1, <1>2, <1>3, <1>4, <1>5, <1>6, <1>11 DEF MainToken, Bit, Lives, Unused, Stage,
       Starting, Flags, Handled, PlaceInv, Handling
  <2> QED
    BY <2>1, <2>2, <2>3, <2>4
<1>13. Once(t)'
  <2>1. Tokens(t)' = Tokens(t)
    BY <1>1, <1>2, <1>3, <1>4, <1>12, Terms DEF Tokens
  <2> QED
    BY <1>1, <1>2, <1>3, <1>4, <1>5, <1>6, <1>11, <2>1 DEF Once, Stage, Flags, Lives, Unused
<1>14. Stage(t)'
  <2>1. CASE task[t].refs = 1
    <3>1. /\ task'[t].freed /\ ~task'[t].cancelled /\ ~task'[t].complete
          /\ ~task'[t].onCancel /\ Unused(t)'
      BY <1>4, <1>11, <2>1
    <3> QED
      BY <1>2, <1>3, <1>4, <1>5, <1>6, <2>1, <3>1 DEF Stage, Starting, Flags, Lives, Unused
  <2>2. CASE task[t].refs # 1
    BY <1>1, <1>2, <1>3, <1>4, <1>5, <1>6, <1>11, <2>2 DEF Stage, Starting, Flags, Lives, Unused, PlaceInv
  <2> QED
    BY <2>1, <2>2
<1>15. Handled(t)'
  BY <1>1, <1>2, <1>3, <1>4, <1>5, <1>6, <1>11 DEF Handled, Handling, Stage, Starting,
     Lives, Unused, PlaceInv
<1>16. Connected(t)'
  <2>1. CASE task[t].refs = 1
    <3>1. /\ task'[t].freed /\ ~task'[t].cancelled /\ ~task'[t].complete
          /\ ~task'[t].onCancel /\ Unused(t)'
      BY <1>4, <1>11, <2>1
    <3> QED
      BY <3>1 DEF Connected, Unused
  <2>2. CASE task[t].refs # 1
    BY <1>1, <1>2, <1>3, <1>4, <1>5, <1>6, <1>11, <2>2 DEF Connected, Stage, Starting, Handled, Flags, Lives, Unused, PlaceInv
  <2> QED
    BY <2>1, <2>2
<1>17. Flags(t)'
  <2>1. CASE task[t].refs = 1
    <3>1. /\ task'[t].freed /\ ~task'[t].cancelled /\ ~task'[t].complete
          /\ ~task'[t].onCancel /\ Unused(t)'
      BY <1>4, <1>11, <2>1
    <3> QED
      BY <3>1 DEF Flags, Unused
  <2>2. CASE task[t].refs # 1
    BY <1>1, <1>2, <1>3, <1>4, <1>5, <1>6, <1>11, <2>2 DEF Flags, Stage, Starting, Handled, Handling, Early, InFunction,
       IsCancelled, Lives, Unused, PlaceInv
  <2> QED
    BY <2>1, <2>2
<1>18. Read(t)'
  <2>1. worker[t] \in Early => IsCancelled(t)
    BY <1>1, <1>2, <1>3 DEF Flags, Stage, IsCancelled
  <2>2. CASE task[t].refs = 1
    BY <1>4, <2>2 DEF Read
  <2>3. CASE task[t].refs # 1
    BY <1>4, <1>5, <2>1, <2>3 DEF Read, Propagate
  <2> QED
    BY <2>2, <2>3
<1> QED
  BY <1>a, <1>g, <1>h, <1>7, <1>8, <1>10, <1>13, <1>14, <1>15, <1>16, <1>17, <1>18 DEF Kept,
     TypesKept, TaskInv

\* An operation without a thread ends, and the callback is called at once.
LEMMA OperationAtOnceStep ==
  ASSUME IInv, NEW t \in Task, OperationReturns(t),
         Set(t, [task[t] EXCEPT !.returned = TRUE]), ~Busy(Main), main.at = "loop",
         main' = [at |-> "callback", task |-> t, drops |-> 1]
  PROVE  Kept(t)
<1>1. /\ TypeOK /\ PlaceInv /\ TaskInv(t) /\ task[t] \in TaskRecord /\ None # t
      /\ task[t].refs \in Nat /\ task[t].idles \in Nat /\ task[t].calls \in Nat
  BY TaskAssumption DEF IInv, TypeOK, TaskRecord
<1>2. /\ Stage(t) /\ Handled(t) /\ Refs(t) /\ Once(t) /\ Connected(t) /\ Flags(t) /\ Read(t)
      /\ Lives(t)
  BY <1>1, FreedUnused DEF TaskInv
<1>3. /\ worker[t] = "operation" /\ task[t].kind = "plain" /\ main.at = "loop"
      /\ main.task \notin Task
  BY <1>1, <1>2 DEF OperationReturns, PlaceInv, TypeOK, Stage
<1> DEFINE r == [task[t] EXCEPT !.returned = TRUE]
<1>b. /\ r \in TaskRecord
      /\ r.kind = task[t].kind
      /\ r.refs = task[t].refs
      /\ r.freed = task[t].freed
      /\ r.cancelled = task[t].cancelled
      /\ r.complete = task[t].complete
      /\ r.onCancel = task[t].onCancel
      /\ r.sure = task[t].sure
      /\ r.connected = task[t].connected
      /\ r.idles = task[t].idles
      /\ r.calls = task[t].calls
      /\ r.outcome = task[t].outcome
  BY <1>1, <1>3 DEF TaskRecord, InIdle
<1>c. task' = [task EXCEPT ![t] = r]
  BY <1>1, <1>3 DEF OperationReturns, Set, TypeOK
<1>e. r \in TaskRecord
  BY <1>b
<1> HIDE DEF r
<1>f. task'[t] = r
  BY <1>1, <1>c DEF TypeOK
<1>a. task' \in [Task -> TaskRecord] /\ \A u \in Task \ {t} : task'[u] = task[u]
  BY <1>1, <1>c, <1>e DEF TypeOK
<1>4. /\ task'[t].kind = task[t].kind
      /\ task'[t].refs = task[t].refs
      /\ task'[t].freed = task[t].freed
      /\ task'[t].cancelled = task[t].cancelled
      /\ task'[t].complete = task[t].complete
      /\ task'[t].onCancel = task[t].onCancel
      /\ task'[t].sure = task[t].sure
      /\ task'[t].connected = task[t].connected
      /\ task'[t].idles = task[t].idles
      /\ task'[t].calls = task[t].calls
      /\ task'[t].outcome = task[t].outcome
  BY <1>b, <1>f
<1>5. /\ caller'[t] = caller[t]
      /\ worker'[t] = "gone"
  BY <1>1, <1>3 DEF OperationReturns, CallerAt, WorkerAt, TypeOK, CallerPlaces, WorkerPlaces
<1>g. /\ caller' \in [Task -> CallerPlaces] /\ worker' \in [Task -> WorkerPlaces]
      /\ \A u \in Task \ {t} : caller'[u] = caller[u] /\ worker'[u] = worker[u]
  BY <1>1, <1>3 DEF OperationReturns, CallerAt, WorkerAt, TypeOK, CallerPlaces, WorkerPlaces
<1>6. /\ cancel' = cancel
      /\ main'.at = "callback" /\ main'.task = t /\ main'.drops = 1
      /\ t \in pool'.queue <=> t \in pool.queue
  BY <1>1, <1>3 DEF OperationReturns, CancelAt, TypeOK, CancelType, MainType, CancelPlaces
<1>h. /\ cancel' \in CancelType /\ main' \in MainType
      /\ pool'.queue = pool.queue
  BY <1>1, <1>3 DEF OperationReturns, CancelAt, TypeOK, CancelType, MainType, CancelPlaces
<1>7. PlaceInv'
  BY <1>1, <1>3, <1>6, <1>h, TaskAssumption DEF PlaceInv, Handling, TypeOK
<1>8. \A u \in Task \ {t} : Frame(u)
  BY <1>1, <1>3, <1>a, <1>g, <1>6, <1>h, TaskAssumption DEF Frame, PlaceInv, Handling, TypeOK
<1>9. /\ CallerRef(t)' = CallerRef(t)
      /\ WorkerRef(t) = 1 /\ WorkerRef(t)' = 0
      /\ HandlerRef(t)' = HandlerRef(t)
      /\ MainRef(t) = 0 /\ MainRef(t)' = 1
  <2>1. CallerRef(t)' = CallerRef(t)
    BY <1>1, <1>2, <1>3, <1>4, <1>5, <1>6 DEF CallerRef, Bit, Lives, Unused, Stage,
       Starting, Flags, Handled, PlaceInv, Handling
  <2>2. WorkerRef(t) = 1 /\ WorkerRef(t)' = 0
    BY <1>1, <1>2, <1>3, <1>4, <1>5, <1>6 DEF WorkerRef, Bit, Lives, Unused, Stage,
       Starting, Flags, Handled, PlaceInv, Handling
  <2>3. HandlerRef(t)' = HandlerRef(t)
    BY <1>1, <1>2, <1>3, <1>4, <1>5, <1>6 DEF HandlerRef, Bit, Lives, Unused, Stage,
       Starting, Flags, Handled, PlaceInv, Handling
  <2>4. MainRef(t) = 0 /\ MainRef(t)' = 1
    BY <1>1, <1>2, <1>3, <1>4, <1>5, <1>6 DEF MainRef, Bit, Lives, Unused, Stage, Starting,
       Flags, Handled, PlaceInv, Handling
  <2> QED
    BY <2>1, <2>2, <2>3, <2>4
<1>10. Refs(t)'
  <2>1. task'[t].refs = CallerRef(t)' + WorkerRef(t)' + HandlerRef(t)' + 2 * task'[t].idles + MainRef(t)'
    BY <1>1, <1>2, <1>3, <1>4, <1>9, Terms DEF Refs
  <2>2. caller'[t] # "new" => (task'[t].freed <=> task'[t].refs = 0)
    BY <1>1, <1>2, <1>3, <1>4, <1>5 DEF Refs, Stage, Lives, Unused
  <2> QED
    BY <2>1, <2>2 DEF Refs
<1>12. /\ CallerToken(t)' = CallerToken(t)
       /\ WorkerToken(t) = 1 /\ WorkerToken(t)' = 0
       /\ CancelToken(t)' = CancelToken(t)
       /\ MainToken(t) = 0 /\ MainToken(t)' = 1
  <2>1. CallerToken(t)' = CallerToken(t)
    BY <1>1, <1>2, <1>3, <1>4, <1>5, <1>6 DEF CallerToken, Bit, Lives, Unused, Stage,
       Starting, Flags, Handled, PlaceInv, Handling
  <2>2. WorkerToken(t) = 1 /\ WorkerToken(t)' = 0
    BY <1>1, <1>2, <1>3, <1>4, <1>5, <1>6 DEF WorkerToken, Bit, Lives, Unused, Stage,
       Starting, Flags, Handled, PlaceInv, Handling
  <2>3. CancelToken(t)' = CancelToken(t)
    BY <1>1, <1>2, <1>3, <1>4, <1>5, <1>6 DEF CancelToken, Bit, Lives, Unused, Stage,
       Starting, Flags, Handled, PlaceInv, Handling
  <2>4. MainToken(t) = 0 /\ MainToken(t)' = 1
    BY <1>1, <1>2, <1>3, <1>4, <1>5, <1>6 DEF MainToken, Bit, Lives, Unused, Stage,
       Starting, Flags, Handled, PlaceInv, Handling
  <2> QED
    BY <2>1, <2>2, <2>3, <2>4
<1>13. Once(t)'
  <2>1. Tokens(t)' = Tokens(t)
    BY <1>1, <1>2, <1>3, <1>4, <1>12, Terms DEF Tokens
  <2> QED
    BY <1>1, <1>2, <1>3, <1>4, <1>5, <1>6, <2>1 DEF Once, Stage, Flags, Lives, Unused
<1>14. Stage(t)'
  BY <1>1, <1>2, <1>3, <1>4, <1>5, <1>6 DEF Stage, Starting, Flags, Lives, Unused, PlaceInv
<1>15. Handled(t)'
  BY <1>1, <1>2, <1>3, <1>4, <1>5, <1>6 DEF Handled, Handling, Stage, Starting, Lives,
     Unused, PlaceInv
<1>16. Connected(t)'
  BY <1>1, <1>2, <1>3, <1>4, <1>5, <1>6 DEF Connected, Stage, Starting, Handled, Flags,
     Lives, Unused, PlaceInv
<1>17. Flags(t)'
  BY <1>1, <1>2, <1>3, <1>4, <1>5, <1>6 DEF Flags, Stage, Starting, Handled, Handling,
     Early, InFunction, IsCancelled, Lives, Unused, PlaceInv
<1>18. Read(t)'
  BY <1>1, <1>2, <1>3, <1>4, <1>5, <1>6 DEF Read, Stage, Flags, Starting, Early, InFunction,
     IsCancelled, Propagate, Lives, Unused, PlaceInv
<1> QED
  BY <1>a, <1>g, <1>h, <1>7, <1>8, <1>10, <1>13, <1>14, <1>15, <1>16, <1>17, <1>18 DEF Kept,
     TypesKept, TaskInv

\* Or it is called in an idle source.
LEMMA OperationInIdleStep ==
  ASSUME IInv, NEW t \in Task, OperationReturns(t),
         Set(t, Dropped(InIdle([task[t] EXCEPT !.returned = TRUE]), 1)), main' = main
  PROVE  Kept(t)
<1>1. /\ TypeOK /\ PlaceInv /\ TaskInv(t) /\ task[t] \in TaskRecord /\ None # t
      /\ task[t].refs \in Nat /\ task[t].idles \in Nat /\ task[t].calls \in Nat
  BY TaskAssumption DEF IInv, TypeOK, TaskRecord
<1>2. /\ Stage(t) /\ Handled(t) /\ Refs(t) /\ Once(t) /\ Connected(t) /\ Flags(t) /\ Read(t)
      /\ Lives(t)
  BY <1>1, FreedUnused DEF TaskInv
<1>3. /\ worker[t] = "operation" /\ task[t].kind = "plain"
      /\ task[t].refs + 2 \in Nat /\ task[t].idles + 1 \in Nat /\ 1 \in Nat
  BY <1>1, <1>2 DEF OperationReturns, PlaceInv, TypeOK, Stage
<1> DEFINE r0 == InIdle([task[t] EXCEPT !.returned = TRUE])
<1>b. /\ r0 \in TaskRecord
      /\ r0.kind = task[t].kind
      /\ r0.refs = (task[t].refs + 2)
      /\ r0.freed = task[t].freed
      /\ r0.cancelled = task[t].cancelled
      /\ r0.complete = task[t].complete
      /\ r0.onCancel = task[t].onCancel
      /\ r0.sure = task[t].sure
      /\ r0.connected = task[t].connected
      /\ r0.idles = task[t].idles + 1
      /\ r0.calls = task[t].calls
      /\ r0.outcome = task[t].outcome
  BY <1>1, <1>3 DEF TaskRecord, InIdle
<1> DEFINE r == Dropped(r0, 1)
<1>c. task' = [task EXCEPT ![t] = r]
  BY <1>3 DEF OperationReturns, Set
<1> HIDE DEF r0
<1>d. Loses(r0, r, 1)
  <2>1. (task[t].refs + 2) >= 1 /\ 1 \in Nat
    BY <1>1, <1>2, <1>3, Terms DEF Refs, CallerRef, WorkerRef, HandlerRef, MainRef, Bit
  <2> QED
    BY <1>b, <2>1, DroppedFacts
<1> HIDE DEF r
<1>e. r \in TaskRecord
  BY <1>d DEF Loses
<1>f. task'[t] = r
  BY <1>1, <1>c DEF TypeOK
<1>a. task' \in [Task -> TaskRecord] /\ \A u \in Task \ {t} : task'[u] = task[u]
  BY <1>1, <1>c, <1>e DEF TypeOK
<1>4. /\ task'[t].refs = (task[t].refs + 2) - 1
      /\ task'[t].kind = task[t].kind
      /\ task'[t].connected = task[t].connected
      /\ task'[t].idles = task[t].idles + 1
      /\ task'[t].calls = task[t].calls
      /\ (task[t].refs + 2) # 1 =>
           /\ task'[t].freed = task[t].freed
           /\ task'[t].cancelled = task[t].cancelled
           /\ task'[t].complete = task[t].complete
           /\ task'[t].onCancel = task[t].onCancel
           /\ task'[t].sure = task[t].sure
           /\ task'[t].outcome = task[t].outcome
      /\ (task[t].refs + 2) = 1 =>
           /\ task'[t].freed /\ ~task'[t].cancelled /\ ~task'[t].complete
           /\ ~task'[t].onCancel /\ task'[t].sure /\ task'[t].outcome = "none"
  BY <1>b, <1>d, <1>f DEF Loses
<1>5. /\ caller'[t] = caller[t]
      /\ worker'[t] = "gone"
  BY <1>1, <1>3 DEF OperationReturns, CallerAt, WorkerAt, TypeOK, CallerPlaces, WorkerPlaces
<1>g. /\ caller' \in [Task -> CallerPlaces] /\ worker' \in [Task -> WorkerPlaces]
      /\ \A u \in Task \ {t} : caller'[u] = caller[u] /\ worker'[u] = worker[u]
  BY <1>1, <1>3 DEF OperationReturns, CallerAt, WorkerAt, TypeOK, CallerPlaces, WorkerPlaces
<1>6. /\ cancel' = cancel
      /\ main' = main
      /\ t \in pool'.queue <=> t \in pool.queue
  BY <1>1, <1>3 DEF OperationReturns, CancelAt, TypeOK, CancelType, MainType, CancelPlaces
<1>h. /\ cancel' \in CancelType /\ main' \in MainType
      /\ pool'.queue = pool.queue
  BY <1>1, <1>3 DEF OperationReturns, CancelAt, TypeOK, CancelType, MainType, CancelPlaces
<1>7. PlaceInv'
  BY <1>1, <1>3, <1>6, <1>h, TaskAssumption DEF PlaceInv, Handling, TypeOK
<1>8. \A u \in Task \ {t} : Frame(u)
  BY <1>1, <1>3, <1>a, <1>g, <1>6, <1>h, TaskAssumption DEF Frame, PlaceInv, Handling, TypeOK
<1>9. /\ CallerRef(t)' = CallerRef(t)
      /\ WorkerRef(t) = 1 /\ WorkerRef(t)' = 0
      /\ HandlerRef(t)' = HandlerRef(t)
      /\ MainRef(t)' = MainRef(t)
  <2>1. CallerRef(t)' = CallerRef(t)
    BY <1>1, <1>2, <1>3, <1>4, <1>5, <1>6 DEF CallerRef, Bit, Lives, Unused, Stage,
       Starting, Flags, Handled, PlaceInv, Handling
  <2>2. WorkerRef(t) = 1 /\ WorkerRef(t)' = 0
    BY <1>1, <1>2, <1>3, <1>4, <1>5, <1>6 DEF WorkerRef, Bit, Lives, Unused, Stage,
       Starting, Flags, Handled, PlaceInv, Handling
  <2>3. HandlerRef(t)' = HandlerRef(t)
    BY <1>1, <1>2, <1>3, <1>4, <1>5, <1>6 DEF HandlerRef, Bit, Lives, Unused, Stage,
       Starting, Flags, Handled, PlaceInv, Handling
  <2>4. MainRef(t)' = MainRef(t)
    BY <1>1, <1>2, <1>3, <1>4, <1>5, <1>6 DEF MainRef, Bit, Lives, Unused, Stage, Starting,
       Flags, Handled, PlaceInv, Handling
  <2> QED
    BY <2>1, <2>2, <2>3, <2>4
<1>10. Refs(t)'
  <2>1. task'[t].refs = CallerRef(t)' + WorkerRef(t)' + HandlerRef(t)' + 2 * task'[t].idles + MainRef(t)'
    BY <1>1, <1>2, <1>3, <1>4, <1>9, Terms DEF Refs
  <2>2. task[t].refs >= 1 /\ 1 > 0 /\ caller[t] # "new" /\ ~task[t].freed
    BY <1>1, <1>2, <1>3, <1>9, Terms DEF Refs, Stage, Lives, Unused, PlaceInv
  <2>3. task'[t].freed <=> task'[t].refs = 0
    BY <1>1, <1>3, <1>4, <2>2
  <2> QED
    BY <2>1, <2>3 DEF Refs
<1>11. task'[t].freed => Unused(t)'
  <2> SUFFICES ASSUME task'[t].freed PROVE Unused(t)'
    OBVIOUS
  <2>1. task'[t].refs = 0
    BY <1>3, <1>4, <1>5, <1>10, <1>2 DEF Refs, Stage, Lives, Unused
  <2>2. /\ CallerRef(t)' \in {0, 1} /\ WorkerRef(t)' \in {0, 1} /\ HandlerRef(t)' \in {0, 1}
        /\ MainRef(t)' \in 0 .. 2 /\ task'[t].idles \in Nat
    BY <1>1, <1>3, <1>4, <1>9, Terms
  <2>3. /\ CallerRef(t)' = 0 /\ WorkerRef(t)' = 0 /\ HandlerRef(t)' = 0 /\ MainRef(t)' = 0
        /\ task'[t].idles = 0
    BY <1>10, <2>1, <2>2, NoneLeft DEF Refs
  <2>4. caller'[t] \in {"new", "done"}
    BY <2>3 DEF CallerRef, Bit
  <2>5. worker'[t] \in {"none", "cleanup", "counted", "gone"}
    BY <2>3 DEF WorkerRef, Bit
  <2>6. ~task'[t].connected /\ cancel'.task # t
    BY <2>3 DEF HandlerRef, Bit
  <2>7. main'.task # t
    BY <1>7, <2>3 DEF MainRef, PlaceInv
  <2> QED
    BY <2>3, <2>4, <2>5, <2>6, <2>7 DEF Unused
<1>12. /\ CallerToken(t)' = CallerToken(t)
       /\ WorkerToken(t) = 1 /\ WorkerToken(t)' = 0
       /\ CancelToken(t)' = CancelToken(t)
       /\ MainToken(t)' = MainToken(t)
  <2>1. CallerToken(t)' = CallerToken(t)
    BY <1>1, <1>2, <1>3, <1>4, <1>5, <1>6, <1>11 DEF CallerToken, Bit, Lives, Unused, Stage,
       Starting, Flags, Handled, PlaceInv, Handling
  <2>2. WorkerToken(t) = 1 /\ WorkerToken(t)' = 0
    BY <1>1, <1>2, <1>3, <1>4, <1>5, <1>6, <1>11 DEF WorkerToken, Bit, Lives, Unused, Stage,
       Starting, Flags, Handled, PlaceInv, Handling
  <2>3. CancelToken(t)' = CancelToken(t)
    BY <1>1, <1>2, <1>3, <1>4, <1>5, <1>6, <1>11 DEF CancelToken, Bit, Lives, Unused, Stage,
       Starting, Flags, Handled, PlaceInv, Handling
  <2>4. MainToken(t)' = MainToken(t)
    BY <1>1, <1>2, <1>3, <1>4, <1>5, <1>6, <1>11 DEF MainToken, Bit, Lives, Unused, Stage,
       Starting, Flags, Handled, PlaceInv, Handling
  <2> QED
    BY <2>1, <2>2, <2>3, <2>4
<1>13. Once(t)'
  <2>1. Tokens(t)' = Tokens(t)
    BY <1>1, <1>2, <1>3, <1>4, <1>12, Terms DEF Tokens
  <2> QED
    BY <1>1, <1>2, <1>3, <1>4, <1>5, <1>6, <1>11, <2>1 DEF Once, Stage, Flags, Lives, Unused
<1>14. Stage(t)'
  <2>1. CASE (task[t].refs + 2) = 1
    <3>1. /\ task'[t].freed /\ ~task'[t].cancelled /\ ~task'[t].complete
          /\ ~task'[t].onCancel /\ Unused(t)'
      BY <1>4, <1>11, <2>1
    <3> QED
      BY <1>2, <1>3, <1>4, <1>5, <1>6, <2>1, <3>1 DEF Stage, Starting, Flags, Lives, Unused
  <2>2. CASE (task[t].refs + 2) # 1
    BY <1>1, <1>2, <1>3, <1>4, <1>5, <1>6, <1>11, <2>2 DEF Stage, Starting, Flags, Lives, Unused, PlaceInv
  <2> QED
    BY <2>1, <2>2
<1>15. Handled(t)'
  BY <1>1, <1>2, <1>3, <1>4, <1>5, <1>6, <1>11 DEF Handled, Handling, Stage, Starting,
     Lives, Unused, PlaceInv
<1>16. Connected(t)'
  <2>1. CASE (task[t].refs + 2) = 1
    <3>1. /\ task'[t].freed /\ ~task'[t].cancelled /\ ~task'[t].complete
          /\ ~task'[t].onCancel /\ Unused(t)'
      BY <1>4, <1>11, <2>1
    <3> QED
      BY <3>1 DEF Connected, Unused
  <2>2. CASE (task[t].refs + 2) # 1
    BY <1>1, <1>2, <1>3, <1>4, <1>5, <1>6, <1>11, <2>2 DEF Connected, Stage, Starting, Handled, Flags, Lives, Unused, PlaceInv
  <2> QED
    BY <2>1, <2>2
<1>17. Flags(t)'
  <2>1. CASE (task[t].refs + 2) = 1
    <3>1. /\ task'[t].freed /\ ~task'[t].cancelled /\ ~task'[t].complete
          /\ ~task'[t].onCancel /\ Unused(t)'
      BY <1>4, <1>11, <2>1
    <3> QED
      BY <3>1 DEF Flags, Unused
  <2>2. CASE (task[t].refs + 2) # 1
    BY <1>1, <1>2, <1>3, <1>4, <1>5, <1>6, <1>11, <2>2 DEF Flags, Stage, Starting, Handled, Handling, Early, InFunction,
       IsCancelled, Lives, Unused, PlaceInv
  <2> QED
    BY <2>1, <2>2
<1>18. Read(t)'
  BY <1>1, <1>2, <1>3, <1>4, <1>5, <1>6, <1>11 DEF Read, Stage, Flags, Starting, Early,
     InFunction, IsCancelled, Propagate, Lives, Unused, PlaceInv
<1> QED
  BY <1>a, <1>g, <1>h, <1>7, <1>8, <1>10, <1>13, <1>14, <1>15, <1>16, <1>17, <1>18 DEF Kept,
     TypesKept, TaskInv

\* A thread of the pool takes the task.
LEMMA PopStep ==
  ASSUME IInv, NEW t \in Task, Pop(t)
  PROVE  Kept(t)
<1>1. /\ TypeOK /\ PlaceInv /\ TaskInv(t) /\ task[t] \in TaskRecord /\ None # t
      /\ task[t].refs \in Nat /\ task[t].idles \in Nat /\ task[t].calls \in Nat
  BY TaskAssumption DEF IInv, TypeOK, TaskRecord
<1>2. /\ Stage(t) /\ Handled(t) /\ Refs(t) /\ Once(t) /\ Connected(t) /\ Flags(t) /\ Read(t)
      /\ Lives(t)
  BY <1>1, FreedUnused DEF TaskInv
<1>3. /\ t \in pool.queue /\ worker[t] = "queued"
      /\ task[t].kind # "plain"
  BY <1>1, <1>2 DEF Pop, PlaceInv, TypeOK, Stage
<1>4. task' = task
  BY DEF Pop
<1>a. task' \in [Task -> TaskRecord] /\ \A u \in Task \ {t} : task'[u] = task[u]
  BY <1>1, <1>4 DEF TypeOK
<1>5. /\ caller'[t] = caller[t]
      /\ worker'[t] = "popped"
  BY <1>1, <1>3 DEF Pop, CallerAt, WorkerAt, TypeOK, CallerPlaces, WorkerPlaces
<1>g. /\ caller' \in [Task -> CallerPlaces] /\ worker' \in [Task -> WorkerPlaces]
      /\ \A u \in Task \ {t} : caller'[u] = caller[u] /\ worker'[u] = worker[u]
  BY <1>1, <1>3 DEF Pop, CallerAt, WorkerAt, TypeOK, CallerPlaces, WorkerPlaces
<1>6. /\ cancel' = cancel
      /\ main' = main
      /\ t \notin pool'.queue
  BY <1>1, <1>3 DEF Pop, CancelAt, TypeOK, CancelType, MainType, CancelPlaces
<1>h. /\ cancel' \in CancelType /\ main' \in MainType
      /\ pool'.queue = pool.queue \ {t}
  BY <1>1, <1>3 DEF Pop, CancelAt, TypeOK, CancelType, MainType, CancelPlaces
<1>7. PlaceInv'
  BY <1>1, <1>3, <1>6, <1>h, TaskAssumption DEF PlaceInv, Handling, TypeOK
<1>8. \A u \in Task \ {t} : Frame(u)
  BY <1>1, <1>3, <1>a, <1>g, <1>6, <1>h, TaskAssumption DEF Frame, PlaceInv, Handling, TypeOK
<1>9. /\ CallerRef(t)' = CallerRef(t)
      /\ WorkerRef(t)' = WorkerRef(t)
      /\ HandlerRef(t)' = HandlerRef(t)
      /\ MainRef(t)' = MainRef(t)
  <2>1. CallerRef(t)' = CallerRef(t)
    BY <1>1, <1>2, <1>3, <1>4, <1>5, <1>6 DEF CallerRef, Bit, Lives, Unused, Stage,
       Starting, Flags, Handled, PlaceInv, Handling
  <2>2. WorkerRef(t)' = WorkerRef(t)
    BY <1>1, <1>2, <1>3, <1>4, <1>5, <1>6 DEF WorkerRef, Bit, Lives, Unused, Stage,
       Starting, Flags, Handled, PlaceInv, Handling
  <2>3. HandlerRef(t)' = HandlerRef(t)
    BY <1>1, <1>2, <1>3, <1>4, <1>5, <1>6 DEF HandlerRef, Bit, Lives, Unused, Stage,
       Starting, Flags, Handled, PlaceInv, Handling
  <2>4. MainRef(t)' = MainRef(t)
    BY <1>1, <1>2, <1>3, <1>4, <1>5, <1>6 DEF MainRef, Bit, Lives, Unused, Stage, Starting,
       Flags, Handled, PlaceInv, Handling
  <2> QED
    BY <2>1, <2>2, <2>3, <2>4
<1>10. Refs(t)'
  <2>1. task'[t].refs = CallerRef(t)' + WorkerRef(t)' + HandlerRef(t)' + 2 * task'[t].idles + MainRef(t)'
    BY <1>1, <1>2, <1>3, <1>4, <1>9, Terms DEF Refs
  <2>2. caller'[t] # "new" => (task'[t].freed <=> task'[t].refs = 0)
    BY <1>1, <1>2, <1>3, <1>4, <1>5 DEF Refs, Stage, Lives, Unused
  <2> QED
    BY <2>1, <2>2 DEF Refs
<1>12. /\ CallerToken(t)' = CallerToken(t)
       /\ WorkerToken(t)' = WorkerToken(t)
       /\ CancelToken(t)' = CancelToken(t)
       /\ MainToken(t)' = MainToken(t)
  <2>1. CallerToken(t)' = CallerToken(t)
    BY <1>1, <1>2, <1>3, <1>4, <1>5, <1>6 DEF CallerToken, Bit, Lives, Unused, Stage,
       Starting, Flags, Handled, PlaceInv, Handling
  <2>2. WorkerToken(t)' = WorkerToken(t)
    BY <1>1, <1>2, <1>3, <1>4, <1>5, <1>6 DEF WorkerToken, Bit, Lives, Unused, Stage,
       Starting, Flags, Handled, PlaceInv, Handling
  <2>3. CancelToken(t)' = CancelToken(t)
    BY <1>1, <1>2, <1>3, <1>4, <1>5, <1>6 DEF CancelToken, Bit, Lives, Unused, Stage,
       Starting, Flags, Handled, PlaceInv, Handling
  <2>4. MainToken(t)' = MainToken(t)
    BY <1>1, <1>2, <1>3, <1>4, <1>5, <1>6 DEF MainToken, Bit, Lives, Unused, Stage,
       Starting, Flags, Handled, PlaceInv, Handling
  <2> QED
    BY <2>1, <2>2, <2>3, <2>4
<1>13. Once(t)'
  <2>1. Tokens(t)' = Tokens(t)
    BY <1>1, <1>2, <1>3, <1>4, <1>12, Terms DEF Tokens
  <2> QED
    BY <1>1, <1>2, <1>3, <1>4, <1>5, <1>6, <2>1 DEF Once, Stage, Flags, Lives, Unused
<1>14. Stage(t)'
  BY <1>1, <1>2, <1>3, <1>4, <1>5, <1>6 DEF Stage, Starting, Flags, Lives, Unused, PlaceInv
<1>15. Handled(t)'
  BY <1>1, <1>2, <1>3, <1>4, <1>5, <1>6 DEF Handled, Handling, Stage, Starting, Lives,
     Unused, PlaceInv
<1>16. Connected(t)'
  BY <1>1, <1>2, <1>3, <1>4, <1>5, <1>6 DEF Connected, Stage, Starting, Handled, Flags,
     Lives, Unused, PlaceInv
<1>17. Flags(t)'
  BY <1>1, <1>2, <1>3, <1>4, <1>5, <1>6 DEF Flags, Stage, Starting, Handled, Handling,
     Early, InFunction, IsCancelled, Lives, Unused, PlaceInv
<1>18. Read(t)'
  BY <1>1, <1>2, <1>3, <1>4, <1>5, <1>6 DEF Read, Stage, Flags, Starting, Early, InFunction,
     IsCancelled, Propagate, Lives, Unused, PlaceInv
<1> QED
  BY <1>a, <1>g, <1>h, <1>7, <1>8, <1>10, <1>13, <1>14, <1>15, <1>16, <1>17, <1>18 DEF Kept,
     TypesKept, TaskInv

\* The thread is counted.
LEMMA SetupStep ==
  ASSUME IInv, NEW t \in Task, Setup(t)
  PROVE  Kept(t)
<1>1. /\ TypeOK /\ PlaceInv /\ TaskInv(t) /\ task[t] \in TaskRecord /\ None # t
      /\ task[t].refs \in Nat /\ task[t].idles \in Nat /\ task[t].calls \in Nat
  BY TaskAssumption DEF IInv, TypeOK, TaskRecord
<1>2. /\ Stage(t) /\ Handled(t) /\ Refs(t) /\ Once(t) /\ Connected(t) /\ Flags(t) /\ Read(t)
      /\ Lives(t)
  BY <1>1, FreedUnused DEF TaskInv
<1>3. worker[t] = "popped" /\ task[t].kind # "plain"
  BY <1>1, <1>2 DEF Setup, PlaceInv, TypeOK, Stage
<1>4. task' = task
  BY DEF Setup
<1>a. task' \in [Task -> TaskRecord] /\ \A u \in Task \ {t} : task'[u] = task[u]
  BY <1>1, <1>4 DEF TypeOK
<1>5. /\ caller'[t] = caller[t]
      /\ worker'[t] = "running"
  BY <1>1, <1>3 DEF Setup, CallerAt, WorkerAt, TypeOK, CallerPlaces, WorkerPlaces
<1>g. /\ caller' \in [Task -> CallerPlaces] /\ worker' \in [Task -> WorkerPlaces]
      /\ \A u \in Task \ {t} : caller'[u] = caller[u] /\ worker'[u] = worker[u]
  BY <1>1, <1>3 DEF Setup, CallerAt, WorkerAt, TypeOK, CallerPlaces, WorkerPlaces
<1>6. /\ cancel' = cancel
      /\ main' = main
      /\ t \in pool'.queue <=> t \in pool.queue
  BY <1>1, <1>3 DEF Setup, CancelAt, TypeOK, CancelType, MainType, CancelPlaces
<1>h. /\ cancel' \in CancelType /\ main' \in MainType
      /\ pool'.queue = pool.queue
  BY <1>1, <1>3 DEF Setup, CancelAt, TypeOK, CancelType, MainType, CancelPlaces
<1>7. PlaceInv'
  BY <1>1, <1>3, <1>6, <1>h, TaskAssumption DEF PlaceInv, Handling, TypeOK
<1>8. \A u \in Task \ {t} : Frame(u)
  BY <1>1, <1>3, <1>a, <1>g, <1>6, <1>h, TaskAssumption DEF Frame, PlaceInv, Handling, TypeOK
<1>9. /\ CallerRef(t)' = CallerRef(t)
      /\ WorkerRef(t)' = WorkerRef(t)
      /\ HandlerRef(t)' = HandlerRef(t)
      /\ MainRef(t)' = MainRef(t)
  <2>1. CallerRef(t)' = CallerRef(t)
    BY <1>1, <1>2, <1>3, <1>4, <1>5, <1>6 DEF CallerRef, Bit, Lives, Unused, Stage,
       Starting, Flags, Handled, PlaceInv, Handling
  <2>2. WorkerRef(t)' = WorkerRef(t)
    BY <1>1, <1>2, <1>3, <1>4, <1>5, <1>6 DEF WorkerRef, Bit, Lives, Unused, Stage,
       Starting, Flags, Handled, PlaceInv, Handling
  <2>3. HandlerRef(t)' = HandlerRef(t)
    BY <1>1, <1>2, <1>3, <1>4, <1>5, <1>6 DEF HandlerRef, Bit, Lives, Unused, Stage,
       Starting, Flags, Handled, PlaceInv, Handling
  <2>4. MainRef(t)' = MainRef(t)
    BY <1>1, <1>2, <1>3, <1>4, <1>5, <1>6 DEF MainRef, Bit, Lives, Unused, Stage, Starting,
       Flags, Handled, PlaceInv, Handling
  <2> QED
    BY <2>1, <2>2, <2>3, <2>4
<1>10. Refs(t)'
  <2>1. task'[t].refs = CallerRef(t)' + WorkerRef(t)' + HandlerRef(t)' + 2 * task'[t].idles + MainRef(t)'
    BY <1>1, <1>2, <1>3, <1>4, <1>9, Terms DEF Refs
  <2>2. caller'[t] # "new" => (task'[t].freed <=> task'[t].refs = 0)
    BY <1>1, <1>2, <1>3, <1>4, <1>5 DEF Refs, Stage, Lives, Unused
  <2> QED
    BY <2>1, <2>2 DEF Refs
<1>12. /\ CallerToken(t)' = CallerToken(t)
       /\ WorkerToken(t)' = WorkerToken(t)
       /\ CancelToken(t)' = CancelToken(t)
       /\ MainToken(t)' = MainToken(t)
  <2>1. CallerToken(t)' = CallerToken(t)
    BY <1>1, <1>2, <1>3, <1>4, <1>5, <1>6 DEF CallerToken, Bit, Lives, Unused, Stage,
       Starting, Flags, Handled, PlaceInv, Handling
  <2>2. WorkerToken(t)' = WorkerToken(t)
    BY <1>1, <1>2, <1>3, <1>4, <1>5, <1>6 DEF WorkerToken, Bit, Lives, Unused, Stage,
       Starting, Flags, Handled, PlaceInv, Handling
  <2>3. CancelToken(t)' = CancelToken(t)
    BY <1>1, <1>2, <1>3, <1>4, <1>5, <1>6 DEF CancelToken, Bit, Lives, Unused, Stage,
       Starting, Flags, Handled, PlaceInv, Handling
  <2>4. MainToken(t)' = MainToken(t)
    BY <1>1, <1>2, <1>3, <1>4, <1>5, <1>6 DEF MainToken, Bit, Lives, Unused, Stage,
       Starting, Flags, Handled, PlaceInv, Handling
  <2> QED
    BY <2>1, <2>2, <2>3, <2>4
<1>13. Once(t)'
  <2>1. Tokens(t)' = Tokens(t)
    BY <1>1, <1>2, <1>3, <1>4, <1>12, Terms DEF Tokens
  <2> QED
    BY <1>1, <1>2, <1>3, <1>4, <1>5, <1>6, <2>1 DEF Once, Stage, Flags, Lives, Unused
<1>14. Stage(t)'
  BY <1>1, <1>2, <1>3, <1>4, <1>5, <1>6 DEF Stage, Starting, Flags, Lives, Unused, PlaceInv
<1>15. Handled(t)'
  BY <1>1, <1>2, <1>3, <1>4, <1>5, <1>6 DEF Handled, Handling, Stage, Starting, Lives,
     Unused, PlaceInv
<1>16. Connected(t)'
  BY <1>1, <1>2, <1>3, <1>4, <1>5, <1>6 DEF Connected, Stage, Starting, Handled, Flags,
     Lives, Unused, PlaceInv
<1>17. Flags(t)'
  BY <1>1, <1>2, <1>3, <1>4, <1>5, <1>6 DEF Flags, Stage, Starting, Handled, Handling,
     Early, InFunction, IsCancelled, Lives, Unused, PlaceInv
<1>18. Read(t)'
  BY <1>1, <1>2, <1>3, <1>4, <1>5, <1>6 DEF Read, Stage, Flags, Starting, Early, InFunction,
     IsCancelled, Propagate, Lives, Unused, PlaceInv
<1> QED
  BY <1>a, <1>g, <1>h, <1>7, <1>8, <1>10, <1>13, <1>14, <1>15, <1>16, <1>17, <1>18 DEF Kept,
     TypesKept, TaskInv

\* The function is about to set ever_returned.
LEMMA ReturningStep ==
  ASSUME IInv, NEW t \in Task, Returning(t)
  PROVE  Kept(t)
<1>1. /\ TypeOK /\ PlaceInv /\ TaskInv(t) /\ task[t] \in TaskRecord /\ None # t
      /\ task[t].refs \in Nat /\ task[t].idles \in Nat /\ task[t].calls \in Nat
  BY TaskAssumption DEF IInv, TypeOK, TaskRecord
<1>2. /\ Stage(t) /\ Handled(t) /\ Refs(t) /\ Once(t) /\ Connected(t) /\ Flags(t) /\ Read(t)
      /\ Lives(t)
  BY <1>1, FreedUnused DEF TaskInv
<1>3. worker[t] = "running" /\ task[t].kind # "plain"
  BY <1>1, <1>2 DEF Returning, PlaceInv, TypeOK, Stage
<1>4. task' = task
  BY DEF Returning
<1>a. task' \in [Task -> TaskRecord] /\ \A u \in Task \ {t} : task'[u] = task[u]
  BY <1>1, <1>4 DEF TypeOK
<1>5. /\ caller'[t] = caller[t]
      /\ worker'[t] = "returning"
  BY <1>1, <1>3 DEF Returning, CallerAt, WorkerAt, TypeOK, CallerPlaces, WorkerPlaces
<1>g. /\ caller' \in [Task -> CallerPlaces] /\ worker' \in [Task -> WorkerPlaces]
      /\ \A u \in Task \ {t} : caller'[u] = caller[u] /\ worker'[u] = worker[u]
  BY <1>1, <1>3 DEF Returning, CallerAt, WorkerAt, TypeOK, CallerPlaces, WorkerPlaces
<1>6. /\ cancel' = cancel
      /\ main' = main
      /\ t \in pool'.queue <=> t \in pool.queue
  BY <1>1, <1>3 DEF Returning, CancelAt, TypeOK, CancelType, MainType, CancelPlaces
<1>h. /\ cancel' \in CancelType /\ main' \in MainType
      /\ pool'.queue = pool.queue
  BY <1>1, <1>3 DEF Returning, CancelAt, TypeOK, CancelType, MainType, CancelPlaces
<1>7. PlaceInv'
  BY <1>1, <1>3, <1>6, <1>h, TaskAssumption DEF PlaceInv, Handling, TypeOK
<1>8. \A u \in Task \ {t} : Frame(u)
  BY <1>1, <1>3, <1>a, <1>g, <1>6, <1>h, TaskAssumption DEF Frame, PlaceInv, Handling, TypeOK
<1>9. /\ CallerRef(t)' = CallerRef(t)
      /\ WorkerRef(t)' = WorkerRef(t)
      /\ HandlerRef(t)' = HandlerRef(t)
      /\ MainRef(t)' = MainRef(t)
  <2>1. CallerRef(t)' = CallerRef(t)
    BY <1>1, <1>2, <1>3, <1>4, <1>5, <1>6 DEF CallerRef, Bit, Lives, Unused, Stage,
       Starting, Flags, Handled, PlaceInv, Handling
  <2>2. WorkerRef(t)' = WorkerRef(t)
    BY <1>1, <1>2, <1>3, <1>4, <1>5, <1>6 DEF WorkerRef, Bit, Lives, Unused, Stage,
       Starting, Flags, Handled, PlaceInv, Handling
  <2>3. HandlerRef(t)' = HandlerRef(t)
    BY <1>1, <1>2, <1>3, <1>4, <1>5, <1>6 DEF HandlerRef, Bit, Lives, Unused, Stage,
       Starting, Flags, Handled, PlaceInv, Handling
  <2>4. MainRef(t)' = MainRef(t)
    BY <1>1, <1>2, <1>3, <1>4, <1>5, <1>6 DEF MainRef, Bit, Lives, Unused, Stage, Starting,
       Flags, Handled, PlaceInv, Handling
  <2> QED
    BY <2>1, <2>2, <2>3, <2>4
<1>10. Refs(t)'
  <2>1. task'[t].refs = CallerRef(t)' + WorkerRef(t)' + HandlerRef(t)' + 2 * task'[t].idles + MainRef(t)'
    BY <1>1, <1>2, <1>3, <1>4, <1>9, Terms DEF Refs
  <2>2. caller'[t] # "new" => (task'[t].freed <=> task'[t].refs = 0)
    BY <1>1, <1>2, <1>3, <1>4, <1>5 DEF Refs, Stage, Lives, Unused
  <2> QED
    BY <2>1, <2>2 DEF Refs
<1>12. /\ CallerToken(t)' = CallerToken(t)
       /\ WorkerToken(t)' = WorkerToken(t)
       /\ CancelToken(t)' = CancelToken(t)
       /\ MainToken(t)' = MainToken(t)
  <2>1. CallerToken(t)' = CallerToken(t)
    BY <1>1, <1>2, <1>3, <1>4, <1>5, <1>6 DEF CallerToken, Bit, Lives, Unused, Stage,
       Starting, Flags, Handled, PlaceInv, Handling
  <2>2. WorkerToken(t)' = WorkerToken(t)
    BY <1>1, <1>2, <1>3, <1>4, <1>5, <1>6 DEF WorkerToken, Bit, Lives, Unused, Stage,
       Starting, Flags, Handled, PlaceInv, Handling
  <2>3. CancelToken(t)' = CancelToken(t)
    BY <1>1, <1>2, <1>3, <1>4, <1>5, <1>6 DEF CancelToken, Bit, Lives, Unused, Stage,
       Starting, Flags, Handled, PlaceInv, Handling
  <2>4. MainToken(t)' = MainToken(t)
    BY <1>1, <1>2, <1>3, <1>4, <1>5, <1>6 DEF MainToken, Bit, Lives, Unused, Stage,
       Starting, Flags, Handled, PlaceInv, Handling
  <2> QED
    BY <2>1, <2>2, <2>3, <2>4
<1>13. Once(t)'
  <2>1. Tokens(t)' = Tokens(t)
    BY <1>1, <1>2, <1>3, <1>4, <1>12, Terms DEF Tokens
  <2> QED
    BY <1>1, <1>2, <1>3, <1>4, <1>5, <1>6, <2>1 DEF Once, Stage, Flags, Lives, Unused
<1>14. Stage(t)'
  BY <1>1, <1>2, <1>3, <1>4, <1>5, <1>6 DEF Stage, Starting, Flags, Lives, Unused, PlaceInv
<1>15. Handled(t)'
  BY <1>1, <1>2, <1>3, <1>4, <1>5, <1>6 DEF Handled, Handling, Stage, Starting, Lives,
     Unused, PlaceInv
<1>16. Connected(t)'
  BY <1>1, <1>2, <1>3, <1>4, <1>5, <1>6 DEF Connected, Stage, Starting, Handled, Flags,
     Lives, Unused, PlaceInv
<1>17. Flags(t)'
  BY <1>1, <1>2, <1>3, <1>4, <1>5, <1>6 DEF Flags, Stage, Starting, Handled, Handling,
     Early, InFunction, IsCancelled, Lives, Unused, PlaceInv
<1>18. Read(t)'
  BY <1>1, <1>2, <1>3, <1>4, <1>5, <1>6 DEF Read, Stage, Flags, Starting, Early, InFunction,
     IsCancelled, Propagate, Lives, Unused, PlaceInv
<1> QED
  BY <1>a, <1>g, <1>h, <1>7, <1>8, <1>10, <1>13, <1>14, <1>15, <1>16, <1>17, <1>18 DEF Kept,
     TypesKept, TaskInv

\* The function is over.
LEMMA FunctionEndsStep ==
  ASSUME IInv, NEW t \in Task, FunctionEnds(t)
  PROVE  Kept(t)
<1>1. /\ TypeOK /\ PlaceInv /\ TaskInv(t) /\ task[t] \in TaskRecord /\ None # t
      /\ task[t].refs \in Nat /\ task[t].idles \in Nat /\ task[t].calls \in Nat
  BY TaskAssumption DEF IInv, TypeOK, TaskRecord
<1>2. /\ Stage(t) /\ Handled(t) /\ Refs(t) /\ Once(t) /\ Connected(t) /\ Flags(t) /\ Read(t)
      /\ Lives(t)
  BY <1>1, FreedUnused DEF TaskInv
<1>3. worker[t] = "running" /\ task[t].kind # "plain"
  BY <1>1, <1>2 DEF FunctionEnds, PlaceInv, TypeOK, Stage
<1>4. task' = task
  BY DEF FunctionEnds
<1>a. task' \in [Task -> TaskRecord] /\ \A u \in Task \ {t} : task'[u] = task[u]
  BY <1>1, <1>4 DEF TypeOK
<1>5. /\ caller'[t] = caller[t]
      /\ worker'[t] = "complete"
  BY <1>1, <1>3 DEF FunctionEnds, CallerAt, WorkerAt, TypeOK, CallerPlaces, WorkerPlaces
<1>g. /\ caller' \in [Task -> CallerPlaces] /\ worker' \in [Task -> WorkerPlaces]
      /\ \A u \in Task \ {t} : caller'[u] = caller[u] /\ worker'[u] = worker[u]
  BY <1>1, <1>3 DEF FunctionEnds, CallerAt, WorkerAt, TypeOK, CallerPlaces, WorkerPlaces
<1>6. /\ cancel' = cancel
      /\ main' = main
      /\ t \in pool'.queue <=> t \in pool.queue
  BY <1>1, <1>3 DEF FunctionEnds, CancelAt, TypeOK, CancelType, MainType, CancelPlaces
<1>h. /\ cancel' \in CancelType /\ main' \in MainType
      /\ pool'.queue = pool.queue
  BY <1>1, <1>3 DEF FunctionEnds, CancelAt, TypeOK, CancelType, MainType, CancelPlaces
<1>7. PlaceInv'
  BY <1>1, <1>3, <1>6, <1>h, TaskAssumption DEF PlaceInv, Handling, TypeOK
<1>8. \A u \in Task \ {t} : Frame(u)
  BY <1>1, <1>3, <1>a, <1>g, <1>6, <1>h, TaskAssumption DEF Frame, PlaceInv, Handling, TypeOK
<1>9. /\ CallerRef(t)' = CallerRef(t)
      /\ WorkerRef(t)' = WorkerRef(t)
      /\ HandlerRef(t)' = HandlerRef(t)
      /\ MainRef(t)' = MainRef(t)
  <2>1. CallerRef(t)' = CallerRef(t)
    BY <1>1, <1>2, <1>3, <1>4, <1>5, <1>6 DEF CallerRef, Bit, Lives, Unused, Stage,
       Starting, Flags, Handled, PlaceInv, Handling
  <2>2. WorkerRef(t)' = WorkerRef(t)
    BY <1>1, <1>2, <1>3, <1>4, <1>5, <1>6 DEF WorkerRef, Bit, Lives, Unused, Stage,
       Starting, Flags, Handled, PlaceInv, Handling
  <2>3. HandlerRef(t)' = HandlerRef(t)
    BY <1>1, <1>2, <1>3, <1>4, <1>5, <1>6 DEF HandlerRef, Bit, Lives, Unused, Stage,
       Starting, Flags, Handled, PlaceInv, Handling
  <2>4. MainRef(t)' = MainRef(t)
    BY <1>1, <1>2, <1>3, <1>4, <1>5, <1>6 DEF MainRef, Bit, Lives, Unused, Stage, Starting,
       Flags, Handled, PlaceInv, Handling
  <2> QED
    BY <2>1, <2>2, <2>3, <2>4
<1>10. Refs(t)'
  <2>1. task'[t].refs = CallerRef(t)' + WorkerRef(t)' + HandlerRef(t)' + 2 * task'[t].idles + MainRef(t)'
    BY <1>1, <1>2, <1>3, <1>4, <1>9, Terms DEF Refs
  <2>2. caller'[t] # "new" => (task'[t].freed <=> task'[t].refs = 0)
    BY <1>1, <1>2, <1>3, <1>4, <1>5 DEF Refs, Stage, Lives, Unused
  <2> QED
    BY <2>1, <2>2 DEF Refs
<1>12. /\ CallerToken(t)' = CallerToken(t)
       /\ WorkerToken(t)' = WorkerToken(t)
       /\ CancelToken(t)' = CancelToken(t)
       /\ MainToken(t)' = MainToken(t)
  <2>1. CallerToken(t)' = CallerToken(t)
    BY <1>1, <1>2, <1>3, <1>4, <1>5, <1>6 DEF CallerToken, Bit, Lives, Unused, Stage,
       Starting, Flags, Handled, PlaceInv, Handling
  <2>2. WorkerToken(t)' = WorkerToken(t)
    BY <1>1, <1>2, <1>3, <1>4, <1>5, <1>6 DEF WorkerToken, Bit, Lives, Unused, Stage,
       Starting, Flags, Handled, PlaceInv, Handling
  <2>3. CancelToken(t)' = CancelToken(t)
    BY <1>1, <1>2, <1>3, <1>4, <1>5, <1>6 DEF CancelToken, Bit, Lives, Unused, Stage,
       Starting, Flags, Handled, PlaceInv, Handling
  <2>4. MainToken(t)' = MainToken(t)
    BY <1>1, <1>2, <1>3, <1>4, <1>5, <1>6 DEF MainToken, Bit, Lives, Unused, Stage,
       Starting, Flags, Handled, PlaceInv, Handling
  <2> QED
    BY <2>1, <2>2, <2>3, <2>4
<1>13. Once(t)'
  <2>1. Tokens(t)' = Tokens(t)
    BY <1>1, <1>2, <1>3, <1>4, <1>12, Terms DEF Tokens
  <2> QED
    BY <1>1, <1>2, <1>3, <1>4, <1>5, <1>6, <2>1 DEF Once, Stage, Flags, Lives, Unused
<1>14. Stage(t)'
  BY <1>1, <1>2, <1>3, <1>4, <1>5, <1>6 DEF Stage, Starting, Flags, Lives, Unused, PlaceInv
<1>15. Handled(t)'
  BY <1>1, <1>2, <1>3, <1>4, <1>5, <1>6 DEF Handled, Handling, Stage, Starting, Lives,
     Unused, PlaceInv
<1>16. Connected(t)'
  BY <1>1, <1>2, <1>3, <1>4, <1>5, <1>6 DEF Connected, Stage, Starting, Handled, Flags,
     Lives, Unused, PlaceInv
<1>17. Flags(t)'
  BY <1>1, <1>2, <1>3, <1>4, <1>5, <1>6 DEF Flags, Stage, Starting, Handled, Handling,
     Early, InFunction, IsCancelled, Lives, Unused, PlaceInv
<1>18. Read(t)'
  BY <1>1, <1>2, <1>3, <1>4, <1>5, <1>6 DEF Read, Stage, Flags, Starting, Early, InFunction,
     IsCancelled, Propagate, Lives, Unused, PlaceInv
<1> QED
  BY <1>a, <1>g, <1>h, <1>7, <1>8, <1>10, <1>13, <1>14, <1>15, <1>16, <1>17, <1>18 DEF Kept,
     TypesKept, TaskInv

\* The thread counts the tasks that wait.
LEMMA CleanupCountsStep ==
  ASSUME IInv, NEW t \in Task, CleanupCounts(t)
  PROVE  Kept(t)
<1>1. /\ TypeOK /\ PlaceInv /\ TaskInv(t) /\ task[t] \in TaskRecord /\ None # t
      /\ task[t].refs \in Nat /\ task[t].idles \in Nat /\ task[t].calls \in Nat
  BY TaskAssumption DEF IInv, TypeOK, TaskRecord
<1>2. /\ Stage(t) /\ Handled(t) /\ Refs(t) /\ Once(t) /\ Connected(t) /\ Flags(t) /\ Read(t)
      /\ Lives(t)
  BY <1>1, FreedUnused DEF TaskInv
<1>3. worker[t] = "cleanup" /\ task[t].kind # "plain"
  BY <1>1, <1>2 DEF CleanupCounts, PlaceInv, TypeOK, Stage
<1>4. task' = task
  BY DEF CleanupCounts
<1>a. task' \in [Task -> TaskRecord] /\ \A u \in Task \ {t} : task'[u] = task[u]
  BY <1>1, <1>4 DEF TypeOK
<1>5. /\ caller'[t] = caller[t]
      /\ worker'[t] = "counted"
  BY <1>1, <1>3 DEF CleanupCounts, CallerAt, WorkerAt, TypeOK, CallerPlaces, WorkerPlaces
<1>g. /\ caller' \in [Task -> CallerPlaces] /\ worker' \in [Task -> WorkerPlaces]
      /\ \A u \in Task \ {t} : caller'[u] = caller[u] /\ worker'[u] = worker[u]
  BY <1>1, <1>3 DEF CleanupCounts, CallerAt, WorkerAt, TypeOK, CallerPlaces, WorkerPlaces
<1>6. /\ cancel' = cancel
      /\ main' = main
      /\ t \in pool'.queue <=> t \in pool.queue
  BY <1>1, <1>3 DEF CleanupCounts, CancelAt, TypeOK, CancelType, MainType, CancelPlaces
<1>h. /\ cancel' \in CancelType /\ main' \in MainType
      /\ pool'.queue = pool.queue
  BY <1>1, <1>3 DEF CleanupCounts, CancelAt, TypeOK, CancelType, MainType, CancelPlaces
<1>7. PlaceInv'
  BY <1>1, <1>3, <1>6, <1>h, TaskAssumption DEF PlaceInv, Handling, TypeOK
<1>8. \A u \in Task \ {t} : Frame(u)
  BY <1>1, <1>3, <1>a, <1>g, <1>6, <1>h, TaskAssumption DEF Frame, PlaceInv, Handling, TypeOK
<1>9. /\ CallerRef(t)' = CallerRef(t)
      /\ WorkerRef(t)' = WorkerRef(t)
      /\ HandlerRef(t)' = HandlerRef(t)
      /\ MainRef(t)' = MainRef(t)
  <2>1. CallerRef(t)' = CallerRef(t)
    BY <1>1, <1>2, <1>3, <1>4, <1>5, <1>6 DEF CallerRef, Bit, Lives, Unused, Stage,
       Starting, Flags, Handled, PlaceInv, Handling
  <2>2. WorkerRef(t)' = WorkerRef(t)
    BY <1>1, <1>2, <1>3, <1>4, <1>5, <1>6 DEF WorkerRef, Bit, Lives, Unused, Stage,
       Starting, Flags, Handled, PlaceInv, Handling
  <2>3. HandlerRef(t)' = HandlerRef(t)
    BY <1>1, <1>2, <1>3, <1>4, <1>5, <1>6 DEF HandlerRef, Bit, Lives, Unused, Stage,
       Starting, Flags, Handled, PlaceInv, Handling
  <2>4. MainRef(t)' = MainRef(t)
    BY <1>1, <1>2, <1>3, <1>4, <1>5, <1>6 DEF MainRef, Bit, Lives, Unused, Stage, Starting,
       Flags, Handled, PlaceInv, Handling
  <2> QED
    BY <2>1, <2>2, <2>3, <2>4
<1>10. Refs(t)'
  <2>1. task'[t].refs = CallerRef(t)' + WorkerRef(t)' + HandlerRef(t)' + 2 * task'[t].idles + MainRef(t)'
    BY <1>1, <1>2, <1>3, <1>4, <1>9, Terms DEF Refs
  <2>2. caller'[t] # "new" => (task'[t].freed <=> task'[t].refs = 0)
    BY <1>1, <1>2, <1>3, <1>4, <1>5 DEF Refs, Stage, Lives, Unused
  <2> QED
    BY <2>1, <2>2 DEF Refs
<1>12. /\ CallerToken(t)' = CallerToken(t)
       /\ WorkerToken(t)' = WorkerToken(t)
       /\ CancelToken(t)' = CancelToken(t)
       /\ MainToken(t)' = MainToken(t)
  <2>1. CallerToken(t)' = CallerToken(t)
    BY <1>1, <1>2, <1>3, <1>4, <1>5, <1>6 DEF CallerToken, Bit, Lives, Unused, Stage,
       Starting, Flags, Handled, PlaceInv, Handling
  <2>2. WorkerToken(t)' = WorkerToken(t)
    BY <1>1, <1>2, <1>3, <1>4, <1>5, <1>6 DEF WorkerToken, Bit, Lives, Unused, Stage,
       Starting, Flags, Handled, PlaceInv, Handling
  <2>3. CancelToken(t)' = CancelToken(t)
    BY <1>1, <1>2, <1>3, <1>4, <1>5, <1>6 DEF CancelToken, Bit, Lives, Unused, Stage,
       Starting, Flags, Handled, PlaceInv, Handling
  <2>4. MainToken(t)' = MainToken(t)
    BY <1>1, <1>2, <1>3, <1>4, <1>5, <1>6 DEF MainToken, Bit, Lives, Unused, Stage,
       Starting, Flags, Handled, PlaceInv, Handling
  <2> QED
    BY <2>1, <2>2, <2>3, <2>4
<1>13. Once(t)'
  <2>1. Tokens(t)' = Tokens(t)
    BY <1>1, <1>2, <1>3, <1>4, <1>12, Terms DEF Tokens
  <2> QED
    BY <1>1, <1>2, <1>3, <1>4, <1>5, <1>6, <2>1 DEF Once, Stage, Flags, Lives, Unused
<1>14. Stage(t)'
  BY <1>1, <1>2, <1>3, <1>4, <1>5, <1>6 DEF Stage, Starting, Flags, Lives, Unused, PlaceInv
<1>15. Handled(t)'
  BY <1>1, <1>2, <1>3, <1>4, <1>5, <1>6 DEF Handled, Handling, Stage, Starting, Lives,
     Unused, PlaceInv
<1>16. Connected(t)'
  BY <1>1, <1>2, <1>3, <1>4, <1>5, <1>6 DEF Connected, Stage, Starting, Handled, Flags,
     Lives, Unused, PlaceInv
<1>17. Flags(t)'
  BY <1>1, <1>2, <1>3, <1>4, <1>5, <1>6 DEF Flags, Stage, Starting, Handled, Handling,
     Early, InFunction, IsCancelled, Lives, Unused, PlaceInv
<1>18. Read(t)'
  BY <1>1, <1>2, <1>3, <1>4, <1>5, <1>6 DEF Read, Stage, Flags, Starting, Early, InFunction,
     IsCancelled, Propagate, Lives, Unused, PlaceInv
<1> QED
  BY <1>a, <1>g, <1>h, <1>7, <1>8, <1>10, <1>13, <1>14, <1>15, <1>16, <1>17, <1>18 DEF Kept,
     TypesKept, TaskInv

\* The thread is counted no longer.
LEMMA CleanupStep ==
  ASSUME IInv, NEW t \in Task, Cleanup(t)
  PROVE  Kept(t)
<1>1. /\ TypeOK /\ PlaceInv /\ TaskInv(t) /\ task[t] \in TaskRecord /\ None # t
      /\ task[t].refs \in Nat /\ task[t].idles \in Nat /\ task[t].calls \in Nat
  BY TaskAssumption DEF IInv, TypeOK, TaskRecord
<1>2. /\ Stage(t) /\ Handled(t) /\ Refs(t) /\ Once(t) /\ Connected(t) /\ Flags(t) /\ Read(t)
      /\ Lives(t)
  BY <1>1, FreedUnused DEF TaskInv
<1>3. worker[t] = "counted" /\ task[t].kind # "plain"
  BY <1>1, <1>2 DEF Cleanup, PlaceInv, TypeOK, Stage
<1>4. task' = task
  BY DEF Cleanup
<1>a. task' \in [Task -> TaskRecord] /\ \A u \in Task \ {t} : task'[u] = task[u]
  BY <1>1, <1>4 DEF TypeOK
<1>5. /\ caller'[t] = caller[t]
      /\ worker'[t] = "gone"
  BY <1>1, <1>3 DEF Cleanup, CallerAt, WorkerAt, TypeOK, CallerPlaces, WorkerPlaces
<1>g. /\ caller' \in [Task -> CallerPlaces] /\ worker' \in [Task -> WorkerPlaces]
      /\ \A u \in Task \ {t} : caller'[u] = caller[u] /\ worker'[u] = worker[u]
  BY <1>1, <1>3 DEF Cleanup, CallerAt, WorkerAt, TypeOK, CallerPlaces, WorkerPlaces
<1>6. /\ cancel' = cancel
      /\ main' = main
      /\ t \in pool'.queue <=> t \in pool.queue
  BY <1>1, <1>3 DEF Cleanup, CancelAt, TypeOK, CancelType, MainType, CancelPlaces
<1>h. /\ cancel' \in CancelType /\ main' \in MainType
      /\ pool'.queue = pool.queue
  BY <1>1, <1>3 DEF Cleanup, CancelAt, TypeOK, CancelType, MainType, CancelPlaces
<1>7. PlaceInv'
  BY <1>1, <1>3, <1>6, <1>h, TaskAssumption DEF PlaceInv, Handling, TypeOK
<1>8. \A u \in Task \ {t} : Frame(u)
  BY <1>1, <1>3, <1>a, <1>g, <1>6, <1>h, TaskAssumption DEF Frame, PlaceInv, Handling, TypeOK
<1>9. /\ CallerRef(t)' = CallerRef(t)
      /\ WorkerRef(t)' = WorkerRef(t)
      /\ HandlerRef(t)' = HandlerRef(t)
      /\ MainRef(t)' = MainRef(t)
  <2>1. CallerRef(t)' = CallerRef(t)
    BY <1>1, <1>2, <1>3, <1>4, <1>5, <1>6 DEF CallerRef, Bit, Lives, Unused, Stage,
       Starting, Flags, Handled, PlaceInv, Handling
  <2>2. WorkerRef(t)' = WorkerRef(t)
    BY <1>1, <1>2, <1>3, <1>4, <1>5, <1>6 DEF WorkerRef, Bit, Lives, Unused, Stage,
       Starting, Flags, Handled, PlaceInv, Handling
  <2>3. HandlerRef(t)' = HandlerRef(t)
    BY <1>1, <1>2, <1>3, <1>4, <1>5, <1>6 DEF HandlerRef, Bit, Lives, Unused, Stage,
       Starting, Flags, Handled, PlaceInv, Handling
  <2>4. MainRef(t)' = MainRef(t)
    BY <1>1, <1>2, <1>3, <1>4, <1>5, <1>6 DEF MainRef, Bit, Lives, Unused, Stage, Starting,
       Flags, Handled, PlaceInv, Handling
  <2> QED
    BY <2>1, <2>2, <2>3, <2>4
<1>10. Refs(t)'
  <2>1. task'[t].refs = CallerRef(t)' + WorkerRef(t)' + HandlerRef(t)' + 2 * task'[t].idles + MainRef(t)'
    BY <1>1, <1>2, <1>3, <1>4, <1>9, Terms DEF Refs
  <2>2. caller'[t] # "new" => (task'[t].freed <=> task'[t].refs = 0)
    BY <1>1, <1>2, <1>3, <1>4, <1>5 DEF Refs, Stage, Lives, Unused
  <2> QED
    BY <2>1, <2>2 DEF Refs
<1>12. /\ CallerToken(t)' = CallerToken(t)
       /\ WorkerToken(t)' = WorkerToken(t)
       /\ CancelToken(t)' = CancelToken(t)
       /\ MainToken(t)' = MainToken(t)
  <2>1. CallerToken(t)' = CallerToken(t)
    BY <1>1, <1>2, <1>3, <1>4, <1>5, <1>6 DEF CallerToken, Bit, Lives, Unused, Stage,
       Starting, Flags, Handled, PlaceInv, Handling
  <2>2. WorkerToken(t)' = WorkerToken(t)
    BY <1>1, <1>2, <1>3, <1>4, <1>5, <1>6 DEF WorkerToken, Bit, Lives, Unused, Stage,
       Starting, Flags, Handled, PlaceInv, Handling
  <2>3. CancelToken(t)' = CancelToken(t)
    BY <1>1, <1>2, <1>3, <1>4, <1>5, <1>6 DEF CancelToken, Bit, Lives, Unused, Stage,
       Starting, Flags, Handled, PlaceInv, Handling
  <2>4. MainToken(t)' = MainToken(t)
    BY <1>1, <1>2, <1>3, <1>4, <1>5, <1>6 DEF MainToken, Bit, Lives, Unused, Stage,
       Starting, Flags, Handled, PlaceInv, Handling
  <2> QED
    BY <2>1, <2>2, <2>3, <2>4
<1>13. Once(t)'
  <2>1. Tokens(t)' = Tokens(t)
    BY <1>1, <1>2, <1>3, <1>4, <1>12, Terms DEF Tokens
  <2> QED
    BY <1>1, <1>2, <1>3, <1>4, <1>5, <1>6, <2>1 DEF Once, Stage, Flags, Lives, Unused
<1>14. Stage(t)'
  BY <1>1, <1>2, <1>3, <1>4, <1>5, <1>6 DEF Stage, Starting, Flags, Lives, Unused, PlaceInv
<1>15. Handled(t)'
  BY <1>1, <1>2, <1>3, <1>4, <1>5, <1>6 DEF Handled, Handling, Stage, Starting, Lives,
     Unused, PlaceInv
<1>16. Connected(t)'
  BY <1>1, <1>2, <1>3, <1>4, <1>5, <1>6 DEF Connected, Stage, Starting, Handled, Flags,
     Lives, Unused, PlaceInv
<1>17. Flags(t)'
  BY <1>1, <1>2, <1>3, <1>4, <1>5, <1>6 DEF Flags, Stage, Starting, Handled, Handling,
     Early, InFunction, IsCancelled, Lives, Unused, PlaceInv
<1>18. Read(t)'
  BY <1>1, <1>2, <1>3, <1>4, <1>5, <1>6 DEF Read, Stage, Flags, Starting, Early, InFunction,
     IsCancelled, Propagate, Lives, Unused, PlaceInv
<1> QED
  BY <1>a, <1>g, <1>h, <1>7, <1>8, <1>10, <1>13, <1>14, <1>15, <1>16, <1>17, <1>18 DEF Kept,
     TypesKept, TaskInv

\* The function has set ever_returned.
LEMMA ReturnedStep ==
  ASSUME IInv, NEW t \in Task, Returned(t)
  PROVE  Kept(t)
<1>1. /\ TypeOK /\ PlaceInv /\ TaskInv(t) /\ task[t] \in TaskRecord /\ None # t
      /\ task[t].refs \in Nat /\ task[t].idles \in Nat /\ task[t].calls \in Nat
  BY TaskAssumption DEF IInv, TypeOK, TaskRecord
<1>2. /\ Stage(t) /\ Handled(t) /\ Refs(t) /\ Once(t) /\ Connected(t) /\ Flags(t) /\ Read(t)
      /\ Lives(t)
  BY <1>1, FreedUnused DEF TaskInv
<1>3. worker[t] = "returning" /\ task[t].kind # "plain"
  BY <1>1, <1>2 DEF Returned, PlaceInv, TypeOK, Stage
<1> DEFINE r == [task[t] EXCEPT !.returned = TRUE]
<1>b. /\ r \in TaskRecord
      /\ r.kind = task[t].kind
      /\ r.refs = task[t].refs
      /\ r.freed = task[t].freed
      /\ r.cancelled = task[t].cancelled
      /\ r.complete = task[t].complete
      /\ r.onCancel = task[t].onCancel
      /\ r.sure = task[t].sure
      /\ r.connected = task[t].connected
      /\ r.idles = task[t].idles
      /\ r.calls = task[t].calls
      /\ r.outcome = task[t].outcome
  BY <1>1, <1>3 DEF TaskRecord, InIdle
<1>c. task' = [task EXCEPT ![t] = r]
  BY <1>1, <1>3 DEF Returned, Set, TypeOK
<1>e. r \in TaskRecord
  BY <1>b
<1> HIDE DEF r
<1>f. task'[t] = r
  BY <1>1, <1>c DEF TypeOK
<1>a. task' \in [Task -> TaskRecord] /\ \A u \in Task \ {t} : task'[u] = task[u]
  BY <1>1, <1>c, <1>e DEF TypeOK
<1>4. /\ task'[t].kind = task[t].kind
      /\ task'[t].refs = task[t].refs
      /\ task'[t].freed = task[t].freed
      /\ task'[t].cancelled = task[t].cancelled
      /\ task'[t].complete = task[t].complete
      /\ task'[t].onCancel = task[t].onCancel
      /\ task'[t].sure = task[t].sure
      /\ task'[t].connected = task[t].connected
      /\ task'[t].idles = task[t].idles
      /\ task'[t].calls = task[t].calls
      /\ task'[t].outcome = task[t].outcome
  BY <1>b, <1>f
<1>5. /\ caller'[t] = caller[t]
      /\ worker'[t] = "running"
  BY <1>1, <1>3 DEF Returned, CallerAt, WorkerAt, TypeOK, CallerPlaces, WorkerPlaces
<1>g. /\ caller' \in [Task -> CallerPlaces] /\ worker' \in [Task -> WorkerPlaces]
      /\ \A u \in Task \ {t} : caller'[u] = caller[u] /\ worker'[u] = worker[u]
  BY <1>1, <1>3 DEF Returned, CallerAt, WorkerAt, TypeOK, CallerPlaces, WorkerPlaces
<1>6. /\ cancel' = cancel
      /\ main' = main
      /\ t \in pool'.queue <=> t \in pool.queue
  BY <1>1, <1>3 DEF Returned, CancelAt, TypeOK, CancelType, MainType, CancelPlaces
<1>h. /\ cancel' \in CancelType /\ main' \in MainType
      /\ pool'.queue = pool.queue
  BY <1>1, <1>3 DEF Returned, CancelAt, TypeOK, CancelType, MainType, CancelPlaces
<1>7. PlaceInv'
  BY <1>1, <1>3, <1>6, <1>h, TaskAssumption DEF PlaceInv, Handling, TypeOK
<1>8. \A u \in Task \ {t} : Frame(u)
  BY <1>1, <1>3, <1>a, <1>g, <1>6, <1>h, TaskAssumption DEF Frame, PlaceInv, Handling, TypeOK
<1>9. /\ CallerRef(t)' = CallerRef(t)
      /\ WorkerRef(t)' = WorkerRef(t)
      /\ HandlerRef(t)' = HandlerRef(t)
      /\ MainRef(t)' = MainRef(t)
  <2>1. CallerRef(t)' = CallerRef(t)
    BY <1>1, <1>2, <1>3, <1>4, <1>5, <1>6 DEF CallerRef, Bit, Lives, Unused, Stage,
       Starting, Flags, Handled, PlaceInv, Handling
  <2>2. WorkerRef(t)' = WorkerRef(t)
    BY <1>1, <1>2, <1>3, <1>4, <1>5, <1>6 DEF WorkerRef, Bit, Lives, Unused, Stage,
       Starting, Flags, Handled, PlaceInv, Handling
  <2>3. HandlerRef(t)' = HandlerRef(t)
    BY <1>1, <1>2, <1>3, <1>4, <1>5, <1>6 DEF HandlerRef, Bit, Lives, Unused, Stage,
       Starting, Flags, Handled, PlaceInv, Handling
  <2>4. MainRef(t)' = MainRef(t)
    BY <1>1, <1>2, <1>3, <1>4, <1>5, <1>6 DEF MainRef, Bit, Lives, Unused, Stage, Starting,
       Flags, Handled, PlaceInv, Handling
  <2> QED
    BY <2>1, <2>2, <2>3, <2>4
<1>10. Refs(t)'
  <2>1. task'[t].refs = CallerRef(t)' + WorkerRef(t)' + HandlerRef(t)' + 2 * task'[t].idles + MainRef(t)'
    BY <1>1, <1>2, <1>3, <1>4, <1>9, Terms DEF Refs
  <2>2. caller'[t] # "new" => (task'[t].freed <=> task'[t].refs = 0)
    BY <1>1, <1>2, <1>3, <1>4, <1>5 DEF Refs, Stage, Lives, Unused
  <2> QED
    BY <2>1, <2>2 DEF Refs
<1>12. /\ CallerToken(t)' = CallerToken(t)
       /\ WorkerToken(t)' = WorkerToken(t)
       /\ CancelToken(t)' = CancelToken(t)
       /\ MainToken(t)' = MainToken(t)
  <2>1. CallerToken(t)' = CallerToken(t)
    BY <1>1, <1>2, <1>3, <1>4, <1>5, <1>6 DEF CallerToken, Bit, Lives, Unused, Stage,
       Starting, Flags, Handled, PlaceInv, Handling
  <2>2. WorkerToken(t)' = WorkerToken(t)
    BY <1>1, <1>2, <1>3, <1>4, <1>5, <1>6 DEF WorkerToken, Bit, Lives, Unused, Stage,
       Starting, Flags, Handled, PlaceInv, Handling
  <2>3. CancelToken(t)' = CancelToken(t)
    BY <1>1, <1>2, <1>3, <1>4, <1>5, <1>6 DEF CancelToken, Bit, Lives, Unused, Stage,
       Starting, Flags, Handled, PlaceInv, Handling
  <2>4. MainToken(t)' = MainToken(t)
    BY <1>1, <1>2, <1>3, <1>4, <1>5, <1>6 DEF MainToken, Bit, Lives, Unused, Stage,
       Starting, Flags, Handled, PlaceInv, Handling
  <2> QED
    BY <2>1, <2>2, <2>3, <2>4
<1>13. Once(t)'
  <2>1. Tokens(t)' = Tokens(t)
    BY <1>1, <1>2, <1>3, <1>4, <1>12, Terms DEF Tokens
  <2> QED
    BY <1>1, <1>2, <1>3, <1>4, <1>5, <1>6, <2>1 DEF Once, Stage, Flags, Lives, Unused
<1>14. Stage(t)'
  BY <1>1, <1>2, <1>3, <1>4, <1>5, <1>6 DEF Stage, Starting, Flags, Lives, Unused, PlaceInv
<1>15. Handled(t)'
  BY <1>1, <1>2, <1>3, <1>4, <1>5, <1>6 DEF Handled, Handling, Stage, Starting, Lives,
     Unused, PlaceInv
<1>16. Connected(t)'
  BY <1>1, <1>2, <1>3, <1>4, <1>5, <1>6 DEF Connected, Stage, Starting, Handled, Flags,
     Lives, Unused, PlaceInv
<1>17. Flags(t)'
  BY <1>1, <1>2, <1>3, <1>4, <1>5, <1>6 DEF Flags, Stage, Starting, Handled, Handling,
     Early, InFunction, IsCancelled, Lives, Unused, PlaceInv
<1>18. Read(t)'
  BY <1>1, <1>2, <1>3, <1>4, <1>5, <1>6 DEF Read, Stage, Flags, Starting, Early, InFunction,
     IsCancelled, Propagate, Lives, Unused, PlaceInv
<1> QED
  BY <1>a, <1>g, <1>h, <1>7, <1>8, <1>10, <1>13, <1>14, <1>15, <1>16, <1>17, <1>18 DEF Kept,
     TypesKept, TaskInv

\* return-on-cancel is set after a cancellation.
LEMMA SetRefusedStep ==
  ASSUME IInv, NEW t \in Task, NEW b \in BOOLEAN, SetOnCancel(t, b), task[t].cancelled
  PROVE  Kept(t)
<1>1. /\ TypeOK /\ PlaceInv /\ TaskInv(t) /\ task[t] \in TaskRecord /\ None # t
      /\ task[t].refs \in Nat /\ task[t].idles \in Nat /\ task[t].calls \in Nat
  BY TaskAssumption DEF IInv, TypeOK, TaskRecord
<1>2. /\ Stage(t) /\ Handled(t) /\ Refs(t) /\ Once(t) /\ Connected(t) /\ Flags(t) /\ Read(t)
      /\ Lives(t)
  BY <1>1, FreedUnused DEF TaskInv
<1>3. worker[t] = "running" /\ task[t].kind # "plain" /\ ~task[t].onCancel /\ task[t].cancelled
  BY <1>1, <1>2 DEF SetOnCancel, PlaceInv, TypeOK, Stage
<1> DEFINE r == [task[t] EXCEPT !.sure = FALSE]
<1>b. /\ r \in TaskRecord
      /\ r.kind = task[t].kind
      /\ r.refs = task[t].refs
      /\ r.freed = task[t].freed
      /\ r.cancelled = task[t].cancelled
      /\ r.complete = task[t].complete
      /\ r.onCancel = task[t].onCancel
      /\ r.sure = FALSE
      /\ r.connected = task[t].connected
      /\ r.idles = task[t].idles
      /\ r.calls = task[t].calls
      /\ r.outcome = task[t].outcome
  BY <1>1, <1>3 DEF TaskRecord, InIdle
<1>c. task' = [task EXCEPT ![t] = r]
  BY <1>1, <1>3 DEF SetOnCancel, Set, TypeOK
<1>e. r \in TaskRecord
  BY <1>b
<1> HIDE DEF r
<1>f. task'[t] = r
  BY <1>1, <1>c DEF TypeOK
<1>a. task' \in [Task -> TaskRecord] /\ \A u \in Task \ {t} : task'[u] = task[u]
  BY <1>1, <1>c, <1>e DEF TypeOK
<1>4. /\ task'[t].kind = task[t].kind
      /\ task'[t].refs = task[t].refs
      /\ task'[t].freed = task[t].freed
      /\ task'[t].cancelled = task[t].cancelled
      /\ task'[t].complete = task[t].complete
      /\ task'[t].onCancel = task[t].onCancel
      /\ task'[t].sure = FALSE
      /\ task'[t].connected = task[t].connected
      /\ task'[t].idles = task[t].idles
      /\ task'[t].calls = task[t].calls
      /\ task'[t].outcome = task[t].outcome
  BY <1>b, <1>f
<1>5. /\ caller'[t] = caller[t]
      /\ worker'[t] = "set complete"
  BY <1>1, <1>3 DEF SetOnCancel, CallerAt, WorkerAt, TypeOK, CallerPlaces, WorkerPlaces
<1>g. /\ caller' \in [Task -> CallerPlaces] /\ worker' \in [Task -> WorkerPlaces]
      /\ \A u \in Task \ {t} : caller'[u] = caller[u] /\ worker'[u] = worker[u]
  BY <1>1, <1>3 DEF SetOnCancel, CallerAt, WorkerAt, TypeOK, CallerPlaces, WorkerPlaces
<1>6. /\ cancel' = cancel
      /\ main' = main
      /\ t \in pool'.queue <=> t \in pool.queue
  BY <1>1, <1>3 DEF SetOnCancel, CancelAt, TypeOK, CancelType, MainType, CancelPlaces
<1>h. /\ cancel' \in CancelType /\ main' \in MainType
      /\ pool'.queue = pool.queue
  BY <1>1, <1>3 DEF SetOnCancel, CancelAt, TypeOK, CancelType, MainType, CancelPlaces
<1>7. PlaceInv'
  BY <1>1, <1>3, <1>6, <1>h, TaskAssumption DEF PlaceInv, Handling, TypeOK
<1>8. \A u \in Task \ {t} : Frame(u)
  BY <1>1, <1>3, <1>a, <1>g, <1>6, <1>h, TaskAssumption DEF Frame, PlaceInv, Handling, TypeOK
<1>9. /\ CallerRef(t)' = CallerRef(t)
      /\ WorkerRef(t)' = WorkerRef(t)
      /\ HandlerRef(t)' = HandlerRef(t)
      /\ MainRef(t)' = MainRef(t)
  <2>1. CallerRef(t)' = CallerRef(t)
    BY <1>1, <1>2, <1>3, <1>4, <1>5, <1>6 DEF CallerRef, Bit, Lives, Unused, Stage,
       Starting, Flags, Handled, PlaceInv, Handling
  <2>2. WorkerRef(t)' = WorkerRef(t)
    BY <1>1, <1>2, <1>3, <1>4, <1>5, <1>6 DEF WorkerRef, Bit, Lives, Unused, Stage,
       Starting, Flags, Handled, PlaceInv, Handling
  <2>3. HandlerRef(t)' = HandlerRef(t)
    BY <1>1, <1>2, <1>3, <1>4, <1>5, <1>6 DEF HandlerRef, Bit, Lives, Unused, Stage,
       Starting, Flags, Handled, PlaceInv, Handling
  <2>4. MainRef(t)' = MainRef(t)
    BY <1>1, <1>2, <1>3, <1>4, <1>5, <1>6 DEF MainRef, Bit, Lives, Unused, Stage, Starting,
       Flags, Handled, PlaceInv, Handling
  <2> QED
    BY <2>1, <2>2, <2>3, <2>4
<1>10. Refs(t)'
  <2>1. task'[t].refs = CallerRef(t)' + WorkerRef(t)' + HandlerRef(t)' + 2 * task'[t].idles + MainRef(t)'
    BY <1>1, <1>2, <1>3, <1>4, <1>9, Terms DEF Refs
  <2>2. caller'[t] # "new" => (task'[t].freed <=> task'[t].refs = 0)
    BY <1>1, <1>2, <1>3, <1>4, <1>5 DEF Refs, Stage, Lives, Unused
  <2> QED
    BY <2>1, <2>2 DEF Refs
<1>12. /\ CallerToken(t)' = CallerToken(t)
       /\ WorkerToken(t)' = WorkerToken(t)
       /\ CancelToken(t)' = CancelToken(t)
       /\ MainToken(t)' = MainToken(t)
  <2>1. CallerToken(t)' = CallerToken(t)
    BY <1>1, <1>2, <1>3, <1>4, <1>5, <1>6 DEF CallerToken, Bit, Lives, Unused, Stage,
       Starting, Flags, Handled, PlaceInv, Handling
  <2>2. WorkerToken(t)' = WorkerToken(t)
    BY <1>1, <1>2, <1>3, <1>4, <1>5, <1>6 DEF WorkerToken, Bit, Lives, Unused, Stage,
       Starting, Flags, Handled, PlaceInv, Handling
  <2>3. CancelToken(t)' = CancelToken(t)
    BY <1>1, <1>2, <1>3, <1>4, <1>5, <1>6 DEF CancelToken, Bit, Lives, Unused, Stage,
       Starting, Flags, Handled, PlaceInv, Handling
  <2>4. MainToken(t)' = MainToken(t)
    BY <1>1, <1>2, <1>3, <1>4, <1>5, <1>6 DEF MainToken, Bit, Lives, Unused, Stage,
       Starting, Flags, Handled, PlaceInv, Handling
  <2> QED
    BY <2>1, <2>2, <2>3, <2>4
<1>13. Once(t)'
  <2>1. Tokens(t)' = Tokens(t)
    BY <1>1, <1>2, <1>3, <1>4, <1>12, Terms DEF Tokens
  <2> QED
    BY <1>1, <1>2, <1>3, <1>4, <1>5, <1>6, <2>1 DEF Once, Stage, Flags, Lives, Unused
<1>14. Stage(t)'
  BY <1>1, <1>2, <1>3, <1>4, <1>5, <1>6 DEF Stage, Starting, Flags, Lives, Unused, PlaceInv
<1>15. Handled(t)'
  BY <1>1, <1>2, <1>3, <1>4, <1>5, <1>6 DEF Handled, Handling, Stage, Starting, Lives,
     Unused, PlaceInv
<1>16. Connected(t)'
  BY <1>1, <1>2, <1>3, <1>4, <1>5, <1>6 DEF Connected, Stage, Starting, Handled, Flags,
     Lives, Unused, PlaceInv
<1>17. Flags(t)'
  BY <1>1, <1>2, <1>3, <1>4, <1>5, <1>6 DEF Flags, Stage, Starting, Handled, Handling,
     Early, InFunction, IsCancelled, Lives, Unused, PlaceInv
<1>18. Read(t)'
  BY <1>1, <1>2, <1>3, <1>4, <1>5, <1>6 DEF Read, Stage, Flags, Starting, Early, InFunction,
     IsCancelled, Propagate, Lives, Unused, PlaceInv
<1> QED
  BY <1>a, <1>g, <1>h, <1>7, <1>8, <1>10, <1>13, <1>14, <1>15, <1>16, <1>17, <1>18 DEF Kept,
     TypesKept, TaskInv

\* return-on-cancel is set before one.
LEMMA SetGrantedStep ==
  ASSUME IInv, NEW t \in Task, NEW b \in BOOLEAN, SetOnCancel(t, b), ~task[t].cancelled
  PROVE  Kept(t)
<1>1. /\ TypeOK /\ PlaceInv /\ TaskInv(t) /\ task[t] \in TaskRecord /\ None # t
      /\ task[t].refs \in Nat /\ task[t].idles \in Nat /\ task[t].calls \in Nat
  BY TaskAssumption DEF IInv, TypeOK, TaskRecord
<1>2. /\ Stage(t) /\ Handled(t) /\ Refs(t) /\ Once(t) /\ Connected(t) /\ Flags(t) /\ Read(t)
      /\ Lives(t)
  BY <1>1, FreedUnused DEF TaskInv
<1>3. /\ worker[t] = "running" /\ task[t].kind # "plain" /\ ~task[t].cancelled
      /\ b \in BOOLEAN /\ (~b) \in BOOLEAN
  BY <1>1, <1>2 DEF SetOnCancel, PlaceInv, TypeOK, Stage
<1> DEFINE r == [task[t] EXCEPT !.onCancel = b, !.sure = ~b]
<1>b. /\ r \in TaskRecord
      /\ r.kind = task[t].kind
      /\ r.refs = task[t].refs
      /\ r.freed = task[t].freed
      /\ r.cancelled = task[t].cancelled
      /\ r.complete = task[t].complete
      /\ r.onCancel = b
      /\ r.sure = (~b)
      /\ r.connected = task[t].connected
      /\ r.idles = task[t].idles
      /\ r.calls = task[t].calls
      /\ r.outcome = task[t].outcome
  BY <1>1, <1>3 DEF TaskRecord, InIdle
<1>c. task' = [task EXCEPT ![t] = r]
  BY <1>1, <1>3 DEF SetOnCancel, Set, TypeOK
<1>e. r \in TaskRecord
  BY <1>b
<1> HIDE DEF r
<1>f. task'[t] = r
  BY <1>1, <1>c DEF TypeOK
<1>a. task' \in [Task -> TaskRecord] /\ \A u \in Task \ {t} : task'[u] = task[u]
  BY <1>1, <1>c, <1>e DEF TypeOK
<1>4. /\ task'[t].kind = task[t].kind
      /\ task'[t].refs = task[t].refs
      /\ task'[t].freed = task[t].freed
      /\ task'[t].cancelled = task[t].cancelled
      /\ task'[t].complete = task[t].complete
      /\ task'[t].onCancel = b
      /\ task'[t].sure = (~b)
      /\ task'[t].connected = task[t].connected
      /\ task'[t].idles = task[t].idles
      /\ task'[t].calls = task[t].calls
      /\ task'[t].outcome = task[t].outcome
  BY <1>b, <1>f
<1>5. /\ caller'[t] = caller[t]
      /\ worker'[t] = worker[t]
  BY <1>1, <1>3 DEF SetOnCancel, CallerAt, WorkerAt, TypeOK, CallerPlaces, WorkerPlaces
<1>g. /\ caller' \in [Task -> CallerPlaces] /\ worker' \in [Task -> WorkerPlaces]
      /\ \A u \in Task \ {t} : caller'[u] = caller[u] /\ worker'[u] = worker[u]
  BY <1>1, <1>3 DEF SetOnCancel, CallerAt, WorkerAt, TypeOK, CallerPlaces, WorkerPlaces
<1>6. /\ cancel' = cancel
      /\ main' = main
      /\ t \in pool'.queue <=> t \in pool.queue
  BY <1>1, <1>3 DEF SetOnCancel, CancelAt, TypeOK, CancelType, MainType, CancelPlaces
<1>h. /\ cancel' \in CancelType /\ main' \in MainType
      /\ pool'.queue = pool.queue
  BY <1>1, <1>3 DEF SetOnCancel, CancelAt, TypeOK, CancelType, MainType, CancelPlaces
<1>7. PlaceInv'
  BY <1>1, <1>3, <1>6, <1>h, TaskAssumption DEF PlaceInv, Handling, TypeOK
<1>8. \A u \in Task \ {t} : Frame(u)
  BY <1>1, <1>3, <1>a, <1>g, <1>6, <1>h, TaskAssumption DEF Frame, PlaceInv, Handling, TypeOK
<1>9. /\ CallerRef(t)' = CallerRef(t)
      /\ WorkerRef(t)' = WorkerRef(t)
      /\ HandlerRef(t)' = HandlerRef(t)
      /\ MainRef(t)' = MainRef(t)
  <2>1. CallerRef(t)' = CallerRef(t)
    BY <1>1, <1>2, <1>3, <1>4, <1>5, <1>6 DEF CallerRef, Bit, Lives, Unused, Stage,
       Starting, Flags, Handled, PlaceInv, Handling
  <2>2. WorkerRef(t)' = WorkerRef(t)
    BY <1>1, <1>2, <1>3, <1>4, <1>5, <1>6 DEF WorkerRef, Bit, Lives, Unused, Stage,
       Starting, Flags, Handled, PlaceInv, Handling
  <2>3. HandlerRef(t)' = HandlerRef(t)
    BY <1>1, <1>2, <1>3, <1>4, <1>5, <1>6 DEF HandlerRef, Bit, Lives, Unused, Stage,
       Starting, Flags, Handled, PlaceInv, Handling
  <2>4. MainRef(t)' = MainRef(t)
    BY <1>1, <1>2, <1>3, <1>4, <1>5, <1>6 DEF MainRef, Bit, Lives, Unused, Stage, Starting,
       Flags, Handled, PlaceInv, Handling
  <2> QED
    BY <2>1, <2>2, <2>3, <2>4
<1>10. Refs(t)'
  <2>1. task'[t].refs = CallerRef(t)' + WorkerRef(t)' + HandlerRef(t)' + 2 * task'[t].idles + MainRef(t)'
    BY <1>1, <1>2, <1>3, <1>4, <1>9, Terms DEF Refs
  <2>2. caller'[t] # "new" => (task'[t].freed <=> task'[t].refs = 0)
    BY <1>1, <1>2, <1>3, <1>4, <1>5 DEF Refs, Stage, Lives, Unused
  <2> QED
    BY <2>1, <2>2 DEF Refs
<1>12. /\ CallerToken(t)' = CallerToken(t)
       /\ WorkerToken(t)' = WorkerToken(t)
       /\ CancelToken(t)' = CancelToken(t)
       /\ MainToken(t)' = MainToken(t)
  <2>1. CallerToken(t)' = CallerToken(t)
    BY <1>1, <1>2, <1>3, <1>4, <1>5, <1>6 DEF CallerToken, Bit, Lives, Unused, Stage,
       Starting, Flags, Handled, PlaceInv, Handling
  <2>2. WorkerToken(t)' = WorkerToken(t)
    BY <1>1, <1>2, <1>3, <1>4, <1>5, <1>6 DEF WorkerToken, Bit, Lives, Unused, Stage,
       Starting, Flags, Handled, PlaceInv, Handling
  <2>3. CancelToken(t)' = CancelToken(t)
    BY <1>1, <1>2, <1>3, <1>4, <1>5, <1>6 DEF CancelToken, Bit, Lives, Unused, Stage,
       Starting, Flags, Handled, PlaceInv, Handling
  <2>4. MainToken(t)' = MainToken(t)
    BY <1>1, <1>2, <1>3, <1>4, <1>5, <1>6 DEF MainToken, Bit, Lives, Unused, Stage,
       Starting, Flags, Handled, PlaceInv, Handling
  <2> QED
    BY <2>1, <2>2, <2>3, <2>4
<1>13. Once(t)'
  <2>1. Tokens(t)' = Tokens(t)
    BY <1>1, <1>2, <1>3, <1>4, <1>12, Terms DEF Tokens
  <2> QED
    BY <1>1, <1>2, <1>3, <1>4, <1>5, <1>6, <2>1 DEF Once, Stage, Flags, Lives, Unused
<1>14. Stage(t)'
  BY <1>1, <1>2, <1>3, <1>4, <1>5, <1>6 DEF Stage, Starting, Flags, Lives, Unused, PlaceInv
<1>15. Handled(t)'
  BY <1>1, <1>2, <1>3, <1>4, <1>5, <1>6 DEF Handled, Handling, Stage, Starting, Lives,
     Unused, PlaceInv
<1>16. Connected(t)'
  BY <1>1, <1>2, <1>3, <1>4, <1>5, <1>6 DEF Connected, Stage, Starting, Handled, Flags,
     Lives, Unused, PlaceInv
<1>17. Flags(t)'
  BY <1>1, <1>2, <1>3, <1>4, <1>5, <1>6 DEF Flags, Stage, Starting, Handled, Handling,
     Early, InFunction, IsCancelled, Lives, Unused, PlaceInv
<1>18. Read(t)'
  BY <1>1, <1>2, <1>3, <1>4, <1>5, <1>6 DEF Read, Stage, Flags, Starting, Early, InFunction,
     IsCancelled, Propagate, Lives, Unused, PlaceInv
<1> QED
  BY <1>a, <1>g, <1>h, <1>7, <1>8, <1>10, <1>13, <1>14, <1>15, <1>16, <1>17, <1>18 DEF Kept,
     TypesKept, TaskInv

\* The pool's thread completes the task, or finds it complete.
LEMMA CompleteStep ==
  ASSUME IInv, NEW t \in Task, Complete(t)
  PROVE  Kept(t)
<1>1. /\ TypeOK /\ PlaceInv /\ TaskInv(t) /\ task[t] \in TaskRecord /\ None # t
      /\ task[t].refs \in Nat /\ task[t].idles \in Nat /\ task[t].calls \in Nat
  BY TaskAssumption DEF IInv, TypeOK, TaskRecord
<1>2. /\ Stage(t) /\ Handled(t) /\ Refs(t) /\ Once(t) /\ Connected(t) /\ Flags(t) /\ Read(t)
      /\ Lives(t)
  BY <1>1, FreedUnused DEF TaskInv
<1>3. /\ worker[t] \in {"complete", "set complete"} /\ task[t].kind # "plain"
      /\ caller[t] \notin {"connect", "push"}
      /\ ~task[t].freed
  BY <1>1, <1>2 DEF Complete, First, PlaceInv, TypeOK, Stage, Locked, Lives, Unused
<1> DEFINE r == [task[t] EXCEPT !.complete = TRUE]
<1>b. /\ r \in TaskRecord
      /\ r.kind = task[t].kind
      /\ r.refs = task[t].refs
      /\ r.freed = task[t].freed
      /\ r.cancelled = task[t].cancelled
      /\ r.complete = TRUE
      /\ r.onCancel = task[t].onCancel
      /\ r.sure = task[t].sure
      /\ r.connected = task[t].connected
      /\ r.idles = task[t].idles
      /\ r.calls = task[t].calls
      /\ r.outcome = task[t].outcome
  BY <1>1, <1>3 DEF TaskRecord, InIdle
<1>c. task' = [task EXCEPT ![t] = r]
  BY <1>1, <1>3 DEF Complete, First, Set, TypeOK
<1>e. r \in TaskRecord
  BY <1>b
<1> HIDE DEF r
<1>f. task'[t] = r
  BY <1>1, <1>c DEF TypeOK
<1>a. task' \in [Task -> TaskRecord] /\ \A u \in Task \ {t} : task'[u] = task[u]
  BY <1>1, <1>c, <1>e DEF TypeOK
<1>4. /\ task'[t].kind = task[t].kind
      /\ task'[t].refs = task[t].refs
      /\ task'[t].freed = task[t].freed
      /\ task'[t].cancelled = task[t].cancelled
      /\ task'[t].complete = TRUE
      /\ task'[t].onCancel = task[t].onCancel
      /\ task'[t].sure = task[t].sure
      /\ task'[t].connected = task[t].connected
      /\ task'[t].idles = task[t].idles
      /\ task'[t].calls = task[t].calls
      /\ task'[t].outcome = task[t].outcome
  BY <1>b, <1>f
<1>5. /\ caller'[t] = caller[t]
      /\ worker'[t] = (IF task[t].complete THEN IF worker[t] = "complete" THEN "unref" ELSE "running"
                                            ELSE IF worker[t] = "complete" THEN "finish" ELSE "set finish")
  BY <1>1, <1>3 DEF Complete, First, CallerAt, WorkerAt, TypeOK, CallerPlaces, WorkerPlaces
<1>g. /\ caller' \in [Task -> CallerPlaces] /\ worker' \in [Task -> WorkerPlaces]
      /\ \A u \in Task \ {t} : caller'[u] = caller[u] /\ worker'[u] = worker[u]
  BY <1>1, <1>3 DEF Complete, First, CallerAt, WorkerAt, TypeOK, CallerPlaces, WorkerPlaces
<1>6. /\ cancel' = cancel
      /\ main' = main
      /\ t \in pool'.queue <=> t \in pool.queue
  BY <1>1, <1>3 DEF Complete, First, CancelAt, TypeOK, CancelType, MainType, CancelPlaces
<1>h. /\ cancel' \in CancelType /\ main' \in MainType
      /\ pool'.queue = pool.queue
  BY <1>1, <1>3 DEF Complete, First, CancelAt, TypeOK, CancelType, MainType, CancelPlaces
<1>7. PlaceInv'
  BY <1>1, <1>3, <1>6, <1>h, TaskAssumption DEF PlaceInv, Handling, TypeOK
<1>8. \A u \in Task \ {t} : Frame(u)
  BY <1>1, <1>3, <1>a, <1>g, <1>6, <1>h, TaskAssumption DEF Frame, PlaceInv, Handling, TypeOK
<1>9. /\ CallerRef(t)' = CallerRef(t)
      /\ WorkerRef(t)' = WorkerRef(t)
      /\ HandlerRef(t)' = HandlerRef(t)
      /\ MainRef(t)' = MainRef(t)
  <2>1. CallerRef(t)' = CallerRef(t)
    BY <1>1, <1>2, <1>3, <1>4, <1>5, <1>6 DEF CallerRef, Bit, Lives, Unused, Stage,
       Starting, Flags, Handled, PlaceInv, Handling
  <2>2. WorkerRef(t)' = WorkerRef(t)
    BY <1>1, <1>2, <1>3, <1>4, <1>5, <1>6 DEF WorkerRef, Bit, Lives, Unused, Stage,
       Starting, Flags, Handled, PlaceInv, Handling
  <2>3. HandlerRef(t)' = HandlerRef(t)
    BY <1>1, <1>2, <1>3, <1>4, <1>5, <1>6 DEF HandlerRef, Bit, Lives, Unused, Stage,
       Starting, Flags, Handled, PlaceInv, Handling
  <2>4. MainRef(t)' = MainRef(t)
    BY <1>1, <1>2, <1>3, <1>4, <1>5, <1>6 DEF MainRef, Bit, Lives, Unused, Stage, Starting,
       Flags, Handled, PlaceInv, Handling
  <2> QED
    BY <2>1, <2>2, <2>3, <2>4
<1>10. Refs(t)'
  <2>1. task'[t].refs = CallerRef(t)' + WorkerRef(t)' + HandlerRef(t)' + 2 * task'[t].idles + MainRef(t)'
    BY <1>1, <1>2, <1>3, <1>4, <1>9, Terms DEF Refs
  <2>2. caller'[t] # "new" => (task'[t].freed <=> task'[t].refs = 0)
    BY <1>1, <1>2, <1>3, <1>4, <1>5 DEF Refs, Stage, Lives, Unused
  <2> QED
    BY <2>1, <2>2 DEF Refs
<1>12. /\ CallerToken(t)' = CallerToken(t)
       /\ WorkerToken(t) = 0 /\ WorkerToken(t)' = Bit(~task[t].complete)
       /\ CancelToken(t)' = CancelToken(t)
       /\ MainToken(t)' = MainToken(t)
  <2>1. CallerToken(t)' = CallerToken(t)
    BY <1>1, <1>2, <1>3, <1>4, <1>5, <1>6 DEF CallerToken, Bit, Lives, Unused, Stage,
       Starting, Flags, Handled, PlaceInv, Handling
  <2>2. WorkerToken(t) = 0 /\ WorkerToken(t)' = Bit(~task[t].complete)
    BY <1>1, <1>2, <1>3, <1>4, <1>5, <1>6 DEF WorkerToken, Bit, Lives, Unused, Stage,
       Starting, Flags, Handled, PlaceInv, Handling
  <2>3. CancelToken(t)' = CancelToken(t)
    BY <1>1, <1>2, <1>3, <1>4, <1>5, <1>6 DEF CancelToken, Bit, Lives, Unused, Stage,
       Starting, Flags, Handled, PlaceInv, Handling
  <2>4. MainToken(t)' = MainToken(t)
    BY <1>1, <1>2, <1>3, <1>4, <1>5, <1>6 DEF MainToken, Bit, Lives, Unused, Stage,
       Starting, Flags, Handled, PlaceInv, Handling
  <2> QED
    BY <2>1, <2>2, <2>3, <2>4
<1>13. Once(t)'
  <2>1. Tokens(t)' = Tokens(t) + Bit(~task[t].complete)
    <3>1. /\ CallerToken(t) \in {0, 1} /\ CancelToken(t) \in {0, 1} /\ MainToken(t) \in {0, 1}
          /\ Bit(~task[t].complete) \in {0, 1}
      BY <1>1, Terms DEF Bit
    <3> QED
      BY <1>1, <1>4, <1>12, <3>1 DEF Tokens
  <2> QED
    <3>1. CASE task[t].complete
      <4>1. Tokens(t) <= 1 /\ Bit(~task[t].complete) = 0
        BY <1>2, <3>1 DEF Once, Bit
      <4>2. Tokens(t)' = Tokens(t)
        <5>1. Tokens(t) \in Int
          BY <1>1, Terms DEF Tokens
        <5> QED
          BY <2>1, <4>1, <5>1
      <4> QED
        BY <1>3, <1>4, <4>1, <4>2 DEF Once
    <3>2. CASE ~task[t].complete
      <4>1. Tokens(t) = 0 /\ Bit(~task[t].complete) = 1
        BY <1>2, <1>3, <3>2 DEF Once, Bit
      <4>2. Tokens(t)' = 1
        BY <2>1, <4>1
      <4>3. Tokens(t)' <= 1
        BY <4>2
      <4> QED
        BY <1>3, <1>4, <4>3 DEF Once
    <3> QED
      BY <3>1, <3>2
<1>14. Stage(t)'
  BY <1>1, <1>2, <1>3, <1>4, <1>5, <1>6 DEF Stage, Starting, Flags, Lives, Unused, PlaceInv
<1>15. Handled(t)'
  BY <1>1, <1>2, <1>3, <1>4, <1>5, <1>6 DEF Handled, Handling, Stage, Starting, Lives,
     Unused, PlaceInv
<1>16. Connected(t)'
  BY <1>1, <1>2, <1>3, <1>4, <1>5, <1>6 DEF Connected, Stage, Starting, Handled, Flags,
     Lives, Unused, PlaceInv
<1>17. Flags(t)'
  BY <1>1, <1>2, <1>3, <1>4, <1>5, <1>6 DEF Flags, Stage, Starting, Handled, Handling,
     Early, InFunction, IsCancelled, Lives, Unused, PlaceInv
<1>18. Read(t)'
  BY <1>1, <1>2, <1>3, <1>4, <1>5, <1>6 DEF Read, Stage, Flags, Starting, Early, InFunction,
     IsCancelled, Propagate, Lives, Unused, PlaceInv
<1> QED
  BY <1>a, <1>g, <1>h, <1>7, <1>8, <1>10, <1>13, <1>14, <1>15, <1>16, <1>17, <1>18 DEF Kept,
     TypesKept, TaskInv

\* Who completes the task disconnects the handler; its reference is dropped.
LEMMA FinishDropsStep ==
  ASSUME IInv, NEW t \in Task, Finish(t), task[t].connected, cancel.task # t
  PROVE  Kept(t)
<1>1. /\ TypeOK /\ PlaceInv /\ TaskInv(t) /\ task[t] \in TaskRecord /\ None # t
      /\ task[t].refs \in Nat /\ task[t].idles \in Nat /\ task[t].calls \in Nat
  BY TaskAssumption DEF IInv, TypeOK, TaskRecord
<1>2. /\ Stage(t) /\ Handled(t) /\ Refs(t) /\ Once(t) /\ Connected(t) /\ Flags(t) /\ Read(t)
      /\ Lives(t)
  BY <1>1, FreedUnused DEF TaskInv
<1>3. /\ worker[t] \in {"finish", "set finish"} /\ task[t].kind # "plain" /\ ~task[t].freed
      /\ task[t].connected /\ cancel.task # t /\ 1 \in Nat
  BY <1>1, <1>2 DEF Finish, Disconnected, PlaceInv, TypeOK, Stage, Lives, Unused
<1> DEFINE r0 == [task[t] EXCEPT !.connected = FALSE]
<1>b. /\ r0 \in TaskRecord
      /\ r0.kind = task[t].kind
      /\ r0.refs = task[t].refs
      /\ r0.freed = task[t].freed
      /\ r0.cancelled = task[t].cancelled
      /\ r0.complete = task[t].complete
      /\ r0.onCancel = task[t].onCancel
      /\ r0.sure = task[t].sure
      /\ r0.connected = FALSE
      /\ r0.idles = task[t].idles
      /\ r0.calls = task[t].calls
      /\ r0.outcome = task[t].outcome
  BY <1>1, <1>3 DEF TaskRecord, InIdle
<1> DEFINE r == Dropped(r0, 1)
<1>c. task' = [task EXCEPT ![t] = r]
  BY <1>3 DEF Finish, Disconnected, Set
<1> HIDE DEF r0
<1>d. Loses(r0, r, 1)
  <2>1. task[t].refs >= 1 /\ 1 \in Nat
    <3>1. HandlerRef(t) = 1
      BY <1>3 DEF HandlerRef, Bit
    <3> QED
      BY <1>1, <1>2, <3>1, Terms DEF Refs
  <2> QED
    BY <1>b, <2>1, DroppedFacts
<1> HIDE DEF r
<1>e. r \in TaskRecord
  BY <1>d DEF Loses
<1>f. task'[t] = r
  BY <1>1, <1>c DEF TypeOK
<1>a. task' \in [Task -> TaskRecord] /\ \A u \in Task \ {t} : task'[u] = task[u]
  BY <1>1, <1>c, <1>e DEF TypeOK
<1>4. /\ task'[t].refs = task[t].refs - 1
      /\ task'[t].kind = task[t].kind
      /\ task'[t].connected = FALSE
      /\ task'[t].idles = task[t].idles
      /\ task'[t].calls = task[t].calls
      /\ task[t].refs # 1 =>
           /\ task'[t].freed = task[t].freed
           /\ task'[t].cancelled = task[t].cancelled
           /\ task'[t].complete = task[t].complete
           /\ task'[t].onCancel = task[t].onCancel
           /\ task'[t].sure = task[t].sure
           /\ task'[t].outcome = task[t].outcome
      /\ task[t].refs = 1 =>
           /\ task'[t].freed /\ ~task'[t].cancelled /\ ~task'[t].complete
           /\ ~task'[t].onCancel /\ task'[t].sure /\ task'[t].outcome = "none"
  BY <1>b, <1>d, <1>f DEF Loses
<1>5. /\ caller'[t] = caller[t]
      /\ worker'[t] = (IF worker[t] = "finish" THEN "notify" ELSE "set notify")
  BY <1>1, <1>3 DEF Finish, Disconnected, CallerAt, WorkerAt, TypeOK, CallerPlaces,
     WorkerPlaces
<1>g. /\ caller' \in [Task -> CallerPlaces] /\ worker' \in [Task -> WorkerPlaces]
      /\ \A u \in Task \ {t} : caller'[u] = caller[u] /\ worker'[u] = worker[u]
  BY <1>1, <1>3 DEF Finish, Disconnected, CallerAt, WorkerAt, TypeOK, CallerPlaces,
     WorkerPlaces
<1>6. /\ cancel' = cancel
      /\ main' = main
      /\ t \in pool'.queue <=> t \in pool.queue
  BY <1>1, <1>3 DEF Finish, Disconnected, CancelAt, TypeOK, CancelType, MainType,
     CancelPlaces
<1>h. /\ cancel' \in CancelType /\ main' \in MainType
      /\ pool'.queue = pool.queue
  BY <1>1, <1>3 DEF Finish, Disconnected, CancelAt, TypeOK, CancelType, MainType,
     CancelPlaces
<1>7. PlaceInv'
  BY <1>1, <1>3, <1>6, <1>h, TaskAssumption DEF PlaceInv, Handling, TypeOK
<1>8. \A u \in Task \ {t} : Frame(u)
  BY <1>1, <1>3, <1>a, <1>g, <1>6, <1>h, TaskAssumption DEF Frame, PlaceInv, Handling, TypeOK
<1>9. /\ CallerRef(t)' = CallerRef(t)
      /\ WorkerRef(t)' = WorkerRef(t)
      /\ HandlerRef(t) = 1 /\ HandlerRef(t)' = 0
      /\ MainRef(t)' = MainRef(t)
  <2>1. CallerRef(t)' = CallerRef(t)
    BY <1>1, <1>2, <1>3, <1>4, <1>5, <1>6 DEF CallerRef, Bit, Lives, Unused, Stage,
       Starting, Flags, Handled, PlaceInv, Handling
  <2>2. WorkerRef(t)' = WorkerRef(t)
    BY <1>1, <1>2, <1>3, <1>4, <1>5, <1>6 DEF WorkerRef, Bit, Lives, Unused, Stage,
       Starting, Flags, Handled, PlaceInv, Handling
  <2>3. HandlerRef(t) = 1 /\ HandlerRef(t)' = 0
    BY <1>1, <1>2, <1>3, <1>4, <1>5, <1>6 DEF HandlerRef, Bit, Lives, Unused, Stage,
       Starting, Flags, Handled, PlaceInv, Handling
  <2>4. MainRef(t)' = MainRef(t)
    BY <1>1, <1>2, <1>3, <1>4, <1>5, <1>6 DEF MainRef, Bit, Lives, Unused, Stage, Starting,
       Flags, Handled, PlaceInv, Handling
  <2> QED
    BY <2>1, <2>2, <2>3, <2>4
<1>10. Refs(t)'
  <2>1. task'[t].refs = CallerRef(t)' + WorkerRef(t)' + HandlerRef(t)' + 2 * task'[t].idles + MainRef(t)'
    <3>1. /\ task[t].refs = CallerRef(t) + WorkerRef(t) + HandlerRef(t) + 2 * task[t].idles + MainRef(t)
          /\ task[t].idles \in Nat
      BY <1>1, <1>2 DEF Refs
    <3>2. /\ CallerRef(t) \in {0, 1} /\ WorkerRef(t) \in {0, 1} /\ HandlerRef(t) \in {0, 1}
          /\ MainRef(t) \in 0 .. 2
      BY <1>1, Terms
    <3>3. task'[t].refs = task[t].refs - 1 /\ task'[t].idles = task[t].idles
      BY <1>4
    <3> QED
      BY <1>9, <3>1, <3>2, <3>3
  <2>2. task[t].refs >= 1 /\ 1 > 0 /\ caller[t] # "new" /\ ~task[t].freed
    <3>1. caller[t] # "new" /\ ~task[t].freed
      BY <1>2, <1>3 DEF Lives, Unused
    <3>2. HandlerRef(t) = 1
      BY <1>9
    <3>3. task[t].refs >= 1
      BY <1>1, <1>2, <3>2, Terms DEF Refs
    <3> QED
      BY <3>1, <3>3
  <2>3. task'[t].freed <=> task'[t].refs = 0
    <3>1. CASE task[t].refs = 1
      <4>1. task'[t].freed /\ task'[t].refs = task[t].refs - 1
        BY <1>4, <3>1
      <4> QED
        BY <3>1, <4>1
    <3>2. CASE task[t].refs # 1
      <4>1. task'[t].freed = task[t].freed /\ task'[t].refs = task[t].refs - 1
        BY <1>4, <3>2
      <4>2. task'[t].refs # 0
        BY <1>1, <3>2, <4>1
      <4> QED
        BY <2>2, <4>1, <4>2
    <3> QED
      BY <3>1, <3>2
  <2> QED
    BY <2>1, <2>3 DEF Refs
<1>11. task'[t].freed => Unused(t)'
  <2> SUFFICES ASSUME task'[t].freed PROVE Unused(t)'
    OBVIOUS
  <2>1. task'[t].refs = 0
    BY <1>3, <1>4, <1>5, <1>10, <1>2 DEF Refs, Stage, Lives, Unused
  <2>2. /\ CallerRef(t)' \in {0, 1} /\ WorkerRef(t)' \in {0, 1} /\ HandlerRef(t)' \in {0, 1}
        /\ MainRef(t)' \in 0 .. 2 /\ task'[t].idles \in Nat
    BY <1>1, <1>3, <1>4, <1>9, Terms
  <2>3. /\ CallerRef(t)' = 0 /\ WorkerRef(t)' = 0 /\ HandlerRef(t)' = 0 /\ MainRef(t)' = 0
        /\ task'[t].idles = 0
    BY <1>10, <2>1, <2>2, NoneLeft DEF Refs
  <2>4. caller'[t] \in {"new", "done"}
    BY <2>3 DEF CallerRef, Bit
  <2>5. worker'[t] \in {"none", "cleanup", "counted", "gone"}
    BY <2>3 DEF WorkerRef, Bit
  <2>6. ~task'[t].connected /\ cancel'.task # t
    BY <2>3 DEF HandlerRef, Bit
  <2>7. main'.task # t
    BY <1>7, <2>3 DEF MainRef, PlaceInv
  <2> QED
    BY <2>3, <2>4, <2>5, <2>6, <2>7 DEF Unused
<1>12. /\ CallerToken(t)' = CallerToken(t)
       /\ WorkerToken(t)' = WorkerToken(t)
       /\ CancelToken(t)' = CancelToken(t)
       /\ MainToken(t)' = MainToken(t)
  <2>1. CallerToken(t)' = CallerToken(t)
    BY <1>1, <1>2, <1>3, <1>4, <1>5, <1>6, <1>11 DEF CallerToken, Bit, Lives, Unused, Stage,
       Starting, Flags, Handled, PlaceInv, Handling
  <2>2. WorkerToken(t)' = WorkerToken(t)
    BY <1>1, <1>2, <1>3, <1>4, <1>5, <1>6, <1>11 DEF WorkerToken, Bit, Lives, Unused, Stage,
       Starting, Flags, Handled, PlaceInv, Handling
  <2>3. CancelToken(t)' = CancelToken(t)
    BY <1>1, <1>2, <1>3, <1>4, <1>5, <1>6, <1>11 DEF CancelToken, Bit, Lives, Unused, Stage,
       Starting, Flags, Handled, PlaceInv, Handling
  <2>4. MainToken(t)' = MainToken(t)
    BY <1>1, <1>2, <1>3, <1>4, <1>5, <1>6, <1>11 DEF MainToken, Bit, Lives, Unused, Stage,
       Starting, Flags, Handled, PlaceInv, Handling
  <2> QED
    BY <2>1, <2>2, <2>3, <2>4
<1>13. Once(t)'
  <2>1. Tokens(t)' = Tokens(t)
    BY <1>1, <1>2, <1>3, <1>4, <1>12, Terms DEF Tokens
  <2> QED
    BY <1>1, <1>2, <1>3, <1>4, <1>5, <1>6, <1>11, <2>1 DEF Once, Stage, Flags, Lives, Unused
<1>14. Stage(t)'
  <2>1. CASE task[t].refs = 1
    <3>1. /\ task'[t].freed /\ ~task'[t].cancelled /\ ~task'[t].complete
          /\ ~task'[t].onCancel /\ Unused(t)'
      BY <1>4, <1>11, <2>1
    <3> QED
      BY <1>2, <1>3, <1>4, <1>5, <1>6, <2>1, <3>1 DEF Stage, Starting, Flags, Lives, Unused
  <2>2. CASE task[t].refs # 1
    BY <1>1, <1>2, <1>3, <1>4, <1>5, <1>6, <1>11, <2>2 DEF Stage, Starting, Flags, Lives, Unused, PlaceInv
  <2> QED
    BY <2>1, <2>2
<1>15. Handled(t)'
  BY <1>1, <1>2, <1>3, <1>4, <1>5, <1>6, <1>11 DEF Handled, Handling, Stage, Starting,
     Lives, Unused, PlaceInv
<1>16. Connected(t)'
  <2>1. CASE task[t].refs = 1
    <3>1. /\ task'[t].freed /\ ~task'[t].cancelled /\ ~task'[t].complete
          /\ ~task'[t].onCancel /\ Unused(t)'
      BY <1>4, <1>11, <2>1
    <3> QED
      BY <3>1 DEF Connected, Unused
  <2>2. CASE task[t].refs # 1
    BY <1>1, <1>2, <1>3, <1>4, <1>5, <1>6, <1>11, <2>2 DEF Connected, Stage, Starting, Handled, Flags, Lives, Unused, PlaceInv
  <2> QED
    BY <2>1, <2>2
<1>17. Flags(t)'
  <2>1. CASE task[t].refs = 1
    <3>1. /\ task'[t].freed /\ ~task'[t].cancelled /\ ~task'[t].complete
          /\ ~task'[t].onCancel /\ Unused(t)'
      BY <1>4, <1>11, <2>1
    <3> QED
      BY <3>1 DEF Flags, Unused
  <2>2. CASE task[t].refs # 1
    BY <1>1, <1>2, <1>3, <1>4, <1>5, <1>6, <1>11, <2>2 DEF Flags, Stage, Starting, Handled, Handling, Early, InFunction,
       IsCancelled, Lives, Unused, PlaceInv
  <2> QED
    BY <2>1, <2>2
<1>18. Read(t)'
  BY <1>1, <1>2, <1>3, <1>4, <1>5, <1>6, <1>11 DEF Read, Stage, Flags, Starting, Early,
     InFunction, IsCancelled, Propagate, Lives, Unused, PlaceInv
<1> QED
  BY <1>a, <1>g, <1>h, <1>7, <1>8, <1>10, <1>13, <1>14, <1>15, <1>16, <1>17, <1>18 DEF Kept,
     TypesKept, TaskInv

\* The reference stays while the handler runs, or if there is none.
LEMMA FinishKeepsStep ==
  ASSUME IInv, NEW t \in Task, Finish(t), ~(task[t].connected /\ cancel.task # t)
  PROVE  Kept(t)
<1>1. /\ TypeOK /\ PlaceInv /\ TaskInv(t) /\ task[t] \in TaskRecord /\ None # t
      /\ task[t].refs \in Nat /\ task[t].idles \in Nat /\ task[t].calls \in Nat
  BY TaskAssumption DEF IInv, TypeOK, TaskRecord
<1>2. /\ Stage(t) /\ Handled(t) /\ Refs(t) /\ Once(t) /\ Connected(t) /\ Flags(t) /\ Read(t)
      /\ Lives(t)
  BY <1>1, FreedUnused DEF TaskInv
<1>3. /\ worker[t] \in {"finish", "set finish"} /\ task[t].kind # "plain" /\ ~task[t].freed
      /\ ~(task[t].connected /\ cancel.task # t)
  BY <1>1, <1>2 DEF Finish, Disconnected, PlaceInv, TypeOK, Stage, Lives, Unused
<1> DEFINE r == [task[t] EXCEPT !.connected = FALSE]
<1>b. /\ r \in TaskRecord
      /\ r.kind = task[t].kind
      /\ r.refs = task[t].refs
      /\ r.freed = task[t].freed
      /\ r.cancelled = task[t].cancelled
      /\ r.complete = task[t].complete
      /\ r.onCancel = task[t].onCancel
      /\ r.sure = task[t].sure
      /\ r.connected = FALSE
      /\ r.idles = task[t].idles
      /\ r.calls = task[t].calls
      /\ r.outcome = task[t].outcome
  BY <1>1, <1>3 DEF TaskRecord, InIdle
<1>c. task' = [task EXCEPT ![t] = r]
  BY <1>1, <1>3 DEF Finish, Disconnected, Set, TypeOK
<1>e. r \in TaskRecord
  BY <1>b
<1> HIDE DEF r
<1>f. task'[t] = r
  BY <1>1, <1>c DEF TypeOK
<1>a. task' \in [Task -> TaskRecord] /\ \A u \in Task \ {t} : task'[u] = task[u]
  BY <1>1, <1>c, <1>e DEF TypeOK
<1>4. /\ task'[t].kind = task[t].kind
      /\ task'[t].refs = task[t].refs
      /\ task'[t].freed = task[t].freed
      /\ task'[t].cancelled = task[t].cancelled
      /\ task'[t].complete = task[t].complete
      /\ task'[t].onCancel = task[t].onCancel
      /\ task'[t].sure = task[t].sure
      /\ task'[t].connected = FALSE
      /\ task'[t].idles = task[t].idles
      /\ task'[t].calls = task[t].calls
      /\ task'[t].outcome = task[t].outcome
  BY <1>b, <1>f
<1>5. /\ caller'[t] = caller[t]
      /\ worker'[t] = (IF worker[t] = "finish" THEN "notify" ELSE "set notify")
  BY <1>1, <1>3 DEF Finish, Disconnected, CallerAt, WorkerAt, TypeOK, CallerPlaces,
     WorkerPlaces
<1>g. /\ caller' \in [Task -> CallerPlaces] /\ worker' \in [Task -> WorkerPlaces]
      /\ \A u \in Task \ {t} : caller'[u] = caller[u] /\ worker'[u] = worker[u]
  BY <1>1, <1>3 DEF Finish, Disconnected, CallerAt, WorkerAt, TypeOK, CallerPlaces,
     WorkerPlaces
<1>6. /\ cancel' = cancel
      /\ main' = main
      /\ t \in pool'.queue <=> t \in pool.queue
  BY <1>1, <1>3 DEF Finish, Disconnected, CancelAt, TypeOK, CancelType, MainType,
     CancelPlaces
<1>h. /\ cancel' \in CancelType /\ main' \in MainType
      /\ pool'.queue = pool.queue
  BY <1>1, <1>3 DEF Finish, Disconnected, CancelAt, TypeOK, CancelType, MainType,
     CancelPlaces
<1>7. PlaceInv'
  BY <1>1, <1>3, <1>6, <1>h, TaskAssumption DEF PlaceInv, Handling, TypeOK
<1>8. \A u \in Task \ {t} : Frame(u)
  BY <1>1, <1>3, <1>a, <1>g, <1>6, <1>h, TaskAssumption DEF Frame, PlaceInv, Handling, TypeOK
<1>9. /\ CallerRef(t)' = CallerRef(t)
      /\ WorkerRef(t)' = WorkerRef(t)
      /\ HandlerRef(t)' = HandlerRef(t)
      /\ MainRef(t)' = MainRef(t)
  <2>1. CallerRef(t)' = CallerRef(t)
    BY <1>1, <1>2, <1>3, <1>4, <1>5, <1>6 DEF CallerRef, Bit, Lives, Unused, Stage,
       Starting, Flags, Handled, PlaceInv, Handling
  <2>2. WorkerRef(t)' = WorkerRef(t)
    BY <1>1, <1>2, <1>3, <1>4, <1>5, <1>6 DEF WorkerRef, Bit, Lives, Unused, Stage,
       Starting, Flags, Handled, PlaceInv, Handling
  <2>3. HandlerRef(t)' = HandlerRef(t)
    BY <1>1, <1>2, <1>3, <1>4, <1>5, <1>6 DEF HandlerRef, Bit, Lives, Unused, Stage,
       Starting, Flags, Handled, PlaceInv, Handling
  <2>4. MainRef(t)' = MainRef(t)
    BY <1>1, <1>2, <1>3, <1>4, <1>5, <1>6 DEF MainRef, Bit, Lives, Unused, Stage, Starting,
       Flags, Handled, PlaceInv, Handling
  <2> QED
    BY <2>1, <2>2, <2>3, <2>4
<1>10. Refs(t)'
  <2>1. task'[t].refs = CallerRef(t)' + WorkerRef(t)' + HandlerRef(t)' + 2 * task'[t].idles + MainRef(t)'
    BY <1>1, <1>2, <1>3, <1>4, <1>9, Terms DEF Refs
  <2>2. caller'[t] # "new" => (task'[t].freed <=> task'[t].refs = 0)
    BY <1>1, <1>2, <1>3, <1>4, <1>5 DEF Refs, Stage, Lives, Unused
  <2> QED
    BY <2>1, <2>2 DEF Refs
<1>12. /\ CallerToken(t)' = CallerToken(t)
       /\ WorkerToken(t)' = WorkerToken(t)
       /\ CancelToken(t)' = CancelToken(t)
       /\ MainToken(t)' = MainToken(t)
  <2>1. CallerToken(t)' = CallerToken(t)
    BY <1>1, <1>2, <1>3, <1>4, <1>5, <1>6 DEF CallerToken, Bit, Lives, Unused, Stage,
       Starting, Flags, Handled, PlaceInv, Handling
  <2>2. WorkerToken(t)' = WorkerToken(t)
    BY <1>1, <1>2, <1>3, <1>4, <1>5, <1>6 DEF WorkerToken, Bit, Lives, Unused, Stage,
       Starting, Flags, Handled, PlaceInv, Handling
  <2>3. CancelToken(t)' = CancelToken(t)
    BY <1>1, <1>2, <1>3, <1>4, <1>5, <1>6 DEF CancelToken, Bit, Lives, Unused, Stage,
       Starting, Flags, Handled, PlaceInv, Handling
  <2>4. MainToken(t)' = MainToken(t)
    BY <1>1, <1>2, <1>3, <1>4, <1>5, <1>6 DEF MainToken, Bit, Lives, Unused, Stage,
       Starting, Flags, Handled, PlaceInv, Handling
  <2> QED
    BY <2>1, <2>2, <2>3, <2>4
<1>13. Once(t)'
  <2>1. Tokens(t)' = Tokens(t)
    BY <1>1, <1>2, <1>3, <1>4, <1>12, Terms DEF Tokens
  <2> QED
    BY <1>1, <1>2, <1>3, <1>4, <1>5, <1>6, <2>1 DEF Once, Stage, Flags, Lives, Unused
<1>14. Stage(t)'
  BY <1>1, <1>2, <1>3, <1>4, <1>5, <1>6 DEF Stage, Starting, Flags, Lives, Unused, PlaceInv
<1>15. Handled(t)'
  BY <1>1, <1>2, <1>3, <1>4, <1>5, <1>6 DEF Handled, Handling, Stage, Starting, Lives,
     Unused, PlaceInv
<1>16. Connected(t)'
  BY <1>1, <1>2, <1>3, <1>4, <1>5, <1>6 DEF Connected, Stage, Starting, Handled, Flags,
     Lives, Unused, PlaceInv
<1>17. Flags(t)'
  BY <1>1, <1>2, <1>3, <1>4, <1>5, <1>6 DEF Flags, Stage, Starting, Handled, Handling,
     Early, InFunction, IsCancelled, Lives, Unused, PlaceInv
<1>18. Read(t)'
  BY <1>1, <1>2, <1>3, <1>4, <1>5, <1>6 DEF Read, Stage, Flags, Starting, Early, InFunction,
     IsCancelled, Propagate, Lives, Unused, PlaceInv
<1> QED
  BY <1>a, <1>g, <1>h, <1>7, <1>8, <1>10, <1>13, <1>14, <1>15, <1>16, <1>17, <1>18 DEF Kept,
     TypesKept, TaskInv

\* A call that waits is signalled.
LEMMA NotifiedSyncStep ==
  ASSUME IInv, NEW t \in Task, Notified(t), task[t].kind = "sync"
  PROVE  Kept(t)
<1>1. /\ TypeOK /\ PlaceInv /\ TaskInv(t) /\ task[t] \in TaskRecord /\ None # t
      /\ task[t].refs \in Nat /\ task[t].idles \in Nat /\ task[t].calls \in Nat
  BY TaskAssumption DEF IInv, TypeOK, TaskRecord
<1>2. /\ Stage(t) /\ Handled(t) /\ Refs(t) /\ Once(t) /\ Connected(t) /\ Flags(t) /\ Read(t)
      /\ Lives(t)
  BY <1>1, FreedUnused DEF TaskInv
<1>3. /\ worker[t] \in {"notify", "set notify"} /\ task[t].kind # "plain" /\ ~task[t].freed
      /\ task[t].kind = "sync"
  BY <1>1, <1>2 DEF Notified, Notify, PlaceInv, TypeOK, Stage, Lives, Unused
<1>4. task' = task
  BY DEF Notified, Notify
<1>a. task' \in [Task -> TaskRecord] /\ \A u \in Task \ {t} : task'[u] = task[u]
  BY <1>1, <1>4 DEF TypeOK
<1>5. /\ caller'[t] = (IF caller[t] = "asleep" THEN "wait" ELSE caller[t])
      /\ worker'[t] = (IF worker[t] = "notify" THEN "unref" ELSE "running")
  BY <1>1, <1>3 DEF Notified, Notify, CallerAt, WorkerAt, TypeOK, CallerPlaces, WorkerPlaces
<1>g. /\ caller' \in [Task -> CallerPlaces] /\ worker' \in [Task -> WorkerPlaces]
      /\ \A u \in Task \ {t} : caller'[u] = caller[u] /\ worker'[u] = worker[u]
  BY <1>1, <1>3 DEF Notified, Notify, CallerAt, WorkerAt, TypeOK, CallerPlaces, WorkerPlaces
<1>6. /\ cancel' = cancel
      /\ main' = main
      /\ t \in pool'.queue <=> t \in pool.queue
  BY <1>1, <1>3 DEF Notified, Notify, CancelAt, TypeOK, CancelType, MainType, CancelPlaces
<1>h. /\ cancel' \in CancelType /\ main' \in MainType
      /\ pool'.queue = pool.queue
  BY <1>1, <1>3 DEF Notified, Notify, CancelAt, TypeOK, CancelType, MainType, CancelPlaces
<1>7. PlaceInv'
  BY <1>1, <1>3, <1>6, <1>h, TaskAssumption DEF PlaceInv, Handling, TypeOK
<1>8. \A u \in Task \ {t} : Frame(u)
  BY <1>1, <1>3, <1>a, <1>g, <1>6, <1>h, TaskAssumption DEF Frame, PlaceInv, Handling, TypeOK
<1>9. /\ CallerRef(t)' = CallerRef(t)
      /\ WorkerRef(t)' = WorkerRef(t)
      /\ HandlerRef(t)' = HandlerRef(t)
      /\ MainRef(t)' = MainRef(t)
  <2>1. CallerRef(t)' = CallerRef(t)
    BY <1>1, <1>2, <1>3, <1>4, <1>5, <1>6 DEF CallerRef, Bit, Lives, Unused, Stage,
       Starting, Flags, Handled, PlaceInv, Handling
  <2>2. WorkerRef(t)' = WorkerRef(t)
    BY <1>1, <1>2, <1>3, <1>4, <1>5, <1>6 DEF WorkerRef, Bit, Lives, Unused, Stage,
       Starting, Flags, Handled, PlaceInv, Handling
  <2>3. HandlerRef(t)' = HandlerRef(t)
    BY <1>1, <1>2, <1>3, <1>4, <1>5, <1>6 DEF HandlerRef, Bit, Lives, Unused, Stage,
       Starting, Flags, Handled, PlaceInv, Handling
  <2>4. MainRef(t)' = MainRef(t)
    BY <1>1, <1>2, <1>3, <1>4, <1>5, <1>6 DEF MainRef, Bit, Lives, Unused, Stage, Starting,
       Flags, Handled, PlaceInv, Handling
  <2> QED
    BY <2>1, <2>2, <2>3, <2>4
<1>10. Refs(t)'
  <2>1. task'[t].refs = CallerRef(t)' + WorkerRef(t)' + HandlerRef(t)' + 2 * task'[t].idles + MainRef(t)'
    BY <1>1, <1>2, <1>3, <1>4, <1>9, Terms DEF Refs
  <2>2. caller'[t] # "new" => (task'[t].freed <=> task'[t].refs = 0)
    BY <1>1, <1>2, <1>3, <1>4, <1>5 DEF Refs, Stage, Lives, Unused
  <2> QED
    BY <2>1, <2>2 DEF Refs
<1>12. /\ CallerToken(t)' = CallerToken(t)
       /\ WorkerToken(t) = 1 /\ WorkerToken(t)' = 0
       /\ CancelToken(t)' = CancelToken(t)
       /\ MainToken(t)' = MainToken(t)
  <2>1. CallerToken(t)' = CallerToken(t)
    BY <1>1, <1>2, <1>3, <1>4, <1>5, <1>6 DEF CallerToken, Bit, Lives, Unused, Stage,
       Starting, Flags, Handled, PlaceInv, Handling
  <2>2. WorkerToken(t) = 1 /\ WorkerToken(t)' = 0
    BY <1>1, <1>2, <1>3, <1>4, <1>5, <1>6 DEF WorkerToken, Bit, Lives, Unused, Stage,
       Starting, Flags, Handled, PlaceInv, Handling
  <2>3. CancelToken(t)' = CancelToken(t)
    BY <1>1, <1>2, <1>3, <1>4, <1>5, <1>6 DEF CancelToken, Bit, Lives, Unused, Stage,
       Starting, Flags, Handled, PlaceInv, Handling
  <2>4. MainToken(t)' = MainToken(t)
    BY <1>1, <1>2, <1>3, <1>4, <1>5, <1>6 DEF MainToken, Bit, Lives, Unused, Stage,
       Starting, Flags, Handled, PlaceInv, Handling
  <2> QED
    BY <2>1, <2>2, <2>3, <2>4
<1>13. Once(t)'
  <2>1. Tokens(t)' <= Tokens(t)
    <3>1. /\ CallerToken(t) \in {0, 1} /\ WorkerToken(t) \in {0, 1} /\ CancelToken(t) \in {0, 1}
          /\ MainToken(t) \in {0, 1}
      BY <1>1, Terms
    <3> QED
      BY <1>1, <1>4, <1>12, <3>1 DEF Tokens
  <2> QED
    <3>1. Tokens(t) <= 1 /\ Tokens(t) \in Int /\ Tokens(t)' \in Int
      <4>1. /\ CallerToken(t) \in {0, 1} /\ WorkerToken(t) \in {0, 1} /\ CancelToken(t) \in {0, 1}
            /\ MainToken(t) \in {0, 1}
        BY <1>1, Terms
      <4> QED
        BY <1>1, <1>2, <1>4, <1>12, <4>1 DEF Once, Tokens
    <3>2. Tokens(t)' <= 1
      BY <2>1, <3>1
    <3>3. task[t].complete /\ task'[t].complete
      BY <1>2, <1>3, <1>4 DEF Flags
    <3> QED
      BY <1>3, <1>4, <3>2, <3>3 DEF Once
<1>14. Stage(t)'
  BY <1>1, <1>2, <1>3, <1>4, <1>5, <1>6 DEF Stage, Starting, Flags, Lives, Unused, PlaceInv
<1>15. Handled(t)'
  BY <1>1, <1>2, <1>3, <1>4, <1>5, <1>6 DEF Handled, Handling, Stage, Starting, Lives,
     Unused, PlaceInv
<1>16. Connected(t)'
  BY <1>1, <1>2, <1>3, <1>4, <1>5, <1>6 DEF Connected, Stage, Starting, Handled, Flags,
     Lives, Unused, PlaceInv
<1>17. Flags(t)'
  BY <1>1, <1>2, <1>3, <1>4, <1>5, <1>6 DEF Flags, Stage, Starting, Handled, Handling,
     Early, InFunction, IsCancelled, Lives, Unused, PlaceInv
<1>18. Read(t)'
  BY <1>1, <1>2, <1>3, <1>4, <1>5, <1>6 DEF Read, Stage, Flags, Starting, Early, InFunction,
     IsCancelled, Propagate, Lives, Unused, PlaceInv
<1> QED
  BY <1>a, <1>g, <1>h, <1>7, <1>8, <1>10, <1>13, <1>14, <1>15, <1>16, <1>17, <1>18 DEF Kept,
     TypesKept, TaskInv

\* A callback is put in an idle source.
LEMMA NotifiedAsyncStep ==
  ASSUME IInv, NEW t \in Task, Notified(t), task[t].kind # "sync"
  PROVE  Kept(t)
<1>1. /\ TypeOK /\ PlaceInv /\ TaskInv(t) /\ task[t] \in TaskRecord /\ None # t
      /\ task[t].refs \in Nat /\ task[t].idles \in Nat /\ task[t].calls \in Nat
  BY TaskAssumption DEF IInv, TypeOK, TaskRecord
<1>2. /\ Stage(t) /\ Handled(t) /\ Refs(t) /\ Once(t) /\ Connected(t) /\ Flags(t) /\ Read(t)
      /\ Lives(t)
  BY <1>1, FreedUnused DEF TaskInv
<1>3. /\ worker[t] \in {"notify", "set notify"} /\ task[t].kind # "plain" /\ ~task[t].freed
      /\ task[t].kind = "async"
      /\ task[t].refs + 2 \in Nat /\ task[t].idles + 1 \in Nat
      /\ task[t].idles + 1 # 0
  <2>1. worker[t] \in {"notify", "set notify"} /\ task[t].kind # "plain" /\ ~task[t].freed
    BY <1>1, <1>2 DEF Notified, Stage, Lives, Unused
  <2>2. task[t].kind = "async"
    BY <1>1, <2>1 DEF TaskRecord, Kind
  <2>3. task[t].refs + 2 \in Nat /\ task[t].idles + 1 \in Nat /\ task[t].idles + 1 # 0
    BY <1>1
  <2> QED
    BY <2>1, <2>2, <2>3
<1> DEFINE r == InIdle(task[t])
<1>b. /\ r \in TaskRecord
      /\ r.kind = task[t].kind
      /\ r.refs = (task[t].refs + 2)
      /\ r.freed = task[t].freed
      /\ r.cancelled = task[t].cancelled
      /\ r.complete = task[t].complete
      /\ r.onCancel = task[t].onCancel
      /\ r.sure = task[t].sure
      /\ r.connected = task[t].connected
      /\ r.idles = task[t].idles + 1
      /\ r.calls = task[t].calls
      /\ r.outcome = task[t].outcome
  BY <1>1, <1>3 DEF TaskRecord, InIdle
<1>c. task' = [task EXCEPT ![t] = r]
  BY <1>1, <1>3 DEF Notified, Notify, Set, TypeOK
<1>e. r \in TaskRecord
  BY <1>b
<1> HIDE DEF r
<1>f. task'[t] = r
  BY <1>1, <1>c DEF TypeOK
<1>a. task' \in [Task -> TaskRecord] /\ \A u \in Task \ {t} : task'[u] = task[u]
  BY <1>1, <1>c, <1>e DEF TypeOK
<1>4. /\ task'[t].kind = task[t].kind
      /\ task'[t].refs = (task[t].refs + 2)
      /\ task'[t].freed = task[t].freed
      /\ task'[t].cancelled = task[t].cancelled
      /\ task'[t].complete = task[t].complete
      /\ task'[t].onCancel = task[t].onCancel
      /\ task'[t].sure = task[t].sure
      /\ task'[t].connected = task[t].connected
      /\ task'[t].idles = task[t].idles + 1
      /\ task'[t].calls = task[t].calls
      /\ task'[t].outcome = task[t].outcome
  BY <1>b, <1>f
<1>5. /\ caller'[t] = caller[t]
      /\ worker'[t] = (IF worker[t] = "notify" THEN "unref" ELSE "running")
  BY <1>1, <1>3 DEF Notified, Notify, CallerAt, WorkerAt, TypeOK, CallerPlaces, WorkerPlaces
<1>g. /\ caller' \in [Task -> CallerPlaces] /\ worker' \in [Task -> WorkerPlaces]
      /\ \A u \in Task \ {t} : caller'[u] = caller[u] /\ worker'[u] = worker[u]
  BY <1>1, <1>3 DEF Notified, Notify, CallerAt, WorkerAt, TypeOK, CallerPlaces, WorkerPlaces
<1>6. /\ cancel' = cancel
      /\ main' = main
      /\ t \in pool'.queue <=> t \in pool.queue
  BY <1>1, <1>3 DEF Notified, Notify, CancelAt, TypeOK, CancelType, MainType, CancelPlaces
<1>h. /\ cancel' \in CancelType /\ main' \in MainType
      /\ pool'.queue = pool.queue
  BY <1>1, <1>3 DEF Notified, Notify, CancelAt, TypeOK, CancelType, MainType, CancelPlaces
<1>7. PlaceInv'
  BY <1>1, <1>3, <1>6, <1>h, TaskAssumption DEF PlaceInv, Handling, TypeOK
<1>8. \A u \in Task \ {t} : Frame(u)
  BY <1>1, <1>3, <1>a, <1>g, <1>6, <1>h, TaskAssumption DEF Frame, PlaceInv, Handling, TypeOK
<1>9. /\ CallerRef(t)' = CallerRef(t)
      /\ WorkerRef(t)' = WorkerRef(t)
      /\ HandlerRef(t)' = HandlerRef(t)
      /\ MainRef(t)' = MainRef(t)
  <2>1. CallerRef(t)' = CallerRef(t)
    BY <1>1, <1>2, <1>3, <1>4, <1>5, <1>6 DEF CallerRef, Bit, Lives, Unused, Stage,
       Starting, Flags, Handled, PlaceInv, Handling
  <2>2. WorkerRef(t)' = WorkerRef(t)
    BY <1>1, <1>2, <1>3, <1>4, <1>5, <1>6 DEF WorkerRef, Bit, Lives, Unused, Stage,
       Starting, Flags, Handled, PlaceInv, Handling
  <2>3. HandlerRef(t)' = HandlerRef(t)
    BY <1>1, <1>2, <1>3, <1>4, <1>5, <1>6 DEF HandlerRef, Bit, Lives, Unused, Stage,
       Starting, Flags, Handled, PlaceInv, Handling
  <2>4. MainRef(t)' = MainRef(t)
    BY <1>1, <1>2, <1>3, <1>4, <1>5, <1>6 DEF MainRef, Bit, Lives, Unused, Stage, Starting,
       Flags, Handled, PlaceInv, Handling
  <2> QED
    BY <2>1, <2>2, <2>3, <2>4
<1>10. Refs(t)'
  <2>1. task'[t].refs = CallerRef(t)' + WorkerRef(t)' + HandlerRef(t)' + 2 * task'[t].idles + MainRef(t)'
    <3>1. /\ task[t].refs = CallerRef(t) + WorkerRef(t) + HandlerRef(t) + 2 * task[t].idles + MainRef(t)
          /\ task[t].idles \in Nat
      BY <1>1, <1>2 DEF Refs
    <3>2. /\ CallerRef(t) \in {0, 1} /\ WorkerRef(t) \in {0, 1} /\ HandlerRef(t) \in {0, 1}
          /\ MainRef(t) \in 0 .. 2
      BY <1>1, Terms
    <3>3. task'[t].refs = task[t].refs + 2 /\ task'[t].idles = task[t].idles + 1
      BY <1>4
    <3> QED
      BY <1>9, <3>1, <3>2, <3>3
  <2>2. caller'[t] # "new" => (task'[t].freed <=> task'[t].refs = 0)
    <3>1. ~task'[t].freed /\ task'[t].refs = task[t].refs + 2
      BY <1>3, <1>4
    <3> QED
      BY <1>1, <3>1
  <2> QED
    BY <2>1, <2>2 DEF Refs
<1>12. /\ CallerToken(t)' = CallerToken(t)
       /\ WorkerToken(t) = 1 /\ WorkerToken(t)' = 0
       /\ CancelToken(t)' = CancelToken(t)
       /\ MainToken(t)' = MainToken(t)
  <2>1. CallerToken(t)' = CallerToken(t)
    BY <1>1, <1>2, <1>3, <1>4, <1>5, <1>6 DEF CallerToken, Bit, Lives, Unused, Stage,
       Starting, Flags, Handled, PlaceInv, Handling
  <2>2. WorkerToken(t) = 1 /\ WorkerToken(t)' = 0
    BY <1>1, <1>2, <1>3, <1>4, <1>5, <1>6 DEF WorkerToken, Bit, Lives, Unused, Stage,
       Starting, Flags, Handled, PlaceInv, Handling
  <2>3. CancelToken(t)' = CancelToken(t)
    BY <1>1, <1>2, <1>3, <1>4, <1>5, <1>6 DEF CancelToken, Bit, Lives, Unused, Stage,
       Starting, Flags, Handled, PlaceInv, Handling
  <2>4. MainToken(t)' = MainToken(t)
    BY <1>1, <1>2, <1>3, <1>4, <1>5, <1>6 DEF MainToken, Bit, Lives, Unused, Stage,
       Starting, Flags, Handled, PlaceInv, Handling
  <2> QED
    BY <2>1, <2>2, <2>3, <2>4
<1>13. Once(t)'
  <2>1. Tokens(t)' = Tokens(t)
    <3>1. /\ CallerToken(t) \in {0, 1} /\ WorkerToken(t) \in {0, 1} /\ CancelToken(t) \in {0, 1}
          /\ MainToken(t) \in {0, 1} /\ task[t].idles \in Nat /\ task[t].calls \in Nat
      BY <1>1, Terms
    <3>2. task'[t].idles = task[t].idles + 1 /\ task'[t].calls = task[t].calls
      BY <1>4
    <3> QED
      BY <1>12, <3>1, <3>2 DEF Tokens
  <2> QED
    BY <1>1, <1>2, <1>3, <1>4, <1>5, <1>6, <2>1 DEF Once, Stage, Flags, Lives, Unused
<1>14. Stage(t)'
  BY <1>1, <1>2, <1>3, <1>4, <1>5, <1>6 DEF Stage, Starting, Flags, Lives, Unused, PlaceInv
<1>15. Handled(t)'
  BY <1>1, <1>2, <1>3, <1>4, <1>5, <1>6 DEF Handled, Handling, Stage, Starting, Lives,
     Unused, PlaceInv
<1>16. Connected(t)'
  BY <1>1, <1>2, <1>3, <1>4, <1>5, <1>6 DEF Connected, Stage, Starting, Handled, Flags,
     Lives, Unused, PlaceInv
<1>17. Flags(t)'
  BY <1>1, <1>2, <1>3, <1>4, <1>5, <1>6 DEF Flags, Stage, Starting, Handled, Handling,
     Early, InFunction, IsCancelled, Lives, Unused, PlaceInv
<1>18. Read(t)'
  BY <1>1, <1>2, <1>3, <1>4, <1>5, <1>6 DEF Read, Stage, Flags, Starting, Early, InFunction,
     IsCancelled, Propagate, Lives, Unused, PlaceInv
<1> QED
  BY <1>a, <1>g, <1>h, <1>7, <1>8, <1>10, <1>13, <1>14, <1>15, <1>16, <1>17, <1>18 DEF Kept,
     TypesKept, TaskInv

\* The pool's thread drops its reference.
LEMMA UnrefStep ==
  ASSUME IInv, NEW t \in Task, Unref(t)
  PROVE  Kept(t)
<1>1. /\ TypeOK /\ PlaceInv /\ TaskInv(t) /\ task[t] \in TaskRecord /\ None # t
      /\ task[t].refs \in Nat /\ task[t].idles \in Nat /\ task[t].calls \in Nat
  BY TaskAssumption DEF IInv, TypeOK, TaskRecord
<1>2. /\ Stage(t) /\ Handled(t) /\ Refs(t) /\ Once(t) /\ Connected(t) /\ Flags(t) /\ Read(t)
      /\ Lives(t)
  BY <1>1, FreedUnused DEF TaskInv
<1>3. worker[t] = "unref" /\ task[t].kind # "plain" /\ 1 \in Nat
  BY <1>1, <1>2 DEF Unref, PlaceInv, TypeOK, Stage
<1> DEFINE r0 == task[t]
<1>b. /\ r0 \in TaskRecord
      /\ r0.kind = task[t].kind
      /\ r0.refs = task[t].refs
      /\ r0.freed = task[t].freed
      /\ r0.cancelled = task[t].cancelled
      /\ r0.complete = task[t].complete
      /\ r0.onCancel = task[t].onCancel
      /\ r0.sure = task[t].sure
      /\ r0.connected = task[t].connected
      /\ r0.idles = task[t].idles
      /\ r0.calls = task[t].calls
      /\ r0.outcome = task[t].outcome
  BY <1>1, <1>3 DEF TaskRecord, InIdle
<1> DEFINE r == Dropped(r0, 1)
<1>c. task' = [task EXCEPT ![t] = r]
  BY <1>3 DEF Unref, Set
<1> HIDE DEF r0
<1>d. Loses(r0, r, 1)
  <2>1. task[t].refs >= 1 /\ 1 \in Nat
    BY <1>1, <1>2, <1>3, Terms DEF Refs, CallerRef, WorkerRef, HandlerRef, MainRef, Bit
  <2> QED
    BY <1>b, <2>1, DroppedFacts
<1> HIDE DEF r
<1>e. r \in TaskRecord
  BY <1>d DEF Loses
<1>f. task'[t] = r
  BY <1>1, <1>c DEF TypeOK
<1>a. task' \in [Task -> TaskRecord] /\ \A u \in Task \ {t} : task'[u] = task[u]
  BY <1>1, <1>c, <1>e DEF TypeOK
<1>4. /\ task'[t].refs = task[t].refs - 1
      /\ task'[t].kind = task[t].kind
      /\ task'[t].connected = task[t].connected
      /\ task'[t].idles = task[t].idles
      /\ task'[t].calls = task[t].calls
      /\ task[t].refs # 1 =>
           /\ task'[t].freed = task[t].freed
           /\ task'[t].cancelled = task[t].cancelled
           /\ task'[t].complete = task[t].complete
           /\ task'[t].onCancel = task[t].onCancel
           /\ task'[t].sure = task[t].sure
           /\ task'[t].outcome = task[t].outcome
      /\ task[t].refs = 1 =>
           /\ task'[t].freed /\ ~task'[t].cancelled /\ ~task'[t].complete
           /\ ~task'[t].onCancel /\ task'[t].sure /\ task'[t].outcome = "none"
  BY <1>b, <1>d, <1>f DEF Loses
<1>5. /\ caller'[t] = caller[t]
      /\ worker'[t] = "cleanup"
  BY <1>1, <1>3 DEF Unref, CallerAt, WorkerAt, TypeOK, CallerPlaces, WorkerPlaces
<1>g. /\ caller' \in [Task -> CallerPlaces] /\ worker' \in [Task -> WorkerPlaces]
      /\ \A u \in Task \ {t} : caller'[u] = caller[u] /\ worker'[u] = worker[u]
  BY <1>1, <1>3 DEF Unref, CallerAt, WorkerAt, TypeOK, CallerPlaces, WorkerPlaces
<1>6. /\ cancel' = cancel
      /\ main' = main
      /\ t \in pool'.queue <=> t \in pool.queue
  BY <1>1, <1>3 DEF Unref, CancelAt, TypeOK, CancelType, MainType, CancelPlaces
<1>h. /\ cancel' \in CancelType /\ main' \in MainType
      /\ pool'.queue = pool.queue
  BY <1>1, <1>3 DEF Unref, CancelAt, TypeOK, CancelType, MainType, CancelPlaces
<1>7. PlaceInv'
  BY <1>1, <1>3, <1>6, <1>h, TaskAssumption DEF PlaceInv, Handling, TypeOK
<1>8. \A u \in Task \ {t} : Frame(u)
  BY <1>1, <1>3, <1>a, <1>g, <1>6, <1>h, TaskAssumption DEF Frame, PlaceInv, Handling, TypeOK
<1>9. /\ CallerRef(t)' = CallerRef(t)
      /\ WorkerRef(t) = 1 /\ WorkerRef(t)' = 0
      /\ HandlerRef(t)' = HandlerRef(t)
      /\ MainRef(t)' = MainRef(t)
  <2>1. CallerRef(t)' = CallerRef(t)
    BY <1>1, <1>2, <1>3, <1>4, <1>5, <1>6 DEF CallerRef, Bit, Lives, Unused, Stage,
       Starting, Flags, Handled, PlaceInv, Handling
  <2>2. WorkerRef(t) = 1 /\ WorkerRef(t)' = 0
    BY <1>1, <1>2, <1>3, <1>4, <1>5, <1>6 DEF WorkerRef, Bit, Lives, Unused, Stage,
       Starting, Flags, Handled, PlaceInv, Handling
  <2>3. HandlerRef(t)' = HandlerRef(t)
    BY <1>1, <1>2, <1>3, <1>4, <1>5, <1>6 DEF HandlerRef, Bit, Lives, Unused, Stage,
       Starting, Flags, Handled, PlaceInv, Handling
  <2>4. MainRef(t)' = MainRef(t)
    BY <1>1, <1>2, <1>3, <1>4, <1>5, <1>6 DEF MainRef, Bit, Lives, Unused, Stage, Starting,
       Flags, Handled, PlaceInv, Handling
  <2> QED
    BY <2>1, <2>2, <2>3, <2>4
<1>10. Refs(t)'
  <2>1. task'[t].refs = CallerRef(t)' + WorkerRef(t)' + HandlerRef(t)' + 2 * task'[t].idles + MainRef(t)'
    BY <1>1, <1>2, <1>3, <1>4, <1>9, Terms DEF Refs
  <2>2. task[t].refs >= 1 /\ 1 > 0 /\ caller[t] # "new" /\ ~task[t].freed
    BY <1>1, <1>2, <1>3, <1>9, Terms DEF Refs, Stage, Lives, Unused, PlaceInv
  <2>3. task'[t].freed <=> task'[t].refs = 0
    BY <1>1, <1>3, <1>4, <2>2
  <2> QED
    BY <2>1, <2>3 DEF Refs
<1>11. task'[t].freed => Unused(t)'
  <2> SUFFICES ASSUME task'[t].freed PROVE Unused(t)'
    OBVIOUS
  <2>1. task'[t].refs = 0
    BY <1>3, <1>4, <1>5, <1>10, <1>2 DEF Refs, Stage, Lives, Unused
  <2>2. /\ CallerRef(t)' \in {0, 1} /\ WorkerRef(t)' \in {0, 1} /\ HandlerRef(t)' \in {0, 1}
        /\ MainRef(t)' \in 0 .. 2 /\ task'[t].idles \in Nat
    BY <1>1, <1>3, <1>4, <1>9, Terms
  <2>3. /\ CallerRef(t)' = 0 /\ WorkerRef(t)' = 0 /\ HandlerRef(t)' = 0 /\ MainRef(t)' = 0
        /\ task'[t].idles = 0
    BY <1>10, <2>1, <2>2, NoneLeft DEF Refs
  <2>4. caller'[t] \in {"new", "done"}
    BY <2>3 DEF CallerRef, Bit
  <2>5. worker'[t] \in {"none", "cleanup", "counted", "gone"}
    BY <2>3 DEF WorkerRef, Bit
  <2>6. ~task'[t].connected /\ cancel'.task # t
    BY <2>3 DEF HandlerRef, Bit
  <2>7. main'.task # t
    BY <1>7, <2>3 DEF MainRef, PlaceInv
  <2> QED
    BY <2>3, <2>4, <2>5, <2>6, <2>7 DEF Unused
<1>12. /\ CallerToken(t)' = CallerToken(t)
       /\ WorkerToken(t)' = WorkerToken(t)
       /\ CancelToken(t)' = CancelToken(t)
       /\ MainToken(t)' = MainToken(t)
  <2>1. CallerToken(t)' = CallerToken(t)
    BY <1>1, <1>2, <1>3, <1>4, <1>5, <1>6, <1>11 DEF CallerToken, Bit, Lives, Unused, Stage,
       Starting, Flags, Handled, PlaceInv, Handling
  <2>2. WorkerToken(t)' = WorkerToken(t)
    BY <1>1, <1>2, <1>3, <1>4, <1>5, <1>6, <1>11 DEF WorkerToken, Bit, Lives, Unused, Stage,
       Starting, Flags, Handled, PlaceInv, Handling
  <2>3. CancelToken(t)' = CancelToken(t)
    BY <1>1, <1>2, <1>3, <1>4, <1>5, <1>6, <1>11 DEF CancelToken, Bit, Lives, Unused, Stage,
       Starting, Flags, Handled, PlaceInv, Handling
  <2>4. MainToken(t)' = MainToken(t)
    BY <1>1, <1>2, <1>3, <1>4, <1>5, <1>6, <1>11 DEF MainToken, Bit, Lives, Unused, Stage,
       Starting, Flags, Handled, PlaceInv, Handling
  <2> QED
    BY <2>1, <2>2, <2>3, <2>4
<1>13. Once(t)'
  <2>1. Tokens(t)' = Tokens(t)
    BY <1>1, <1>2, <1>3, <1>4, <1>12, Terms DEF Tokens
  <2> QED
    BY <1>1, <1>2, <1>3, <1>4, <1>5, <1>6, <1>11, <2>1 DEF Once, Stage, Flags, Lives, Unused
<1>14. Stage(t)'
  <2>1. CASE task[t].refs = 1
    <3>1. /\ task'[t].freed /\ ~task'[t].cancelled /\ ~task'[t].complete
          /\ ~task'[t].onCancel /\ Unused(t)'
      BY <1>4, <1>11, <2>1
    <3> QED
      BY <1>2, <1>3, <1>4, <1>5, <1>6, <2>1, <3>1 DEF Stage, Starting, Flags, Lives, Unused
  <2>2. CASE task[t].refs # 1
    BY <1>1, <1>2, <1>3, <1>4, <1>5, <1>6, <1>11, <2>2 DEF Stage, Starting, Flags, Lives, Unused, PlaceInv
  <2> QED
    BY <2>1, <2>2
<1>15. Handled(t)'
  BY <1>1, <1>2, <1>3, <1>4, <1>5, <1>6, <1>11 DEF Handled, Handling, Stage, Starting,
     Lives, Unused, PlaceInv
<1>16. Connected(t)'
  <2>1. CASE task[t].refs = 1
    <3>1. /\ task'[t].freed /\ ~task'[t].cancelled /\ ~task'[t].complete
          /\ ~task'[t].onCancel /\ Unused(t)'
      BY <1>4, <1>11, <2>1
    <3> QED
      BY <3>1 DEF Connected, Unused
  <2>2. CASE task[t].refs # 1
    BY <1>1, <1>2, <1>3, <1>4, <1>5, <1>6, <1>11, <2>2 DEF Connected, Stage, Starting, Handled, Flags, Lives, Unused, PlaceInv
  <2> QED
    BY <2>1, <2>2
<1>17. Flags(t)'
  <2>1. CASE task[t].refs = 1
    <3>1. /\ task'[t].freed /\ ~task'[t].cancelled /\ ~task'[t].complete
          /\ ~task'[t].onCancel /\ Unused(t)'
      BY <1>4, <1>11, <2>1
    <3> QED
      BY <3>1 DEF Flags, Unused
  <2>2. CASE task[t].refs # 1
    BY <1>1, <1>2, <1>3, <1>4, <1>5, <1>6, <1>11, <2>2 DEF Flags, Stage, Starting, Handled, Handling, Early, InFunction,
       IsCancelled, Lives, Unused, PlaceInv
  <2> QED
    BY <2>1, <2>2
<1>18. Read(t)'
  BY <1>1, <1>2, <1>3, <1>4, <1>5, <1>6, <1>11 DEF Read, Stage, Flags, Starting, Early,
     InFunction, IsCancelled, Propagate, Lives, Unused, PlaceInv
<1> QED
  BY <1>a, <1>g, <1>h, <1>7, <1>8, <1>10, <1>13, <1>14, <1>15, <1>16, <1>17, <1>18 DEF Kept,
     TypesKept, TaskInv

\* The handler of a task is called.
LEMMA HandlerCalledStep ==
  ASSUME IInv, NEW t \in Task, HandlerCalled(t), task[t].connected
  PROVE  Kept(t)
<1>1. /\ TypeOK /\ PlaceInv /\ TaskInv(t) /\ task[t] \in TaskRecord /\ None # t
      /\ task[t].refs \in Nat /\ task[t].idles \in Nat /\ task[t].calls \in Nat
  BY TaskAssumption DEF IInv, TypeOK, TaskRecord
<1>2. /\ Stage(t) /\ Handled(t) /\ Refs(t) /\ Once(t) /\ Connected(t) /\ Flags(t) /\ Read(t)
      /\ Lives(t)
  BY <1>1, FreedUnused DEF TaskInv
<1>3. /\ cancel.at = "emitting" /\ task[t].connected /\ task[t].kind # "plain" /\ ~task[t].freed
      /\ cancel.task \notin Task /\ cancel.flag
      /\ cancel.left \ {t} \in SUBSET Task
      /\ caller[t] \notin {"new", "check", "connect"} /\ t \in Cancellable
  BY <1>1, <1>2 DEF HandlerCalled, PlaceInv, TypeOK, Stage, Handling, Lives, Unused
<1>4. task' = task
  BY DEF HandlerCalled
<1>a. task' \in [Task -> TaskRecord] /\ \A u \in Task \ {t} : task'[u] = task[u]
  BY <1>1, <1>4 DEF TypeOK
<1>5. /\ caller'[t] = caller[t]
      /\ worker'[t] = worker[t]
  BY <1>1, <1>3 DEF HandlerCalled, CallerAt, WorkerAt, TypeOK, CallerPlaces, WorkerPlaces
<1>g. /\ caller' \in [Task -> CallerPlaces] /\ worker' \in [Task -> WorkerPlaces]
      /\ \A u \in Task \ {t} : caller'[u] = caller[u] /\ worker'[u] = worker[u]
  BY <1>1, <1>3 DEF HandlerCalled, CallerAt, WorkerAt, TypeOK, CallerPlaces, WorkerPlaces
<1>6. /\ cancel'.flag = cancel.flag /\ cancel'.at = "handler" /\ cancel'.task = t
      /\ main' = main
      /\ t \in pool'.queue <=> t \in pool.queue
  BY <1>1, <1>3 DEF HandlerCalled, CancelAt, TypeOK, CancelType, MainType, CancelPlaces
<1>h. /\ cancel' \in CancelType /\ main' \in MainType
      /\ pool'.queue = pool.queue
  BY <1>1, <1>3 DEF HandlerCalled, CancelAt, TypeOK, CancelType, MainType, CancelPlaces
<1>7. PlaceInv'
  BY <1>1, <1>3, <1>6, <1>h, TaskAssumption DEF PlaceInv, Handling, TypeOK
<1>8. \A u \in Task \ {t} : Frame(u)
  BY <1>1, <1>3, <1>a, <1>g, <1>6, <1>h, TaskAssumption DEF Frame, PlaceInv, Handling, TypeOK
<1>9. /\ CallerRef(t)' = CallerRef(t)
      /\ WorkerRef(t)' = WorkerRef(t)
      /\ HandlerRef(t)' = HandlerRef(t)
      /\ MainRef(t)' = MainRef(t)
  <2>1. CallerRef(t)' = CallerRef(t)
    BY <1>1, <1>2, <1>3, <1>4, <1>5, <1>6 DEF CallerRef, Bit, Lives, Unused, Stage,
       Starting, Flags, Handled, PlaceInv, Handling
  <2>2. WorkerRef(t)' = WorkerRef(t)
    BY <1>1, <1>2, <1>3, <1>4, <1>5, <1>6 DEF WorkerRef, Bit, Lives, Unused, Stage,
       Starting, Flags, Handled, PlaceInv, Handling
  <2>3. HandlerRef(t)' = HandlerRef(t)
    BY <1>1, <1>2, <1>3, <1>4, <1>5, <1>6 DEF HandlerRef, Bit, Lives, Unused, Stage,
       Starting, Flags, Handled, PlaceInv, Handling
  <2>4. MainRef(t)' = MainRef(t)
    BY <1>1, <1>2, <1>3, <1>4, <1>5, <1>6 DEF MainRef, Bit, Lives, Unused, Stage, Starting,
       Flags, Handled, PlaceInv, Handling
  <2> QED
    BY <2>1, <2>2, <2>3, <2>4
<1>10. Refs(t)'
  <2>1. task'[t].refs = CallerRef(t)' + WorkerRef(t)' + HandlerRef(t)' + 2 * task'[t].idles + MainRef(t)'
    BY <1>1, <1>2, <1>3, <1>4, <1>9, Terms DEF Refs
  <2>2. caller'[t] # "new" => (task'[t].freed <=> task'[t].refs = 0)
    BY <1>1, <1>2, <1>3, <1>4, <1>5 DEF Refs, Stage, Lives, Unused
  <2> QED
    BY <2>1, <2>2 DEF Refs
<1>12. /\ CallerToken(t)' = CallerToken(t)
       /\ WorkerToken(t)' = WorkerToken(t)
       /\ CancelToken(t)' = CancelToken(t)
       /\ MainToken(t)' = MainToken(t)
  <2>1. CallerToken(t)' = CallerToken(t)
    BY <1>1, <1>2, <1>3, <1>4, <1>5, <1>6 DEF CallerToken, Bit, Lives, Unused, Stage,
       Starting, Flags, Handled, PlaceInv, Handling
  <2>2. WorkerToken(t)' = WorkerToken(t)
    BY <1>1, <1>2, <1>3, <1>4, <1>5, <1>6 DEF WorkerToken, Bit, Lives, Unused, Stage,
       Starting, Flags, Handled, PlaceInv, Handling
  <2>3. CancelToken(t)' = CancelToken(t)
    BY <1>1, <1>2, <1>3, <1>4, <1>5, <1>6 DEF CancelToken, Bit, Lives, Unused, Stage,
       Starting, Flags, Handled, PlaceInv, Handling
  <2>4. MainToken(t)' = MainToken(t)
    BY <1>1, <1>2, <1>3, <1>4, <1>5, <1>6 DEF MainToken, Bit, Lives, Unused, Stage,
       Starting, Flags, Handled, PlaceInv, Handling
  <2> QED
    BY <2>1, <2>2, <2>3, <2>4
<1>13. Once(t)'
  <2>1. Tokens(t)' = Tokens(t)
    BY <1>1, <1>2, <1>3, <1>4, <1>12, Terms DEF Tokens
  <2> QED
    BY <1>1, <1>2, <1>3, <1>4, <1>5, <1>6, <2>1 DEF Once, Stage, Flags, Lives, Unused
<1>14. Stage(t)'
  BY <1>1, <1>2, <1>3, <1>4, <1>5, <1>6 DEF Stage, Starting, Flags, Lives, Unused, PlaceInv
<1>15. Handled(t)'
  BY <1>1, <1>2, <1>3, <1>4, <1>5, <1>6 DEF Handled, Handling, Stage, Starting, Lives,
     Unused, PlaceInv
<1>16. Connected(t)'
  BY <1>1, <1>2, <1>3, <1>4, <1>5, <1>6 DEF Connected, Stage, Starting, Handled, Flags,
     Lives, Unused, PlaceInv
<1>17. Flags(t)'
  BY <1>1, <1>2, <1>3, <1>4, <1>5, <1>6 DEF Flags, Stage, Starting, Handled, Handling,
     Early, InFunction, IsCancelled, Lives, Unused, PlaceInv
<1>18. Read(t)'
  BY <1>1, <1>2, <1>3, <1>4, <1>5, <1>6 DEF Read, Stage, Flags, Starting, Early, InFunction,
     IsCancelled, Propagate, Lives, Unused, PlaceInv
<1> QED
  BY <1>a, <1>g, <1>h, <1>7, <1>8, <1>10, <1>13, <1>14, <1>15, <1>16, <1>17, <1>18 DEF Kept,
     TypesKept, TaskInv

\* A handler that is disconnected by now is not called.
LEMMA HandlerPassedStep ==
  ASSUME IInv, NEW t \in Task, HandlerCalled(t), ~task[t].connected
  PROVE  Kept(t)
<1>1. /\ TypeOK /\ PlaceInv /\ TaskInv(t) /\ task[t] \in TaskRecord /\ None # t
      /\ task[t].refs \in Nat /\ task[t].idles \in Nat /\ task[t].calls \in Nat
  BY TaskAssumption DEF IInv, TypeOK, TaskRecord
<1>2. /\ Stage(t) /\ Handled(t) /\ Refs(t) /\ Once(t) /\ Connected(t) /\ Flags(t) /\ Read(t)
      /\ Lives(t)
  BY <1>1, FreedUnused DEF TaskInv
<1>3. /\ cancel.at = "emitting"
      /\ cancel.left \ {t} \in SUBSET Task
  BY <1>1, <1>2 DEF HandlerCalled, PlaceInv, TypeOK, Stage
<1>4. task' = task
  BY DEF HandlerCalled
<1>a. task' \in [Task -> TaskRecord] /\ \A u \in Task \ {t} : task'[u] = task[u]
  BY <1>1, <1>4 DEF TypeOK
<1>5. /\ caller'[t] = caller[t]
      /\ worker'[t] = worker[t]
  BY <1>1, <1>3 DEF HandlerCalled, CallerAt, WorkerAt, TypeOK, CallerPlaces, WorkerPlaces
<1>g. /\ caller' \in [Task -> CallerPlaces] /\ worker' \in [Task -> WorkerPlaces]
      /\ \A u \in Task \ {t} : caller'[u] = caller[u] /\ worker'[u] = worker[u]
  BY <1>1, <1>3 DEF HandlerCalled, CallerAt, WorkerAt, TypeOK, CallerPlaces, WorkerPlaces
<1>6. /\ cancel'.flag = cancel.flag /\ cancel'.at = cancel.at /\ cancel'.task = cancel.task
      /\ main' = main
      /\ t \in pool'.queue <=> t \in pool.queue
  BY <1>1, <1>3 DEF HandlerCalled, CancelAt, TypeOK, CancelType, MainType, CancelPlaces
<1>h. /\ cancel' \in CancelType /\ main' \in MainType
      /\ pool'.queue = pool.queue
  BY <1>1, <1>3 DEF HandlerCalled, CancelAt, TypeOK, CancelType, MainType, CancelPlaces
<1>7. PlaceInv'
  BY <1>1, <1>3, <1>6, <1>h, TaskAssumption DEF PlaceInv, Handling, TypeOK
<1>8. \A u \in Task \ {t} : Frame(u)
  BY <1>1, <1>3, <1>a, <1>g, <1>6, <1>h, TaskAssumption DEF Frame, PlaceInv, Handling, TypeOK
<1>9. /\ CallerRef(t)' = CallerRef(t)
      /\ WorkerRef(t)' = WorkerRef(t)
      /\ HandlerRef(t)' = HandlerRef(t)
      /\ MainRef(t)' = MainRef(t)
  <2>1. CallerRef(t)' = CallerRef(t)
    BY <1>1, <1>2, <1>3, <1>4, <1>5, <1>6 DEF CallerRef, Bit, Lives, Unused, Stage,
       Starting, Flags, Handled, PlaceInv, Handling
  <2>2. WorkerRef(t)' = WorkerRef(t)
    BY <1>1, <1>2, <1>3, <1>4, <1>5, <1>6 DEF WorkerRef, Bit, Lives, Unused, Stage,
       Starting, Flags, Handled, PlaceInv, Handling
  <2>3. HandlerRef(t)' = HandlerRef(t)
    BY <1>1, <1>2, <1>3, <1>4, <1>5, <1>6 DEF HandlerRef, Bit, Lives, Unused, Stage,
       Starting, Flags, Handled, PlaceInv, Handling
  <2>4. MainRef(t)' = MainRef(t)
    BY <1>1, <1>2, <1>3, <1>4, <1>5, <1>6 DEF MainRef, Bit, Lives, Unused, Stage, Starting,
       Flags, Handled, PlaceInv, Handling
  <2> QED
    BY <2>1, <2>2, <2>3, <2>4
<1>10. Refs(t)'
  <2>1. task'[t].refs = CallerRef(t)' + WorkerRef(t)' + HandlerRef(t)' + 2 * task'[t].idles + MainRef(t)'
    BY <1>1, <1>2, <1>3, <1>4, <1>9, Terms DEF Refs
  <2>2. caller'[t] # "new" => (task'[t].freed <=> task'[t].refs = 0)
    BY <1>1, <1>2, <1>3, <1>4, <1>5 DEF Refs, Stage, Lives, Unused
  <2> QED
    BY <2>1, <2>2 DEF Refs
<1>12. /\ CallerToken(t)' = CallerToken(t)
       /\ WorkerToken(t)' = WorkerToken(t)
       /\ CancelToken(t)' = CancelToken(t)
       /\ MainToken(t)' = MainToken(t)
  <2>1. CallerToken(t)' = CallerToken(t)
    BY <1>1, <1>2, <1>3, <1>4, <1>5, <1>6 DEF CallerToken, Bit, Lives, Unused, Stage,
       Starting, Flags, Handled, PlaceInv, Handling
  <2>2. WorkerToken(t)' = WorkerToken(t)
    BY <1>1, <1>2, <1>3, <1>4, <1>5, <1>6 DEF WorkerToken, Bit, Lives, Unused, Stage,
       Starting, Flags, Handled, PlaceInv, Handling
  <2>3. CancelToken(t)' = CancelToken(t)
    BY <1>1, <1>2, <1>3, <1>4, <1>5, <1>6 DEF CancelToken, Bit, Lives, Unused, Stage,
       Starting, Flags, Handled, PlaceInv, Handling
  <2>4. MainToken(t)' = MainToken(t)
    BY <1>1, <1>2, <1>3, <1>4, <1>5, <1>6 DEF MainToken, Bit, Lives, Unused, Stage,
       Starting, Flags, Handled, PlaceInv, Handling
  <2> QED
    BY <2>1, <2>2, <2>3, <2>4
<1>13. Once(t)'
  <2>1. Tokens(t)' = Tokens(t)
    BY <1>1, <1>2, <1>3, <1>4, <1>12, Terms DEF Tokens
  <2> QED
    BY <1>1, <1>2, <1>3, <1>4, <1>5, <1>6, <2>1 DEF Once, Stage, Flags, Lives, Unused
<1>14. Stage(t)'
  BY <1>1, <1>2, <1>3, <1>4, <1>5, <1>6 DEF Stage, Starting, Flags, Lives, Unused, PlaceInv
<1>15. Handled(t)'
  BY <1>1, <1>2, <1>3, <1>4, <1>5, <1>6 DEF Handled, Handling, Stage, Starting, Lives,
     Unused, PlaceInv
<1>16. Connected(t)'
  BY <1>1, <1>2, <1>3, <1>4, <1>5, <1>6 DEF Connected, Stage, Starting, Handled, Flags,
     Lives, Unused, PlaceInv
<1>17. Flags(t)'
  BY <1>1, <1>2, <1>3, <1>4, <1>5, <1>6 DEF Flags, Stage, Starting, Handled, Handling,
     Early, InFunction, IsCancelled, Lives, Unused, PlaceInv
<1>18. Read(t)'
  BY <1>1, <1>2, <1>3, <1>4, <1>5, <1>6 DEF Read, Stage, Flags, Starting, Early, InFunction,
     IsCancelled, Propagate, Lives, Unused, PlaceInv
<1> QED
  BY <1>a, <1>g, <1>h, <1>7, <1>8, <1>10, <1>13, <1>14, <1>15, <1>16, <1>17, <1>18 DEF Kept,
     TypesKept, TaskInv

\* The handler marks the task cancelled.
LEMMA HandlerStep ==
  ASSUME IInv, NEW t \in Task, t = cancel.task, Handler
  PROVE  Kept(t)
<1>1. /\ TypeOK /\ PlaceInv /\ TaskInv(t) /\ task[t] \in TaskRecord /\ None # t
      /\ task[t].refs \in Nat /\ task[t].idles \in Nat /\ task[t].calls \in Nat
  BY TaskAssumption DEF IInv, TypeOK, TaskRecord
<1>2. /\ Stage(t) /\ Handled(t) /\ Refs(t) /\ Once(t) /\ Connected(t) /\ Flags(t) /\ Read(t)
      /\ Lives(t)
  BY <1>1, FreedUnused DEF TaskInv
<1>3. /\ cancel.at = "handler" /\ cancel.flag /\ t \in Cancellable
      /\ cancel.task = t /\ caller[t] \notin {"new", "check", "connect", "push"} /\ task[t].kind # "plain" /\ ~task[t].freed
  BY <1>1, <1>2 DEF Handler, PlaceInv, TypeOK, Stage, Handling, Lives, Unused, Handled,
     Locked
<1> DEFINE r == [task[t] EXCEPT !.cancelled = TRUE]
<1>b. /\ r \in TaskRecord
      /\ r.kind = task[t].kind
      /\ r.refs = task[t].refs
      /\ r.freed = task[t].freed
      /\ r.cancelled = TRUE
      /\ r.complete = task[t].complete
      /\ r.onCancel = task[t].onCancel
      /\ r.sure = task[t].sure
      /\ r.connected = task[t].connected
      /\ r.idles = task[t].idles
      /\ r.calls = task[t].calls
      /\ r.outcome = task[t].outcome
  BY <1>1, <1>3 DEF TaskRecord, InIdle
<1>c. task' = [task EXCEPT ![t] = r]
  BY <1>1, <1>3 DEF Handler, Set, TypeOK
<1>e. r \in TaskRecord
  BY <1>b
<1> HIDE DEF r
<1>f. task'[t] = r
  BY <1>1, <1>c DEF TypeOK
<1>a. task' \in [Task -> TaskRecord] /\ \A u \in Task \ {t} : task'[u] = task[u]
  BY <1>1, <1>c, <1>e DEF TypeOK
<1>4. /\ task'[t].kind = task[t].kind
      /\ task'[t].refs = task[t].refs
      /\ task'[t].freed = task[t].freed
      /\ task'[t].cancelled = TRUE
      /\ task'[t].complete = task[t].complete
      /\ task'[t].onCancel = task[t].onCancel
      /\ task'[t].sure = task[t].sure
      /\ task'[t].connected = task[t].connected
      /\ task'[t].idles = task[t].idles
      /\ task'[t].calls = task[t].calls
      /\ task'[t].outcome = task[t].outcome
  BY <1>b, <1>f
<1>5. /\ caller'[t] = caller[t]
      /\ worker'[t] = worker[t]
  BY <1>1, <1>3 DEF Handler, CallerAt, WorkerAt, TypeOK, CallerPlaces, WorkerPlaces
<1>g. /\ caller' \in [Task -> CallerPlaces] /\ worker' \in [Task -> WorkerPlaces]
      /\ \A u \in Task \ {t} : caller'[u] = caller[u] /\ worker'[u] = worker[u]
  BY <1>1, <1>3 DEF Handler, CallerAt, WorkerAt, TypeOK, CallerPlaces, WorkerPlaces
<1>6. /\ cancel'.flag = cancel.flag /\ cancel'.at = (IF task[t].onCancel THEN "complete" ELSE "end") /\ cancel'.task = t
      /\ main' = main
      /\ t \in pool'.queue <=> t \in pool.queue
  BY <1>1, <1>3 DEF Handler, CancelAt, TypeOK, CancelType, MainType, CancelPlaces
<1>h. /\ cancel' \in CancelType /\ main' \in MainType
      /\ pool'.queue = pool.queue
  BY <1>1, <1>3 DEF Handler, CancelAt, TypeOK, CancelType, MainType, CancelPlaces
<1>7. PlaceInv'
  BY <1>1, <1>3, <1>6, <1>h, TaskAssumption DEF PlaceInv, Handling, TypeOK
<1>8. \A u \in Task \ {t} : Frame(u)
  BY <1>1, <1>3, <1>a, <1>g, <1>6, <1>h, TaskAssumption DEF Frame, PlaceInv, Handling, TypeOK
<1>9. /\ CallerRef(t)' = CallerRef(t)
      /\ WorkerRef(t)' = WorkerRef(t)
      /\ HandlerRef(t)' = HandlerRef(t)
      /\ MainRef(t)' = MainRef(t)
  <2>1. CallerRef(t)' = CallerRef(t)
    BY <1>1, <1>2, <1>3, <1>4, <1>5, <1>6 DEF CallerRef, Bit, Lives, Unused, Stage,
       Starting, Flags, Handled, PlaceInv, Handling
  <2>2. WorkerRef(t)' = WorkerRef(t)
    BY <1>1, <1>2, <1>3, <1>4, <1>5, <1>6 DEF WorkerRef, Bit, Lives, Unused, Stage,
       Starting, Flags, Handled, PlaceInv, Handling
  <2>3. HandlerRef(t)' = HandlerRef(t)
    BY <1>1, <1>2, <1>3, <1>4, <1>5, <1>6 DEF HandlerRef, Bit, Lives, Unused, Stage,
       Starting, Flags, Handled, PlaceInv, Handling
  <2>4. MainRef(t)' = MainRef(t)
    BY <1>1, <1>2, <1>3, <1>4, <1>5, <1>6 DEF MainRef, Bit, Lives, Unused, Stage, Starting,
       Flags, Handled, PlaceInv, Handling
  <2> QED
    BY <2>1, <2>2, <2>3, <2>4
<1>10. Refs(t)'
  <2>1. task'[t].refs = CallerRef(t)' + WorkerRef(t)' + HandlerRef(t)' + 2 * task'[t].idles + MainRef(t)'
    BY <1>1, <1>2, <1>3, <1>4, <1>9, Terms DEF Refs
  <2>2. caller'[t] # "new" => (task'[t].freed <=> task'[t].refs = 0)
    BY <1>1, <1>2, <1>3, <1>4, <1>5 DEF Refs, Stage, Lives, Unused
  <2> QED
    BY <2>1, <2>2 DEF Refs
<1>12. /\ CallerToken(t)' = CallerToken(t)
       /\ WorkerToken(t)' = WorkerToken(t)
       /\ CancelToken(t)' = CancelToken(t)
       /\ MainToken(t)' = MainToken(t)
  <2>1. CallerToken(t)' = CallerToken(t)
    BY <1>1, <1>2, <1>3, <1>4, <1>5, <1>6 DEF CallerToken, Bit, Lives, Unused, Stage,
       Starting, Flags, Handled, PlaceInv, Handling
  <2>2. WorkerToken(t)' = WorkerToken(t)
    BY <1>1, <1>2, <1>3, <1>4, <1>5, <1>6 DEF WorkerToken, Bit, Lives, Unused, Stage,
       Starting, Flags, Handled, PlaceInv, Handling
  <2>3. CancelToken(t)' = CancelToken(t)
    BY <1>1, <1>2, <1>3, <1>4, <1>5, <1>6 DEF CancelToken, Bit, Lives, Unused, Stage,
       Starting, Flags, Handled, PlaceInv, Handling
  <2>4. MainToken(t)' = MainToken(t)
    BY <1>1, <1>2, <1>3, <1>4, <1>5, <1>6 DEF MainToken, Bit, Lives, Unused, Stage,
       Starting, Flags, Handled, PlaceInv, Handling
  <2> QED
    BY <2>1, <2>2, <2>3, <2>4
<1>13. Once(t)'
  <2>1. Tokens(t)' = Tokens(t)
    BY <1>1, <1>2, <1>3, <1>4, <1>12, Terms DEF Tokens
  <2> QED
    BY <1>1, <1>2, <1>3, <1>4, <1>5, <1>6, <2>1 DEF Once, Stage, Flags, Lives, Unused
<1>14. Stage(t)'
  BY <1>1, <1>2, <1>3, <1>4, <1>5, <1>6 DEF Stage, Starting, Flags, Lives, Unused, PlaceInv
<1>15. Handled(t)'
  BY <1>1, <1>2, <1>3, <1>4, <1>5, <1>6 DEF Handled, Handling, Stage, Starting, Lives,
     Unused, PlaceInv
<1>16. Connected(t)'
  BY <1>1, <1>2, <1>3, <1>4, <1>5, <1>6 DEF Connected, Stage, Starting, Handled, Flags,
     Lives, Unused, PlaceInv
<1>17. Flags(t)'
  BY <1>1, <1>2, <1>3, <1>4, <1>5, <1>6 DEF Flags, Stage, Starting, Handled, Handling,
     Early, InFunction, IsCancelled, Lives, Unused, PlaceInv
<1>18. Read(t)'
  BY <1>1, <1>2, <1>3, <1>4, <1>5, <1>6 DEF Read, Stage, Flags, Starting, Early, InFunction,
     IsCancelled, Propagate, Lives, Unused, PlaceInv
<1> QED
  BY <1>a, <1>g, <1>h, <1>7, <1>8, <1>10, <1>13, <1>14, <1>15, <1>16, <1>17, <1>18 DEF Kept,
     TypesKept, TaskInv

\* It completes the task, or finds it complete.
LEMMA HandlerCompletesStep ==
  ASSUME IInv, NEW t \in Task, t = cancel.task, HandlerCompletes
  PROVE  Kept(t)
<1>1. /\ TypeOK /\ PlaceInv /\ TaskInv(t) /\ task[t] \in TaskRecord /\ None # t
      /\ task[t].refs \in Nat /\ task[t].idles \in Nat /\ task[t].calls \in Nat
  BY TaskAssumption DEF IInv, TypeOK, TaskRecord
<1>2. /\ Stage(t) /\ Handled(t) /\ Refs(t) /\ Once(t) /\ Connected(t) /\ Flags(t) /\ Read(t)
      /\ Lives(t)
  BY <1>1, FreedUnused DEF TaskInv
<1>3. /\ cancel.at = "complete" /\ cancel.flag /\ t \in Cancellable
      /\ cancel.task = t /\ caller[t] \notin {"new", "check", "connect", "push"} /\ task[t].kind # "plain" /\ ~task[t].freed
  BY <1>1, <1>2 DEF HandlerCompletes, First, PlaceInv, TypeOK, Stage, Handling, Lives,
     Unused, Handled, Locked
<1> DEFINE r == [task[t] EXCEPT !.complete = TRUE]
<1>b. /\ r \in TaskRecord
      /\ r.kind = task[t].kind
      /\ r.refs = task[t].refs
      /\ r.freed = task[t].freed
      /\ r.cancelled = task[t].cancelled
      /\ r.complete = TRUE
      /\ r.onCancel = task[t].onCancel
      /\ r.sure = task[t].sure
      /\ r.connected = task[t].connected
      /\ r.idles = task[t].idles
      /\ r.calls = task[t].calls
      /\ r.outcome = task[t].outcome
  BY <1>1, <1>3 DEF TaskRecord, InIdle
<1>c. task' = [task EXCEPT ![t] = r]
  BY <1>1, <1>3 DEF HandlerCompletes, First, Set, TypeOK
<1>e. r \in TaskRecord
  BY <1>b
<1> HIDE DEF r
<1>f. task'[t] = r
  BY <1>1, <1>c DEF TypeOK
<1>a. task' \in [Task -> TaskRecord] /\ \A u \in Task \ {t} : task'[u] = task[u]
  BY <1>1, <1>c, <1>e DEF TypeOK
<1>4. /\ task'[t].kind = task[t].kind
      /\ task'[t].refs = task[t].refs
      /\ task'[t].freed = task[t].freed
      /\ task'[t].cancelled = task[t].cancelled
      /\ task'[t].complete = TRUE
      /\ task'[t].onCancel = task[t].onCancel
      /\ task'[t].sure = task[t].sure
      /\ task'[t].connected = task[t].connected
      /\ task'[t].idles = task[t].idles
      /\ task'[t].calls = task[t].calls
      /\ task'[t].outcome = task[t].outcome
  BY <1>b, <1>f
<1>5. /\ caller'[t] = caller[t]
      /\ worker'[t] = worker[t]
  BY <1>1, <1>3 DEF HandlerCompletes, First, CallerAt, WorkerAt, TypeOK, CallerPlaces,
     WorkerPlaces
<1>g. /\ caller' \in [Task -> CallerPlaces] /\ worker' \in [Task -> WorkerPlaces]
      /\ \A u \in Task \ {t} : caller'[u] = caller[u] /\ worker'[u] = worker[u]
  BY <1>1, <1>3 DEF HandlerCompletes, First, CallerAt, WorkerAt, TypeOK, CallerPlaces,
     WorkerPlaces
<1>6. /\ cancel'.flag = cancel.flag /\ cancel'.at = (IF task[t].complete THEN "end" ELSE "finish") /\ cancel'.task = t
      /\ main' = main
      /\ t \in pool'.queue <=> t \in pool.queue
  BY <1>1, <1>3 DEF HandlerCompletes, First, CancelAt, TypeOK, CancelType, MainType,
     CancelPlaces
<1>h. /\ cancel' \in CancelType /\ main' \in MainType
      /\ pool'.queue = pool.queue
  BY <1>1, <1>3 DEF HandlerCompletes, First, CancelAt, TypeOK, CancelType, MainType,
     CancelPlaces
<1>7. PlaceInv'
  BY <1>1, <1>3, <1>6, <1>h, TaskAssumption DEF PlaceInv, Handling, TypeOK
<1>8. \A u \in Task \ {t} : Frame(u)
  BY <1>1, <1>3, <1>a, <1>g, <1>6, <1>h, TaskAssumption DEF Frame, PlaceInv, Handling, TypeOK
<1>9. /\ CallerRef(t)' = CallerRef(t)
      /\ WorkerRef(t)' = WorkerRef(t)
      /\ HandlerRef(t)' = HandlerRef(t)
      /\ MainRef(t)' = MainRef(t)
  <2>1. CallerRef(t)' = CallerRef(t)
    BY <1>1, <1>2, <1>3, <1>4, <1>5, <1>6 DEF CallerRef, Bit, Lives, Unused, Stage,
       Starting, Flags, Handled, PlaceInv, Handling
  <2>2. WorkerRef(t)' = WorkerRef(t)
    BY <1>1, <1>2, <1>3, <1>4, <1>5, <1>6 DEF WorkerRef, Bit, Lives, Unused, Stage,
       Starting, Flags, Handled, PlaceInv, Handling
  <2>3. HandlerRef(t)' = HandlerRef(t)
    BY <1>1, <1>2, <1>3, <1>4, <1>5, <1>6 DEF HandlerRef, Bit, Lives, Unused, Stage,
       Starting, Flags, Handled, PlaceInv, Handling
  <2>4. MainRef(t)' = MainRef(t)
    BY <1>1, <1>2, <1>3, <1>4, <1>5, <1>6 DEF MainRef, Bit, Lives, Unused, Stage, Starting,
       Flags, Handled, PlaceInv, Handling
  <2> QED
    BY <2>1, <2>2, <2>3, <2>4
<1>10. Refs(t)'
  <2>1. task'[t].refs = CallerRef(t)' + WorkerRef(t)' + HandlerRef(t)' + 2 * task'[t].idles + MainRef(t)'
    BY <1>1, <1>2, <1>3, <1>4, <1>9, Terms DEF Refs
  <2>2. caller'[t] # "new" => (task'[t].freed <=> task'[t].refs = 0)
    BY <1>1, <1>2, <1>3, <1>4, <1>5 DEF Refs, Stage, Lives, Unused
  <2> QED
    BY <2>1, <2>2 DEF Refs
<1>12. /\ CallerToken(t)' = CallerToken(t)
       /\ WorkerToken(t)' = WorkerToken(t)
       /\ CancelToken(t) = 0 /\ CancelToken(t)' = Bit(~task[t].complete)
       /\ MainToken(t)' = MainToken(t)
  <2>1. CallerToken(t)' = CallerToken(t)
    BY <1>1, <1>2, <1>3, <1>4, <1>5, <1>6 DEF CallerToken, Bit, Lives, Unused, Stage,
       Starting, Flags, Handled, PlaceInv, Handling
  <2>2. WorkerToken(t)' = WorkerToken(t)
    BY <1>1, <1>2, <1>3, <1>4, <1>5, <1>6 DEF WorkerToken, Bit, Lives, Unused, Stage,
       Starting, Flags, Handled, PlaceInv, Handling
  <2>3. CancelToken(t) = 0 /\ CancelToken(t)' = Bit(~task[t].complete)
    BY <1>1, <1>2, <1>3, <1>4, <1>5, <1>6 DEF CancelToken, Bit, Lives, Unused, Stage,
       Starting, Flags, Handled, PlaceInv, Handling
  <2>4. MainToken(t)' = MainToken(t)
    BY <1>1, <1>2, <1>3, <1>4, <1>5, <1>6 DEF MainToken, Bit, Lives, Unused, Stage,
       Starting, Flags, Handled, PlaceInv, Handling
  <2> QED
    BY <2>1, <2>2, <2>3, <2>4
<1>13. Once(t)'
  <2>1. Tokens(t)' = Tokens(t) + Bit(~task[t].complete)
    <3>1. /\ CallerToken(t) \in {0, 1} /\ WorkerToken(t) \in {0, 1} /\ MainToken(t) \in {0, 1}
          /\ Bit(~task[t].complete) \in {0, 1}
      BY <1>1, Terms DEF Bit
    <3> QED
      BY <1>1, <1>4, <1>12, <3>1 DEF Tokens
  <2> QED
    <3>1. CASE task[t].complete
      <4>1. Tokens(t) <= 1 /\ Bit(~task[t].complete) = 0
        BY <1>2, <3>1 DEF Once, Bit
      <4>2. Tokens(t)' = Tokens(t)
        <5>1. Tokens(t) \in Int
          BY <1>1, Terms DEF Tokens
        <5> QED
          BY <2>1, <4>1, <5>1
      <4> QED
        BY <1>3, <1>4, <4>1, <4>2 DEF Once
    <3>2. CASE ~task[t].complete
      <4>1. Tokens(t) = 0 /\ Bit(~task[t].complete) = 1
        BY <1>2, <1>3, <3>2 DEF Once, Bit
      <4>2. Tokens(t)' = 1
        BY <2>1, <4>1
      <4>3. Tokens(t)' <= 1
        BY <4>2
      <4> QED
        BY <1>3, <1>4, <4>3 DEF Once
    <3> QED
      BY <3>1, <3>2
<1>14. Stage(t)'
  BY <1>1, <1>2, <1>3, <1>4, <1>5, <1>6 DEF Stage, Starting, Flags, Lives, Unused, PlaceInv
<1>15. Handled(t)'
  BY <1>1, <1>2, <1>3, <1>4, <1>5, <1>6 DEF Handled, Handling, Stage, Starting, Lives,
     Unused, PlaceInv
<1>16. Connected(t)'
  BY <1>1, <1>2, <1>3, <1>4, <1>5, <1>6 DEF Connected, Stage, Starting, Handled, Flags,
     Lives, Unused, PlaceInv
<1>17. Flags(t)'
  BY <1>1, <1>2, <1>3, <1>4, <1>5, <1>6 DEF Flags, Stage, Starting, Handled, Handling,
     Early, InFunction, IsCancelled, Lives, Unused, PlaceInv
<1>18. Read(t)'
  BY <1>1, <1>2, <1>3, <1>4, <1>5, <1>6 DEF Read, Stage, Flags, Starting, Early, InFunction,
     IsCancelled, Propagate, Lives, Unused, PlaceInv
<1> QED
  BY <1>a, <1>g, <1>h, <1>7, <1>8, <1>10, <1>13, <1>14, <1>15, <1>16, <1>17, <1>18 DEF Kept,
     TypesKept, TaskInv

\* It disconnects itself.
LEMMA HandlerFinishesStep ==
  ASSUME IInv, NEW t \in Task, t = cancel.task, HandlerFinishes
  PROVE  Kept(t)
<1>1. /\ TypeOK /\ PlaceInv /\ TaskInv(t) /\ task[t] \in TaskRecord /\ None # t
      /\ task[t].refs \in Nat /\ task[t].idles \in Nat /\ task[t].calls \in Nat
  BY TaskAssumption DEF IInv, TypeOK, TaskRecord
<1>2. /\ Stage(t) /\ Handled(t) /\ Refs(t) /\ Once(t) /\ Connected(t) /\ Flags(t) /\ Read(t)
      /\ Lives(t)
  BY <1>1, FreedUnused DEF TaskInv
<1>3. /\ cancel.at = "finish" /\ cancel.flag /\ t \in Cancellable
      /\ cancel.task = t /\ task[t].kind # "plain" /\ ~task[t].freed
  BY <1>1, <1>2 DEF HandlerFinishes, Disconnected, PlaceInv, TypeOK, Stage, Handling, Lives,
     Unused, Handled
<1> DEFINE r == [task[t] EXCEPT !.connected = FALSE]
<1>b. /\ r \in TaskRecord
      /\ r.kind = task[t].kind
      /\ r.refs = task[t].refs
      /\ r.freed = task[t].freed
      /\ r.cancelled = task[t].cancelled
      /\ r.complete = task[t].complete
      /\ r.onCancel = task[t].onCancel
      /\ r.sure = task[t].sure
      /\ r.connected = FALSE
      /\ r.idles = task[t].idles
      /\ r.calls = task[t].calls
      /\ r.outcome = task[t].outcome
  BY <1>1, <1>3 DEF TaskRecord, InIdle
<1>c. task' = [task EXCEPT ![t] = r]
  BY <1>1, <1>3 DEF HandlerFinishes, Disconnected, Set, TypeOK
<1>e. r \in TaskRecord
  BY <1>b
<1> HIDE DEF r
<1>f. task'[t] = r
  BY <1>1, <1>c DEF TypeOK
<1>a. task' \in [Task -> TaskRecord] /\ \A u \in Task \ {t} : task'[u] = task[u]
  BY <1>1, <1>c, <1>e DEF TypeOK
<1>4. /\ task'[t].kind = task[t].kind
      /\ task'[t].refs = task[t].refs
      /\ task'[t].freed = task[t].freed
      /\ task'[t].cancelled = task[t].cancelled
      /\ task'[t].complete = task[t].complete
      /\ task'[t].onCancel = task[t].onCancel
      /\ task'[t].sure = task[t].sure
      /\ task'[t].connected = FALSE
      /\ task'[t].idles = task[t].idles
      /\ task'[t].calls = task[t].calls
      /\ task'[t].outcome = task[t].outcome
  BY <1>b, <1>f
<1>5. /\ caller'[t] = caller[t]
      /\ worker'[t] = worker[t]
  BY <1>1, <1>3 DEF HandlerFinishes, Disconnected, CallerAt, WorkerAt, TypeOK, CallerPlaces,
     WorkerPlaces
<1>g. /\ caller' \in [Task -> CallerPlaces] /\ worker' \in [Task -> WorkerPlaces]
      /\ \A u \in Task \ {t} : caller'[u] = caller[u] /\ worker'[u] = worker[u]
  BY <1>1, <1>3 DEF HandlerFinishes, Disconnected, CallerAt, WorkerAt, TypeOK, CallerPlaces,
     WorkerPlaces
<1>6. /\ cancel'.flag = cancel.flag /\ cancel'.at = "notify" /\ cancel'.task = t
      /\ main' = main
      /\ t \in pool'.queue <=> t \in pool.queue
  BY <1>1, <1>3 DEF HandlerFinishes, Disconnected, CancelAt, TypeOK, CancelType, MainType,
     CancelPlaces
<1>h. /\ cancel' \in CancelType /\ main' \in MainType
      /\ pool'.queue = pool.queue
  BY <1>1, <1>3 DEF HandlerFinishes, Disconnected, CancelAt, TypeOK, CancelType, MainType,
     CancelPlaces
<1>7. PlaceInv'
  BY <1>1, <1>3, <1>6, <1>h, TaskAssumption DEF PlaceInv, Handling, TypeOK
<1>8. \A u \in Task \ {t} : Frame(u)
  BY <1>1, <1>3, <1>a, <1>g, <1>6, <1>h, TaskAssumption DEF Frame, PlaceInv, Handling, TypeOK
<1>9. /\ CallerRef(t)' = CallerRef(t)
      /\ WorkerRef(t)' = WorkerRef(t)
      /\ HandlerRef(t)' = HandlerRef(t)
      /\ MainRef(t)' = MainRef(t)
  <2>1. CallerRef(t)' = CallerRef(t)
    BY <1>1, <1>2, <1>3, <1>4, <1>5, <1>6 DEF CallerRef, Bit, Lives, Unused, Stage,
       Starting, Flags, Handled, PlaceInv, Handling
  <2>2. WorkerRef(t)' = WorkerRef(t)
    BY <1>1, <1>2, <1>3, <1>4, <1>5, <1>6 DEF WorkerRef, Bit, Lives, Unused, Stage,
       Starting, Flags, Handled, PlaceInv, Handling
  <2>3. HandlerRef(t)' = HandlerRef(t)
    BY <1>1, <1>2, <1>3, <1>4, <1>5, <1>6 DEF HandlerRef, Bit, Lives, Unused, Stage,
       Starting, Flags, Handled, PlaceInv, Handling
  <2>4. MainRef(t)' = MainRef(t)
    BY <1>1, <1>2, <1>3, <1>4, <1>5, <1>6 DEF MainRef, Bit, Lives, Unused, Stage, Starting,
       Flags, Handled, PlaceInv, Handling
  <2> QED
    BY <2>1, <2>2, <2>3, <2>4
<1>10. Refs(t)'
  <2>1. task'[t].refs = CallerRef(t)' + WorkerRef(t)' + HandlerRef(t)' + 2 * task'[t].idles + MainRef(t)'
    BY <1>1, <1>2, <1>3, <1>4, <1>9, Terms DEF Refs
  <2>2. caller'[t] # "new" => (task'[t].freed <=> task'[t].refs = 0)
    BY <1>1, <1>2, <1>3, <1>4, <1>5 DEF Refs, Stage, Lives, Unused
  <2> QED
    BY <2>1, <2>2 DEF Refs
<1>12. /\ CallerToken(t)' = CallerToken(t)
       /\ WorkerToken(t)' = WorkerToken(t)
       /\ CancelToken(t)' = CancelToken(t)
       /\ MainToken(t)' = MainToken(t)
  <2>1. CallerToken(t)' = CallerToken(t)
    BY <1>1, <1>2, <1>3, <1>4, <1>5, <1>6 DEF CallerToken, Bit, Lives, Unused, Stage,
       Starting, Flags, Handled, PlaceInv, Handling
  <2>2. WorkerToken(t)' = WorkerToken(t)
    BY <1>1, <1>2, <1>3, <1>4, <1>5, <1>6 DEF WorkerToken, Bit, Lives, Unused, Stage,
       Starting, Flags, Handled, PlaceInv, Handling
  <2>3. CancelToken(t)' = CancelToken(t)
    BY <1>1, <1>2, <1>3, <1>4, <1>5, <1>6 DEF CancelToken, Bit, Lives, Unused, Stage,
       Starting, Flags, Handled, PlaceInv, Handling
  <2>4. MainToken(t)' = MainToken(t)
    BY <1>1, <1>2, <1>3, <1>4, <1>5, <1>6 DEF MainToken, Bit, Lives, Unused, Stage,
       Starting, Flags, Handled, PlaceInv, Handling
  <2> QED
    BY <2>1, <2>2, <2>3, <2>4
<1>13. Once(t)'
  <2>1. Tokens(t)' = Tokens(t)
    BY <1>1, <1>2, <1>3, <1>4, <1>12, Terms DEF Tokens
  <2> QED
    BY <1>1, <1>2, <1>3, <1>4, <1>5, <1>6, <2>1 DEF Once, Stage, Flags, Lives, Unused
<1>14. Stage(t)'
  BY <1>1, <1>2, <1>3, <1>4, <1>5, <1>6 DEF Stage, Starting, Flags, Lives, Unused, PlaceInv
<1>15. Handled(t)'
  BY <1>1, <1>2, <1>3, <1>4, <1>5, <1>6 DEF Handled, Handling, Stage, Starting, Lives,
     Unused, PlaceInv
<1>16. Connected(t)'
  BY <1>1, <1>2, <1>3, <1>4, <1>5, <1>6 DEF Connected, Stage, Starting, Handled, Flags,
     Lives, Unused, PlaceInv
<1>17. Flags(t)'
  BY <1>1, <1>2, <1>3, <1>4, <1>5, <1>6 DEF Flags, Stage, Starting, Handled, Handling,
     Early, InFunction, IsCancelled, Lives, Unused, PlaceInv
<1>18. Read(t)'
  BY <1>1, <1>2, <1>3, <1>4, <1>5, <1>6 DEF Read, Stage, Flags, Starting, Early, InFunction,
     IsCancelled, Propagate, Lives, Unused, PlaceInv
<1> QED
  BY <1>a, <1>g, <1>h, <1>7, <1>8, <1>10, <1>13, <1>14, <1>15, <1>16, <1>17, <1>18 DEF Kept,
     TypesKept, TaskInv

\* It signals a call that waits.
LEMMA HandlerNotifiesSyncStep ==
  ASSUME IInv, NEW t \in Task, t = cancel.task, HandlerNotifies, task[t].kind = "sync"
  PROVE  Kept(t)
<1>1. /\ TypeOK /\ PlaceInv /\ TaskInv(t) /\ task[t] \in TaskRecord /\ None # t
      /\ task[t].refs \in Nat /\ task[t].idles \in Nat /\ task[t].calls \in Nat
  BY TaskAssumption DEF IInv, TypeOK, TaskRecord
<1>2. /\ Stage(t) /\ Handled(t) /\ Refs(t) /\ Once(t) /\ Connected(t) /\ Flags(t) /\ Read(t)
      /\ Lives(t)
  BY <1>1, FreedUnused DEF TaskInv
<1>3. /\ cancel.at = "notify" /\ cancel.flag /\ t \in Cancellable
      /\ cancel.task = t /\ task[t].kind # "plain" /\ ~task[t].freed
      /\ task[t].kind = "sync"
  BY <1>1, <1>2 DEF HandlerNotifies, Notify, PlaceInv, TypeOK, Stage, Handling, Lives,
     Unused, Handled
<1>4. task' = task
  BY DEF HandlerNotifies, Notify
<1>a. task' \in [Task -> TaskRecord] /\ \A u \in Task \ {t} : task'[u] = task[u]
  BY <1>1, <1>4 DEF TypeOK
<1>p. worker' = worker /\ caller' = [caller EXCEPT ![t] = IF caller[t] = "asleep" THEN "wait" ELSE caller[t]]
  BY <1>1, <1>3 DEF HandlerNotifies, Notify, CallerAt, WorkerAt, TypeOK, CallerPlaces,
     WorkerPlaces
<1>5. /\ caller'[t] = (IF caller[t] = "asleep" THEN "wait" ELSE caller[t])
      /\ worker'[t] = worker[t]
  BY <1>1, <1>3, <1>p DEF TypeOK, CallerPlaces, WorkerPlaces
<1>g. /\ caller' \in [Task -> CallerPlaces] /\ worker' \in [Task -> WorkerPlaces]
      /\ \A u \in Task \ {t} : caller'[u] = caller[u] /\ worker'[u] = worker[u]
  BY <1>1, <1>3, <1>p DEF TypeOK, CallerPlaces, WorkerPlaces
<1>6. /\ cancel'.flag = cancel.flag /\ cancel'.at = "end" /\ cancel'.task = t
      /\ main' = main
      /\ t \in pool'.queue <=> t \in pool.queue
  BY <1>1, <1>3 DEF HandlerNotifies, Notify, CancelAt, TypeOK, CancelType, MainType,
     CancelPlaces
<1>h. /\ cancel' \in CancelType /\ main' \in MainType
      /\ pool'.queue = pool.queue
  BY <1>1, <1>3 DEF HandlerNotifies, Notify, CancelAt, TypeOK, CancelType, MainType,
     CancelPlaces
<1>7. PlaceInv'
  BY <1>1, <1>3, <1>6, <1>h, TaskAssumption DEF PlaceInv, Handling, TypeOK
<1>8. \A u \in Task \ {t} : Frame(u)
  BY <1>1, <1>3, <1>a, <1>g, <1>6, <1>h, TaskAssumption DEF Frame, PlaceInv, Handling, TypeOK
<1>9. /\ CallerRef(t)' = CallerRef(t)
      /\ WorkerRef(t)' = WorkerRef(t)
      /\ HandlerRef(t)' = HandlerRef(t)
      /\ MainRef(t)' = MainRef(t)
  <2>1. CallerRef(t)' = CallerRef(t)
    BY <1>1, <1>2, <1>3, <1>4, <1>5, <1>6 DEF CallerRef, Bit, Lives, Unused, Stage,
       Starting, Flags, Handled, PlaceInv, Handling
  <2>2. WorkerRef(t)' = WorkerRef(t)
    BY <1>1, <1>2, <1>3, <1>4, <1>5, <1>6 DEF WorkerRef, Bit, Lives, Unused, Stage,
       Starting, Flags, Handled, PlaceInv, Handling
  <2>3. HandlerRef(t)' = HandlerRef(t)
    BY <1>1, <1>2, <1>3, <1>4, <1>5, <1>6 DEF HandlerRef, Bit, Lives, Unused, Stage,
       Starting, Flags, Handled, PlaceInv, Handling
  <2>4. MainRef(t)' = MainRef(t)
    BY <1>1, <1>2, <1>3, <1>4, <1>5, <1>6 DEF MainRef, Bit, Lives, Unused, Stage, Starting,
       Flags, Handled, PlaceInv, Handling
  <2> QED
    BY <2>1, <2>2, <2>3, <2>4
<1>10. Refs(t)'
  <2>1. task'[t].refs = CallerRef(t)' + WorkerRef(t)' + HandlerRef(t)' + 2 * task'[t].idles + MainRef(t)'
    BY <1>1, <1>2, <1>3, <1>4, <1>9, Terms DEF Refs
  <2>2. caller'[t] # "new" => (task'[t].freed <=> task'[t].refs = 0)
    BY <1>1, <1>2, <1>3, <1>4, <1>5 DEF Refs, Stage, Lives, Unused
  <2> QED
    BY <2>1, <2>2 DEF Refs
<1>12. /\ CallerToken(t)' = CallerToken(t)
       /\ WorkerToken(t)' = WorkerToken(t)
       /\ CancelToken(t) = 1 /\ CancelToken(t)' = 0
       /\ MainToken(t)' = MainToken(t)
  <2>1. CallerToken(t)' = CallerToken(t)
    BY <1>1, <1>2, <1>3, <1>4, <1>5, <1>6 DEF CallerToken, Bit, Lives, Unused, Stage,
       Starting, Flags, Handled, PlaceInv, Handling
  <2>2. WorkerToken(t)' = WorkerToken(t)
    BY <1>1, <1>2, <1>3, <1>4, <1>5, <1>6 DEF WorkerToken, Bit, Lives, Unused, Stage,
       Starting, Flags, Handled, PlaceInv, Handling
  <2>3. CancelToken(t) = 1 /\ CancelToken(t)' = 0
    BY <1>1, <1>2, <1>3, <1>4, <1>5, <1>6 DEF CancelToken, Bit, Lives, Unused, Stage,
       Starting, Flags, Handled, PlaceInv, Handling
  <2>4. MainToken(t)' = MainToken(t)
    BY <1>1, <1>2, <1>3, <1>4, <1>5, <1>6 DEF MainToken, Bit, Lives, Unused, Stage,
       Starting, Flags, Handled, PlaceInv, Handling
  <2> QED
    BY <2>1, <2>2, <2>3, <2>4
<1>13. Once(t)'
  <2>1. Tokens(t)' <= Tokens(t)
    <3>1. /\ CallerToken(t) \in {0, 1} /\ WorkerToken(t) \in {0, 1} /\ CancelToken(t) \in {0, 1}
          /\ MainToken(t) \in {0, 1}
      BY <1>1, Terms
    <3> QED
      BY <1>1, <1>4, <1>12, <3>1 DEF Tokens
  <2> QED
    <3>1. Tokens(t) <= 1 /\ Tokens(t) \in Int /\ Tokens(t)' \in Int
      <4>1. /\ CallerToken(t) \in {0, 1} /\ WorkerToken(t) \in {0, 1} /\ CancelToken(t) \in {0, 1}
            /\ MainToken(t) \in {0, 1}
        BY <1>1, Terms
      <4> QED
        BY <1>1, <1>2, <1>4, <1>12, <4>1 DEF Once, Tokens
    <3>2. Tokens(t)' <= 1
      BY <2>1, <3>1
    <3>3. task[t].complete /\ task'[t].complete
      BY <1>2, <1>3, <1>4 DEF Flags
    <3> QED
      BY <1>3, <1>4, <3>2, <3>3 DEF Once
<1>14. Stage(t)'
  BY <1>1, <1>2, <1>3, <1>4, <1>5, <1>6 DEF Stage, Starting, Flags, Lives, Unused, PlaceInv
<1>15. Handled(t)'
  BY <1>1, <1>2, <1>3, <1>4, <1>5, <1>6 DEF Handled, Handling, Stage, Starting, Lives,
     Unused, PlaceInv
<1>16. Connected(t)'
  BY <1>1, <1>2, <1>3, <1>4, <1>5, <1>6 DEF Connected, Stage, Starting, Handled, Flags,
     Lives, Unused, PlaceInv
<1>17. Flags(t)'
  BY <1>1, <1>2, <1>3, <1>4, <1>5, <1>6 DEF Flags, Stage, Starting, Handled, Handling,
     Early, InFunction, IsCancelled, Lives, Unused, PlaceInv
<1>18. Read(t)'
  BY <1>1, <1>2, <1>3, <1>4, <1>5, <1>6 DEF Read, Stage, Flags, Starting, Early, InFunction,
     IsCancelled, Propagate, Lives, Unused, PlaceInv
<1> QED
  BY <1>a, <1>g, <1>h, <1>7, <1>8, <1>10, <1>13, <1>14, <1>15, <1>16, <1>17, <1>18 DEF Kept,
     TypesKept, TaskInv

\* It puts a callback in an idle source.
LEMMA HandlerNotifiesAsyncStep ==
  ASSUME IInv, NEW t \in Task, t = cancel.task, HandlerNotifies, task[t].kind # "sync"
  PROVE  Kept(t)
<1>1. /\ TypeOK /\ PlaceInv /\ TaskInv(t) /\ task[t] \in TaskRecord /\ None # t
      /\ task[t].refs \in Nat /\ task[t].idles \in Nat /\ task[t].calls \in Nat
  BY TaskAssumption DEF IInv, TypeOK, TaskRecord
<1>2. /\ Stage(t) /\ Handled(t) /\ Refs(t) /\ Once(t) /\ Connected(t) /\ Flags(t) /\ Read(t)
      /\ Lives(t)
  BY <1>1, FreedUnused DEF TaskInv
<1>3. /\ cancel.at = "notify" /\ cancel.flag /\ t \in Cancellable
      /\ cancel.task = t /\ task[t].kind # "plain" /\ ~task[t].freed
      /\ task[t].kind = "async"
      /\ task[t].refs + 2 \in Nat /\ task[t].idles + 1 \in Nat
      /\ task[t].idles + 1 # 0
  <2>1. /\ cancel.at = "notify" /\ cancel.flag /\ t \in Cancellable
        /\ cancel.task = t /\ task[t].kind # "plain" /\ ~task[t].freed
    BY <1>1, <1>2 DEF HandlerNotifies, PlaceInv, Handled, Lives, Unused
  <2>2. task[t].kind = "async"
    BY <1>1, <2>1 DEF TaskRecord, Kind
  <2>3. task[t].refs + 2 \in Nat /\ task[t].idles + 1 \in Nat /\ task[t].idles + 1 # 0
    BY <1>1
  <2> QED
    BY <2>1, <2>2, <2>3
<1> DEFINE r == InIdle(task[t])
<1>b. /\ r \in TaskRecord
      /\ r.kind = task[t].kind
      /\ r.refs = (task[t].refs + 2)
      /\ r.freed = task[t].freed
      /\ r.cancelled = task[t].cancelled
      /\ r.complete = task[t].complete
      /\ r.onCancel = task[t].onCancel
      /\ r.sure = task[t].sure
      /\ r.connected = task[t].connected
      /\ r.idles = task[t].idles + 1
      /\ r.calls = task[t].calls
      /\ r.outcome = task[t].outcome
  BY <1>1, <1>3 DEF TaskRecord, InIdle
<1>c. task' = [task EXCEPT ![t] = r]
  BY <1>1, <1>3 DEF HandlerNotifies, Notify, Set, TypeOK
<1>e. r \in TaskRecord
  BY <1>b
<1> HIDE DEF r
<1>f. task'[t] = r
  BY <1>1, <1>c DEF TypeOK
<1>a. task' \in [Task -> TaskRecord] /\ \A u \in Task \ {t} : task'[u] = task[u]
  BY <1>1, <1>c, <1>e DEF TypeOK
<1>4. /\ task'[t].kind = task[t].kind
      /\ task'[t].refs = (task[t].refs + 2)
      /\ task'[t].freed = task[t].freed
      /\ task'[t].cancelled = task[t].cancelled
      /\ task'[t].complete = task[t].complete
      /\ task'[t].onCancel = task[t].onCancel
      /\ task'[t].sure = task[t].sure
      /\ task'[t].connected = task[t].connected
      /\ task'[t].idles = task[t].idles + 1
      /\ task'[t].calls = task[t].calls
      /\ task'[t].outcome = task[t].outcome
  BY <1>b, <1>f
<1>5. /\ caller'[t] = caller[t]
      /\ worker'[t] = worker[t]
  BY <1>1, <1>3 DEF HandlerNotifies, Notify, CallerAt, WorkerAt, TypeOK, CallerPlaces,
     WorkerPlaces
<1>g. /\ caller' \in [Task -> CallerPlaces] /\ worker' \in [Task -> WorkerPlaces]
      /\ \A u \in Task \ {t} : caller'[u] = caller[u] /\ worker'[u] = worker[u]
  BY <1>1, <1>3 DEF HandlerNotifies, Notify, CallerAt, WorkerAt, TypeOK, CallerPlaces,
     WorkerPlaces
<1>6. /\ cancel'.flag = cancel.flag /\ cancel'.at = "end" /\ cancel'.task = t
      /\ main' = main
      /\ t \in pool'.queue <=> t \in pool.queue
  BY <1>1, <1>3 DEF HandlerNotifies, Notify, CancelAt, TypeOK, CancelType, MainType,
     CancelPlaces
<1>h. /\ cancel' \in CancelType /\ main' \in MainType
      /\ pool'.queue = pool.queue
  BY <1>1, <1>3 DEF HandlerNotifies, Notify, CancelAt, TypeOK, CancelType, MainType,
     CancelPlaces
<1>7. PlaceInv'
  BY <1>1, <1>3, <1>6, <1>h, TaskAssumption DEF PlaceInv, Handling, TypeOK
<1>8. \A u \in Task \ {t} : Frame(u)
  BY <1>1, <1>3, <1>a, <1>g, <1>6, <1>h, TaskAssumption DEF Frame, PlaceInv, Handling, TypeOK
<1>9. /\ CallerRef(t)' = CallerRef(t)
      /\ WorkerRef(t)' = WorkerRef(t)
      /\ HandlerRef(t)' = HandlerRef(t)
      /\ MainRef(t)' = MainRef(t)
  <2>1. CallerRef(t)' = CallerRef(t)
    BY <1>1, <1>2, <1>3, <1>4, <1>5, <1>6 DEF CallerRef, Bit, Lives, Unused, Stage,
       Starting, Flags, Handled, PlaceInv, Handling
  <2>2. WorkerRef(t)' = WorkerRef(t)
    BY <1>1, <1>2, <1>3, <1>4, <1>5, <1>6 DEF WorkerRef, Bit, Lives, Unused, Stage,
       Starting, Flags, Handled, PlaceInv, Handling
  <2>3. HandlerRef(t)' = HandlerRef(t)
    BY <1>1, <1>2, <1>3, <1>4, <1>5, <1>6 DEF HandlerRef, Bit, Lives, Unused, Stage,
       Starting, Flags, Handled, PlaceInv, Handling
  <2>4. MainRef(t)' = MainRef(t)
    BY <1>1, <1>2, <1>3, <1>4, <1>5, <1>6 DEF MainRef, Bit, Lives, Unused, Stage, Starting,
       Flags, Handled, PlaceInv, Handling
  <2> QED
    BY <2>1, <2>2, <2>3, <2>4
<1>10. Refs(t)'
  <2>1. task'[t].refs = CallerRef(t)' + WorkerRef(t)' + HandlerRef(t)' + 2 * task'[t].idles + MainRef(t)'
    <3>1. /\ task[t].refs = CallerRef(t) + WorkerRef(t) + HandlerRef(t) + 2 * task[t].idles + MainRef(t)
          /\ task[t].idles \in Nat
      BY <1>1, <1>2 DEF Refs
    <3>2. /\ CallerRef(t) \in {0, 1} /\ WorkerRef(t) \in {0, 1} /\ HandlerRef(t) \in {0, 1}
          /\ MainRef(t) \in 0 .. 2
      BY <1>1, Terms
    <3>3. task'[t].refs = task[t].refs + 2 /\ task'[t].idles = task[t].idles + 1
      BY <1>4
    <3> QED
      BY <1>9, <3>1, <3>2, <3>3
  <2>2. caller'[t] # "new" => (task'[t].freed <=> task'[t].refs = 0)
    <3>1. ~task'[t].freed /\ task'[t].refs = task[t].refs + 2
      BY <1>3, <1>4
    <3> QED
      BY <1>1, <3>1
  <2> QED
    BY <2>1, <2>2 DEF Refs
<1>12. /\ CallerToken(t)' = CallerToken(t)
       /\ WorkerToken(t)' = WorkerToken(t)
       /\ CancelToken(t) = 1 /\ CancelToken(t)' = 0
       /\ MainToken(t)' = MainToken(t)
  <2>1. CallerToken(t)' = CallerToken(t)
    BY <1>1, <1>2, <1>3, <1>4, <1>5, <1>6 DEF CallerToken, Bit, Lives, Unused, Stage,
       Starting, Flags, Handled, PlaceInv, Handling
  <2>2. WorkerToken(t)' = WorkerToken(t)
    BY <1>1, <1>2, <1>3, <1>4, <1>5, <1>6 DEF WorkerToken, Bit, Lives, Unused, Stage,
       Starting, Flags, Handled, PlaceInv, Handling
  <2>3. CancelToken(t) = 1 /\ CancelToken(t)' = 0
    BY <1>1, <1>2, <1>3, <1>4, <1>5, <1>6 DEF CancelToken, Bit, Lives, Unused, Stage,
       Starting, Flags, Handled, PlaceInv, Handling
  <2>4. MainToken(t)' = MainToken(t)
    BY <1>1, <1>2, <1>3, <1>4, <1>5, <1>6 DEF MainToken, Bit, Lives, Unused, Stage,
       Starting, Flags, Handled, PlaceInv, Handling
  <2> QED
    BY <2>1, <2>2, <2>3, <2>4
<1>13. Once(t)'
  <2>1. Tokens(t)' = Tokens(t)
    <3>1. /\ CallerToken(t) \in {0, 1} /\ WorkerToken(t) \in {0, 1} /\ CancelToken(t) \in {0, 1}
          /\ MainToken(t) \in {0, 1} /\ task[t].idles \in Nat /\ task[t].calls \in Nat
      BY <1>1, Terms
    <3>2. task'[t].idles = task[t].idles + 1 /\ task'[t].calls = task[t].calls
      BY <1>4
    <3> QED
      BY <1>12, <3>1, <3>2 DEF Tokens
  <2> QED
    BY <1>1, <1>2, <1>3, <1>4, <1>5, <1>6, <2>1 DEF Once, Stage, Flags, Lives, Unused
<1>14. Stage(t)'
  BY <1>1, <1>2, <1>3, <1>4, <1>5, <1>6 DEF Stage, Starting, Flags, Lives, Unused, PlaceInv
<1>15. Handled(t)'
  BY <1>1, <1>2, <1>3, <1>4, <1>5, <1>6 DEF Handled, Handling, Stage, Starting, Lives,
     Unused, PlaceInv
<1>16. Connected(t)'
  BY <1>1, <1>2, <1>3, <1>4, <1>5, <1>6 DEF Connected, Stage, Starting, Handled, Flags,
     Lives, Unused, PlaceInv
<1>17. Flags(t)'
  BY <1>1, <1>2, <1>3, <1>4, <1>5, <1>6 DEF Flags, Stage, Starting, Handled, Handling,
     Early, InFunction, IsCancelled, Lives, Unused, PlaceInv
<1>18. Read(t)'
  BY <1>1, <1>2, <1>3, <1>4, <1>5, <1>6 DEF Read, Stage, Flags, Starting, Early, InFunction,
     IsCancelled, Propagate, Lives, Unused, PlaceInv
<1> QED
  BY <1>a, <1>g, <1>h, <1>7, <1>8, <1>10, <1>13, <1>14, <1>15, <1>16, <1>17, <1>18 DEF Kept,
     TypesKept, TaskInv

\* The handler is over, and still connected.
LEMMA HandlerEndsKeptStep ==
  ASSUME IInv, NEW t \in Task, t = cancel.task, HandlerEnds, task[t].connected
  PROVE  Kept(t)
<1>1. /\ TypeOK /\ PlaceInv /\ TaskInv(t) /\ task[t] \in TaskRecord /\ None # t
      /\ task[t].refs \in Nat /\ task[t].idles \in Nat /\ task[t].calls \in Nat
  BY TaskAssumption DEF IInv, TypeOK, TaskRecord
<1>2. /\ Stage(t) /\ Handled(t) /\ Refs(t) /\ Once(t) /\ Connected(t) /\ Flags(t) /\ Read(t)
      /\ Lives(t)
  BY <1>1, FreedUnused DEF TaskInv
<1>3. /\ cancel.at = "end" /\ cancel.flag /\ t \in Cancellable
      /\ cancel.task = t /\ task[t].kind # "plain" /\ ~task[t].freed
      /\ task[t].connected
  BY <1>1, <1>2 DEF HandlerEnds, PlaceInv, TypeOK, Stage, Handling, Lives, Unused, Handled
<1> DEFINE r == task[t]
<1>b. /\ r \in TaskRecord
      /\ r.kind = task[t].kind
      /\ r.refs = task[t].refs
      /\ r.freed = task[t].freed
      /\ r.cancelled = task[t].cancelled
      /\ r.complete = task[t].complete
      /\ r.onCancel = task[t].onCancel
      /\ r.sure = task[t].sure
      /\ r.connected = task[t].connected
      /\ r.idles = task[t].idles
      /\ r.calls = task[t].calls
      /\ r.outcome = task[t].outcome
  BY <1>1, <1>3 DEF TaskRecord, InIdle
<1>c. task' = [task EXCEPT ![t] = r]
  BY <1>1, <1>3 DEF HandlerEnds, Set, TypeOK
<1>e. r \in TaskRecord
  BY <1>b
<1> HIDE DEF r
<1>f. task'[t] = r
  BY <1>1, <1>c DEF TypeOK
<1>a. task' \in [Task -> TaskRecord] /\ \A u \in Task \ {t} : task'[u] = task[u]
  BY <1>1, <1>c, <1>e DEF TypeOK
<1>4. /\ task'[t].kind = task[t].kind
      /\ task'[t].refs = task[t].refs
      /\ task'[t].freed = task[t].freed
      /\ task'[t].cancelled = task[t].cancelled
      /\ task'[t].complete = task[t].complete
      /\ task'[t].onCancel = task[t].onCancel
      /\ task'[t].sure = task[t].sure
      /\ task'[t].connected = task[t].connected
      /\ task'[t].idles = task[t].idles
      /\ task'[t].calls = task[t].calls
      /\ task'[t].outcome = task[t].outcome
  BY <1>b, <1>f
<1>5. /\ caller'[t] = caller[t]
      /\ worker'[t] = worker[t]
  BY <1>1, <1>3 DEF HandlerEnds, CallerAt, WorkerAt, TypeOK, CallerPlaces, WorkerPlaces
<1>g. /\ caller' \in [Task -> CallerPlaces] /\ worker' \in [Task -> WorkerPlaces]
      /\ \A u \in Task \ {t} : caller'[u] = caller[u] /\ worker'[u] = worker[u]
  BY <1>1, <1>3 DEF HandlerEnds, CallerAt, WorkerAt, TypeOK, CallerPlaces, WorkerPlaces
<1>6. /\ cancel'.flag = cancel.flag /\ cancel'.at = "emitting" /\ cancel'.task = None
      /\ main' = main
      /\ t \in pool'.queue <=> t \in pool.queue
  BY <1>1, <1>3 DEF HandlerEnds, CancelAt, TypeOK, CancelType, MainType, CancelPlaces
<1>h. /\ cancel' \in CancelType /\ main' \in MainType
      /\ pool'.queue = pool.queue
  BY <1>1, <1>3 DEF HandlerEnds, CancelAt, TypeOK, CancelType, MainType, CancelPlaces
<1>7. PlaceInv'
  BY <1>1, <1>3, <1>6, <1>h, TaskAssumption DEF PlaceInv, Handling, TypeOK
<1>8. \A u \in Task \ {t} : Frame(u)
  BY <1>1, <1>3, <1>a, <1>g, <1>6, <1>h, TaskAssumption DEF Frame, PlaceInv, Handling, TypeOK
<1>9. /\ CallerRef(t)' = CallerRef(t)
      /\ WorkerRef(t)' = WorkerRef(t)
      /\ HandlerRef(t)' = HandlerRef(t)
      /\ MainRef(t)' = MainRef(t)
  <2>1. CallerRef(t)' = CallerRef(t)
    BY <1>1, <1>2, <1>3, <1>4, <1>5, <1>6 DEF CallerRef, Bit, Lives, Unused, Stage,
       Starting, Flags, Handled, PlaceInv, Handling
  <2>2. WorkerRef(t)' = WorkerRef(t)
    BY <1>1, <1>2, <1>3, <1>4, <1>5, <1>6 DEF WorkerRef, Bit, Lives, Unused, Stage,
       Starting, Flags, Handled, PlaceInv, Handling
  <2>3. HandlerRef(t)' = HandlerRef(t)
    BY <1>1, <1>2, <1>3, <1>4, <1>5, <1>6 DEF HandlerRef, Bit, Lives, Unused, Stage,
       Starting, Flags, Handled, PlaceInv, Handling
  <2>4. MainRef(t)' = MainRef(t)
    BY <1>1, <1>2, <1>3, <1>4, <1>5, <1>6 DEF MainRef, Bit, Lives, Unused, Stage, Starting,
       Flags, Handled, PlaceInv, Handling
  <2> QED
    BY <2>1, <2>2, <2>3, <2>4
<1>10. Refs(t)'
  <2>1. task'[t].refs = CallerRef(t)' + WorkerRef(t)' + HandlerRef(t)' + 2 * task'[t].idles + MainRef(t)'
    BY <1>1, <1>2, <1>3, <1>4, <1>9, Terms DEF Refs
  <2>2. caller'[t] # "new" => (task'[t].freed <=> task'[t].refs = 0)
    BY <1>1, <1>2, <1>3, <1>4, <1>5 DEF Refs, Stage, Lives, Unused
  <2> QED
    BY <2>1, <2>2 DEF Refs
<1>12. /\ CallerToken(t)' = CallerToken(t)
       /\ WorkerToken(t)' = WorkerToken(t)
       /\ CancelToken(t)' = CancelToken(t)
       /\ MainToken(t)' = MainToken(t)
  <2>1. CallerToken(t)' = CallerToken(t)
    BY <1>1, <1>2, <1>3, <1>4, <1>5, <1>6 DEF CallerToken, Bit, Lives, Unused, Stage,
       Starting, Flags, Handled, PlaceInv, Handling
  <2>2. WorkerToken(t)' = WorkerToken(t)
    BY <1>1, <1>2, <1>3, <1>4, <1>5, <1>6 DEF WorkerToken, Bit, Lives, Unused, Stage,
       Starting, Flags, Handled, PlaceInv, Handling
  <2>3. CancelToken(t)' = CancelToken(t)
    BY <1>1, <1>2, <1>3, <1>4, <1>5, <1>6 DEF CancelToken, Bit, Lives, Unused, Stage,
       Starting, Flags, Handled, PlaceInv, Handling
  <2>4. MainToken(t)' = MainToken(t)
    BY <1>1, <1>2, <1>3, <1>4, <1>5, <1>6 DEF MainToken, Bit, Lives, Unused, Stage,
       Starting, Flags, Handled, PlaceInv, Handling
  <2> QED
    BY <2>1, <2>2, <2>3, <2>4
<1>13. Once(t)'
  <2>1. Tokens(t)' = Tokens(t)
    BY <1>1, <1>2, <1>3, <1>4, <1>12, Terms DEF Tokens
  <2> QED
    BY <1>1, <1>2, <1>3, <1>4, <1>5, <1>6, <2>1 DEF Once, Stage, Flags, Lives, Unused
<1>14. Stage(t)'
  BY <1>1, <1>2, <1>3, <1>4, <1>5, <1>6 DEF Stage, Starting, Flags, Lives, Unused, PlaceInv
<1>15. Handled(t)'
  BY <1>1, <1>2, <1>3, <1>4, <1>5, <1>6 DEF Handled, Handling, Stage, Starting, Lives,
     Unused, PlaceInv
<1>16. Connected(t)'
  BY <1>1, <1>2, <1>3, <1>4, <1>5, <1>6 DEF Connected, Stage, Starting, Handled, Flags,
     Lives, Unused, PlaceInv
<1>17. Flags(t)'
  BY <1>1, <1>2, <1>3, <1>4, <1>5, <1>6 DEF Flags, Stage, Starting, Handled, Handling,
     Early, InFunction, IsCancelled, Lives, Unused, PlaceInv
<1>18. Read(t)'
  BY <1>1, <1>2, <1>3, <1>4, <1>5, <1>6 DEF Read, Stage, Flags, Starting, Early, InFunction,
     IsCancelled, Propagate, Lives, Unused, PlaceInv
<1> QED
  BY <1>a, <1>g, <1>h, <1>7, <1>8, <1>10, <1>13, <1>14, <1>15, <1>16, <1>17, <1>18 DEF Kept,
     TypesKept, TaskInv

\* It was disconnected meanwhile, and its reference is dropped.
LEMMA HandlerEndsDropsStep ==
  ASSUME IInv, NEW t \in Task, t = cancel.task, HandlerEnds, ~task[t].connected
  PROVE  Kept(t)
<1>1. /\ TypeOK /\ PlaceInv /\ TaskInv(t) /\ task[t] \in TaskRecord /\ None # t
      /\ task[t].refs \in Nat /\ task[t].idles \in Nat /\ task[t].calls \in Nat
  BY TaskAssumption DEF IInv, TypeOK, TaskRecord
<1>2. /\ Stage(t) /\ Handled(t) /\ Refs(t) /\ Once(t) /\ Connected(t) /\ Flags(t) /\ Read(t)
      /\ Lives(t)
  BY <1>1, FreedUnused DEF TaskInv
<1>3. /\ cancel.at = "end" /\ cancel.flag /\ t \in Cancellable
      /\ cancel.task = t /\ task[t].kind # "plain" /\ ~task[t].freed
      /\ ~task[t].connected /\ 1 \in Nat
  BY <1>1, <1>2 DEF HandlerEnds, PlaceInv, TypeOK, Stage, Handling, Lives, Unused, Handled
<1> DEFINE r0 == task[t]
<1>b. /\ r0 \in TaskRecord
      /\ r0.kind = task[t].kind
      /\ r0.refs = task[t].refs
      /\ r0.freed = task[t].freed
      /\ r0.cancelled = task[t].cancelled
      /\ r0.complete = task[t].complete
      /\ r0.onCancel = task[t].onCancel
      /\ r0.sure = task[t].sure
      /\ r0.connected = task[t].connected
      /\ r0.idles = task[t].idles
      /\ r0.calls = task[t].calls
      /\ r0.outcome = task[t].outcome
  BY <1>1, <1>3 DEF TaskRecord, InIdle
<1> DEFINE r == Dropped(r0, 1)
<1>c. task' = [task EXCEPT ![t] = r]
  BY <1>3 DEF HandlerEnds, Set
<1> HIDE DEF r0
<1>d. Loses(r0, r, 1)
  <2>1. task[t].refs >= 1 /\ 1 \in Nat
    <3>1. HandlerRef(t) = 1
      BY <1>3 DEF HandlerRef, Bit
    <3> QED
      BY <1>1, <1>2, <3>1, Terms DEF Refs
  <2> QED
    BY <1>b, <2>1, DroppedFacts
<1> HIDE DEF r
<1>e. r \in TaskRecord
  BY <1>d DEF Loses
<1>f. task'[t] = r
  BY <1>1, <1>c DEF TypeOK
<1>a. task' \in [Task -> TaskRecord] /\ \A u \in Task \ {t} : task'[u] = task[u]
  BY <1>1, <1>c, <1>e DEF TypeOK
<1>4. /\ task'[t].refs = task[t].refs - 1
      /\ task'[t].kind = task[t].kind
      /\ task'[t].connected = task[t].connected
      /\ task'[t].idles = task[t].idles
      /\ task'[t].calls = task[t].calls
      /\ task[t].refs # 1 =>
           /\ task'[t].freed = task[t].freed
           /\ task'[t].cancelled = task[t].cancelled
           /\ task'[t].complete = task[t].complete
           /\ task'[t].onCancel = task[t].onCancel
           /\ task'[t].sure = task[t].sure
           /\ task'[t].outcome = task[t].outcome
      /\ task[t].refs = 1 =>
           /\ task'[t].freed /\ ~task'[t].cancelled /\ ~task'[t].complete
           /\ ~task'[t].onCancel /\ task'[t].sure /\ task'[t].outcome = "none"
  BY <1>b, <1>d, <1>f DEF Loses
<1>5. /\ caller'[t] = caller[t]
      /\ worker'[t] = worker[t]
  BY <1>1, <1>3 DEF HandlerEnds, CallerAt, WorkerAt, TypeOK, CallerPlaces, WorkerPlaces
<1>g. /\ caller' \in [Task -> CallerPlaces] /\ worker' \in [Task -> WorkerPlaces]
      /\ \A u \in Task \ {t} : caller'[u] = caller[u] /\ worker'[u] = worker[u]
  BY <1>1, <1>3 DEF HandlerEnds, CallerAt, WorkerAt, TypeOK, CallerPlaces, WorkerPlaces
<1>6. /\ cancel'.flag = cancel.flag /\ cancel'.at = "emitting" /\ cancel'.task = None
      /\ main' = main
      /\ t \in pool'.queue <=> t \in pool.queue
  BY <1>1, <1>3 DEF HandlerEnds, CancelAt, TypeOK, CancelType, MainType, CancelPlaces
<1>h. /\ cancel' \in CancelType /\ main' \in MainType
      /\ pool'.queue = pool.queue
  BY <1>1, <1>3 DEF HandlerEnds, CancelAt, TypeOK, CancelType, MainType, CancelPlaces
<1>7. PlaceInv'
  BY <1>1, <1>3, <1>6, <1>h, TaskAssumption DEF PlaceInv, Handling, TypeOK
<1>8. \A u \in Task \ {t} : Frame(u)
  BY <1>1, <1>3, <1>a, <1>g, <1>6, <1>h, TaskAssumption DEF Frame, PlaceInv, Handling, TypeOK
<1>9. /\ CallerRef(t)' = CallerRef(t)
      /\ WorkerRef(t)' = WorkerRef(t)
      /\ HandlerRef(t) = 1 /\ HandlerRef(t)' = 0
      /\ MainRef(t)' = MainRef(t)
  <2>1. CallerRef(t)' = CallerRef(t)
    BY <1>1, <1>2, <1>3, <1>4, <1>5, <1>6 DEF CallerRef, Bit, Lives, Unused, Stage,
       Starting, Flags, Handled, PlaceInv, Handling
  <2>2. WorkerRef(t)' = WorkerRef(t)
    BY <1>1, <1>2, <1>3, <1>4, <1>5, <1>6 DEF WorkerRef, Bit, Lives, Unused, Stage,
       Starting, Flags, Handled, PlaceInv, Handling
  <2>3. HandlerRef(t) = 1 /\ HandlerRef(t)' = 0
    BY <1>1, <1>2, <1>3, <1>4, <1>5, <1>6 DEF HandlerRef, Bit, Lives, Unused, Stage,
       Starting, Flags, Handled, PlaceInv, Handling
  <2>4. MainRef(t)' = MainRef(t)
    BY <1>1, <1>2, <1>3, <1>4, <1>5, <1>6 DEF MainRef, Bit, Lives, Unused, Stage, Starting,
       Flags, Handled, PlaceInv, Handling
  <2> QED
    BY <2>1, <2>2, <2>3, <2>4
<1>10. Refs(t)'
  <2>1. task'[t].refs = CallerRef(t)' + WorkerRef(t)' + HandlerRef(t)' + 2 * task'[t].idles + MainRef(t)'
    <3>1. /\ task[t].refs = CallerRef(t) + WorkerRef(t) + HandlerRef(t) + 2 * task[t].idles + MainRef(t)
          /\ task[t].idles \in Nat
      BY <1>1, <1>2 DEF Refs
    <3>2. /\ CallerRef(t) \in {0, 1} /\ WorkerRef(t) \in {0, 1} /\ HandlerRef(t) \in {0, 1}
          /\ MainRef(t) \in 0 .. 2
      BY <1>1, Terms
    <3>3. task'[t].refs = task[t].refs - 1 /\ task'[t].idles = task[t].idles
      BY <1>4
    <3> QED
      BY <1>9, <3>1, <3>2, <3>3
  <2>2. task[t].refs >= 1 /\ 1 > 0 /\ caller[t] # "new" /\ ~task[t].freed
    <3>1. caller[t] # "new" /\ ~task[t].freed
      BY <1>2, <1>3 DEF Lives, Unused
    <3>2. HandlerRef(t) = 1
      BY <1>9
    <3>3. task[t].refs >= 1
      BY <1>1, <1>2, <3>2, Terms DEF Refs
    <3> QED
      BY <3>1, <3>3
  <2>3. task'[t].freed <=> task'[t].refs = 0
    <3>1. CASE task[t].refs = 1
      <4>1. task'[t].freed /\ task'[t].refs = task[t].refs - 1
        BY <1>4, <3>1
      <4> QED
        BY <3>1, <4>1
    <3>2. CASE task[t].refs # 1
      <4>1. task'[t].freed = task[t].freed /\ task'[t].refs = task[t].refs - 1
        BY <1>4, <3>2
      <4>2. task'[t].refs # 0
        BY <1>1, <3>2, <4>1
      <4> QED
        BY <2>2, <4>1, <4>2
    <3> QED
      BY <3>1, <3>2
  <2> QED
    BY <2>1, <2>3 DEF Refs
<1>11. task'[t].freed => Unused(t)'
  <2> SUFFICES ASSUME task'[t].freed PROVE Unused(t)'
    OBVIOUS
  <2>1. task'[t].refs = 0
    BY <1>3, <1>4, <1>5, <1>10, <1>2 DEF Refs, Stage, Lives, Unused
  <2>2. /\ CallerRef(t)' \in {0, 1} /\ WorkerRef(t)' \in {0, 1} /\ HandlerRef(t)' \in {0, 1}
        /\ MainRef(t)' \in 0 .. 2 /\ task'[t].idles \in Nat
    BY <1>1, <1>3, <1>4, <1>9, Terms
  <2>3. /\ CallerRef(t)' = 0 /\ WorkerRef(t)' = 0 /\ HandlerRef(t)' = 0 /\ MainRef(t)' = 0
        /\ task'[t].idles = 0
    BY <1>10, <2>1, <2>2, NoneLeft DEF Refs
  <2>4. caller'[t] \in {"new", "done"}
    BY <2>3 DEF CallerRef, Bit
  <2>5. worker'[t] \in {"none", "cleanup", "counted", "gone"}
    BY <2>3 DEF WorkerRef, Bit
  <2>6. ~task'[t].connected /\ cancel'.task # t
    BY <2>3 DEF HandlerRef, Bit
  <2>7. main'.task # t
    BY <1>7, <2>3 DEF MainRef, PlaceInv
  <2> QED
    BY <2>3, <2>4, <2>5, <2>6, <2>7 DEF Unused
<1>12. /\ CallerToken(t)' = CallerToken(t)
       /\ WorkerToken(t)' = WorkerToken(t)
       /\ CancelToken(t)' = CancelToken(t)
       /\ MainToken(t)' = MainToken(t)
  <2>1. CallerToken(t)' = CallerToken(t)
    BY <1>1, <1>2, <1>3, <1>4, <1>5, <1>6, <1>11 DEF CallerToken, Bit, Lives, Unused, Stage,
       Starting, Flags, Handled, PlaceInv, Handling
  <2>2. WorkerToken(t)' = WorkerToken(t)
    BY <1>1, <1>2, <1>3, <1>4, <1>5, <1>6, <1>11 DEF WorkerToken, Bit, Lives, Unused, Stage,
       Starting, Flags, Handled, PlaceInv, Handling
  <2>3. CancelToken(t)' = CancelToken(t)
    BY <1>1, <1>2, <1>3, <1>4, <1>5, <1>6, <1>11 DEF CancelToken, Bit, Lives, Unused, Stage,
       Starting, Flags, Handled, PlaceInv, Handling
  <2>4. MainToken(t)' = MainToken(t)
    BY <1>1, <1>2, <1>3, <1>4, <1>5, <1>6, <1>11 DEF MainToken, Bit, Lives, Unused, Stage,
       Starting, Flags, Handled, PlaceInv, Handling
  <2> QED
    BY <2>1, <2>2, <2>3, <2>4
<1>13. Once(t)'
  <2>1. Tokens(t)' = Tokens(t)
    BY <1>1, <1>2, <1>3, <1>4, <1>12, Terms DEF Tokens
  <2> QED
    BY <1>1, <1>2, <1>3, <1>4, <1>5, <1>6, <1>11, <2>1 DEF Once, Stage, Flags, Lives, Unused
<1>14. Stage(t)'
  <2>1. CASE task[t].refs = 1
    <3>1. /\ task'[t].freed /\ ~task'[t].cancelled /\ ~task'[t].complete
          /\ ~task'[t].onCancel /\ Unused(t)'
      BY <1>4, <1>11, <2>1
    <3> QED
      BY <1>2, <1>3, <1>4, <1>5, <1>6, <2>1, <3>1 DEF Stage, Starting, Flags, Lives, Unused
  <2>2. CASE task[t].refs # 1
    BY <1>1, <1>2, <1>3, <1>4, <1>5, <1>6, <1>11, <2>2 DEF Stage, Starting, Flags, Lives, Unused, PlaceInv
  <2> QED
    BY <2>1, <2>2
<1>15. Handled(t)'
  BY <1>1, <1>2, <1>3, <1>4, <1>5, <1>6, <1>11 DEF Handled, Handling, Stage, Starting,
     Lives, Unused, PlaceInv
<1>16. Connected(t)'
  <2>1. CASE task[t].refs = 1
    <3>1. /\ task'[t].freed /\ ~task'[t].cancelled /\ ~task'[t].complete
          /\ ~task'[t].onCancel /\ Unused(t)'
      BY <1>4, <1>11, <2>1
    <3> QED
      BY <3>1 DEF Connected, Unused
  <2>2. CASE task[t].refs # 1
    BY <1>1, <1>2, <1>3, <1>4, <1>5, <1>6, <1>11, <2>2 DEF Connected, Stage, Starting, Handled, Flags, Lives, Unused, PlaceInv
  <2> QED
    BY <2>1, <2>2
<1>17. Flags(t)'
  <2>1. CASE task[t].refs = 1
    <3>1. /\ task'[t].freed /\ ~task'[t].cancelled /\ ~task'[t].complete
          /\ ~task'[t].onCancel /\ Unused(t)'
      BY <1>4, <1>11, <2>1
    <3> QED
      BY <3>1 DEF Flags, Unused
  <2>2. CASE task[t].refs # 1
    BY <1>1, <1>2, <1>3, <1>4, <1>5, <1>6, <1>11, <2>2 DEF Flags, Stage, Starting, Handled, Handling, Early, InFunction,
       IsCancelled, Lives, Unused, PlaceInv
  <2> QED
    BY <2>1, <2>2
<1>18. Read(t)'
  BY <1>1, <1>2, <1>3, <1>4, <1>5, <1>6, <1>11 DEF Read, Stage, Flags, Starting, Early,
     InFunction, IsCancelled, Propagate, Lives, Unused, PlaceInv
<1> QED
  BY <1>a, <1>g, <1>h, <1>7, <1>8, <1>10, <1>13, <1>14, <1>15, <1>16, <1>17, <1>18 DEF Kept,
     TypesKept, TaskInv

--------------------------------------------------------------------------------
PoolType == [queue : SUBSET Task, running : 0 .. Cardinality(Task),
             max : 1 .. Cardinality(Task) + PoolSize, armed : BOOLEAN,
             pending : 0 .. Cardinality(Task)]
PoolInv == pool \in PoolType /\ RunningInv
Working(w) == {u \in Task : w[u] \in Counted}
\* The threads that are counted are the same after a step.
CountSame == \A u \in Task : worker'[u] \in Counted <=> worker[u] \in Counted

LEMMA Sizes ==
  /\ Cardinality(Task) \in Nat
  /\ \A S \in SUBSET Task : IsFiniteSet(S) /\ Cardinality(S) \in 0 .. Cardinality(Task)
<1>1. IsFiniteSet(Task) /\ Cardinality(Task) \in Nat
  BY TaskAssumption, FS_CardinalityType
<1>2. ASSUME NEW S \in SUBSET Task
      PROVE  IsFiniteSet(S) /\ Cardinality(S) \in 0 .. Cardinality(Task)
  <2>1. IsFiniteSet(S) /\ Cardinality(S) <= Cardinality(Task)
    BY <1>1, FS_Subset
  <2>2. Cardinality(S) \in Nat
    BY <2>1, FS_CardinalityType
  <2> QED
    BY <1>1, <2>1, <2>2
<1> QED
  BY <1>1, <1>2

LEMMA CountKept ==
  ASSUME IInv, CountSame, pool'.running = pool.running
  PROVE  RunningInv'
<1>1. Working(worker)' = Working(worker)
  BY DEF Working, CountSame
<1> QED
  BY <1>1 DEF RunningInv, Working, IInv

\* What a step needs to keep the whole invariant.
LEMMA KeptAll ==
  ASSUME IInv, NEW t \in Task, Kept(t), PoolInv'
  PROVE  IInv'
<1>1. \A u \in Task : TaskInv(u)'
  <2> TAKE u \in Task
  <2>1. CASE u = t
    BY <2>1 DEF Kept
  <2>2. CASE u # t
    BY <2>2, FrameKeeps DEF Kept, IInv
  <2> QED
    BY <2>1, <2>2
<1>2. TypeOK'
  BY DEF Kept, TypesKept, PoolInv, PoolType, TypeOK, CancelType, MainType
<1> QED
  BY <1>1, <1>2 DEF IInv, Kept, TypesKept, PoolInv

\* The pool in the steps that leave it alone.
LEMMA PoolIdle ==
  ASSUME IInv, CountSame, pool' = pool
  PROVE  PoolInv'
<1>1. pool \in PoolType
  BY DEF IInv, TypeOK, PoolType
<1> QED
  BY <1>1, CountKept DEF PoolInv

LEMMA PoolQueue ==
  ASSUME IInv, CountSame, NEW q \in SUBSET Task, pool' = [pool EXCEPT !.queue = q]
  PROVE  PoolInv'
<1>1. pool \in PoolType
  BY DEF IInv, TypeOK, PoolType
<1>2. pool' \in PoolType /\ pool'.running = pool.running
  BY <1>1 DEF PoolType
<1> QED
  BY <1>2, CountKept DEF PoolInv

\* g_task_thread_setup counts one thread more.
LEMMA PoolSetup ==
  ASSUME IInv, NEW t \in Task, Setup(t)
  PROVE  PoolInv'
<1>1. pool \in PoolType /\ worker[t] = "popped" /\ worker \in [Task -> WorkerPlaces]
  BY DEF IInv, TypeOK, PoolType, Setup
<1>2. worker' = [worker EXCEPT ![t] = "running"]
  BY DEF Setup, WorkerAt
<1>3. Working(worker)' = Working(worker) \cup {t} /\ t \notin Working(worker)
  BY <1>1, <1>2 DEF Working, Counted, InFunction
<1>4. Cardinality(Working(worker)') = Cardinality(Working(worker)) + 1
  <2>1. IsFiniteSet(Working(worker))
    BY Sizes DEF Working
  <2> QED
    BY <1>3, <2>1, FS_AddElement
<1>5. Cardinality(Working(worker)') \in 0 .. Cardinality(Task)
  BY Sizes DEF Working
<1>6. pool.running = Cardinality(Working(worker))
  BY DEF IInv, RunningInv, Working
<1>7. pool.running + 1 \in 0 .. Cardinality(Task)
  BY <1>4, <1>5, <1>6
<1> DEFINE b == pool.armed \/ pool.running + 1 >= PoolSize
<1>8. b \in BOOLEAN
  BY <1>1 DEF PoolType
<1>9. pool' = [pool EXCEPT !.running = pool.running + 1, !.armed = b]
  BY DEF Setup
<1> HIDE DEF b
<1>10. pool' \in PoolType /\ pool'.running = pool.running + 1
  BY <1>1, <1>7, <1>8, <1>9 DEF PoolType
<1> QED
  BY <1>4, <1>6, <1>10 DEF PoolInv, RunningInv, Working

\* The pool's limit is never more than the threads that there can be.
LEMMA Limit ==
  ASSUME NEW n \in 0 .. Cardinality(Task)
  PROVE  n + 1 \in 1 .. Cardinality(Task) + PoolSize /\ PoolSize \in 1 .. Cardinality(Task) + PoolSize
  BY Sizes, TaskAssumption

LEMMA PoolCounts ==
  ASSUME IInv, NEW t \in Task, CleanupCounts(t)
  PROVE  PoolInv'
<1>1. pool \in PoolType /\ worker[t] = "cleanup" /\ worker \in [Task -> WorkerPlaces]
  BY DEF IInv, TypeOK, PoolType, CleanupCounts
<1>2. worker' = [worker EXCEPT ![t] = "counted"]
  BY DEF CleanupCounts, WorkerAt
<1>3. CountSame
  BY <1>1, <1>2 DEF CountSame, Counted
<1>4. Cardinality(pool.queue) \in 0 .. Cardinality(Task)
  BY <1>1, Sizes DEF PoolType
<1>5. pool' \in PoolType /\ pool'.running = pool.running
  BY <1>1, <1>4 DEF PoolType, CleanupCounts
<1> QED
  BY <1>3, <1>5, CountKept DEF PoolInv

LEMMA PoolCleanup ==
  ASSUME IInv, NEW t \in Task, Cleanup(t)
  PROVE  PoolInv'
<1>1. pool \in PoolType /\ worker[t] = "counted" /\ worker \in [Task -> WorkerPlaces]
  BY DEF IInv, TypeOK, PoolType, Cleanup
<1>2. worker' = [worker EXCEPT ![t] = "gone"]
  BY DEF Cleanup, WorkerAt
<1>3. Working(worker)' = Working(worker) \ {t} /\ t \in Working(worker)
  BY <1>1, <1>2 DEF Working, Counted, InFunction
<1>4. Cardinality(Working(worker)') = Cardinality(Working(worker)) - 1
  <2>1. IsFiniteSet(Working(worker))
    BY Sizes DEF Working
  <2> QED
    BY <1>3, <2>1, FS_RemoveElement
<1>5. Cardinality(Working(worker)') \in 0 .. Cardinality(Task)
  BY Sizes DEF Working
<1>6. pool.running = Cardinality(Working(worker))
  BY DEF IInv, RunningInv, Working
<1> DEFINE left == pool.running - 1
           max == IF left + 1 > PoolSize THEN left + 1 ELSE PoolSize
           b == pool.armed /\ left + pool.pending >= PoolSize
<1>7. left \in 0 .. Cardinality(Task) /\ 0 \in 0 .. Cardinality(Task)
  BY <1>4, <1>5, <1>6, Sizes
<1>8. b \in BOOLEAN
  BY <1>1 DEF PoolType
<1>9. pool' = [pool EXCEPT !.running = left, !.pending = 0, !.max = max, !.armed = b]
  BY DEF Cleanup
<1>10. left = Cardinality(Working(worker)')
  BY <1>4, <1>6
<1> HIDE DEF b, left
<1>11. max \in 1 .. Cardinality(Task) + PoolSize
  BY <1>7, Limit
<1> HIDE DEF max
<1>12. pool' \in PoolType /\ pool'.running = left
  BY <1>1, <1>7, <1>8, <1>9, <1>11 DEF PoolType
<1> QED
  BY <1>10, <1>12 DEF PoolInv, RunningInv, Working

\* The steps of the thread that cancels which are not about a task, and the manager.
LEMMA CancelKeeps ==
  ASSUME IInv, Cancel \/ EmissionStarts \/ EmissionEnds
  PROVE  TypesKept /\ \A u \in Task : Frame(u)
<1>1. /\ cancel \in CancelType /\ PlaceInv
      /\ task' = task /\ caller' = caller /\ worker' = worker /\ pool' = pool /\ main' = main
  BY DEF IInv, TypeOK, CancelType, Cancel, EmissionStarts, EmissionEnds
<1>2. cancel.at \notin Handling
  BY <1>1 DEF Cancel, EmissionStarts, EmissionEnds, PlaceInv, Handling
<1>3. cancel'.task = cancel.task /\ cancel' \in CancelType /\ cancel'.at \notin Handling
  <2>1. CASE Cancel
    BY <1>1, <2>1 DEF Cancel, CancelType, CancelPlaces, Handling
  <2>2. CASE EmissionStarts
    BY <1>1, <2>2 DEF EmissionStarts, CancelType, CancelPlaces, Handling
  <2>3. CASE EmissionEnds
    BY <1>1, <2>3 DEF EmissionEnds, CancelAt, CancelType, CancelPlaces, Handling
  <2> QED
    BY <2>1, <2>2, <2>3
<1>f. cancel'.flag /\ cancel.task \notin Task
  <2>1. cancel.task \notin Task
    BY <1>1, <1>2 DEF PlaceInv
  <2>2. CASE Cancel
    BY <1>1, <2>1, <2>2 DEF Cancel, CancelType
  <2>3. CASE EmissionStarts
    BY <1>1, <2>1, <2>3 DEF EmissionStarts, CancelType, PlaceInv
  <2>4. CASE EmissionEnds
    BY <1>1, <2>1, <2>4 DEF EmissionEnds, CancelAt, CancelType, PlaceInv
  <2> QED
    BY <2>2, <2>3, <2>4
<1>4. PlaceInv'
  BY <1>1, <1>3, <1>f DEF PlaceInv
<1>5. \A u \in Task : Frame(u)
  BY <1>1, <1>3, <1>f DEF Frame
<1> QED
  BY <1>1, <1>3, <1>4, <1>5 DEF TypesKept, IInv, TypeOK, MainType

LEMMA ManagerKeeps ==
  ASSUME IInv, ManagerTimeout
  PROVE  TypesKept /\ (\A u \in Task : Frame(u)) /\ PoolInv'
<1>1. /\ pool \in PoolType
      /\ task' = task /\ caller' = caller /\ worker' = worker /\ cancel' = cancel /\ main' = main
  BY DEF IInv, TypeOK, PoolType, ManagerTimeout
<1>2. pool.running + 1 \in 1 .. Cardinality(Task) + PoolSize
  BY <1>1, Limit DEF PoolType
<1>3. pool' \in PoolType /\ pool'.running = pool.running /\ pool'.queue = pool.queue
  BY <1>1, <1>2 DEF PoolType, ManagerTimeout
<1>4. PlaceInv' /\ CountSame
  BY <1>1 DEF PlaceInv, IInv, CountSame
<1>5. \A u \in Task : Frame(u)
  BY <1>1, <1>3 DEF Frame
<1> QED
  BY <1>1, <1>3, <1>4, <1>5, CountKept DEF TypesKept, IInv, TypeOK, MainType, CancelType, PoolInv

\* A step that works on no task keeps the invariant.
LEMMA NoneKept ==
  ASSUME IInv, TypesKept, \A u \in Task : Frame(u), PoolInv'
  PROVE  IInv'
<1>1. \A u \in Task : TaskInv(u)'
  BY FrameKeeps DEF IInv
<1>2. TypeOK'
  BY DEF TypesKept, PoolInv, PoolType, TypeOK, CancelType, MainType
<1> QED
  BY <1>1, <1>2 DEF IInv, TypesKept, PoolInv

LEMMA InitIInv == Init => IInv
<1> SUFFICES ASSUME Init PROVE IInv
  OBVIOUS
<1>1. PICK k \in [Task -> Kind], b \in [Task -> Task \cup {Main}] :
        task = [t \in Task |->
            [kind |-> k[t], by |-> b[t], refs |-> 0, freed |-> FALSE, cancelled |-> FALSE,
             complete |-> FALSE, onCancel |-> FALSE, sure |-> TRUE, returned |-> FALSE,
             connected |-> FALSE, idles |-> 0, calls |-> 0, outcome |-> "none"]]
  BY DEF Init
<1>2. task \in [Task -> TaskRecord]
  <2>1. \A t \in Task : k[t] \in Kind /\ b[t] \in Task \cup {Main}
    OBVIOUS
  <2> QED
    BY <1>1, <2>1 DEF TaskRecord
<1>3. /\ caller \in [Task -> CallerPlaces] /\ worker \in [Task -> WorkerPlaces]
      /\ \A t \in Task : caller[t] = "new" /\ worker[t] = "none"
  BY DEF Init, CallerPlaces, WorkerPlaces
<1>4. cancel \in CancelType /\ main \in MainType
  BY DEF Init, CancelType, MainType, CancelPlaces
<1>5. PlaceInv
  BY TaskAssumption DEF Init, PlaceInv, Handling
<1>6. /\ cancel.task = None /\ main.task = None /\ main.at = "loop" /\ pool.queue = {}
      /\ pool.running = 0
  BY DEF Init
<1>7. PoolInv
  <2>1. PoolSize \in 1 .. Cardinality(Task) + PoolSize /\ 0 \in 0 .. Cardinality(Task)
    BY Sizes, TaskAssumption
  <2>2. pool \in PoolType
    BY <2>1 DEF Init, PoolType
  <2>3. {t \in Task : worker[t] \in Counted} = {}
    BY <1>3 DEF Counted, InFunction
  <2> QED
    BY <1>6, <2>2, <2>3, FS_EmptySet DEF PoolInv, RunningInv
<1>8. ASSUME NEW t \in Task PROVE TaskInv(t)
  <2>1. /\ task[t].refs = 0 /\ ~task[t].freed /\ ~task[t].cancelled /\ ~task[t].complete
        /\ ~task[t].onCancel /\ task[t].sure /\ ~task[t].connected /\ task[t].idles = 0
        /\ task[t].calls = 0 /\ task[t].outcome = "none"
    BY <1>1
  <2>2. caller[t] = "new" /\ worker[t] = "none" /\ cancel.task # t /\ main.task # t
    BY <1>3, <1>6, TaskAssumption
  <2>3. Stage(t)
    BY <1>6, <2>1, <2>2 DEF Stage, Starting
  <2>4. Refs(t)
    <3>1. CallerRef(t) = 0 /\ WorkerRef(t) = 0 /\ HandlerRef(t) = 0 /\ MainRef(t) = 0
      BY <2>1, <2>2 DEF CallerRef, WorkerRef, HandlerRef, MainRef, Bit
    <3> QED
      BY <2>1, <2>2, <3>1 DEF Refs
  <2>5. Once(t)
    <3>1. CallerToken(t) = 0 /\ WorkerToken(t) = 0 /\ CancelToken(t) = 0 /\ MainToken(t) = 0
      BY <2>1, <2>2 DEF CallerToken, WorkerToken, CancelToken, MainToken, Bit
    <3>2. Tokens(t) = 0
      BY <2>1, <3>1 DEF Tokens
    <3>3. Tokens(t) <= 1
      BY <3>2
    <3> QED
      BY <3>2, <3>3 DEF Once
  <2>6. Handled(t) /\ Connected(t) /\ Flags(t) /\ Read(t)
    BY <2>1, <2>2 DEF Handled, Connected, Flags, Read
  <2> QED
    BY <2>3, <2>4, <2>5, <2>6 DEF TaskInv
<1> QED
  BY <1>2, <1>3, <1>4, <1>5, <1>7, <1>8 DEF IInv, TypeOK, PoolInv, PoolType, CancelType, MainType

LEMMA NextIInv == IInv /\ [Next]_vars => IInv'
<1> SUFFICES ASSUME IInv, [Next]_vars PROVE IInv'
  OBVIOUS
<1>1. CASE UNCHANGED vars
  <2>1. /\ task' = task /\ caller' = caller /\ worker' = worker /\ cancel' = cancel
        /\ pool' = pool /\ main' = main
    BY <1>1 DEF vars
  <2>2. TypesKept
    BY <2>1 DEF TypesKept, IInv, TypeOK, CancelType, MainType, PlaceInv
  <2>3. \A u \in Task : Frame(u)
    BY <2>1 DEF Frame
  <2>4. PoolInv'
    BY <2>1, PoolIdle DEF CountSame
  <2> QED
    BY <2>2, <2>3, <2>4, NoneKept
<1>2. ASSUME NEW t \in Task, CallerStep(t) \/ WorkerStep(t) \/ SpuriousWakeup(t) \/ Returning(t)
              \/ (\E b \in BOOLEAN : New(t, b) \/ SetOnCancel(t, b))
              \/ HandlerCalled(t) \/ Dispatch(t)
      PROVE  IInv'
  <2>w. worker \in [Task -> WorkerPlaces] /\ TaskInv(t)
    BY DEF IInv, TypeOK
  <2>1. CASE Check(t)
    <3>1. Kept(t)
      BY <2>1, CheckStep
    <3>2. PoolInv'
      BY <2>1, PoolIdle DEF Check, CountSame
    <3> QED
      BY <3>1, <3>2, KeptAll
  <2>2. CASE Connect(t)
    <3>1. Kept(t)
      BY <2>2, ConnectStep
    <3>2. PoolInv'
      BY <2>2, PoolIdle DEF Connect, CountSame
    <3> QED
      BY <3>1, <3>2, KeptAll
  <2>3. CASE Return(t)
    <3>1. Kept(t)
      BY <2>3, ReturnStep
    <3>2. PoolInv'
      BY <2>3, PoolIdle DEF Return, CountSame
    <3> QED
      BY <3>1, <3>2, KeptAll
  <2>4. CASE Wait(t)
    <3>1. Kept(t)
      BY <2>4, WaitStep
    <3>2. PoolInv'
      BY <2>4, PoolIdle DEF Wait, CountSame
    <3> QED
      BY <3>1, <3>2, KeptAll
  <2>5. CASE SyncCompleted(t)
    <3>1. Kept(t)
      BY <2>5, SyncCompletedStep
    <3>2. PoolInv'
      BY <2>5, PoolIdle DEF SyncCompleted, CountSame
    <3> QED
      BY <3>1, <3>2, KeptAll
  <2>6. CASE SpuriousWakeup(t)
    <3>1. Kept(t)
      BY <2>6, SpuriousWakeupStep
    <3>2. PoolInv'
      BY <2>6, PoolIdle DEF SpuriousWakeup, CountSame
    <3> QED
      BY <3>1, <3>2, KeptAll
  <2>7. CASE Push(t)
    <3>1. Kept(t)
      BY <2>7, PushStep
    <3>2. PoolInv'
      <4>1. CountSame
        BY <2>7, <2>w DEF Push, CountSame, Counted, InFunction, WorkerAt, TaskInv, Stage, Starting
      <4>2. pool' = [pool EXCEPT !.queue = pool.queue \cup {t}] /\ pool.queue \cup {t} \in SUBSET Task
        BY <2>7 DEF Push, IInv, TypeOK
      <4> QED
        BY <4>1, <4>2, PoolQueue
    <3> QED
      BY <3>1, <3>2, KeptAll
  <2>8. CASE Pop(t)
    <3>1. Kept(t)
      BY <2>8, PopStep
    <3>2. PoolInv'
      <4>1. CountSame
        BY <2>8, <2>w DEF Pop, CountSame, Counted, InFunction, WorkerAt, TaskInv, Stage, Starting
      <4>2. pool' = [pool EXCEPT !.queue = pool.queue \ {t}] /\ pool.queue \ {t} \in SUBSET Task
        BY <2>8 DEF Pop, IInv, TypeOK
      <4> QED
        BY <4>1, <4>2, PoolQueue
    <3> QED
      BY <3>1, <3>2, KeptAll
  <2>9. CASE OperationReturns(t)
    <3>1. Kept(t)
      BY <2>9, OperationAtOnceStep, OperationInIdleStep DEF OperationReturns
    <3>2. PoolInv'
      <4>1. CountSame /\ pool' = pool
        BY <2>9, <2>w DEF OperationReturns, CountSame, Counted, InFunction, WorkerAt
      <4> QED
        BY <4>1, PoolIdle
    <3> QED
      BY <3>1, <3>2, KeptAll
  <2>10. CASE Setup(t)
    <3>1. Kept(t)
      BY <2>10, SetupStep
    <3>2. PoolInv'
      BY <2>10, PoolSetup
    <3> QED
      BY <3>1, <3>2, KeptAll
  <2>11. CASE Returned(t)
    <3>1. Kept(t)
      BY <2>11, ReturnedStep
    <3>2. PoolInv'
      <4>1. CountSame /\ pool' = pool
        BY <2>11, <2>w DEF Returned, CountSame, Counted, InFunction, WorkerAt
      <4> QED
        BY <4>1, PoolIdle
    <3> QED
      BY <3>1, <3>2, KeptAll
  <2>12. CASE Returning(t)
    <3>1. Kept(t)
      BY <2>12, ReturningStep
    <3>2. PoolInv'
      <4>1. CountSame /\ pool' = pool
        BY <2>12, <2>w DEF Returning, CountSame, Counted, InFunction, WorkerAt
      <4> QED
        BY <4>1, PoolIdle
    <3> QED
      BY <3>1, <3>2, KeptAll
  <2>13. CASE FunctionEnds(t)
    <3>1. Kept(t)
      BY <2>13, FunctionEndsStep
    <3>2. PoolInv'
      <4>1. CountSame /\ pool' = pool
        BY <2>13, <2>w DEF FunctionEnds, CountSame, Counted, InFunction, WorkerAt
      <4> QED
        BY <4>1, PoolIdle
    <3> QED
      BY <3>1, <3>2, KeptAll
  <2>14. CASE Complete(t)
    <3>1. Kept(t)
      BY <2>14, CompleteStep
    <3>2. PoolInv'
      <4>1. CountSame /\ pool' = pool
        BY <2>14, <2>w DEF Complete, First, CountSame, Counted, InFunction, WorkerAt
      <4> QED
        BY <4>1, PoolIdle
    <3> QED
      BY <3>1, <3>2, KeptAll
  <2>15. CASE Finish(t)
    <3>1. Kept(t)
      BY <2>15, FinishDropsStep, FinishKeepsStep
    <3>2. PoolInv'
      <4>1. CountSame /\ pool' = pool
        BY <2>15, <2>w DEF Finish, CountSame, Counted, InFunction, WorkerAt
      <4> QED
        BY <4>1, PoolIdle
    <3> QED
      BY <3>1, <3>2, KeptAll
  <2>16. CASE Notified(t)
    <3>1. Kept(t)
      BY <2>16, NotifiedSyncStep, NotifiedAsyncStep
    <3>2. PoolInv'
      <4>1. CountSame /\ pool' = pool
        BY <2>16, <2>w DEF Notified, CountSame, Counted, InFunction, WorkerAt
      <4> QED
        BY <4>1, PoolIdle
    <3> QED
      BY <3>1, <3>2, KeptAll
  <2>17. CASE Unref(t)
    <3>1. Kept(t)
      BY <2>17, UnrefStep
    <3>2. PoolInv'
      <4>1. CountSame /\ pool' = pool
        BY <2>17, <2>w DEF Unref, CountSame, Counted, InFunction, WorkerAt
      <4> QED
        BY <4>1, PoolIdle
    <3> QED
      BY <3>1, <3>2, KeptAll
  <2>18. CASE CleanupCounts(t)
    <3>1. Kept(t)
      BY <2>18, CleanupCountsStep
    <3>2. PoolInv'
      BY <2>18, PoolCounts
    <3> QED
      BY <3>1, <3>2, KeptAll
  <2>19. CASE Cleanup(t)
    <3>1. Kept(t)
      BY <2>19, CleanupStep
    <3>2. PoolInv'
      BY <2>19, PoolCleanup
    <3> QED
      BY <3>1, <3>2, KeptAll
  <2>20. CASE HandlerCalled(t)
    <3>1. Kept(t)
      BY <2>20, HandlerCalledStep, HandlerPassedStep
    <3>2. PoolInv'
      BY <2>20, PoolIdle DEF HandlerCalled, CountSame
    <3> QED
      BY <3>1, <3>2, KeptAll
  <2>21. CASE Dispatch(t)
    <3>1. Kept(t)
      BY <2>21, DispatchStep
    <3>2. PoolInv'
      BY <2>21, PoolIdle DEF Dispatch, CountSame
    <3> QED
      BY <3>1, <3>2, KeptAll
  <2>22. ASSUME NEW b \in BOOLEAN, New(t, b) PROVE IInv'
    <3>1. Kept(t)
      BY <2>22, NewStep
    <3>2. PoolInv'
      <4>1. CountSame /\ pool' = pool
        BY <2>22, <2>w DEF New, CountSame, Counted, InFunction, WorkerAt, TaskInv, Stage, Starting
      <4> QED
        BY <4>1, PoolIdle
    <3> QED
      BY <3>1, <3>2, KeptAll
  <2>23. ASSUME NEW b \in BOOLEAN, SetOnCancel(t, b) PROVE IInv'
    <3>1. Kept(t)
      BY <2>23, SetRefusedStep, SetGrantedStep
    <3>2. PoolInv'
      <4>1. CountSame /\ pool' = pool
        BY <2>23, <2>w DEF SetOnCancel, CountSame, Counted, InFunction, WorkerAt, TaskInv, Stage, Starting
      <4> QED
        BY <4>1, PoolIdle
    <3> QED
      BY <3>1, <3>2, KeptAll
  <2> QED
    BY <1>2, <2>1, <2>2, <2>3, <2>4, <2>5, <2>6, <2>7, <2>8, <2>9, <2>10, <2>11, <2>12,
       <2>13, <2>14, <2>15, <2>16, <2>17, <2>18, <2>19, <2>20, <2>21, <2>22, <2>23 DEF
       CallerStep, WorkerStep
<1>3. CASE Callback
  <2>1. main.task \in Task
    BY <1>3 DEF Callback, IInv, PlaceInv, Handling
  <2>2. Kept(main.task)
    BY <1>3, <2>1, CallbackStep
  <2>3. PoolInv'
    BY <1>3, PoolIdle DEF Callback, CountSame
  <2> QED
    BY <2>1, <2>2, <2>3, KeptAll
<1>4. CASE Completed
  <2>1. main.task \in Task
    BY <1>4 DEF Completed, IInv, PlaceInv, Handling
  <2>2. Kept(main.task)
    BY <1>4, <2>1, CompletedStep
  <2>3. PoolInv'
    BY <1>4, PoolIdle DEF Completed, CountSame
  <2> QED
    BY <2>1, <2>2, <2>3, KeptAll
<1>5. CASE Handler
  <2>1. cancel.task \in Task
    BY <1>5 DEF Handler, IInv, PlaceInv, Handling
  <2>2. Kept(cancel.task)
    BY <1>5, <2>1, HandlerStep
  <2>3. PoolInv'
    BY <1>5, PoolIdle DEF Handler, CountSame
  <2> QED
    BY <2>1, <2>2, <2>3, KeptAll
<1>6. CASE HandlerCompletes
  <2>1. cancel.task \in Task
    BY <1>6 DEF HandlerCompletes, IInv, PlaceInv, Handling
  <2>2. Kept(cancel.task)
    BY <1>6, <2>1, HandlerCompletesStep
  <2>3. PoolInv'
    BY <1>6, PoolIdle DEF HandlerCompletes, CountSame
  <2> QED
    BY <2>1, <2>2, <2>3, KeptAll
<1>7. CASE HandlerFinishes
  <2>1. cancel.task \in Task
    BY <1>7 DEF HandlerFinishes, IInv, PlaceInv, Handling
  <2>2. Kept(cancel.task)
    BY <1>7, <2>1, HandlerFinishesStep
  <2>3. PoolInv'
    BY <1>7, PoolIdle DEF HandlerFinishes, CountSame
  <2> QED
    BY <2>1, <2>2, <2>3, KeptAll
<1>8. CASE HandlerNotifies
  <2>1. cancel.task \in Task
    BY <1>8 DEF HandlerNotifies, IInv, PlaceInv, Handling
  <2>2. Kept(cancel.task)
    BY <1>8, <2>1, HandlerNotifiesSyncStep, HandlerNotifiesAsyncStep
  <2>3. PoolInv'
    BY <1>8, PoolIdle DEF HandlerNotifies, CountSame
  <2> QED
    BY <2>1, <2>2, <2>3, KeptAll
<1>9. CASE HandlerEnds
  <2>1. cancel.task \in Task
    BY <1>9 DEF HandlerEnds, IInv, PlaceInv, Handling
  <2>2. Kept(cancel.task)
    BY <1>9, <2>1, HandlerEndsKeptStep, HandlerEndsDropsStep
  <2>3. PoolInv'
    BY <1>9, PoolIdle DEF HandlerEnds, CountSame
  <2> QED
    BY <2>1, <2>2, <2>3, KeptAll
<1>10. CASE Cancel \/ EmissionStarts \/ EmissionEnds
  <2>1. TypesKept /\ \A u \in Task : Frame(u)
    BY <1>10, CancelKeeps
  <2>2. PoolInv'
    BY <1>10, PoolIdle DEF Cancel, EmissionStarts, EmissionEnds, CountSame
  <2> QED
    BY <2>1, <2>2, NoneKept
<1>11. CASE ManagerTimeout
  BY <1>11, ManagerKeeps, NoneKept
<1> QED
  BY <1>1, <1>2, <1>3, <1>4, <1>5, <1>6, <1>7, <1>8, <1>9, <1>10, <1>11
     DEF Next, CancelStep, MainStep

THEOREM Inductive == Spec => []IInv
  BY InitIInv, NextIInv, PTL DEF Spec

--------------------------------------------------------------------------------
LEMMA TokensBound ==
  ASSUME IInv, NEW t \in Task
  PROVE  task[t].calls + task[t].idles + MainToken(t) <= 1
<1>1. TypeOK /\ PlaceInv /\ Once(t) /\ task[t].calls \in Nat /\ task[t].idles \in Nat
  BY DEF IInv, TaskInv, TypeOK, TaskRecord
<1> QED
  BY <1>1, Terms DEF Once, Tokens

\* However the end of the function, a cancellation and a change of return-on-cancel race,
\* a task completes once: its callback is called once and never for a task that is run
\* synchronously, and a cancellation that the handler has heard completes a task that is
\* to return on it (g_task_thread_complete and its three callers).
THEOREM CompletionSafe == Spec => []CompletesRight
<1>1. IInv => CompletesRight
  <2> SUFFICES ASSUME IInv PROVE CompletesRight
    OBVIOUS
  <2>1. CompletesOnce
    <3> SUFFICES ASSUME NEW t \in Task
                 PROVE  /\ task[t].calls + task[t].idles
                             + (IF main.at = "callback" /\ main.task = t THEN 1 ELSE 0) <= 1
                        /\ task[t].kind = "sync" => task[t].calls + task[t].idles = 0
      BY DEF CompletesOnce
    <3>1. task[t].calls + task[t].idles + MainToken(t) <= 1
      BY TokensBound
    <3>2. task[t].kind = "sync" => task[t].calls = 0 /\ task[t].idles = 0
      BY DEF IInv, TaskInv, Stage
    <3>3. task[t].kind = "sync" => task[t].calls + task[t].idles = 0
      BY <3>2
    <3> QED
      BY <3>1, <3>3 DEF MainToken, Bit
  <2>2. CancelledReturns
    BY DEF CancelledReturns, IInv, TaskInv, Flags
  <2> QED
    BY <2>1, <2>2 DEF CompletesRight
<1> QED
  BY <1>1, Inductive, PTL

\* A function and the thread that completes its task, which share the result and the flags
\* without a lock, never meet at the result, and at the flags only after a cancellation has
\* completed the task under a function that allowed it; one that has set return-on-cancel
\* to FALSE is not overtaken by a cancellation (g_task_set_return_on_cancel).
THEOREM FunctionSafe == Spec => []FunctionUndisturbed
<1>1. IInv => FunctionUndisturbed
  <2> SUFFICES ASSUME IInv, NEW t \in Task
               PROVE  /\ task[t].outcome = "read" => worker[t] \notin InFunction
                      /\ worker[t] = "returning" /\ (caller[t] = "completing" \/ main.task = t)
                           => task[t].cancelled /\ ~task[t].sure
                      /\ worker[t] \in InFunction /\ task[t].sure => ~task[t].complete
    BY DEF FunctionUndisturbed, NoDataRace, NotCompletedUnderFunction
  <2>1. /\ Stage(t) /\ Flags(t) /\ Read(t) /\ PlaceInv
        /\ task[t].kind \in Kind /\ task[t].complete \in BOOLEAN
    BY DEF IInv, TaskInv, TypeOK, TaskRecord
  <2>2. task[t].outcome = "read" => worker[t] \notin InFunction
    BY <2>1 DEF Read, Early
  <2>3. worker[t] \in InFunction /\ task[t].sure => ~task[t].complete
    BY <2>1 DEF Flags, Early
  <2>4. ASSUME worker[t] = "returning", caller[t] = "completing" \/ main.task = t
        PROVE  task[t].cancelled /\ ~task[t].sure
    <3>1. task[t].kind # "plain"
      BY <2>1, <2>4 DEF Stage
    <3>2. task[t].complete
      BY <2>1, <2>4, <3>1 DEF Flags, Stage, Kind
    <3> QED
      BY <2>1, <2>4, <3>2 DEF Flags, Early, InFunction
  <2> QED
    BY <2>2, <2>3, <2>4
<1> QED
  BY <1>1, Inductive, PTL

\* The references that the caller, the pool's thread, the handler, the idle source and
\* the cancellable have keep a task exactly as long as it is needed: nobody uses a task
\* that is freed, and when all is done it is freed (g_object_unref in gtask.c).
THEOREM LifetimesSafe == Spec => []Lifetimes
<1>1. IInv => Lifetimes
  <2> SUFFICES ASSUME IInv PROVE Lifetimes
    OBVIOUS
  <2>1. NoUseAfterFree
    <3> SUFFICES ASSUME NEW t \in Task, task[t].freed
                 PROVE  /\ caller[t] = "done" /\ cancel.task # t /\ main.task # t /\ ~task[t].connected
                        /\ worker[t] \in {"none", "cleanup", "counted", "gone"}
      BY DEF NoUseAfterFree
    <3>1. Stage(t) /\ Unused(t)
      BY FreedUnused DEF IInv, TaskInv, Lives
    <3> QED
      BY <3>1 DEF Stage, Unused
  <2>2. ASSUME \A t \in Task : caller[t] \in {"new", "done"} /\ worker[t] \in {"none", "gone"},
               cancel.task = None, main.task = None,
               NEW t \in Task, caller[t] = "done", task[t].idles = 0
        PROVE  task[t].freed
    <3>1. TypeOK /\ PlaceInv /\ Stage(t) /\ Refs(t) /\ Connected(t)
      BY DEF IInv, TaskInv
    <3>2. worker[t] \in {"none", "gone"} /\ cancel.task # t /\ main.task # t
      BY <2>2, TaskAssumption
    <3>3. ~task[t].connected
      BY <2>2, <3>1, <3>2 DEF Connected
    <3>4. CallerRef(t) = 0 /\ WorkerRef(t) = 0 /\ HandlerRef(t) = 0 /\ MainRef(t) = 0
      BY <2>2, <3>2, <3>3 DEF CallerRef, WorkerRef, HandlerRef, MainRef, Bit
    <3>5. task[t].refs = 0
      BY <2>2, <3>1, <3>4 DEF Refs
    <3> QED
      BY <2>2, <3>1, <3>5 DEF Refs
  <2>3. NothingLeaks
    BY <2>2 DEF NothingLeaks
  <2> QED
    BY <2>1, <2>3 DEF Lifetimes, IInv
<1> QED
  BY <1>1, Inductive, PTL

\* The pool's count of its threads is the number of threads between their setup and their
\* cleanup (g_task_thread_setup and g_task_thread_cleanup), which the manager's limit
\* is computed from.
THEOREM ThreadsCounted == Spec => []RunningInv
<1>1. IInv => RunningInv
  BY DEF IInv
<1> QED
  BY <1>1, Inductive, PTL
================================================================================
