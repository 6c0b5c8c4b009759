------------------------------ MODULE GMainContext ------------------------------
(*****************************************************************************)
(* The iteration of a GMainContext over its sources (glib/gmain.c): prepare, *)
(* query, poll, check and dispatch by the thread that owns the context, with *)
(* iterations nested in dispatch callbacks, while other threads attach and   *)
(* destroy sources and change their ready times and priorities whenever the  *)
(* context's mutex is free, also during prepare() and check().  Two kinds of *)
(* source stand for all: Timer (no prepare or check, a ready time) and       *)
(* Custom (a file descriptor; its prepare and its check say what they like). *)
(* GMainLoop models how the owner became the owner.                          *)
(*****************************************************************************)
EXTENDS Integers, Sequences, FiniteSets

CONSTANTS Timer, Custom,         \* the sources, by kind
          CanRecurse,            \* those with G_SOURCE_CAN_RECURSE
          InitPrio,              \* the priority each source is created with
          Prios,                 \* the priorities, small is urgent
          None,                  \* a NULL source
          MaxDepth,              \* bound: nested iterations
          MaxTime,               \* bound: the clock
          Movable                \* the sources given to g_source_set_priority

Source == Timer \cup Custom

ASSUME SourceAssumption == /\ None \notin Source
                           /\ CanRecurse \subseteq Source
                           /\ Movable \subseteq Source
                           /\ Prios \subseteq Nat \ {0}
                           /\ InitPrio \in [Source -> Prios]
                           /\ MaxDepth \in Nat /\ MaxTime \in Nat

Never == MaxTime + 1     \* ready_time -1, and a poll without timeout

VARIABLES lists,       \* context->source_lists: the sources by priority
          prio,        \* source->priority
          attached,    \* source->context is set
          active,      \* G_HOOK_FLAG_ACTIVE: not destroyed
          ready,       \* G_SOURCE_READY
          blocked,     \* G_SOURCE_BLOCKED
          inCall,      \* G_HOOK_FLAG_IN_CALL
          dying,       \* in g_source_destroy, while the mutex is dropped
          readyTime,   \* source->priv->ready_time
          now,         \* the monotonic clock
          time,        \* context->time, or Never when not time_is_fresh
          timeout,     \* context->timeout_usec, Never for -1
          pollChanged, \* context->poll_changed
          wakeup,      \* context->wakeup is readable
          pending,     \* context->pending_dispatches
          leaked,      \* sources whose reference in pending was overwritten
          quiet,       \* history: attached by the owner from prepare()
          moved,       \* history: a priority changed during prepare() or check()
          dangling,    \* the list that the iterator stands in has been freed
          frames       \* the iterations of the owner, innermost last

flagVars == <<ready, blocked, inCall>>
clockVars == <<readyTime, now>>
pollVars == <<pollChanged, wakeup>>
srcVars == <<prio, attached, active, dying>>
history == <<quiet, moved>>
vars == <<lists, srcVars, flagVars, clockVars, time, timeout, pollVars, pending,
          leaked, history, dangling, frames>>

(* An iteration in progress: the arguments dispatch and block, its GSourceIter   *)
(* (list, src), the locals n_ready and current_priority or max_priority, when it *)
(* began, how long poll() may sleep and until when, the index into               *)
(* pending_dispatches, and the source being dispatched with its was_in_call.     *)
Locked == {"prepare", "check", "dispatch"}       \* the owner holds the mutex
MaxReady == Cardinality(Source) * Cardinality(Prios)  \* a source moved on is met again
Unlocked == {"preparecb", "poll", "polled", "woken", "checkcb", "callback", "destroy"}
Frame == [at : Locked \cup Unlocked, dispatch : BOOLEAN, block : BOOLEAN,
          list : Prios \cup {0}, src : Source \cup {None}, nready : 0 .. MaxReady,
          prio : Prios \cup {0}, began : 0 .. MaxTime, wait : 0 .. Never,
          until : 0 .. MaxTime + Never, index : 0 .. MaxReady,
          cur : Source \cup {None}, was : BOOLEAN]

Top == frames[Len(frames)]
At(labels) == frames # <<>> /\ Top.at \in labels
MutexFree == ~At(Locked)
SetTop(f) == frames' = [frames EXCEPT ![Len(frames)] = f]
Pop == SubSeq(frames, 1, Len(frames) - 1)
Range(seq) == {seq[i] : i \in DOMAIN seq}

\* Mutant: the iterator holds no reference to its source (may_modify FALSE).
InUseNotByIter(s) == \/ s \in leaked' \cup dying' \cup Range(pending')
                     \/ \E i \in DOMAIN frames' : s = frames'[i].cur
\* A destroyed source stays in its list until the last reference goes: those of
\* g_source_destroy, of pending_dispatches, of an iterator and of a dispatch.
InUse(s) == \/ s \in leaked' \cup dying' \cup Range(pending')
            \/ \E i \in DOMAIN frames' : s \in {frames'[i].src, frames'[i].cur}

\* g_source_unref_internal: source_remove_from_context for what is used no more.
Remove(old) == [p \in Prios |-> SelectSeq(old[p], LAMBDA s : s \in active' \/ InUse(s))]
Unref == lists' = Remove(lists)

\* source_remove_from_context frees a GSourceList that becomes empty, whoever is in it.
FreeLists == dangling' = (dangling \/ \E i \in DOMAIN frames' :
                            frames'[i].src # None /\ lists'[frames'[i].list] = <<>>)

\* Adding or removing the descriptor of a source tells poll() and check.
FdChange(S) == /\ pollChanged' = (pollChanged \/ S \cap Custom # {})
               /\ wakeup' = (wakeup \/ S \cap Custom # {})

Init == /\ lists = [p \in Prios |-> <<>>]
        /\ prio = InitPrio
        /\ attached = {} /\ active = Source
        /\ ready = {} /\ blocked = {} /\ inCall = {} /\ dying = {}
        /\ readyTime = [s \in Source |-> Never]
        /\ now = 0 /\ time = Never /\ timeout = Never
        /\ pollChanged = FALSE /\ wakeup = FALSE
        /\ pending = <<>> /\ leaked = {}
        /\ quiet = {} /\ moved = FALSE /\ dangling = FALSE
        /\ frames = <<>>

--------------------------------------------------------------------------------
(* GSourceIter. *)

MinOf(S) == CHOOSE p \in S : \A q \in S : p <= q
ListsAfter(p) == {q \in Prios : q > p /\ lists[q] # <<>>}
IndexOf(s) == CHOOSE i \in DOMAIN lists[prio[s]] : lists[prio[s]][i] = s
HasNext(s) == IndexOf(s) < Len(lists[prio[s]])

\* g_source_iter_next from the iterator of f: the frame with the iterator moved.
IterNext(f) ==
  IF f.src # None /\ HasNext(f.src)
  THEN [f EXCEPT !.src = lists[prio[f.src]][IndexOf(f.src) + 1]]
  ELSE IF ListsAfter(f.list) = {} THEN [f EXCEPT !.list = 0, !.src = None]
  ELSE LET p == MinOf(ListsAfter(f.list)) IN [f EXCEPT !.list = p, !.src = lists[p][1]]

\* The loops of prepare and check skip a source, or stop before it.
Skips(s) == s \notin active \/ s \in blocked
Stops(f) == \/ f.src = None
            \/ ~Skips(f.src) /\ f.nready > 0 /\ prio[f.src] > f.prio

\* The clock is read once and kept until the next prepare, or query that sleeps.
Time == IF time = Never THEN now ELSE time
Due(s) == s \in Timer /\ readyTime[s] # Never /\ readyTime[s] <= Time

--------------------------------------------------------------------------------
(* Prepare, query and poll. *)

NewFrame(dispatch, block) ==
  [at |-> "prepare", dispatch |-> dispatch, block |-> block, list |-> 0, src |-> None,
   nready |-> 0, prio |-> 0, began |-> now, wait |-> 0, until |-> 0, index |-> 0,
   cur |-> None, was |-> FALSE]

\* Mutant: the time of an earlier iteration stays fresh.
BeginKeepsTime(f) == /\ frames' = Append(frames, f)
                     /\ pending' = <<>>
                     /\ timeout' = Never
                     /\ quiet' = {} /\ moved' = FALSE
                     /\ UNCHANGED time
\* Mutant: the pending dispatches of the outer iteration are kept.
BeginKeepsPending(f) == /\ frames' = Append(frames, f)
                        /\ timeout' = Never /\ time' = Never
                        /\ quiet' = {} /\ moved' = FALSE
                        /\ UNCHANGED pending
\* The first lines of g_main_context_prepare.  An iteration nested in a dispatch
\* drops what the outer one has pending.
Begin(f) == /\ frames' = Append(frames, f)
            /\ pending' = <<>>
            /\ timeout' = Never /\ time' = Never
            /\ quiet' = {} /\ moved' = FALSE

\* g_main_context_iteration, by the owner or from a callback of a dispatch.
Iterate ==
  /\ frames = <<>> \/ At({"callback", "destroy"})
  /\ Len(frames) < MaxDepth
  /\ \E block \in BOOLEAN : Begin(NewFrame(TRUE, block))
  /\ UNCHANGED <<srcVars, flagVars, clockVars, pollVars, leaked>>
  /\ Unref /\ FreeLists

\* g_main_context_pending: an iteration that neither sleeps nor dispatches.
Pending ==
  /\ frames = <<>> \/ At({"callback", "destroy"})
  /\ Len(frames) < MaxDepth
  /\ Begin(NewFrame(FALSE, FALSE))
  /\ UNCHANGED <<srcVars, flagVars, clockVars, pollVars, leaked>>
  /\ Unref /\ FreeLists

\* The source is ready: G_SOURCE_READY, n_ready, current_priority, no timeout.
PreparedReady(f) ==
  /\ ready' = ready \cup {f.src}
  /\ timeout' = 0
  /\ SetTop([f EXCEPT !.at = "prepare", !.nready = @ + 1, !.prio = prio[f.src]])

\* The end of prepare's loop, and query: poll_changed is reset, and the time is no
\* longer fresh if the context has a timeout.  What is not read again is forgotten: the
\* priority (check sets it before it compares), the timeout and the argument block.
EndPrepare(f) ==
  LET wait == IF f.block THEN timeout ELSE 0
  IN  /\ SetTop([f EXCEPT !.at = "poll", !.list = 0, !.src = None, !.nready = 0,
                          !.prio = 0, !.block = FALSE,
                          !.wait = wait, !.until = now + wait])
      /\ time' = IF timeout # 0 THEN Never ELSE time
      /\ pollChanged' = FALSE
      /\ timeout' = Never
      /\ UNCHANGED ready

\* A source without prepare(): only its ready time counts.
PrepareTimer(f) ==
  LET s == f.src
  IN  /\ time' = IF readyTime[s] # Never THEN Time ELSE time
      /\ IF Due(s) THEN PreparedReady(f)
         ELSE /\ timeout' = IF readyTime[s] # Never /\ readyTime[s] - Time < timeout
                            THEN readyTime[s] - Time ELSE timeout
              /\ SetTop(f)
              /\ UNCHANGED ready

\* One turn of the loop in g_main_context_prepare.
PrepareNext ==
  /\ At({"prepare"})
  /\ LET f == IterNext(Top)
         s == f.src
     IN  \/ Stops(f) /\ EndPrepare(f)
         \/ /\ s # None /\ Skips(s)
            /\ SetTop(f)
            /\ UNCHANGED <<ready, timeout, time, pollChanged>>
         \/ /\ ~Stops(f) /\ ~Skips(s)
            /\ UNCHANGED pollChanged
            /\ \/ s \in ready /\ PreparedReady(f) /\ UNCHANGED time
               \/ s \in Timer \ ready /\ PrepareTimer(f)
               \/ /\ s \notin ready \cup Timer
                  /\ SetTop([f EXCEPT !.at = "preparecb"])
                  /\ UNCHANGED <<ready, timeout, time>>
  /\ UNCHANGED <<srcVars, blocked, inCall, clockVars, wakeup, pending, leaked, history>>
  /\ Unref /\ FreeLists

\* A prepare callback returns: the source is ready, or it is not and sets no timeout.
PrepareReturn ==
  /\ At({"preparecb"})
  /\ \/ PreparedReady(Top)
     \/ /\ SetTop([Top EXCEPT !.at = "prepare"])
        /\ UNCHANGED <<ready, timeout>>
  /\ UNCHANGED <<lists, srcVars, blocked, inCall, clockVars, time, pollVars, pending, leaked,
                 history, dangling>>

\* poll() has slept long enough; the clock stops at its bound.
Expired == Top.until <= now \/ (Top.wait # Never /\ now = MaxTime)

Polled(at) == SetTop([Top EXCEPT !.at = at, !.began = 0, !.wait = 0, !.until = 0])

\* poll() returns because the wakeup is readable or the timeout has passed.
PollReturn ==
  /\ At({"poll"})
  /\ wakeup \/ Expired
  /\ Polled(IF wakeup THEN "woken" ELSE "polled")
  /\ UNCHANGED <<lists, srcVars, flagVars, clockVars, time, timeout, pollVars, pending, leaked,
                 history, dangling>>

\* poll() returns because a descriptor is ready or a signal arrived.
PollEvent ==
  /\ At({"poll"})
  /\ ~wakeup /\ ~Expired
  /\ Polled("polled")
  /\ UNCHANGED <<lists, srcVars, flagVars, clockVars, time, timeout, pollVars, pending, leaked,
                 history, dangling>>

--------------------------------------------------------------------------------
(* Check. *)

\* The end of check's loop; g_main_context_pending returns what it found and leaves
\* the pending dispatches behind.
EndCheck(f) ==
  IF f.dispatch
  THEN SetTop([f EXCEPT !.at = "dispatch", !.list = 0, !.src = None, !.nready = 0, !.prio = 0])
  ELSE frames' = Pop

\* g_main_context_check up to its loop: acknowledge the wakeup poll() reported, and
\* give up if the descriptors changed meanwhile.
CheckBegin ==
  /\ At({"polled", "woken"})
  /\ wakeup' = (wakeup /\ Top.at # "woken")
  /\ IF pollChanged THEN EndCheck(Top) ELSE SetTop([Top EXCEPT !.at = "check"])
  /\ quiet' = {} /\ moved' = FALSE
  /\ UNCHANGED <<lists, srcVars, flagVars, clockVars, time, timeout, pollChanged, pending, leaked,
                 dangling>>

\* Mutant: only prepare sets G_SOURCE_READY.
CheckedReadyUnflagged(f) ==
  /\ UNCHANGED ready
  /\ pending' = Append(pending, f.src)
  /\ SetTop([f EXCEPT !.at = "check", !.nready = @ + 1, !.prio = prio[f.src]])
\* The source is ready: it joins the pending dispatches and sets max_priority.
CheckedReady(f) ==
  /\ ready' = ready \cup {f.src}
  /\ pending' = Append(pending, f.src)
  /\ SetTop([f EXCEPT !.at = "check", !.nready = @ + 1, !.prio = prio[f.src]])

\* One turn of the loop in g_main_context_check.
CheckNext ==
  /\ At({"check"})
  /\ LET f == IterNext(Top)
         s == f.src
     IN  \/ Stops(f) /\ EndCheck(f) /\ UNCHANGED <<ready, pending, time>>
         \/ s # None /\ Skips(s) /\ SetTop(f) /\ UNCHANGED <<ready, pending, time>>
         \/ /\ ~Stops(f) /\ ~Skips(s)
            /\ \/ s \in ready /\ CheckedReady(f) /\ UNCHANGED time
               \/ /\ s \in Timer \ ready
                  /\ time' = IF readyTime[s] # Never THEN Time ELSE time
                  /\ IF Due(s) THEN CheckedReady(f)
                     ELSE SetTop(f) /\ UNCHANGED <<ready, pending>>
               \/ /\ s \notin ready \cup Timer
                  /\ SetTop([f EXCEPT !.at = "checkcb"])
                  /\ UNCHANGED <<ready, pending, time>>
  /\ UNCHANGED <<srcVars, blocked, inCall, clockVars, timeout, pollVars, leaked, history>>
  /\ Unref /\ FreeLists

\* A check callback returns: the source is ready or not.
CheckReturn ==
  /\ At({"checkcb"})
  /\ \/ CheckedReady(Top)
     \/ /\ SetTop([Top EXCEPT !.at = "check"])
        /\ UNCHANGED <<ready, pending>>
  /\ UNCHANGED <<lists, srcVars, blocked, inCall, clockVars, time, timeout, pollVars, leaked,
                 history, dangling>>

--------------------------------------------------------------------------------
(* Dispatch. *)

\* g_main_dispatch takes the next pending source, which may have been destroyed; the
\* source is blocked during its dispatch unless it may recurse.
DispatchNext ==
  /\ At({"dispatch"}) /\ Top.index < Len(pending)
  /\ LET s == pending[Top.index + 1]
         f == [Top EXCEPT !.index = @ + 1]
     IN  /\ pending' = [pending EXCEPT ![f.index] = None]
         /\ ready' = ready \ {s}
         /\ IF s \notin active
            THEN SetTop(f) /\ UNCHANGED <<blocked, inCall, pollVars>>
            ELSE /\ blocked' = blocked \cup ({s} \ CanRecurse)
                 /\ FdChange({s} \ CanRecurse)
                 /\ inCall' = inCall \cup {s}
                 /\ SetTop([f EXCEPT !.at = "callback", !.cur = s, !.was = s \in inCall])
  /\ UNCHANGED <<srcVars, clockVars, time, timeout, leaked, history>>
  /\ Unref /\ FreeLists

\* Mutant: G_HOOK_FLAG_IN_CALL is cleared by a nested dispatch too.
AfterCallAlways(f) == inCall' = inCall \ {f.cur}
AfterCall(f) == inCall' = IF f.was THEN inCall ELSE inCall \ {f.cur}

\* The dispatch of a source returns.  If it says FALSE and the source still lives, its
\* destruction begins, and drops the mutex.
CallbackReturn ==
  /\ At({"callback"})
  /\ AfterCall(Top)
  /\ LET s == Top.cur
         back == {s} \cap blocked \cap active
     IN  /\ blocked' = blocked \ back
         /\ FdChange(back)
         /\ \/ /\ SetTop([Top EXCEPT !.at = "dispatch", !.cur = None, !.was = FALSE])
               /\ UNCHANGED active
            \/ /\ s \in active
               /\ active' = active \ {s}
               /\ SetTop([Top EXCEPT !.at = "destroy", !.was = FALSE])
  /\ UNCHANGED <<prio, attached, dying, ready, clockVars, time, timeout, pending, leaked, history>>
  /\ Unref /\ FreeLists

\* The rest of g_source_destroy_internal, with the mutex held again.
DestroyReturn ==
  /\ At({"destroy"})
  /\ FdChange({Top.cur})
  /\ SetTop([Top EXCEPT !.at = "dispatch", !.cur = None])
  /\ UNCHANGED <<srcVars, flagVars, clockVars, time, timeout, pending, leaked, history>>
  /\ Unref /\ FreeLists

\* The end of g_main_dispatch: pending_dispatches is emptied, whatever is left in it.
DispatchEnd ==
  /\ At({"dispatch"}) /\ Top.index >= Len(pending)
  /\ pending' = <<>>
  /\ leaked' = leaked \cup (Range(pending) \ {None})
  /\ moved' = FALSE
  /\ frames' = Pop
  /\ UNCHANGED <<lists, srcVars, flagVars, clockVars, time, timeout, pollVars, quiet, dangling>>

--------------------------------------------------------------------------------
(* What other threads, and the owner's callbacks, do while the mutex is free. *)

\* The owner runs code of its own: outside iterations or in a callback of a source.
Iterating == At({"preparecb", "checkcb"})
OwnerRuns == frames = <<>> \/ At({"callback", "destroy"}) \/ Iterating

\* g_source_attach wakes up the owner if that is another thread.
AttachWakes(s, other) ==
  /\ pollChanged' = (pollChanged \/ s \in Custom)
  /\ wakeup' = (wakeup \/ s \in Custom \/ (other /\ frames # <<>>))

\* g_source_attach by another thread or by the owner.
Attach(s) ==
  /\ MutexFree
  /\ s \in active \ attached
  /\ attached' = attached \cup {s}
  /\ lists' = [lists EXCEPT ![prio[s]] = Append(@, s)]
  /\ \/ AttachWakes(s, TRUE) /\ UNCHANGED quiet
     \/ /\ OwnerRuns /\ AttachWakes(s, FALSE)
        /\ quiet' = IF At({"preparecb"}) THEN quiet \cup {s} ELSE quiet
  /\ UNCHANGED <<prio, active, dying, flagVars, clockVars, time, timeout, pending, leaked,
                 moved, dangling, frames>>

\* g_source_destroy up to where it drops the mutex for the callback's destroy notify.
DestroyBegin(s) ==
  /\ MutexFree
  /\ s \in active \cap attached
  /\ active' = active \ {s}
  /\ dying' = dying \cup {s}
  /\ UNCHANGED <<lists, prio, attached, flagVars, clockVars, time, timeout, pollVars,
                 pending, leaked, history, dangling, frames>>

\* The rest of g_source_destroy, when the mutex can be taken again.
DestroyEnd(s) ==
  /\ MutexFree
  /\ s \in dying
  /\ dying' = dying \ {s}
  /\ FdChange({s} \ blocked)
  /\ UNCHANGED <<prio, attached, active, flagVars, clockVars, time, timeout, pending,
                 leaked, history, frames>>
  /\ Unref /\ FreeLists

\* Mutant: a ready time set from another thread wakes up nobody.
ReadyTimeWakesNot(s) == UNCHANGED wakeup
ReadyTimeWakes(s) == wakeup' = (wakeup \/ s \in attached \ blocked)

\* g_source_set_ready_time.
SetReadyTime(s, t) ==
  /\ MutexFree
  /\ s \in active \cap Timer /\ readyTime[s] # t
  /\ readyTime' = [readyTime EXCEPT ![s] = t]
  /\ ReadyTimeWakes(s)
  /\ UNCHANGED <<lists, srcVars, flagVars, now, time, timeout, pollChanged, pending,
                 leaked, history, dangling, frames>>

\* g_source_set_priority: the source moves to the end of another list.
SetPriority(s, p) ==
  /\ MutexFree
  /\ s \in active \cap Movable
  /\ prio' = [prio EXCEPT ![s] = p]
  /\ IF s \in attached
     THEN LET removed == [lists EXCEPT ![prio[s]] = SelectSeq(@, LAMBDA x : x # s)]
          IN  /\ lists' = [removed EXCEPT ![p] = Append(@, s)]
              /\ FdChange({s} \ blocked)
     ELSE UNCHANGED <<lists, pollVars>>
  /\ moved' = (moved \/ (Iterating /\ s \in attached))
  /\ UNCHANGED <<attached, active, dying, flagVars, clockVars, time, timeout, pending,
                 leaked, quiet, frames>>
  /\ FreeLists

Tick == /\ now < MaxTime
        /\ now' = now + 1
        /\ UNCHANGED <<lists, srcVars, flagVars, readyTime, time, timeout, pollVars,
                       pending, leaked, history, dangling, frames>>

OwnerStep == \/ PrepareNext \/ PrepareReturn \/ PollReturn
             \/ CheckBegin \/ CheckNext \/ CheckReturn
             \/ DispatchNext \/ CallbackReturn \/ DestroyReturn \/ DispatchEnd

\* Where g_source_iter_next would read a freed list, the C is undefined; the model stops.
Undefined == dangling /\ UNCHANGED vars

Defined == \/ Iterate \/ Pending \/ PollEvent \/ OwnerStep
           \/ \E s \in Source :
                \/ Attach(s) \/ DestroyBegin(s) \/ DestroyEnd(s)
                \/ \E t \in 1 .. Never : SetReadyTime(s, t)
                \/ \E p \in Prios : SetPriority(s, p)
           \/ Tick

Next == (~dangling /\ Defined) \/ Undefined

Spec == Init /\ [][Next]_vars

\* The loop keeps iterating, poll() returns when it may, callbacks return and the
\* clock runs.  Nothing makes other threads do anything.
FairSpec == /\ Spec
            /\ WF_vars(~dangling /\ OwnerStep)
            /\ SF_vars(~dangling /\ Iterate)
            /\ WF_vars(~dangling /\ Tick)

--------------------------------------------------------------------------------
(* Properties. *)

\* Every variable has its type, and a source's list is the one of its priority.
TypeOK ==
  /\ lists \in [Prios -> Seq(Source)]
  /\ \A s \in Source, p \in Prios : s \in Range(lists[p]) => p = prio[s]
  /\ prio \in [Source -> Prios]
  /\ attached \subseteq Source /\ active \subseteq Source
  /\ ready \subseteq Source /\ blocked \subseteq Source
  /\ inCall \subseteq Source /\ dying \subseteq Source
  /\ readyTime \in [Source -> 0 .. Never]
  /\ now \in 0 .. MaxTime /\ time \in 0 .. Never /\ timeout \in 0 .. Never
  /\ pollChanged \in BOOLEAN /\ wakeup \in BOOLEAN
  /\ pending \in Seq(Source \cup {None}) /\ leaked \subseteq Source
  /\ quiet \subseteq Source /\ moved \in BOOLEAN /\ dangling \in BOOLEAN
  /\ frames \in Seq(Frame)

Waiting(s) == s \in (attached \cap active) \ blocked

\* While poll() sleeps and no wakeup is due, it sleeps no longer than any timer leaves
\* it, counted from the start of the iteration, whatever other threads and callbacks
\* attached, set, moved or destroyed since.  There are exactly two ways to oversleep: the
\* owner attached that timer from a prepare(), after the loop had passed its place, which
\* g_source_attach takes for no reason to wake itself up; or some priority changed during
\* a prepare(), which moves sources over the iterator, or the iterator over sources.
NoOversleep ==
  At({"poll"}) /\ ~wakeup /\ ~moved =>
    \A s \in Timer \ quiet : Waiting(s) /\ readyTime[s] # Never =>
      Top.wait = 0 \/ Top.began + Top.wait <= readyTime[s]

\* When check is done, the pending dispatches share one priority, and no source that is
\* known to be ready and may be dispatched has a more urgent one, unless priorities
\* changed during that very check.
MostUrgentFirst ==
  At({"dispatch"}) /\ Top.index = 0 /\ ~moved =>
    /\ \A s, t \in Range(pending) : prio[s] = prio[t]
    /\ \A s \in Range(pending), t \in ready : Waiting(t) => prio[s] <= prio[t]

\* The assertion in g_main_dispatch: the next entry of pending_dispatches is a source,
\* and it has not been freed, even if callbacks iterated the context or destroyed it.
PendingAlive ==
  At({"dispatch"}) /\ Top.index < Len(pending) =>
    LET s == pending[Top.index + 1] IN s # None /\ s \in Range(lists[prio[s]])

\* What g_main_dispatch finds in pending_dispatches is in order, whatever happened since
\* check without the mutex: the entries are alive, share one priority, and no source of a
\* more urgent one is passed over.
PendingSound == TypeOK /\ PendingAlive /\ MostUrgentFirst

\* What is in pending_dispatches is still G_SOURCE_READY.  g_main_dispatch may pass over
\* entries, and leak their references: g_main_context_pending, called from a callback,
\* fills the array anew below the index of the dispatch that runs.  This is why such a
\* source is not lost: the next check finds the flag and lists it again.
PassedOverStaysReady == ~moved => Range(pending) \ {None} \subseteq ready

\* A source without G_SOURCE_CAN_RECURSE is in at most one dispatch at a time and, while
\* it lives, blocked exactly during that; nested iterations and other threads included.
Dispatching(i, s) == frames[i].cur = s /\ frames[i].at = "callback"
BlockedInDispatch ==
  \A s \in Source \ CanRecurse :
    /\ \A i, j \in DOMAIN frames : Dispatching(i, s) /\ Dispatching(j, s) => i = j
    /\ s \in active => (s \in blocked <=> \E i \in DOMAIN frames : Dispatching(i, s))

\* G_HOOK_FLAG_IN_CALL is set on exactly the sources that some dispatch is running.
InCallExact == \A s \in Source : s \in inCall <=> \E i \in DOMAIN frames : Dispatching(i, s)

\* The two flags that g_main_dispatch sets around a callback tell the truth, however
\* deep iterations nest: a source that may not recurse is blocked exactly in its own
\* dispatch, and G_HOOK_FLAG_IN_CALL is cleared by the outermost dispatch only.
DispatchFlags == BlockedInDispatch /\ InCallExact

\* The list that a GSourceIter stands in is freed under it, while prepare() or check()
\* run without the mutex, by nothing but a change of priority: the reference that the
\* iterator holds, which the comment in g_source_iter_next relies on, keeps its source
\* in a list but not in the list the iterator remembers.
IterListLives == dangling => moved

\* A source of the most urgent priority that is known to be ready, or whose ready time has
\* come, is dispatched in the end, unless it is destroyed or put off, or the owner attached
\* it from a prepare(), or g_main_dispatch passed over it because a callback asked
\* g_main_context_pending (which the callback may do every time).  The other threads must
\* stop in the end changing priorities during prepare() and check(), and descriptors
\* during poll(), which makes every check give up.
Urgent(s) == /\ Waiting(s) /\ prio[s] = MinOf(Prios)
             /\ s \in ready \/ (s \in Timer /\ readyTime[s] <= now)
Dispatched(s) == \E i \in DOMAIN frames : Dispatching(i, s)
Disturbed == moved \/ (At({"polled", "woken"}) /\ pollChanged)
UrgentIsDispatched ==
  <>[]~Disturbed =>
    \A s \in Source : Urgent(s) ~> Dispatched(s) \/ ~Urgent(s) \/ s \in leaked \cup quiet
================================================================================
