----------------------------- MODULE GUnixSignal -----------------------------
(*****************************************************************************)
(* Unix signal and child watch sources (glib/gmain.c): the signal handler,   *)
(* the worker thread that hands signals out to the watches, a user thread    *)
(* that makes, attaches and destroys watches, and the main thread, which     *)
(* iterates their context, reaps children and calls back.  A child watch     *)
(* polls a pidfd, or is told of SIGCHLD when the system has none.  A step is *)
(* one access to an atomic variable or one system call; unix_signal_lock is  *)
(* held for as long as the code holds it.  The context's iteration is that   *)
(* of GMainContext with one priority and no other sources.                   *)
(*****************************************************************************)
EXTENDS Integers, Sequences, FiniteSets

CONSTANTS ChildWatch,    \* each watches a child of its own
          SignalWatch,   \* watches for SIGWINCH, which is ignored by default
          Activation,    \* bound: handlers that run at the same time
          MaxSignals,    \* bound: SIGWINCH raised and children exited
          None

ASSUME UnixSignalAssumption ==
  /\ ChildWatch \cap SignalWatch = {} /\ None \notin ChildWatch \cup SignalWatch
  /\ None \notin {"worker", "user"}
  /\ MaxSignals \in Nat

Watch == ChildWatch \cup SignalWatch
Signals == <<"CHLD", "WINCH">>
Signal == {"CHLD", "WINCH"}
SignalOf(w) == IF w \in ChildWatch THEN "CHLD" ELSE "WINCH"
Scanner == {"worker", "user"}   \* who may run dispatch_unix_signals_unlocked

VARIABLES
  raised,        \* signals that the kernel has not delivered yet
  unixPending,   \* unix_signal_pending, those that are set
  anyPending,    \* any_unix_signal_pending
  refcount,      \* unix_signal_refcount; the handler is installed unless it is 0
  listed,        \* unix_child_watches and unix_signal_watches
  lock,          \* who holds unix_signal_lock
  workerWakeup, mainWakeup,   \* the wakeups of the two contexts are signalled
  handler,       \* the activations of g_unix_signal_handler
  scan,          \* the worker and the user thread
  main,          \* the main thread
  watch,         \* the sources
  child,         \* the children
  raises, owed   \* history: signals raised; a signal came and no callback began since

vars == <<raised, unixPending, anyPending, refcount, listed, lock, workerWakeup, mainWakeup,
          handler, scan, main, watch, child, raises, owed>>

signalVars == <<raised, unixPending, anyPending, handler, raises>>
listVars == <<refcount, listed, lock>>
wakeupVars == <<workerWakeup, mainWakeup>>

(* flag: child_maybe_exited or pending; context: it was attached to the main  *)
(* thread's context; calls: of the callback of a child watch.                 *)
WatchRecord == [phase : {"none", "made", "attached", "destroyed", "freed"}, pidfd : BOOLEAN,
                flag : BOOLEAN, context : BOOLEAN, calls : Nat]
(* w: the watch it works on; left: signals it has still to take; taken: those *)
(* it has taken; todo: watches it has still to visit.                         *)
ScanRecord == [at : {"idle", "poll", "any", "lock", "take", "scan", "wake", "new",
                     "finalize"},
               w : Watch \cup {None}, left : Nat, taken : SUBSET Signal, todo : SUBSET Watch]
(* ready: watches to be dispatched; revents: the pidfds the poll saw          *)
(* readable; w: the watch that is dispatched.                                *)
MainRecord == [at : {"prepare", "poll", "check", "dispatch", "waitid", "reset", "waitpid",
                     "callback", "return", "finalize"},
               ready : SUBSET Watch, revents : SUBSET Watch,
               w : Watch \cup {None}]

Init == /\ raised = {} /\ unixPending = {} /\ anyPending = FALSE
        /\ refcount = [s \in Signal |-> 0] /\ listed = {} /\ lock = None
        /\ workerWakeup = FALSE /\ mainWakeup = FALSE
        /\ handler = [a \in Activation |-> [at |-> "idle", signum |-> None]]
        /\ scan = [p \in Scanner |-> [at |-> IF p = "worker" THEN "poll" ELSE "idle",
                                      w |-> None, left |-> 0, taken |-> {}, todo |-> {}]]
        /\ main = [at |-> "prepare", ready |-> {}, revents |-> {}, w |-> None]
        /\ watch = [w \in Watch |-> [phase |-> "none", pidfd |-> FALSE, flag |-> FALSE,
                                     context |-> FALSE, calls |-> 0]]
        /\ child = [w \in ChildWatch |-> "running"]
        /\ raises = 0 /\ owed = {}

Attached(w) == watch[w].phase = "attached"

--------------------------------------------------------------------------------
(* The kernel and the signal handler. *)

\* A child exits.
ChildExits(w) ==
  /\ child[w] = "running" /\ raises < MaxSignals
  /\ child' = [child EXCEPT ![w] = "zombie"]
  /\ raises' = raises + 1
  /\ raised' = raised \cup {"CHLD"}
  /\ UNCHANGED <<unixPending, anyPending, handler, listVars, wakeupVars, scan, main,
                 watch, owed>>

\* Other code waits for a child that has exited.
ForeignReaps(w) ==
  /\ child[w] = "zombie"
  /\ child' = [child EXCEPT ![w] = "stolen"]
  /\ UNCHANGED <<signalVars, listVars, wakeupVars, scan, main, watch, owed>>

\* Somebody sends SIGWINCH.
Raise ==
  /\ raises < MaxSignals
  /\ raises' = raises + 1
  /\ raised' = raised \cup {"WINCH"}
  /\ UNCHANGED <<unixPending, anyPending, handler, listVars, wakeupVars, scan, main, watch,
                 child, owed>>

\* Delivery to a thread that does not mask signals; without the handler both are ignored.
Deliver(a, s) ==
  /\ s \in raised /\ handler[a].at = "idle"
  /\ raised' = raised \ {s}
  /\ handler' = IF refcount[s] > 0 THEN [handler EXCEPT ![a] = [at |-> "pending", signum |-> s]]
                                   ELSE handler
  /\ owed' = IF refcount[s] > 0 THEN owed \cup {w \in listed \cap SignalWatch : s = SignalOf(w)}
                                ELSE owed
  /\ UNCHANGED <<unixPending, anyPending, raises, listVars, wakeupVars, scan, main, watch, child>>

\* g_unix_signal_handler: its three stores, in order.
Handler(a) ==
  /\ handler[a].at # "idle"
  /\ \/ handler[a].at = "pending" /\ unixPending' = unixPending \cup {handler[a].signum}
        /\ handler' = [handler EXCEPT ![a].at = "any"]
        /\ UNCHANGED <<anyPending, workerWakeup>>
     \/ handler[a].at = "any" /\ anyPending' = TRUE /\ UNCHANGED <<unixPending, workerWakeup>>
        /\ handler' = [handler EXCEPT ![a].at = "wake"]
     \/ handler[a].at = "wake" /\ workerWakeup' = TRUE /\ UNCHANGED <<unixPending, anyPending>>
        /\ handler' = [handler EXCEPT ![a] = [at |-> "idle", signum |-> None]]
  /\ UNCHANGED <<raised, raises, listVars, mainWakeup, scan, main, watch, child, owed>>

--------------------------------------------------------------------------------
(* The worker thread and dispatch_unix_signals_unlocked. *)

ScanStep(p, place) == scan' = [scan EXCEPT ![p].at = place]
quietVars == <<raised, handler, raises, main, child, owed>>

\* An iteration of the worker's context: the poll, and the check, which acknowledges.
WorkerIterates ==
  /\ scan["worker"].at = "poll" /\ workerWakeup
  /\ workerWakeup' = FALSE
  /\ ScanStep("worker", "any")
  /\ UNCHANGED <<quietVars, unixPending, anyPending, listVars, mainWakeup, watch>>
\* glib_worker_main, after the iteration.
WorkerChecks ==
  /\ scan["worker"].at = "any"
  /\ ScanStep("worker", IF anyPending THEN "lock" ELSE "poll")
  /\ UNCHANGED <<quietVars, unixPending, anyPending, listVars, wakeupVars, watch>>

\* dispatch_unix_signals takes the lock; the flag is cleared first.
ScanStarts(p) ==
  /\ scan[p].at = "lock" /\ lock = None
  /\ lock' = p
  /\ anyPending' = FALSE
  /\ scan' = [scan EXCEPT ![p].at = "take", ![p].left = Len(Signals), ![p].taken = {}]
  /\ UNCHANGED <<quietVars, unixPending, refcount, listed, wakeupVars, watch>>

\* The watches to visit, once the signals in taken are known.
ToVisit(taken) == {w \in listed : SignalOf(w) \in taken}

\* Mutant: the flag for all signals is cleared with the last of them.
TakeThenClear(p) ==
  /\ scan[p].at = "take"
  /\ LET s == Signals[Len(Signals) + 1 - scan[p].left]
         taken == scan[p].taken \cup ({s} \cap unixPending)
         last == scan[p].left = 1
     IN  /\ unixPending' = unixPending \ {s}
         /\ scan' = [scan EXCEPT ![p].left = @ - 1, ![p].taken = taken,
                                 ![p].at = IF last THEN "scan" ELSE "take",
                                 ![p].todo = IF last THEN ToVisit(taken) ELSE {}]
         /\ anyPending' = IF last THEN FALSE ELSE anyPending
  /\ UNCHANGED <<quietVars, listVars, wakeupVars, watch>>
\* Each signal is taken by a compare-and-exchange.
Take(p) ==
  /\ scan[p].at = "take"
  /\ LET s == Signals[Len(Signals) + 1 - scan[p].left]
         taken == scan[p].taken \cup ({s} \cap unixPending)
         last == scan[p].left = 1
     IN  /\ unixPending' = unixPending \ {s}
         /\ scan' = [scan EXCEPT ![p].left = @ - 1, ![p].taken = taken,
                                 ![p].at = IF last THEN "scan" ELSE "take",
                                 ![p].todo = IF last THEN ToVisit(taken) ELSE {}]
  /\ UNCHANGED <<quietVars, anyPending, listVars, wakeupVars, watch>>

\* The next watch of a signal that was taken: set its flag, and wake its context if it
\* was not set.
Visit(p, w) ==
  /\ scan[p].at = "scan" /\ w \in scan[p].todo
  /\ watch' = [watch EXCEPT ![w].flag = TRUE]
  /\ scan' = [scan EXCEPT ![p].todo = @ \ {w},
                          ![p].at = IF watch[w].flag THEN "scan" ELSE "wake",
                          ![p].w = IF watch[w].flag THEN None ELSE w]
  /\ UNCHANGED <<quietVars, unixPending, anyPending, listVars, wakeupVars>>

\* wake_source: the context, if the watch has one.
WakeSource(p) ==
  /\ scan[p].at = "wake"
  /\ mainWakeup' = (mainWakeup \/ watch[scan[p].w].context)
  /\ scan' = [scan EXCEPT ![p].at = "scan", ![p].w = None]
  /\ UNCHANGED <<quietVars, unixPending, anyPending, listVars, workerWakeup, watch>>

\* The lock is given back.
ScanEnds(p) ==
  /\ scan[p].at = "scan" /\ scan[p].todo = {}
  /\ lock' = None
  /\ scan' = [scan EXCEPT ![p].at = IF p = "worker" THEN "poll" ELSE "idle", ![p].taken = {}]
  /\ UNCHANGED <<quietVars, unixPending, anyPending, refcount, listed, wakeupVars, watch>>

--------------------------------------------------------------------------------
(* The user thread. *)

\* g_child_watch_source_new, where pidfd_open succeeds.
NewPidfd(w) ==
  /\ scan["user"].at = "idle" /\ watch[w].phase = "none"
  /\ watch' = [watch EXCEPT ![w].phase = "made", ![w].pidfd = TRUE]
  /\ UNCHANGED <<signalVars, listVars, wakeupVars, scan, main, child, owed>>

\* Mutant: a child that has exited before its watch is made is not looked for.
NewUnflagged(w) ==
  /\ scan["user"].at = "idle" /\ watch[w].phase = "none"
  /\ scan' = [scan EXCEPT !["user"].at = "new", !["user"].w = w]
  /\ UNCHANGED <<signalVars, listVars, wakeupVars, watch, main, child, owed>>

\* g_child_watch_source_new, where it does not, and _g_main_create_unix_signal_watch, up
\* to the lock.
New(w) ==
  /\ scan["user"].at = "idle" /\ watch[w].phase = "none"
  /\ watch' = [watch EXCEPT ![w].flag = (w \in ChildWatch)]
  /\ scan' = [scan EXCEPT !["user"].at = "new", !["user"].w = w]
  /\ UNCHANGED <<signalVars, listVars, wakeupVars, main, child, owed>>

\* ref_unix_signal_handler_unlocked.
RefHandler(w) == refcount' = [refcount EXCEPT ![SignalOf(w)] = @ + 1]
UnrefHandler(w) == refcount' = [refcount EXCEPT ![SignalOf(w)] = @ - 1]

\* ... and from the lock on: the watch of a signal hands out what is pending.
NewListed ==
  LET w == scan["user"].w IN
  /\ scan["user"].at = "new" /\ lock = None
  /\ RefHandler(w)
  /\ listed' = listed \cup {w}
  /\ watch' = [watch EXCEPT ![w].phase = "made"]
  /\ \/ /\ w \in ChildWatch
        /\ scan' = [scan EXCEPT !["user"].at = "idle", !["user"].w = None]
        /\ UNCHANGED <<lock, anyPending>>
     \/ /\ w \in SignalWatch
        /\ lock' = "user" /\ anyPending' = FALSE
        /\ scan' = [scan EXCEPT !["user"] = [@ EXCEPT !.at = "take", !.w = None,
                                                      !.left = Len(Signals), !.taken = {}]]
  /\ UNCHANGED <<quietVars, unixPending, wakeupVars>>

\* g_source_attach, which wakes the context.
Attach(w) ==
  /\ scan["user"].at = "idle" /\ watch[w].phase = "made"
  /\ watch' = [watch EXCEPT ![w].phase = "attached", ![w].context = TRUE]
  /\ mainWakeup' = TRUE
  /\ UNCHANGED <<signalVars, listVars, workerWakeup, scan, main, child, owed>>

\* The main thread has a reference to the watch.
Dispatching == {"dispatch", "waitid", "reset", "waitpid", "callback", "return", "finalize"}
Held(w) == main.at \in Dispatching /\ w \in main.ready

\* g_source_destroy and the drop of the caller's reference.
Destroy(w) ==
  /\ scan["user"].at = "idle" /\ watch[w].phase \in {"made", "attached"}
  /\ watch' = [watch EXCEPT ![w].phase = "destroyed"]
  /\ scan' = IF Held(w) THEN scan
                        ELSE [scan EXCEPT !["user"].at = "finalize", !["user"].w = w]
  /\ UNCHANGED <<signalVars, listVars, wakeupVars, main, child, owed>>

\* Mutant: the lock is not taken.
UnlistUnlocked(w) ==
  IF watch[w].pidfd THEN UNCHANGED <<refcount, listed, lock>>
                    ELSE UnrefHandler(w) /\ listed' = listed \ {w} /\ UNCHANGED lock
\* g_child_watch_finalize and g_unix_signal_watch_finalize: off the list, with the lock.
Unlist(w) ==
  IF watch[w].pidfd THEN UNCHANGED <<refcount, listed, lock>>
                    ELSE lock = None /\ UnrefHandler(w) /\ listed' = listed \ {w} /\ UNCHANGED lock

Free(w) == /\ Unlist(w)
           /\ watch' = [watch EXCEPT ![w] = [phase |-> "freed", pidfd |-> FALSE, flag |-> FALSE,
                                              context |-> FALSE, calls |-> @.calls]]
           /\ owed' = owed \ {w}

Finalize ==
  /\ scan["user"].at = "finalize"
  /\ Free(scan["user"].w)
  /\ scan' = [scan EXCEPT !["user"].at = "idle", !["user"].w = None]
  /\ UNCHANGED <<signalVars, wakeupVars, main, child>>

--------------------------------------------------------------------------------
(* The main thread. *)

MainStep(place) == main' = [main EXCEPT !.at = place]
otherVars == <<signalVars, listVars, workerWakeup, scan>>

\* The prepare functions: a watch whose flag is set is ready.
Flagged == {w \in Watch : Attached(w) /\ ~watch[w].pidfd /\ watch[w].flag}
MainPrepares ==
  /\ main.at = "prepare"
  /\ main' = [main EXCEPT !.at = "poll", !.ready = Flagged]
  /\ UNCHANGED <<otherVars, mainWakeup, watch, child, owed>>

\* The pidfd of a child that has exited is readable.
Readable == {w \in ChildWatch : Attached(w) /\ watch[w].pidfd /\ child[w] # "running"}
\* The poll, and the first step of the check: a wakeup that was seen is acknowledged.
MainPolls ==
  /\ main.at = "poll"
  /\ main.ready # {} \/ mainWakeup \/ Readable # {}
  /\ main' = [main EXCEPT !.at = "check", !.revents = Readable]
  /\ mainWakeup' = FALSE
  /\ UNCHANGED <<otherVars, watch, child, owed>>

\* The check functions.
MainChecks ==
  /\ main.at = "check"
  /\ main' = [main EXCEPT !.at = "dispatch", !.revents = {},
                          !.ready = Flagged \cup {w \in main.ready \cup main.revents : Attached(w)}]
  /\ UNCHANGED <<otherVars, mainWakeup, watch, child, owed>>

\* The next of the ready watches, unless it was destroyed in the meantime.
MainDispatches(w) ==
  /\ main.at = "dispatch" /\ w \in main.ready
  /\ main' = [main EXCEPT !.w = w, !.at = CASE ~Attached(w)                   -> "finalize"
                                            [] Attached(w) /\ watch[w].pidfd -> "waitid"
                                            [] OTHER                         -> "reset"]
  /\ UNCHANGED <<otherVars, mainWakeup, watch, child, owed>>
MainDone ==
  /\ main.at = "dispatch" /\ main.ready = {}
  /\ MainStep("prepare")
  /\ UNCHANGED <<otherVars, mainWakeup, watch, child, owed>>

\* waitpid() and waitid(): a child that has not exited is waited for longer, one that has
\* is reaped, and where waiting fails the child is taken to be gone.
Reap == /\ child' = [child EXCEPT ![main.w] = IF @ = "zombie" THEN "reaped" ELSE @]
        /\ MainStep(IF child[main.w] = "running" THEN "return" ELSE "callback")

\* g_child_watch_dispatch with a pidfd.
Waitid ==
  /\ main.at = "waitid"
  /\ Reap
  /\ UNCHANGED <<otherVars, mainWakeup, watch, owed>>

\* g_child_watch_dispatch without one, and g_unix_signal_watch_dispatch: the flag is reset
\* before the child is waited for, and before the callback.
Reset ==
  /\ main.at = "reset"
  /\ watch' = [watch EXCEPT ![main.w].flag = FALSE]
  /\ MainStep(IF main.w \in ChildWatch THEN "waitpid" ELSE "callback")
  /\ UNCHANGED <<otherVars, mainWakeup, child, owed>>
Waitpid ==
  /\ main.at = "waitpid"
  /\ Reap
  /\ UNCHANGED <<otherVars, mainWakeup, watch, owed>>

\* The callback; a signal watch stays if it says so, a child watch never does.
Callback ==
  /\ main.at = "callback"
  /\ \/ /\ main.w \in SignalWatch
        /\ \/ UNCHANGED watch
           \/ watch' = [watch EXCEPT ![main.w].phase = "destroyed"]
     \/ /\ main.w \in ChildWatch
        /\ watch' = [watch EXCEPT ![main.w].phase = "destroyed", ![main.w].calls = @ + 1]
  /\ owed' = owed \ {main.w}
  /\ MainStep("return")
  /\ UNCHANGED <<otherVars, mainWakeup, child>>

\* The reference of the iteration is dropped.
MainReturns ==
  /\ main.at = "return"
  /\ \/ /\ watch[main.w].phase = "destroyed"
        /\ MainStep("finalize")
     \/ /\ watch[main.w].phase # "destroyed"
        /\ main' = [main EXCEPT !.at = "dispatch", !.ready = @ \ {main.w}, !.w = None]
  /\ UNCHANGED <<otherVars, mainWakeup, watch, child, owed>>
MainFinalizes ==
  /\ main.at = "finalize"
  /\ Free(main.w)
  /\ main' = [main EXCEPT !.at = "dispatch", !.ready = @ \ {main.w}, !.w = None]
  /\ UNCHANGED <<signalVars, wakeupVars, scan, child>>

--------------------------------------------------------------------------------
Kernel == \/ \E w \in ChildWatch : ChildExits(w) \/ ForeignReaps(w)
          \/ Raise
Delivery == \E a \in Activation, s \in Signal : Deliver(a, s)
Scan(p) == \/ ScanStarts(p) \/ Take(p) \/ WakeSource(p) \/ ScanEnds(p)
           \/ \E w \in Watch : Visit(p, w)
Worker == WorkerIterates \/ WorkerChecks \/ Scan("worker")
User == \E w \in Watch : (w \in ChildWatch /\ NewPidfd(w)) \/ New(w) \/ Attach(w) \/ Destroy(w)
UserGoesOn == NewListed \/ Finalize \/ Scan("user")
Main == \/ MainPrepares \/ MainPolls \/ MainChecks \/ MainDone
        \/ \E w \in Watch : MainDispatches(w)
        \/ Waitid \/ Reset \/ Waitpid \/ Callback \/ MainReturns \/ MainFinalizes

Next == \/ Kernel \/ Delivery \/ Worker \/ User \/ UserGoesOn \/ Main
        \/ \E a \in Activation : Handler(a)

Spec == Init /\ [][Next]_vars

\* Threads run, callbacks return and the kernel delivers signals.  Weak fairness is enough
\* for who waits for unix_signal_lock: with finitely many signals it becomes free for good.
FairSpec == /\ Spec
            /\ WF_vars(Delivery) /\ \A a \in Activation : WF_vars(Handler(a))
            /\ WF_vars(Worker) /\ WF_vars(UserGoesOn) /\ WF_vars(Main)

--------------------------------------------------------------------------------
(* Properties. *)

\* Type correctness.
TypeOK == /\ raised \subseteq Signal /\ unixPending \subseteq Signal /\ anyPending \in BOOLEAN
          /\ refcount \in [Signal -> Nat] /\ listed \subseteq Watch
          /\ lock \in Scanner \cup {None}
          /\ workerWakeup \in BOOLEAN /\ mainWakeup \in BOOLEAN
          /\ handler \in [Activation -> [at : {"idle", "pending", "any", "wake"},
                                         signum : Signal \cup {None}]]
          /\ scan \in [Scanner -> ScanRecord] /\ main \in MainRecord
          /\ watch \in [Watch -> WatchRecord]
          /\ child \in [ChildWatch -> {"running", "zombie", "reaped", "stolen"}]
          /\ raises \in 0 .. MaxSignals /\ owed \subseteq SignalWatch

\* Signal s is on its way to the watch w: with the kernel, in a handler, pending, or
\* taken by a scan that has not come to w yet.
OnItsWay(s, w) ==
  \/ s \in raised \cup unixPending
  \/ \E a \in Activation : handler[a].at = "pending" /\ handler[a].signum = s
  \/ \E p \in Scanner : \/ scan[p].at = "take" /\ s \in scan[p].taken
                        \/ scan[p].at \in {"scan", "wake"} /\ w \in scan[p].todo

\* A signal that came is never forgotten: it is on its way to each of its watches, or the
\* watch's flag is set, or its callback is about to begin.
SignalNotForgotten == \A w \in owed :
  OnItsWay(SignalOf(w), w) \/ watch[w].flag \/ (main.at = "callback" /\ main.w = w)

\* Nor is the exit of a child, although SIGCHLD says nothing about which one it is: until
\* the child is reaped, its watch is about to look again.
ExitNotForgotten == \A w \in listed \cap ChildWatch :
  child[w] # "running" /\ Attached(w) =>
    \/ OnItsWay("CHLD", w) \/ watch[w].flag
    \/ main.w = w /\ main.at \in {"waitpid", "callback"}

\* A signal that is pending does not stay so: the flag that tells the worker is set, or a
\* handler or a scan is just coming to it, and the worker does not sleep.
WorkerIsTold == unixPending # {} =>
  \/ \E a \in Activation : handler[a].at \in {"any"}
  \/ \E p \in Scanner : scan[p].at = "take"
  \/ /\ anyPending
     /\ \/ workerWakeup \/ scan["worker"].at # "poll"
        \/ \E a \in Activation : handler[a].at = "wake"

\* The main thread does not sleep while a watch of its context has its flag set.
MainIsWoken == main.at = "poll" /\ ~mainWakeup /\ main.ready = {} =>
  \A w \in Watch : Attached(w) /\ ~watch[w].pidfd /\ watch[w].flag =>
    \E p \in Scanner : scan[p].at = "wake" /\ scan[p].w = w

\* Between the handler, the worker's scan and the main loop, which share flags and no
\* lock, no signal and no exit of a child falls through: each is on its way to its watch,
\* and nobody sleeps who has to pass it on.
NothingForgotten == SignalNotForgotten /\ ExitNotForgotten /\ WorkerIsTold /\ MainIsWoken

\* A scan never meets a watch that has been freed.
ScanMeetsLive == \A p \in Scanner :
  /\ \A w \in scan[p].todo : watch[w].phase # "freed"
  /\ scan[p].at = "wake" => watch[scan[p].w].phase # "freed"

\* A child is reaped only right before its watch's callback; a watch that is destroyed
\* without a callback leaves the child alone.
ReapedForCallback == \A w \in ChildWatch : child[w] = "reaped" =>
  watch[w].calls = 1 \/ (main.at = "callback" /\ main.w = w)

\* A watch that is destroyed at any point is neither scanned after it is freed nor has
\* it taken the exit status of a child it does not report.
WatchesSound == TypeOK /\ ScanMeetsLive /\ ReapedForCallback

\* The exit of a child is reported, however it meets the making of the watch, other exits
\* and scans, unless the watch is destroyed first.
ExitIsReported == \A w \in ChildWatch :
  (Attached(w) /\ child[w] # "running") ~> ~Attached(w)

\* After every signal the callback of a watch begins once more.
SignalIsReported == \A w \in SignalWatch : (w \in owed /\ Attached(w)) ~> (w \notin owed)

\* Every exit of a child and every signal is reported in the end.
Reported == ExitIsReported /\ SignalIsReported
================================================================================
