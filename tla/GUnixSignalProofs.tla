--------------------------- MODULE GUnixSignalProofs ---------------------------
(*****************************************************************************)
(* Proofs about GUnixSignal, for any number of watches, of activations of    *)
(* the signal handler and of signals.                                        *)
(*****************************************************************************)
EXTENDS GUnixSignal, FiniteSetTheorems, TLAPS

ScanPlaces == {"take", "scan", "wake"}

\* Where the worker and the user thread can be; the lock is held exactly in a scan, and a
\* scan has watches to visit only after it has taken all signals.
ScanInv == \A p \in Scanner :
  /\ scan[p].at \in IF p = "worker" THEN ScanPlaces \cup {"poll", "any", "lock"}
                                    ELSE ScanPlaces \cup {"idle", "new", "finalize"}
  /\ scan[p].at \in ScanPlaces <=> lock = p
  /\ scan[p].at = "take" => scan[p].left \in 1 .. 2
  /\ scan[p].at \in {"wake", "new", "finalize"} => scan[p].w \in Watch
  /\ scan[p].at \notin {"scan", "wake"} => scan[p].todo = {}

HandlerInv == \A a \in Activation : handler[a].at # "idle" => handler[a].signum \in Signal

Working == {"waitid", "reset", "waitpid", "callback", "return", "finalize"}

\* The main thread works on a watch it has dispatched; only child watches have a pidfd.
MainInv ==
  /\ main.at \in Working => main.w \in main.ready
  /\ main.at \in {"waitid", "waitpid"} => main.w \in ChildWatch
  /\ main.at \notin Working => main.w = None
  /\ \A w \in Watch : watch[w].pidfd => w \in ChildWatch

Shape == TypeOK /\ ScanInv /\ HandlerInv /\ MainInv

\* A watch is on the list from when it is made until it is freed, unless it has a pidfd.
ListedInv == \A w \in Watch :
  /\ w \in listed <=> watch[w].phase \in {"made", "attached", "destroyed"} /\ ~watch[w].pidfd
  /\ watch[w].phase = "attached" => watch[w].context
  /\ watch[w].phase \in {"none", "freed"} => ~watch[w].pidfd

\* A watch that is being made is in no list and, for a child, says that it may have exited.
NewInv == scan["user"].at = "new" =>
  /\ watch[scan["user"].w].phase = "none"
  /\ scan["user"].w \in ChildWatch => watch[scan["user"].w].flag

\* What is freed was destroyed, by one thread: the main thread frees what it refers to.
FinalInv ==
  /\ scan["user"].at = "finalize" => watch[scan["user"].w].phase = "destroyed"
  /\ main.at = "finalize" => watch[main.w].phase = "destroyed"
  /\ \A w \in Watch : Held(w) =>
       /\ watch[w].phase \in {"attached", "destroyed"}
       /\ ~(scan["user"].at = "finalize" /\ scan["user"].w = w)

\* A scan meets only what is on the list, which does not change under it.
VisitInv == \A p \in Scanner :
  /\ scan[p].todo \subseteq listed
  /\ scan[p].at = "wake" => scan[p].w \in listed

\* The handler is installed for as many watches as are on the list.
CountInv ==
  /\ IsFiniteSet(listed)
  /\ \A s \in Signal : refcount[s] = Cardinality({w \in listed : SignalOf(w) = s})

\* A watch whose callback was called is not dispatched again.
CallsInv == \A w \in ChildWatch : watch[w].calls # 0 =>
  /\ watch[w].phase \in {"destroyed", "freed"}
  /\ Held(w) => main.w = w /\ main.at \in {"return", "finalize"}

\* The exit of a child is not forgotten from the making of the watch on.
ExitInv == \A w \in listed \cap ChildWatch :
  child[w] # "running" /\ watch[w].phase \in {"made", "attached"} =>
    \/ OnItsWay("CHLD", w) \/ watch[w].flag
    \/ main.w = w /\ main.at \in {"waitpid", "callback"}

OwedInv == owed \subseteq listed

\* The scan has not come to the signal s yet.
ScanComes(s) == \E p \in Scanner :
  scan[p].at = "take" /\ (scan[p].left = 1 => s = "WINCH")

\* A signal that is pending is told by the flag for all of them, or a handler is about to
\* set that, or a scan comes to it; and the flag is told to the worker.
PendingTold == \A s \in unixPending :
  anyPending \/ (\E a \in Activation : handler[a].at = "any") \/ ScanComes(s)
FlagTold == anyPending =>
  \/ workerWakeup \/ scan["worker"].at \in {"any", "lock"}
  \/ \E a \in Activation : handler[a].at = "wake"

\* The flag was reset and the child is about to be waited for, or the callback to begin.
Looks(w) == main.w = w /\ main.at \in (IF w \in ChildWatch THEN {"waitpid", "callback"}
                                                           ELSE {"callback"})

Lives == ListedInv /\ NewInv /\ FinalInv /\ VisitInv /\ CountInv
IInv == /\ Shape /\ Lives /\ CallsInv /\ OwedInv /\ ExitInv /\ SignalNotForgotten
        /\ PendingTold /\ FlagTold /\ MainIsWoken /\ ReapedForCallback
--------------------------------------------------------------------------------
\* The sequence of the signals, and what each watch waits for.
LEMMA SignalsFacts == Len(Signals) = 2 /\ Signals[1] = "CHLD" /\ Signals[2] = "WINCH"
  BY DEF Signals
LEMMA SignalOfType == \A w \in Watch : SignalOf(w) \in Signal
  BY DEF SignalOf, Signal

\* What a scanner and a watch may become.
LEMMA ScanType ==
  ASSUME scan \in [Scanner -> ScanRecord], NEW p \in Scanner, NEW r \in ScanRecord
  PROVE  [scan EXCEPT ![p] = r] \in [Scanner -> ScanRecord]
  OBVIOUS
LEMMA WatchType ==
  ASSUME watch \in [Watch -> WatchRecord], NEW w \in Watch, NEW r \in WatchRecord
  PROVE  [watch EXCEPT ![w] = r] \in [Watch -> WatchRecord]
  OBVIOUS
LEMMA TakeType ==
  ASSUME NEW r \in ScanRecord, NEW n \in Nat, NEW T \in SUBSET Signal,
         NEW V \in SUBSET Watch, NEW x \in {"take", "scan"}
  PROVE  [r EXCEPT !.left = n, !.taken = T, !.at = x, !.todo = V] \in ScanRecord
  BY DEF ScanRecord
LEMMA StartType ==
  ASSUME NEW r \in ScanRecord, NEW n \in Nat, NEW w \in Watch \cup {None}
  PROVE  /\ [r EXCEPT !.at = "take", !.left = n, !.taken = {}] \in ScanRecord
         /\ [r EXCEPT !.at = "take", !.w = w, !.left = n, !.taken = {}] \in ScanRecord
  BY DEF ScanRecord
LEMMA VisitType ==
  ASSUME NEW r \in ScanRecord, NEW V \in SUBSET Watch, NEW x \in {"scan", "wake"},
         NEW w \in Watch \cup {None}
  PROVE  [r EXCEPT !.todo = V, !.at = x, !.w = w] \in ScanRecord
  BY DEF ScanRecord
LEMMA FlagType == ASSUME NEW r \in WatchRecord, NEW b \in BOOLEAN
                  PROVE  [r EXCEPT !.flag = b] \in WatchRecord
  BY DEF WatchRecord

\* What the callback and the making of a watch change.
LEMMA CallbackFacts ==
  ASSUME TypeOK, MainInv, Callback
  PROVE  /\ main.w \in Watch /\ main' = [main EXCEPT !.at = "return"]
         /\ watch' \in [Watch -> WatchRecord]
         /\ \A w \in Watch : /\ w # main.w => watch'[w] = watch[w]
                             /\ watch'[w].pidfd = watch[w].pidfd /\ watch'[w].flag = watch[w].flag
                             /\ watch'[w].context = watch[w].context
                             /\ watch'[w].phase \in {watch[w].phase, "destroyed"}
         /\ main.w \in ChildWatch => /\ watch'[main.w].phase = "destroyed"
                                     /\ watch'[main.w].calls = watch[main.w].calls + 1
         /\ main.w \notin ChildWatch => watch'[main.w].calls = watch[main.w].calls
<1>1. main.w \in Watch /\ watch[main.w] \in WatchRecord
  BY DEF TypeOK, MainInv, MainRecord, Working, Callback
<1>2. main' = [main EXCEPT !.at = "return"]
  BY DEF Callback, MainStep
<1>3. CASE watch' = watch /\ main.w \in SignalWatch
  BY <1>1, <1>2, <1>3, UnixSignalAssumption DEF TypeOK
<1>4. CASE watch' = [watch EXCEPT ![main.w].phase = "destroyed"] /\ main.w \in SignalWatch
  <2>1. [watch[main.w] EXCEPT !.phase = "destroyed"] \in WatchRecord
    BY <1>1 DEF WatchRecord
  <2>2. watch' = [watch EXCEPT ![main.w] = [watch[main.w] EXCEPT !.phase = "destroyed"]]
    BY <1>4
  <2> QED
    BY <1>1, <1>2, <1>4, <2>1, <2>2, UnixSignalAssumption DEF TypeOK, WatchRecord
<1>5. CASE watch' = [watch EXCEPT ![main.w].phase = "destroyed", ![main.w].calls = @ + 1]
           /\ main.w \in ChildWatch
  <2> DEFINE r == [watch[main.w] EXCEPT !.phase = "destroyed", !.calls = @ + 1]
  <2>1. r \in WatchRecord
    <3>1. watch[main.w].calls + 1 \in Nat
      BY <1>1 DEF WatchRecord
    <3> QED
      BY <1>1, <3>1 DEF WatchRecord
  <2>2. watch' = [watch EXCEPT ![main.w] = r]
    BY <1>1, <1>5 DEF TypeOK, WatchRecord
  <2>3. /\ r.phase = "destroyed" /\ r.calls = watch[main.w].calls + 1
        /\ r.pidfd = watch[main.w].pidfd /\ r.flag = watch[main.w].flag
        /\ r.context = watch[main.w].context
    BY <1>1 DEF WatchRecord
  <2> HIDE DEF r
  <2> QED
    BY <1>1, <1>2, <1>5, <2>1, <2>2, <2>3 DEF TypeOK
<1> QED
  BY <1>3, <1>4, <1>5 DEF Callback

LEMMA NewListedFacts ==
  ASSUME TypeOK, ScanInv, NewListed
  PROVE  LET w == scan["user"].w IN
         /\ w \in Watch /\ lock = None /\ scan["user"].at = "new"
         /\ scan'["worker"] = scan["worker"] /\ scan'["user"].todo = scan["user"].todo
         /\ \/ /\ w \in ChildWatch /\ scan'["user"].at = "idle" /\ UNCHANGED <<lock, anyPending>>
            \/ /\ w \in SignalWatch /\ lock' = "user" /\ anyPending' = FALSE
               /\ scan'["user"].at = "take" /\ scan'["user"].left = 2
         /\ watch'[w].phase = "made"
         /\ watch'[w].flag = watch[w].flag /\ watch'[w].pidfd = watch[w].pidfd
         /\ watch'[w].context = watch[w].context /\ watch'[w].calls = watch[w].calls
         /\ \A v \in Watch \ {w} : watch'[v] = watch[v]
         /\ listed' = listed \cup {w} /\ RefHandler(w)
         /\ UNCHANGED <<quietVars, unixPending, wakeupVars>>
<1> DEFINE w == scan["user"].w
<1>1. /\ w \in Watch /\ "user" \in Scanner /\ "worker" \in Scanner /\ "user" # "worker"
      /\ scan["user"] \in ScanRecord
  BY DEF TypeOK, ScanInv, NewListed, Scanner
<1>4. /\ watch'[w].phase = "made"
      /\ watch'[w].flag = watch[w].flag /\ watch'[w].pidfd = watch[w].pidfd
      /\ watch'[w].context = watch[w].context /\ watch'[w].calls = watch[w].calls
      /\ \A v \in Watch \ {w} : watch'[v] = watch[v]
  BY <1>1 DEF NewListed, TypeOK, WatchRecord
<1>5. listed' = listed \cup {w} /\ RefHandler(w) /\ UNCHANGED <<quietVars, unixPending, wakeupVars>>
  BY DEF NewListed
<1>2. CASE w \in ChildWatch /\ scan' = [scan EXCEPT !["user"].at = "idle", !["user"].w = None]
           /\ UNCHANGED <<lock, anyPending>>
  <2>1. /\ scan'["worker"] = scan["worker"] /\ scan'["user"].todo = scan["user"].todo
        /\ scan'["user"].at = "idle"
    BY <1>1, <1>2 DEF TypeOK, ScanRecord
  <2> QED
    BY <1>1, <1>2, <1>4, <1>5, <2>1 DEF NewListed
<1>3. CASE /\ w \in SignalWatch /\ lock' = "user" /\ anyPending' = FALSE
           /\ scan' = [scan EXCEPT !["user"] = [@ EXCEPT !.at = "take", !.w = None,
                                                       !.left = Len(Signals), !.taken = {}]]
  <2> DEFINE r == [scan["user"] EXCEPT !.at = "take", !.w = None, !.left = Len(Signals), !.taken = {}]
  <2>1. r.at = "take" /\ r.left = 2 /\ r.todo = scan["user"].todo
    BY <1>1, SignalsFacts DEF ScanRecord
  <2>2. scan' = [scan EXCEPT !["user"] = r]
    BY <1>3
  <2> HIDE DEF r
  <2>3. scan'["user"] = r /\ scan'["worker"] = scan["worker"]
    BY <1>1, <2>2 DEF TypeOK
  <2> QED
    BY <1>1, <1>3, <1>4, <1>5, <2>1, <2>3 DEF NewListed
<1> QED
  BY <1>2, <1>3 DEF NewListed

\* Every variable keeps its type; the count of handlers needs CountInv (see CountStep).
LEMMA TypeStep ==
  ASSUME TypeOK, ScanInv, HandlerInv, MainInv, refcount' \in [Signal -> Nat], [Next]_vars
  PROVE  TypeOK'
<1> USE DEF TypeOK
<1>1. ASSUME NEW w \in ChildWatch, ChildExits(w) PROVE TypeOK'
  BY <1>1, UnixSignalAssumption DEF ChildExits, signalVars, listVars, wakeupVars, Signal
<1>2. ASSUME NEW w \in ChildWatch, ForeignReaps(w) PROVE TypeOK'
  BY <1>2 DEF ForeignReaps, signalVars, listVars, wakeupVars
<1>3. ASSUME Raise PROVE TypeOK'
  BY <1>3, UnixSignalAssumption DEF Raise, signalVars, listVars, wakeupVars, Signal
<1>4. ASSUME NEW a \in Activation, NEW s \in Signal, Deliver(a, s) PROVE TypeOK'
  BY <1>4 DEF Deliver, signalVars, listVars, wakeupVars, Signal
<1>5. ASSUME NEW a \in Activation, Handler(a) PROVE TypeOK'
  <2>1. handler' \in [Activation -> [at : {"idle", "pending", "any", "wake"},
                                    signum : Signal \cup {None}]]
    BY <1>5 DEF Handler
  <2>2. unixPending' \subseteq Signal
    BY <1>5 DEF Handler, HandlerInv
  <2> QED
    BY <1>5, <2>1, <2>2 DEF Handler, listVars
<1>6. ASSUME WorkerIterates PROVE TypeOK'
  BY <1>6 DEF WorkerIterates, quietVars, listVars, wakeupVars, ScanStep, ScanRecord, Scanner
<1>7. ASSUME WorkerChecks PROVE TypeOK'
  BY <1>7 DEF WorkerChecks, quietVars, listVars, wakeupVars, ScanStep, ScanRecord, Scanner
<1>8. ASSUME NEW p \in Scanner, ScanStarts(p) PROVE TypeOK'
  <2>1. [scan[p] EXCEPT !.at = "take", !.left = Len(Signals), !.taken = {}] \in ScanRecord
    BY SignalsFacts, StartType
  <2> QED
    BY <1>8, <2>1, ScanType DEF ScanStarts, quietVars, wakeupVars, Scanner
<1>9. ASSUME NEW p \in Scanner, Take(p) PROVE TypeOK'
  <2> DEFINE s == Signals[Len(Signals) + 1 - scan[p].left]
             taken == scan[p].taken \cup ({s} \cap unixPending)
             last == scan[p].left = 1
             r == [scan[p] EXCEPT !.left = @ - 1, !.taken = taken,
                                  !.at = IF last THEN "scan" ELSE "take",
                                  !.todo = IF last THEN ToVisit(taken) ELSE {}]
  <2>1. scan[p] \in ScanRecord /\ scan[p].left \in 1 .. 2
    BY <1>9 DEF ScanInv, Take
  <2>2. taken \subseteq Signal /\ ToVisit(taken) \subseteq Watch
    BY <2>1 DEF ScanRecord, ToVisit
  <2>5. /\ scan[p].left - 1 \in Nat /\ (IF last THEN ToVisit(taken) ELSE {}) \in SUBSET Watch
        /\ (IF last THEN "scan" ELSE "take") \in {"take", "scan"}
    <3> HIDE DEF taken
    <3> QED
      BY <2>1, <2>2
  <2>3. r \in ScanRecord
    BY <2>1, <2>2, <2>5, TakeType
  <2>4. scan' = [scan EXCEPT ![p] = r]
    BY <1>9 DEF Take
  <2> QED
    BY <1>9, <2>3, <2>4, ScanType DEF Take, quietVars, listVars, wakeupVars
<1>10. ASSUME NEW p \in Scanner, NEW w \in Watch, Visit(p, w) PROVE TypeOK'
  <2>1. watch' \in [Watch -> WatchRecord]
    BY <1>10 DEF Visit, WatchRecord
  <2>2. scan' \in [Scanner -> ScanRecord]
    <3>1. scan[p] \in ScanRecord /\ scan[p].todo \ {w} \in SUBSET Watch
      BY DEF ScanRecord
    <3>2. PICK x \in {"scan", "wake"}, y \in Watch \cup {None} :
            scan' = [scan EXCEPT ![p] = [@ EXCEPT !.todo = scan[p].todo \ {w}, !.at = x, !.w = y]]
      BY <1>10 DEF Visit
    <3>3. [scan[p] EXCEPT !.todo = scan[p].todo \ {w}, !.at = x, !.w = y] \in ScanRecord
      BY <3>1, VisitType
    <3> QED
      BY <3>2, <3>3, ScanType
  <2> QED
    BY <1>10, <2>1, <2>2 DEF Visit, quietVars, listVars, wakeupVars
<1>11. ASSUME NEW p \in Scanner, WakeSource(p) PROVE TypeOK'
  BY <1>11 DEF WakeSource, quietVars, listVars, wakeupVars, ScanStep, ScanRecord, Scanner
<1>12. ASSUME NEW p \in Scanner, ScanEnds(p) PROVE TypeOK'
  BY <1>12 DEF ScanEnds, quietVars, listVars, wakeupVars, ScanStep, ScanRecord, Scanner
<1>13. ASSUME NEW w \in ChildWatch, NewPidfd(w) PROVE TypeOK'
  BY <1>13 DEF NewPidfd, signalVars, listVars, wakeupVars, WatchRecord, Watch
<1>14. ASSUME NEW w \in Watch, New(w) PROVE TypeOK'
  <2>1. "user" \in Scanner /\ scan["user"] \in ScanRecord /\ watch[w] \in WatchRecord
    BY DEF Scanner
  <2>2. [watch[w] EXCEPT !.flag = (w \in ChildWatch)] \in WatchRecord
    <3>1. (w \in ChildWatch) \in BOOLEAN
      OBVIOUS
    <3> QED
      BY <2>1, <3>1, FlagType
  <2>3. [scan["user"] EXCEPT !.at = "new", !.w = w] \in ScanRecord
    BY <2>1 DEF ScanRecord
  <2> QED
    BY <1>14, <2>1, <2>2, <2>3, ScanType, WatchType DEF New, signalVars, listVars, wakeupVars
<1>15. ASSUME NewListed PROVE TypeOK'
  <2> DEFINE w == scan["user"].w
  <2>1. w \in Watch /\ "user" \in Scanner /\ scan["user"] \in ScanRecord /\ watch[w] \in WatchRecord
    BY <1>15 DEF ScanInv, Scanner, NewListed
  <2>2. [watch[w] EXCEPT !.phase = "made"] \in WatchRecord
    BY <2>1 DEF WatchRecord
  <2>3. [scan["user"] EXCEPT !.at = "idle", !.w = None] \in ScanRecord
    BY <2>1 DEF ScanRecord
  <2>6. [scan["user"] EXCEPT !.at = "take", !.w = None, !.left = Len(Signals), !.taken = {}]
          \in ScanRecord
    BY <2>1, SignalsFacts, StartType
  <2>4. watch' \in [Watch -> WatchRecord] /\ listed' \subseteq Watch
    BY <1>15, <2>1, <2>2, WatchType DEF NewListed
  <2>5. scan' \in [Scanner -> ScanRecord]
    <3>1. \/ scan' = [scan EXCEPT !["user"] = [@ EXCEPT !.at = "idle", !.w = None]]
          \/ scan' = [scan EXCEPT !["user"] = [@ EXCEPT !.at = "take", !.w = None,
                                                      !.left = Len(Signals), !.taken = {}]]
      BY <1>15 DEF NewListed
    <3> QED
      BY <2>1, <2>3, <2>6, <3>1, ScanType
  <2>7. lock' \in Scanner \cup {None} /\ anyPending' \in BOOLEAN
    BY <1>15, <2>1 DEF NewListed
  <2> QED
    BY <1>15, <2>4, <2>5, <2>7 DEF NewListed, quietVars, wakeupVars
<1>16. ASSUME NEW w \in Watch, Attach(w) PROVE TypeOK'
  BY <1>16 DEF Attach, signalVars, listVars, wakeupVars, WatchRecord
<1>17. ASSUME NEW w \in Watch, Destroy(w) PROVE TypeOK'
  <2>1. "user" \in Scanner /\ scan["user"] \in ScanRecord /\ watch[w] \in WatchRecord
    BY DEF Scanner
  <2>2. [watch[w] EXCEPT !.phase = "destroyed"] \in WatchRecord
    BY <2>1 DEF WatchRecord
  <2>3. [scan["user"] EXCEPT !.at = "finalize", !.w = w] \in ScanRecord
    BY <2>1 DEF ScanRecord
  <2>4. scan' \in [Scanner -> ScanRecord]
    BY <1>17, <2>1, <2>3, ScanType DEF Destroy
  <2> QED
    BY <1>17, <2>2, <2>4, WatchType DEF Destroy, signalVars, listVars, wakeupVars
<1>18. ASSUME Finalize PROVE TypeOK'
  <2> DEFINE w == scan["user"].w
  <2>1. w \in Watch /\ "user" \in Scanner /\ scan["user"] \in ScanRecord /\ watch[w] \in WatchRecord
    BY <1>18 DEF ScanInv, Scanner, Finalize
  <2>2. [scan["user"] EXCEPT !.at = "idle", !.w = None] \in ScanRecord
    BY <2>1 DEF ScanRecord
  <2>3. [phase |-> "freed", pidfd |-> FALSE, flag |-> FALSE, context |-> FALSE,
         calls |-> watch[w].calls] \in WatchRecord
    BY <2>1 DEF WatchRecord
  <2>4. listed' \subseteq Watch /\ lock' \in Scanner \cup {None}
    BY <1>18 DEF Finalize, Free, Unlist
  <2>5. scan' \in [Scanner -> ScanRecord] /\ watch' \in [Watch -> WatchRecord]
    BY <1>18, <2>1, <2>2, <2>3, ScanType, WatchType DEF Finalize, Free
  <2> QED
    BY <1>18, <2>4, <2>5 DEF Finalize, Free, signalVars, wakeupVars
<1>19. ASSUME MainPrepares PROVE TypeOK'
  BY <1>19 DEF MainPrepares, otherVars, signalVars, listVars, MainStep, MainRecord, Flagged
<1>20. ASSUME MainPolls PROVE TypeOK'
  BY <1>20 DEF MainPolls, otherVars, signalVars, listVars, MainStep, MainRecord, Readable,
     Watch
<1>21. ASSUME MainChecks PROVE TypeOK'
  BY <1>21 DEF MainChecks, otherVars, signalVars, listVars, MainStep, MainRecord, Flagged
<1>22. ASSUME MainDone PROVE TypeOK'
  BY <1>22 DEF MainDone, otherVars, signalVars, listVars, MainStep, MainRecord
<1>23. ASSUME NEW w \in Watch, MainDispatches(w) PROVE TypeOK'
  BY <1>23 DEF MainDispatches, otherVars, signalVars, listVars, MainStep, MainRecord
<1>24. ASSUME Waitid PROVE TypeOK'
  BY <1>24 DEF Waitid, Reap, otherVars, signalVars, listVars, MainStep, MainRecord, MainInv,
     Working
<1>25. ASSUME Reset PROVE TypeOK'
  BY <1>25 DEF Reset, otherVars, signalVars, listVars, MainStep, MainRecord, WatchRecord,
     MainInv, Working
<1>26. ASSUME Waitpid PROVE TypeOK'
  BY <1>26 DEF Waitpid, Reap, otherVars, signalVars, listVars, MainStep, MainRecord,
     MainInv, Working
<1>27. ASSUME Callback PROVE TypeOK'
  BY <1>27, CallbackFacts DEF Callback, otherVars, signalVars, listVars, MainStep, MainRecord
<1>28. ASSUME MainReturns PROVE TypeOK'
  <2>1. main' \in MainRecord
    <3>1. CASE watch[main.w].phase = "destroyed"
      BY <1>28, <3>1 DEF MainReturns, MainStep, MainRecord
    <3>2. CASE watch[main.w].phase # "destroyed"
      <4>1. [main EXCEPT !.at = "dispatch", !.ready = @ \ {main.w}, !.w = None] \in MainRecord
        BY DEF MainRecord
      <4> QED
        BY <1>28, <3>2, <4>1 DEF MainReturns
    <3> QED
      BY <3>1, <3>2
  <2> QED
    BY <1>28, <2>1 DEF MainReturns, otherVars, signalVars, listVars
<1>29. ASSUME MainFinalizes PROVE TypeOK'
  <2>1. main.w \in Watch /\ watch[main.w] \in WatchRecord /\ main \in MainRecord
    BY <1>29 DEF MainInv, MainFinalizes, MainRecord, Working
  <2>2. [main EXCEPT !.at = "dispatch", !.ready = @ \ {main.w}, !.w = None] \in MainRecord
    BY <2>1 DEF MainRecord
  <2>3. [phase |-> "freed", pidfd |-> FALSE, flag |-> FALSE, context |-> FALSE,
         calls |-> watch[main.w].calls] \in WatchRecord
    BY <2>1 DEF WatchRecord
  <2>4. listed' \subseteq Watch /\ lock' \in Scanner \cup {None}
    BY <1>29 DEF MainFinalizes, Free, Unlist
  <2>5. watch' \in [Watch -> WatchRecord]
    BY <1>29, <2>1, <2>3, WatchType DEF MainFinalizes, Free
  <2> QED
    BY <1>29, <2>2, <2>4, <2>5 DEF MainFinalizes, Free, signalVars, wakeupVars
<1>30. CASE UNCHANGED vars
  BY <1>30 DEF vars
<1> QED
  BY <1>1, <1>2, <1>3, <1>4, <1>5, <1>6, <1>7, <1>8, <1>9, <1>10, <1>11, <1>12, <1>13,
     <1>14, <1>15, <1>16, <1>17, <1>18, <1>19, <1>20, <1>21, <1>22, <1>23, <1>24, <1>25,
     <1>26, <1>27, <1>28, <1>29, <1>30 DEF Next, Kernel, Delivery, Worker, User, UserGoesOn,
     Main, Scan, Scanner

\* The worker and the user thread keep to their places, and to the lock.
LEMMA ScanStep1 ==
  ASSUME TypeOK, ScanInv, [Next]_vars
  PROVE  ScanInv'
<1> USE UnixSignalAssumption DEF TypeOK, ScanInv, ScanPlaces, Scanner
<1>1. ASSUME NEW w \in ChildWatch, ChildExits(w) PROVE ScanInv'
  BY <1>1 DEF ChildExits, signalVars, listVars, wakeupVars
<1>2. ASSUME NEW w \in ChildWatch, ForeignReaps(w) PROVE ScanInv'
  BY <1>2 DEF ForeignReaps, signalVars, listVars, wakeupVars
<1>3. ASSUME Raise PROVE ScanInv'
  BY <1>3 DEF Raise, signalVars, listVars, wakeupVars
<1>4. ASSUME NEW a \in Activation, NEW s \in Signal, Deliver(a, s) PROVE ScanInv'
  BY <1>4 DEF Deliver, signalVars, listVars, wakeupVars
<1>5. ASSUME NEW a \in Activation, Handler(a) PROVE ScanInv'
  BY <1>5 DEF Handler, signalVars, listVars, wakeupVars
<1>6. ASSUME WorkerIterates PROVE ScanInv'
  BY <1>6 DEF WorkerIterates, quietVars, listVars, wakeupVars, ScanStep
<1>7. ASSUME WorkerChecks PROVE ScanInv'
  BY <1>7 DEF WorkerChecks, quietVars, listVars, wakeupVars, ScanStep
<1>8. ASSUME NEW p \in Scanner, ScanStarts(p) PROVE ScanInv'
  <2>1. /\ lock' = p /\ scan'[p].at = "take" /\ scan'[p].left = 2 /\ scan'[p].todo = scan[p].todo
        /\ \A q \in Scanner \ {p} : scan'[q] = scan[q]
    BY <1>8, SignalsFacts DEF ScanStarts
  <2> QED
    BY <1>8, <2>1 DEF ScanStarts
<1>9. ASSUME NEW p \in Scanner, Take(p) PROVE ScanInv'
  BY <1>9, SignalsFacts DEF Take, quietVars, listVars, wakeupVars, ScanStep, ToVisit
<1>10. ASSUME NEW p \in Scanner, NEW w \in Watch, Visit(p, w) PROVE ScanInv'
  BY <1>10 DEF Visit, quietVars, listVars, wakeupVars, ScanStep
<1>11. ASSUME NEW p \in Scanner, WakeSource(p) PROVE ScanInv'
  BY <1>11 DEF WakeSource, quietVars, listVars, wakeupVars, ScanStep
<1>12. ASSUME NEW p \in Scanner, ScanEnds(p) PROVE ScanInv'
  BY <1>12 DEF ScanEnds, quietVars, listVars, wakeupVars, ScanStep
<1>13. ASSUME NEW w \in ChildWatch, NewPidfd(w) PROVE ScanInv'
  BY <1>13 DEF NewPidfd, signalVars, listVars, wakeupVars
<1>14. ASSUME NEW w \in Watch, New(w) PROVE ScanInv'
  BY <1>14 DEF New, signalVars, listVars, wakeupVars
<1>15. ASSUME NewListed PROVE ScanInv'
  <2>1. /\ lock = None /\ scan["user"].at = "new" /\ scan'["worker"] = scan["worker"]
        /\ scan'["user"].todo = scan["user"].todo
        /\ \/ scan'["user"].at = "idle" /\ lock' = lock
           \/ scan'["user"].at = "take" /\ scan'["user"].left = 2 /\ lock' = "user"
    <3> HIDE DEF TypeOK, ScanInv
    <3> QED
      BY <1>15, NewListedFacts
  <2> QED
    BY <2>1
<1>16. ASSUME NEW w \in Watch, Attach(w) PROVE ScanInv'
  BY <1>16 DEF Attach, signalVars, listVars, wakeupVars
<1>17. ASSUME NEW w \in Watch, Destroy(w) PROVE ScanInv'
  BY <1>17 DEF Destroy, signalVars, listVars, wakeupVars
<1>18. ASSUME Finalize PROVE ScanInv'
  BY <1>18 DEF Finalize, Free, Unlist, UnrefHandler, signalVars, wakeupVars
<1>19. ASSUME MainPrepares PROVE ScanInv'
  BY <1>19 DEF MainPrepares, otherVars, signalVars, listVars, MainStep
<1>20. ASSUME MainPolls PROVE ScanInv'
  BY <1>20 DEF MainPolls, otherVars, signalVars, listVars, MainStep
<1>21. ASSUME MainChecks PROVE ScanInv'
  BY <1>21 DEF MainChecks, otherVars, signalVars, listVars, MainStep
<1>22. ASSUME MainDone PROVE ScanInv'
  BY <1>22 DEF MainDone, otherVars, signalVars, listVars, MainStep
<1>23. ASSUME NEW w \in Watch, MainDispatches(w) PROVE ScanInv'
  BY <1>23 DEF MainDispatches, otherVars, signalVars, listVars, MainStep
<1>24. ASSUME Waitid PROVE ScanInv'
  BY <1>24 DEF Waitid, Reap, otherVars, signalVars, listVars, MainStep
<1>25. ASSUME Reset PROVE ScanInv'
  BY <1>25 DEF Reset, otherVars, signalVars, listVars, MainStep
<1>26. ASSUME Waitpid PROVE ScanInv'
  BY <1>26 DEF Waitpid, Reap, otherVars, signalVars, listVars, MainStep
<1>27. ASSUME Callback PROVE ScanInv'
  BY <1>27 DEF Callback, otherVars, signalVars, listVars, MainStep
<1>28. ASSUME MainReturns PROVE ScanInv'
  BY <1>28 DEF MainReturns, otherVars, signalVars, listVars, MainStep
<1>29. ASSUME MainFinalizes PROVE ScanInv'
  BY <1>29 DEF MainFinalizes, Free, Unlist, UnrefHandler, signalVars, wakeupVars
<1>30. CASE UNCHANGED vars
  BY <1>30 DEF vars
<1> QED
  BY <1>1, <1>2, <1>3, <1>4, <1>5, <1>6, <1>7, <1>8, <1>9, <1>10, <1>11, <1>12, <1>13,
     <1>14, <1>15, <1>16, <1>17, <1>18, <1>19, <1>20, <1>21, <1>22, <1>23, <1>24, <1>25,
     <1>26, <1>27, <1>28, <1>29, <1>30 DEF Next, Kernel, Delivery, Worker, User, UserGoesOn,
     Main, Scan, Scanner

\* A handler that runs has a signal.
LEMMA HandlerStep ==
  ASSUME TypeOK, HandlerInv, [Next]_vars
  PROVE  HandlerInv'
<1> USE DEF TypeOK, HandlerInv
<1>1. ASSUME NEW w \in ChildWatch, ChildExits(w) PROVE HandlerInv'
  BY <1>1 DEF ChildExits, signalVars, listVars, wakeupVars
<1>2. ASSUME NEW w \in ChildWatch, ForeignReaps(w) PROVE HandlerInv'
  BY <1>2 DEF ForeignReaps, signalVars, listVars, wakeupVars
<1>3. ASSUME Raise PROVE HandlerInv'
  BY <1>3 DEF Raise, signalVars, listVars, wakeupVars
<1>4. ASSUME NEW a \in Activation, NEW s \in Signal, Deliver(a, s) PROVE HandlerInv'
  BY <1>4 DEF Deliver, signalVars, listVars, wakeupVars
<1>5. ASSUME NEW a \in Activation, Handler(a) PROVE HandlerInv'
  BY <1>5 DEF Handler, signalVars, listVars, wakeupVars
<1>6. ASSUME WorkerIterates PROVE HandlerInv'
  BY <1>6 DEF WorkerIterates, quietVars, listVars, wakeupVars, ScanStep
<1>7. ASSUME WorkerChecks PROVE HandlerInv'
  BY <1>7 DEF WorkerChecks, quietVars, listVars, wakeupVars, ScanStep
<1>8. ASSUME NEW p \in Scanner, ScanStarts(p) PROVE HandlerInv'
  BY <1>8 DEF ScanStarts, quietVars, listVars, wakeupVars, ScanStep
<1>9. ASSUME NEW p \in Scanner, Take(p) PROVE HandlerInv'
  BY <1>9 DEF Take, quietVars, listVars, wakeupVars, ScanStep
<1>10. ASSUME NEW p \in Scanner, NEW w \in Watch, Visit(p, w) PROVE HandlerInv'
  BY <1>10 DEF Visit, quietVars, listVars, wakeupVars, ScanStep
<1>11. ASSUME NEW p \in Scanner, WakeSource(p) PROVE HandlerInv'
  BY <1>11 DEF WakeSource, quietVars, listVars, wakeupVars, ScanStep
<1>12. ASSUME NEW p \in Scanner, ScanEnds(p) PROVE HandlerInv'
  BY <1>12 DEF ScanEnds, quietVars, listVars, wakeupVars, ScanStep
<1>13. ASSUME NEW w \in ChildWatch, NewPidfd(w) PROVE HandlerInv'
  BY <1>13 DEF NewPidfd, signalVars, listVars, wakeupVars
<1>14. ASSUME NEW w \in Watch, New(w) PROVE HandlerInv'
  BY <1>14 DEF New, signalVars, listVars, wakeupVars
<1>15. ASSUME NewListed PROVE HandlerInv'
  BY <1>15 DEF NewListed, RefHandler, quietVars, listVars, wakeupVars, ScanStep
<1>16. ASSUME NEW w \in Watch, Attach(w) PROVE HandlerInv'
  BY <1>16 DEF Attach, signalVars, listVars, wakeupVars
<1>17. ASSUME NEW w \in Watch, Destroy(w) PROVE HandlerInv'
  BY <1>17 DEF Destroy, signalVars, listVars, wakeupVars
<1>18. ASSUME Finalize PROVE HandlerInv'
  BY <1>18 DEF Finalize, Free, Unlist, UnrefHandler, signalVars, wakeupVars
<1>19. ASSUME MainPrepares PROVE HandlerInv'
  BY <1>19 DEF MainPrepares, otherVars, signalVars, listVars, MainStep
<1>20. ASSUME MainPolls PROVE HandlerInv'
  BY <1>20 DEF MainPolls, otherVars, signalVars, listVars, MainStep
<1>21. ASSUME MainChecks PROVE HandlerInv'
  BY <1>21 DEF MainChecks, otherVars, signalVars, listVars, MainStep
<1>22. ASSUME MainDone PROVE HandlerInv'
  BY <1>22 DEF MainDone, otherVars, signalVars, listVars, MainStep
<1>23. ASSUME NEW w \in Watch, MainDispatches(w) PROVE HandlerInv'
  BY <1>23 DEF MainDispatches, otherVars, signalVars, listVars, MainStep
<1>24. ASSUME Waitid PROVE HandlerInv'
  BY <1>24 DEF Waitid, Reap, otherVars, signalVars, listVars, MainStep
<1>25. ASSUME Reset PROVE HandlerInv'
  BY <1>25 DEF Reset, otherVars, signalVars, listVars, MainStep
<1>26. ASSUME Waitpid PROVE HandlerInv'
  BY <1>26 DEF Waitpid, Reap, otherVars, signalVars, listVars, MainStep
<1>27. ASSUME Callback PROVE HandlerInv'
  BY <1>27 DEF Callback, otherVars, signalVars, listVars, MainStep
<1>28. ASSUME MainReturns PROVE HandlerInv'
  BY <1>28 DEF MainReturns, otherVars, signalVars, listVars, MainStep
<1>29. ASSUME MainFinalizes PROVE HandlerInv'
  BY <1>29 DEF MainFinalizes, Free, Unlist, UnrefHandler, signalVars, wakeupVars
<1>30. CASE UNCHANGED vars
  BY <1>30 DEF vars
<1> QED
  BY <1>1, <1>2, <1>3, <1>4, <1>5, <1>6, <1>7, <1>8, <1>9, <1>10, <1>11, <1>12, <1>13,
     <1>14, <1>15, <1>16, <1>17, <1>18, <1>19, <1>20, <1>21, <1>22, <1>23, <1>24, <1>25,
     <1>26, <1>27, <1>28, <1>29, <1>30 DEF Next, Kernel, Delivery, Worker, User, UserGoesOn,
     Main, Scan, Scanner

\* The main thread keeps to the watch it works on.
LEMMA MainStep1 ==
  ASSUME TypeOK, ScanInv, MainInv, [Next]_vars
  PROVE  MainInv'
<1> USE DEF TypeOK, MainInv, MainRecord, WatchRecord, Working
<1>1. ASSUME NEW w \in ChildWatch, ChildExits(w) PROVE MainInv'
  BY <1>1 DEF ChildExits, signalVars, listVars, wakeupVars
<1>2. ASSUME NEW w \in ChildWatch, ForeignReaps(w) PROVE MainInv'
  BY <1>2 DEF ForeignReaps, signalVars, listVars, wakeupVars
<1>3. ASSUME Raise PROVE MainInv'
  BY <1>3 DEF Raise, signalVars, listVars, wakeupVars
<1>4. ASSUME NEW a \in Activation, NEW s \in Signal, Deliver(a, s) PROVE MainInv'
  BY <1>4 DEF Deliver, signalVars, listVars, wakeupVars
<1>5. ASSUME NEW a \in Activation, Handler(a) PROVE MainInv'
  BY <1>5 DEF Handler, signalVars, listVars, wakeupVars
<1>6. ASSUME WorkerIterates PROVE MainInv'
  BY <1>6 DEF WorkerIterates, quietVars, listVars, wakeupVars, ScanStep
<1>7. ASSUME WorkerChecks PROVE MainInv'
  BY <1>7 DEF WorkerChecks, quietVars, listVars, wakeupVars, ScanStep
<1>8. ASSUME NEW p \in Scanner, ScanStarts(p) PROVE MainInv'
  BY <1>8 DEF ScanStarts, quietVars, listVars, wakeupVars, ScanStep
<1>9. ASSUME NEW p \in Scanner, Take(p) PROVE MainInv'
  BY <1>9 DEF Take, quietVars, listVars, wakeupVars, ScanStep
<1>10. ASSUME NEW p \in Scanner, NEW w \in Watch, Visit(p, w) PROVE MainInv'
  BY <1>10 DEF Visit, quietVars, listVars, wakeupVars, ScanStep
<1>11. ASSUME NEW p \in Scanner, WakeSource(p) PROVE MainInv'
  BY <1>11 DEF WakeSource, quietVars, listVars, wakeupVars, ScanStep
<1>12. ASSUME NEW p \in Scanner, ScanEnds(p) PROVE MainInv'
  BY <1>12 DEF ScanEnds, quietVars, listVars, wakeupVars, ScanStep
<1>13. ASSUME NEW w \in ChildWatch, NewPidfd(w) PROVE MainInv'
  BY <1>13 DEF NewPidfd, signalVars, listVars, wakeupVars, Watch
<1>14. ASSUME NEW w \in Watch, New(w) PROVE MainInv'
  BY <1>14 DEF New, signalVars, listVars, wakeupVars
<1>15. ASSUME NewListed PROVE MainInv'
  BY <1>15 DEF NewListed, RefHandler, quietVars, listVars, wakeupVars, ScanStep, ScanInv,
     Scanner
<1>16. ASSUME NEW w \in Watch, Attach(w) PROVE MainInv'
  BY <1>16 DEF Attach, signalVars, listVars, wakeupVars
<1>17. ASSUME NEW w \in Watch, Destroy(w) PROVE MainInv'
  BY <1>17 DEF Destroy, signalVars, listVars, wakeupVars
<1>18. ASSUME Finalize PROVE MainInv'
  BY <1>18 DEF Finalize, Free, Unlist, UnrefHandler, signalVars, wakeupVars, ScanInv,
     Scanner
<1>19. ASSUME MainPrepares PROVE MainInv'
  BY <1>19 DEF MainPrepares, otherVars, signalVars, listVars, MainStep
<1>20. ASSUME MainPolls PROVE MainInv'
  BY <1>20 DEF MainPolls, otherVars, signalVars, listVars, MainStep
<1>21. ASSUME MainChecks PROVE MainInv'
  BY <1>21 DEF MainChecks, otherVars, signalVars, listVars, MainStep
<1>22. ASSUME MainDone PROVE MainInv'
  BY <1>22 DEF MainDone, otherVars, signalVars, listVars, MainStep
<1>23. ASSUME NEW w \in Watch, MainDispatches(w) PROVE MainInv'
  BY <1>23 DEF MainDispatches, otherVars, signalVars, listVars, MainStep
<1>24. ASSUME Waitid PROVE MainInv'
  BY <1>24 DEF Waitid, Reap, otherVars, signalVars, listVars, MainStep
<1>25. ASSUME Reset PROVE MainInv'
  BY <1>25 DEF Reset, otherVars, signalVars, listVars, MainStep
<1>26. ASSUME Waitpid PROVE MainInv'
  BY <1>26 DEF Waitpid, Reap, otherVars, signalVars, listVars, MainStep
<1>27. ASSUME Callback PROVE MainInv'
  BY <1>27, CallbackFacts DEF Callback
<1>28. ASSUME MainReturns PROVE MainInv'
  BY <1>28 DEF MainReturns, otherVars, signalVars, listVars, MainStep
<1>29. ASSUME MainFinalizes PROVE MainInv'
  BY <1>29 DEF MainFinalizes, Free, Unlist, UnrefHandler, signalVars, wakeupVars
<1>30. CASE UNCHANGED vars
  BY <1>30 DEF vars
<1> QED
  BY <1>1, <1>2, <1>3, <1>4, <1>5, <1>6, <1>7, <1>8, <1>9, <1>10, <1>11, <1>12, <1>13,
     <1>14, <1>15, <1>16, <1>17, <1>18, <1>19, <1>20, <1>21, <1>22, <1>23, <1>24, <1>25,
     <1>26, <1>27, <1>28, <1>29, <1>30 DEF Next, Kernel, Delivery, Worker, User, UserGoesOn,
     Main, Scan, Scanner

--------------------------------------------------------------------------------
(* The watches. *)

\* The watch the main thread works on lives.
LEMMA MainWorks ==
  ASSUME Shape, FinalInv, main.at \in Working
  PROVE  /\ main.w \in Watch /\ watch[main.w].phase \in {"attached", "destroyed"}
         /\ watch[main.w] \in WatchRecord
         /\ ~(scan["user"].at = "finalize" /\ scan["user"].w = main.w)
  BY DEF Shape, TypeOK, MainInv, MainRecord, Working, FinalInv, Held, Dispatching

LEMMA NewFacts ==
  ASSUME TypeOK, NEW w \in Watch, New(w)
  PROVE  /\ scan'["worker"] = scan["worker"] /\ scan'["user"].at = "new" /\ scan'["user"].w = w
         /\ w \in ChildWatch => watch'[w].flag
         /\ watch'[w].phase = "none" /\ watch'[w].pidfd = watch[w].pidfd
         /\ \A v \in Watch \ {w} : watch'[v] = watch[v]
         /\ scan'["user"].todo = scan["user"].todo /\ scan["user"].at = "idle"
         /\ watch[w].phase = "none" /\ watch'[w].calls = watch[w].calls
         /\ UNCHANGED <<signalVars, listVars, wakeupVars, main, child, owed>>
<1>1. /\ "user" \in Scanner /\ "worker" \in Scanner /\ "user" # "worker"
      /\ scan["user"] \in ScanRecord /\ watch[w] \in WatchRecord
  BY DEF TypeOK, Scanner
<1>2. scan' = [scan EXCEPT !["user"] = [scan["user"] EXCEPT !.at = "new", !.w = w]]
  BY DEF New
<1>3. [scan["user"] EXCEPT !.at = "new", !.w = w].at = "new" /\ [scan["user"] EXCEPT !.at = "new", !.w = w].w = w
  BY <1>1 DEF ScanRecord
<1>4. PICK b \in BOOLEAN : (w \in ChildWatch <=> b) /\ watch' = [watch EXCEPT ![w].flag = b]
  <2>1. (w \in ChildWatch) \in BOOLEAN
    OBVIOUS
  <2> QED
    BY <2>1, Zenon DEF New
<1>5. watch[w].phase = "none"
  BY DEF New
<1>6. watch'[w].flag = b /\ watch'[w].phase = "none" /\ watch'[w].pidfd = watch[w].pidfd
      /\ watch'[w].calls = watch[w].calls
      /\ \A v \in Watch \ {w} : watch'[v] = watch[v]
  BY <1>1, <1>4, <1>5 DEF TypeOK, WatchRecord
<1>7. /\ scan'["worker"] = scan["worker"] /\ scan'["user"].at = "new" /\ scan'["user"].w = w
      /\ scan'["user"].todo = scan["user"].todo
  BY <1>1, <1>2, <1>3 DEF TypeOK, ScanRecord
<1>8. scan["user"].at = "idle" /\ UNCHANGED <<signalVars, listVars, wakeupVars, main, child, owed>>
  BY DEF New
<1> QED
  BY <1>4, <1>5, <1>6, <1>7, <1>8

\* What a scan changes when it starts, and when it takes a signal.
LEMMA ScanStartsFacts ==
  ASSUME TypeOK, NEW p \in Scanner, ScanStarts(p)
  PROVE  /\ scan'[p].at = "take" /\ scan'[p].left = 2 /\ scan'[p].todo = scan[p].todo
         /\ scan'[p].taken = {} /\ \A q \in Scanner \ {p} : scan'[q] = scan[q]
         /\ scan[p].at = "lock" /\ lock = None /\ lock' = p /\ anyPending' = FALSE
         /\ UNCHANGED <<quietVars, unixPending, refcount, listed, wakeupVars, watch>>
  BY SignalsFacts DEF TypeOK, ScanStarts

LEMMA TakeFacts ==
  ASSUME TypeOK, ScanInv, NEW p \in Scanner, Take(p)
  PROVE  LET s == IF scan[p].left = 2 THEN "CHLD" ELSE "WINCH"
             taken == scan[p].taken \cup ({s} \cap unixPending)
         IN  /\ scan[p].left \in 1 .. 2 /\ unixPending' = unixPending \ {s}
             /\ scan'[p].taken = taken /\ taken \subseteq Signal
             /\ scan[p].left = 2 => scan'[p].at = "take" /\ scan'[p].left = 1 /\ scan'[p].todo = {}
             /\ scan[p].left = 1 => scan'[p].at = "scan" /\ scan'[p].todo = ToVisit(taken)
             /\ \A q \in Scanner \ {p} : scan'[q] = scan[q]
             /\ scan[p].at = "take"
             /\ UNCHANGED <<quietVars, anyPending, listVars, wakeupVars, watch>>
<1> DEFINE s == Signals[Len(Signals) + 1 - scan[p].left]
           taken == scan[p].taken \cup ({s} \cap unixPending)
           r == [scan[p] EXCEPT !.left = @ - 1, !.taken = taken,
                                !.at = IF scan[p].left = 1 THEN "scan" ELSE "take",
                                !.todo = IF scan[p].left = 1 THEN ToVisit(taken) ELSE {}]
<1>1. scan[p].left \in 1 .. 2 /\ scan[p] \in ScanRecord
  BY DEF ScanInv, Take, TypeOK
<1>2. s = IF scan[p].left = 2 THEN "CHLD" ELSE "WINCH"
  BY <1>1, SignalsFacts
<1>3. unixPending' = unixPending \ {s} /\ scan' = [scan EXCEPT ![p] = r]
  BY DEF Take
<1>4. taken \subseteq Signal
  BY <1>1 DEF TypeOK, ScanRecord
<1>7. scan[p].at = "take" /\ UNCHANGED <<quietVars, anyPending, listVars, wakeupVars, watch>>
  BY DEF Take
<1> HIDE DEF s, taken
<1>5. /\ r.taken = taken /\ r.left = scan[p].left - 1
      /\ r.at = IF scan[p].left = 1 THEN "scan" ELSE "take"
      /\ r.todo = IF scan[p].left = 1 THEN ToVisit(taken) ELSE {}
  BY <1>1 DEF ScanRecord
<1> HIDE DEF r
<1>6. scan'[p] = r /\ \A q \in Scanner \ {p} : scan'[q] = scan[q]
  BY <1>3 DEF TypeOK
<1> QED
  BY <1>1, <1>2, <1>3, <1>4, <1>5, <1>6, <1>7 DEF taken

\* What the end of a watch changes, in either thread.
LEMMA FreeFacts ==
  ASSUME TypeOK, NEW w \in Watch, Free(w)
  PROVE  /\ watch'[w].phase = "freed" /\ ~watch'[w].pidfd /\ ~watch'[w].flag
         /\ watch'[w].calls = watch[w].calls
         /\ \A v \in Watch \ {w} : watch'[v] = watch[v]
         /\ watch[w].pidfd => UNCHANGED <<refcount, listed, lock>>
         /\ ~watch[w].pidfd => lock = None /\ listed' = listed \ {w} /\ UnrefHandler(w)
         /\ lock' = lock /\ owed' = owed \ {w}
  BY DEF Free, Unlist, TypeOK, WatchRecord

LEMMA FinalizeFacts ==
  ASSUME TypeOK, ScanInv, Finalize
  PROVE  /\ scan["user"].w \in Watch /\ Free(scan["user"].w) /\ scan["user"].at = "finalize"
         /\ scan'["user"].at = "idle" /\ scan'["user"].w = None
         /\ scan'["user"].todo = scan["user"].todo /\ scan'["worker"] = scan["worker"]
         /\ UNCHANGED <<signalVars, wakeupVars, main, child>>
<1>1. "user" \in Scanner /\ "worker" \in Scanner /\ "user" # "worker" /\ scan["user"] \in ScanRecord
  BY DEF Scanner, TypeOK
<1> QED
  BY <1>1 DEF Finalize, ScanInv, TypeOK, ScanRecord

\* What the other steps on a watch change.
LEMMA NewPidfdFacts ==
  ASSUME TypeOK, NEW w \in ChildWatch, NewPidfd(w)
  PROVE  /\ scan["user"].at = "idle" /\ w \in Watch /\ watch[w].phase = "none"
         /\ watch'[w].phase = "made" /\ watch'[w].pidfd /\ watch'[w].calls = watch[w].calls
         /\ \A v \in Watch \ {w} : watch'[v] = watch[v]
         /\ UNCHANGED <<signalVars, listVars, wakeupVars, scan, main, child, owed>>
  BY DEF NewPidfd, TypeOK, WatchRecord, Watch

LEMMA AttachFacts ==
  ASSUME TypeOK, NEW w \in Watch, Attach(w)
  PROVE  /\ scan["user"].at = "idle" /\ watch[w].phase = "made" /\ mainWakeup'
         /\ watch'[w].phase = "attached" /\ watch'[w].pidfd = watch[w].pidfd
         /\ watch'[w].flag = watch[w].flag /\ watch'[w].context
         /\ watch'[w].calls = watch[w].calls
         /\ \A v \in Watch \ {w} : watch'[v] = watch[v]
         /\ UNCHANGED <<signalVars, listVars, workerWakeup, scan, main, child, owed>>
  BY DEF Attach, TypeOK, WatchRecord

LEMMA DestroyFacts ==
  ASSUME TypeOK, NEW w \in Watch, Destroy(w)
  PROVE  /\ scan["user"].at = "idle" /\ watch[w].phase \in {"made", "attached"}
         /\ watch'[w].phase = "destroyed" /\ watch'[w].pidfd = watch[w].pidfd
         /\ watch'[w].flag = watch[w].flag /\ watch'[w].calls = watch[w].calls
         /\ \A v \in Watch \ {w} : watch'[v] = watch[v]
         /\ scan'["worker"] = scan["worker"] /\ scan'["user"].todo = scan["user"].todo
         /\ Held(w) => UNCHANGED scan
         /\ ~Held(w) => scan'["user"].at = "finalize" /\ scan'["user"].w = w
         /\ UNCHANGED <<signalVars, listVars, wakeupVars, main, child, owed>>
<1>1. "user" \in Scanner /\ "worker" \in Scanner /\ "user" # "worker" /\ scan["user"] \in ScanRecord
  BY DEF Scanner, TypeOK
<1>2. /\ scan'["worker"] = scan["worker"] /\ scan'["user"].todo = scan["user"].todo
      /\ ~Held(w) => scan'["user"].at = "finalize" /\ scan'["user"].w = w
  BY <1>1 DEF Destroy, TypeOK, ScanRecord
<1> QED
  BY <1>2 DEF Destroy, TypeOK, WatchRecord

LEMMA VisitFacts ==
  ASSUME TypeOK, NEW p \in Scanner, NEW w \in Watch, Visit(p, w)
  PROVE  /\ scan[p].at = "scan" /\ w \in scan[p].todo /\ scan'[p].todo = scan[p].todo \ {w}
         /\ watch[w].flag => scan'[p].at = "scan"
         /\ ~watch[w].flag => scan'[p].at = "wake" /\ scan'[p].w = w
         /\ \A q \in Scanner \ {p} : scan'[q] = scan[q]
         /\ watch'[w].flag /\ watch'[w].phase = watch[w].phase /\ watch'[w].pidfd = watch[w].pidfd
         /\ watch'[w].context = watch[w].context /\ watch'[w].calls = watch[w].calls
         /\ \A v \in Watch \ {w} : watch'[v] = watch[v]
         /\ UNCHANGED <<quietVars, unixPending, anyPending, listVars, wakeupVars>>
<1>1. scan[p] \in ScanRecord /\ watch[w] \in WatchRecord
  BY DEF TypeOK
<1>2. /\ scan[p].at = "scan" /\ w \in scan[p].todo /\ scan'[p].todo = scan[p].todo \ {w}
      /\ watch[w].flag => scan'[p].at = "scan"
      /\ ~watch[w].flag => scan'[p].at = "wake" /\ scan'[p].w = w
      /\ \A q \in Scanner \ {p} : scan'[q] = scan[q]
  BY <1>1 DEF Visit, TypeOK, ScanRecord
<1>3. /\ watch'[w].flag /\ watch'[w].phase = watch[w].phase /\ watch'[w].pidfd = watch[w].pidfd
      /\ watch'[w].context = watch[w].context /\ watch'[w].calls = watch[w].calls
      /\ \A v \in Watch \ {w} : watch'[v] = watch[v]
  BY <1>1 DEF Visit, TypeOK, WatchRecord
<1> QED
  BY <1>2, <1>3 DEF Visit

LEMMA WakeSourceFacts ==
  ASSUME TypeOK, NEW p \in Scanner, WakeSource(p)
  PROVE  /\ scan[p].at = "wake" /\ scan'[p].at = "scan" /\ scan'[p].todo = scan[p].todo
         /\ \A q \in Scanner \ {p} : scan'[q] = scan[q]
         /\ mainWakeup' = (mainWakeup \/ watch[scan[p].w].context)
         /\ UNCHANGED <<quietVars, unixPending, anyPending, listVars, workerWakeup, watch>>
<1>1. scan[p] \in ScanRecord
  BY DEF TypeOK
<1> QED
  BY <1>1 DEF WakeSource, TypeOK, ScanRecord

LEMMA ScanEndsFacts ==
  ASSUME TypeOK, NEW p \in Scanner, ScanEnds(p)
  PROVE  /\ scan[p].at = "scan" /\ scan'[p].at = (IF p = "worker" THEN "poll" ELSE "idle")
         /\ scan[p].todo = {} /\ scan'[p].todo = {}
         /\ \A q \in Scanner \ {p} : scan'[q] = scan[q]
         /\ lock' = None
         /\ UNCHANGED <<quietVars, unixPending, anyPending, refcount, listed, wakeupVars, watch>>
<1>1. scan[p] \in ScanRecord
  BY DEF TypeOK
<1> QED
  BY <1>1 DEF ScanEnds, TypeOK, ScanRecord

LEMMA ResetFacts ==
  ASSUME Shape, Reset
  PROVE  /\ main.w \in Watch /\ main.w \in main.ready /\ main.at = "reset"
         /\ main'.at = (IF main.w \in ChildWatch THEN "waitpid" ELSE "callback")
         /\ main'.w = main.w /\ main'.ready = main.ready
         /\ ~watch'[main.w].flag /\ watch'[main.w].phase = watch[main.w].phase
         /\ watch'[main.w].pidfd = watch[main.w].pidfd /\ watch'[main.w].calls = watch[main.w].calls
         /\ watch'[main.w].context = watch[main.w].context
         /\ \A v \in Watch \ {main.w} : watch'[v] = watch[v]
         /\ UNCHANGED <<otherVars, mainWakeup, child, owed>>
  BY DEF Reset, MainStep, Shape, TypeOK, MainInv, Working, MainRecord, WatchRecord

LEMMA ReapFacts ==
  ASSUME Shape, Waitid \/ Waitpid
  PROVE  /\ main.w \in ChildWatch /\ main.w \in main.ready /\ main.at \in {"waitid", "waitpid"}
         /\ main'.at = (IF child[main.w] = "running" THEN "return" ELSE "callback")
         /\ main'.w = main.w /\ main'.ready = main.ready
         /\ \A v \in ChildWatch \ {main.w} : child'[v] = child[v]
         /\ child'[main.w] = "running" <=> child[main.w] = "running"
         /\ UNCHANGED <<otherVars, mainWakeup, watch, owed>>
  BY DEF Waitid, Waitpid, Reap, MainStep, Shape, TypeOK, MainInv, Working, MainRecord

LEMMA MainReturnsFacts ==
  ASSUME Shape, MainReturns
  PROVE  /\ main.w \in Watch /\ main.w \in main.ready /\ main.at = "return"
         /\ watch[main.w].phase = "destroyed" =>
              main'.at = "finalize" /\ main'.w = main.w /\ main'.ready = main.ready
         /\ watch[main.w].phase # "destroyed" =>
              main'.at = "dispatch" /\ main'.w = None /\ main'.ready = main.ready \ {main.w}
         /\ UNCHANGED <<otherVars, mainWakeup, watch, child, owed>>
<1>1. main \in MainRecord /\ main.w \in Watch /\ main.w \in main.ready /\ main.at = "return"
  BY DEF MainReturns, Shape, TypeOK, MainInv, Working, MainRecord
<1>2. CASE watch[main.w].phase = "destroyed"
  BY <1>1, <1>2 DEF MainReturns, MainStep, MainRecord
<1>3. CASE watch[main.w].phase # "destroyed"
  BY <1>1, <1>3 DEF MainReturns, MainRecord
<1> QED
  BY <1>1, <1>2, <1>3

LEMMA MainFinalizesFacts ==
  ASSUME Shape, MainFinalizes
  PROVE  /\ main.w \in Watch /\ Free(main.w) /\ main.at = "finalize"
         /\ main'.at = "dispatch" /\ main'.w = None /\ main'.ready = main.ready \ {main.w}
         /\ UNCHANGED <<signalVars, wakeupVars, scan, child>>
  BY DEF MainFinalizes, Shape, MainInv, Working, TypeOK, MainRecord

\* A watch is listed as long as it lives.
LEMMA ListedStep ==
  ASSUME Shape, ListedInv, NewInv, FinalInv, [Next]_vars
  PROVE  ListedInv'
<1> USE DEF ListedInv
<1>1. ASSUME NEW w \in ChildWatch, ChildExits(w) PROVE ListedInv'
  BY <1>1 DEF ChildExits, signalVars, listVars, wakeupVars
<1>2. ASSUME NEW w \in ChildWatch, ForeignReaps(w) PROVE ListedInv'
  BY <1>2 DEF ForeignReaps, signalVars, listVars, wakeupVars
<1>3. ASSUME Raise PROVE ListedInv'
  BY <1>3 DEF Raise, signalVars, listVars, wakeupVars
<1>4. ASSUME NEW a \in Activation, NEW s \in Signal, Deliver(a, s) PROVE ListedInv'
  BY <1>4 DEF Deliver, signalVars, listVars, wakeupVars
<1>5. ASSUME NEW a \in Activation, Handler(a) PROVE ListedInv'
  BY <1>5 DEF Handler, signalVars, listVars, wakeupVars
<1>6. ASSUME WorkerIterates PROVE ListedInv'
  BY <1>6 DEF WorkerIterates, quietVars, listVars, wakeupVars, ScanStep
<1>7. ASSUME WorkerChecks PROVE ListedInv'
  BY <1>7 DEF WorkerChecks, quietVars, listVars, wakeupVars, ScanStep
<1>8. ASSUME NEW p \in Scanner, ScanStarts(p) PROVE ListedInv'
  BY <1>8 DEF ScanStarts, quietVars, listVars, wakeupVars, ScanStep
<1>9. ASSUME NEW p \in Scanner, Take(p) PROVE ListedInv'
  BY <1>9 DEF Take, quietVars, listVars, wakeupVars, ScanStep
<1>10. ASSUME NEW p \in Scanner, NEW w \in Watch, Visit(p, w) PROVE ListedInv'
  BY <1>10 DEF Visit, quietVars, listVars, wakeupVars, ScanStep, Shape, TypeOK, WatchRecord
<1>11. ASSUME NEW p \in Scanner, WakeSource(p) PROVE ListedInv'
  BY <1>11 DEF WakeSource, quietVars, listVars, wakeupVars, ScanStep
<1>12. ASSUME NEW p \in Scanner, ScanEnds(p) PROVE ListedInv'
  BY <1>12 DEF ScanEnds, quietVars, listVars, wakeupVars, ScanStep
<1>13. ASSUME NEW w \in ChildWatch, NewPidfd(w) PROVE ListedInv'
  BY <1>13 DEF NewPidfd, signalVars, listVars, wakeupVars, Shape, TypeOK, WatchRecord, Watch
<1>14. ASSUME NEW w \in Watch, New(w) PROVE ListedInv'
  BY <1>14 DEF New, signalVars, listVars, wakeupVars, Shape, TypeOK, WatchRecord
<1>15. ASSUME NewListed PROVE ListedInv'
  BY <1>15 DEF NewListed, NewInv, Shape, TypeOK, ScanInv, Scanner, WatchRecord
<1>16. ASSUME NEW w \in Watch, Attach(w) PROVE ListedInv'
  BY <1>16 DEF Attach, signalVars, listVars, wakeupVars, Shape, TypeOK, WatchRecord
<1>17. ASSUME NEW w \in Watch, Destroy(w) PROVE ListedInv'
  BY <1>17 DEF Destroy, signalVars, listVars, wakeupVars, Shape, TypeOK, WatchRecord
<1>18. ASSUME Finalize PROVE ListedInv'
  BY <1>18 DEF Finalize, Free, Unlist, Shape, TypeOK, ScanInv, Scanner, WatchRecord
<1>19. ASSUME MainPrepares PROVE ListedInv'
  BY <1>19 DEF MainPrepares, otherVars, signalVars, listVars, MainStep
<1>20. ASSUME MainPolls PROVE ListedInv'
  BY <1>20 DEF MainPolls, otherVars, signalVars, listVars, MainStep
<1>21. ASSUME MainChecks PROVE ListedInv'
  BY <1>21 DEF MainChecks, otherVars, signalVars, listVars, MainStep
<1>22. ASSUME MainDone PROVE ListedInv'
  BY <1>22 DEF MainDone, otherVars, signalVars, listVars, MainStep
<1>23. ASSUME NEW w \in Watch, MainDispatches(w) PROVE ListedInv'
  BY <1>23 DEF MainDispatches, otherVars, signalVars, listVars, MainStep
<1>24. ASSUME Waitid PROVE ListedInv'
  BY <1>24 DEF Waitid, Reap, otherVars, signalVars, listVars, MainStep
<1>25. ASSUME Reset PROVE ListedInv'
  BY <1>25 DEF Reset, otherVars, signalVars, listVars, MainStep, Shape, TypeOK, WatchRecord
<1>26. ASSUME Waitpid PROVE ListedInv'
  BY <1>26 DEF Waitpid, Reap, otherVars, signalVars, listVars, MainStep
<1>27. ASSUME Callback PROVE ListedInv'
  BY <1>27, CallbackFacts, MainWorks DEF Shape, Callback, Working, otherVars, signalVars, listVars
<1>28. ASSUME MainReturns PROVE ListedInv'
  BY <1>28 DEF MainReturns, otherVars, signalVars, listVars, MainStep
<1>29. ASSUME MainFinalizes PROVE ListedInv'
  BY <1>29 DEF MainFinalizes, Free, Unlist, Shape, TypeOK, MainInv, MainRecord, Working, WatchRecord
<1>30. CASE UNCHANGED vars
  BY <1>30 DEF vars
<1> QED
  BY <1>1, <1>2, <1>3, <1>4, <1>5, <1>6, <1>7, <1>8, <1>9, <1>10, <1>11, <1>12, <1>13,
     <1>14, <1>15, <1>16, <1>17, <1>18, <1>19, <1>20, <1>21, <1>22, <1>23, <1>24, <1>25,
     <1>26, <1>27, <1>28, <1>29, <1>30 DEF Next, Kernel, Delivery, Worker, User, UserGoesOn,
     Main, Scan, Scanner

\* A watch that is being made stays as it is.
LEMMA NewStep ==
  ASSUME Shape, NewInv, FinalInv, [Next]_vars
  PROVE  NewInv'
<1> USE DEF NewInv
<1>1. ASSUME NEW w \in ChildWatch, ChildExits(w) PROVE NewInv'
  BY <1>1 DEF ChildExits, signalVars, listVars, wakeupVars
<1>2. ASSUME NEW w \in ChildWatch, ForeignReaps(w) PROVE NewInv'
  BY <1>2 DEF ForeignReaps, signalVars, listVars, wakeupVars
<1>3. ASSUME Raise PROVE NewInv'
  BY <1>3 DEF Raise, signalVars, listVars, wakeupVars
<1>4. ASSUME NEW a \in Activation, NEW s \in Signal, Deliver(a, s) PROVE NewInv'
  BY <1>4 DEF Deliver, signalVars, listVars, wakeupVars
<1>5. ASSUME NEW a \in Activation, Handler(a) PROVE NewInv'
  BY <1>5 DEF Handler, signalVars, listVars, wakeupVars
<1>6. ASSUME WorkerIterates PROVE NewInv'
  BY <1>6 DEF WorkerIterates, quietVars, listVars, wakeupVars, ScanStep, Shape, TypeOK,
     ScanInv, Scanner, ScanRecord
<1>7. ASSUME WorkerChecks PROVE NewInv'
  BY <1>7 DEF WorkerChecks, quietVars, listVars, wakeupVars, ScanStep, Shape, TypeOK,
     ScanInv, Scanner, ScanRecord
<1>8. ASSUME NEW p \in Scanner, ScanStarts(p) PROVE NewInv'
  BY <1>8 DEF ScanStarts, quietVars, listVars, wakeupVars, ScanStep, Shape, TypeOK, ScanInv,
     Scanner, ScanRecord
<1>9. ASSUME NEW p \in Scanner, Take(p) PROVE NewInv'
  BY <1>9 DEF Take, quietVars, listVars, wakeupVars, ScanStep, Shape, TypeOK, ScanInv,
     Scanner, ScanRecord
<1>10. ASSUME NEW p \in Scanner, NEW w \in Watch, Visit(p, w) PROVE NewInv'
  BY <1>10 DEF Visit, quietVars, listVars, wakeupVars, ScanStep, Shape, TypeOK, ScanInv,
     Scanner, ScanRecord
<1>11. ASSUME NEW p \in Scanner, WakeSource(p) PROVE NewInv'
  BY <1>11 DEF WakeSource, quietVars, listVars, wakeupVars, ScanStep, Shape, TypeOK,
     ScanInv, Scanner, ScanRecord
<1>12. ASSUME NEW p \in Scanner, ScanEnds(p) PROVE NewInv'
  BY <1>12 DEF ScanEnds, quietVars, listVars, wakeupVars, ScanStep, Shape, TypeOK, ScanInv,
     Scanner, ScanRecord
<1>13. ASSUME NEW w \in ChildWatch, NewPidfd(w) PROVE NewInv'
  BY <1>13 DEF NewPidfd, signalVars, listVars, wakeupVars, Shape, TypeOK, ScanInv, Scanner,
     ScanRecord
<1>14. ASSUME NEW w \in Watch, New(w) PROVE NewInv'
  BY <1>14, NewFacts DEF Shape
<1>15. ASSUME NewListed PROVE NewInv'
  BY <1>15, NewListedFacts DEF Shape
<1>16. ASSUME NEW w \in Watch, Attach(w) PROVE NewInv'
  BY <1>16 DEF Attach, signalVars, listVars, wakeupVars, Shape, TypeOK, ScanInv, Scanner,
     ScanRecord
<1>17. ASSUME NEW w \in Watch, Destroy(w) PROVE NewInv'
  BY <1>17 DEF Destroy, signalVars, listVars, wakeupVars, Shape, TypeOK, ScanInv, Scanner,
     ScanRecord
<1>18. ASSUME Finalize PROVE NewInv'
  BY <1>18 DEF Finalize, Free, Unlist, UnrefHandler, signalVars, wakeupVars, Shape, TypeOK,
     ScanInv, Scanner, ScanRecord
<1>19. ASSUME MainPrepares PROVE NewInv'
  BY <1>19 DEF MainPrepares, otherVars, signalVars, listVars, MainStep
<1>20. ASSUME MainPolls PROVE NewInv'
  BY <1>20 DEF MainPolls, otherVars, signalVars, listVars, MainStep
<1>21. ASSUME MainChecks PROVE NewInv'
  BY <1>21 DEF MainChecks, otherVars, signalVars, listVars, MainStep
<1>22. ASSUME MainDone PROVE NewInv'
  BY <1>22 DEF MainDone, otherVars, signalVars, listVars, MainStep
<1>23. ASSUME NEW w \in Watch, MainDispatches(w) PROVE NewInv'
  BY <1>23 DEF MainDispatches, otherVars, signalVars, listVars, MainStep
<1>24. ASSUME Waitid PROVE NewInv'
  BY <1>24 DEF Waitid, Reap, otherVars, signalVars, listVars, MainStep
<1>25. ASSUME Reset PROVE NewInv'
  BY <1>25, MainWorks DEF Reset, Shape, TypeOK, ScanInv, Scanner, Working, WatchRecord, otherVars
<1>26. ASSUME Waitpid PROVE NewInv'
  BY <1>26 DEF Waitpid, Reap, otherVars, signalVars, listVars, MainStep
<1>27. ASSUME Callback PROVE NewInv'
  BY <1>27, CallbackFacts, MainWorks DEF Shape, ScanInv, Scanner, Working, Callback, otherVars
<1>28. ASSUME MainReturns PROVE NewInv'
  BY <1>28 DEF MainReturns, otherVars, signalVars, listVars, MainStep
<1>29. ASSUME MainFinalizes PROVE NewInv'
  BY <1>29, MainWorks DEF MainFinalizes, Free, Shape, TypeOK, ScanInv, Scanner, Working, WatchRecord
<1>30. CASE UNCHANGED vars
  BY <1>30 DEF vars
<1> QED
  BY <1>1, <1>2, <1>3, <1>4, <1>5, <1>6, <1>7, <1>8, <1>9, <1>10, <1>11, <1>12, <1>13,
     <1>14, <1>15, <1>16, <1>17, <1>18, <1>19, <1>20, <1>21, <1>22, <1>23, <1>24, <1>25,
     <1>26, <1>27, <1>28, <1>29, <1>30 DEF Next, Kernel, Delivery, Worker, User, UserGoesOn,
     Main, Scan, Scanner

\* A watch is freed by one thread, which has destroyed it.
LEMMA FinalStep ==
  ASSUME Shape, ListedInv, NewInv, FinalInv, [Next]_vars
  PROVE  FinalInv'
<1> USE DEF FinalInv
<1>1. ASSUME NEW w \in ChildWatch, ChildExits(w) PROVE FinalInv'
  BY <1>1 DEF ChildExits, signalVars, listVars, wakeupVars, Held
<1>2. ASSUME NEW w \in ChildWatch, ForeignReaps(w) PROVE FinalInv'
  BY <1>2 DEF ForeignReaps, signalVars, listVars, wakeupVars, Held
<1>3. ASSUME Raise PROVE FinalInv'
  BY <1>3 DEF Raise, signalVars, listVars, wakeupVars, Held
<1>4. ASSUME NEW a \in Activation, NEW s \in Signal, Deliver(a, s) PROVE FinalInv'
  BY <1>4 DEF Deliver, signalVars, listVars, wakeupVars, Held
<1>5. ASSUME NEW a \in Activation, Handler(a) PROVE FinalInv'
  BY <1>5 DEF Handler, signalVars, listVars, wakeupVars, Held
<1>6. ASSUME WorkerIterates PROVE FinalInv'
  BY <1>6 DEF WorkerIterates, quietVars, listVars, wakeupVars, ScanStep, Shape, TypeOK,
     Scanner, Held
<1>7. ASSUME WorkerChecks PROVE FinalInv'
  BY <1>7 DEF WorkerChecks, quietVars, listVars, wakeupVars, ScanStep, Shape, TypeOK,
     Scanner, Held
<1>8. ASSUME NEW p \in Scanner, ScanStarts(p) PROVE FinalInv'
  <2>1. UNCHANGED <<watch, main>>
    BY <1>8 DEF ScanStarts, quietVars
  <2>2. scan'["user"] = scan["user"] \/ scan'["user"].at = "take"
    BY <1>8, ScanStartsFacts DEF Shape, Scanner
  <2> QED
    BY <2>1, <2>2 DEF Held
<1>9. ASSUME NEW p \in Scanner, Take(p) PROVE FinalInv'
  <2>1. UNCHANGED <<watch, main>>
    BY <1>9 DEF Take, quietVars
  <2>2. scan'["user"] = scan["user"] \/ scan'["user"].at \in {"take", "scan"}
    BY <1>9, TakeFacts DEF Shape, Scanner
  <2> QED
    BY <2>1, <2>2 DEF Held
<1>10. ASSUME NEW p \in Scanner, NEW w \in Watch, Visit(p, w) PROVE FinalInv'
  <2>1. UNCHANGED main /\ \A v \in Watch : watch'[v].phase = watch[v].phase
    BY <1>10, VisitFacts DEF Shape, quietVars
  <2>2. scan'["user"] = scan["user"] \/ scan'["user"].at \in {"wake", "scan"}
    BY <1>10, VisitFacts DEF Shape, Scanner
  <2>3. /\ main.at = "finalize" => main.w \in Watch
        /\ scan["user"].at = "finalize" => scan["user"].w \in Watch
    BY DEF Shape, MainInv, ScanInv, Scanner, Working, TypeOK, MainRecord
  <2> QED
    BY <2>1, <2>2, <2>3 DEF Held
<1>11. ASSUME NEW p \in Scanner, WakeSource(p) PROVE FinalInv'
  <2>1. scan'["user"] = scan["user"] \/ scan'["user"].at = "scan"
    BY <1>11, WakeSourceFacts DEF Shape, Scanner
  <2> QED
    BY <1>11, <2>1 DEF WakeSource, quietVars, Held
<1>12. ASSUME NEW p \in Scanner, ScanEnds(p) PROVE FinalInv'
  <2>1. scan'["user"] = scan["user"] \/ scan'["user"].at # "finalize"
    BY <1>12, ScanEndsFacts DEF Shape, Scanner
  <2> QED
    BY <1>12, <2>1 DEF ScanEnds, quietVars, Held
<1>13. ASSUME NEW w \in ChildWatch, NewPidfd(w) PROVE FinalInv'
  <2>1. main.at = "finalize" => main.w \in Watch /\ Held(main.w)
    BY DEF Shape, MainInv, Working, TypeOK, MainRecord, Held, Dispatching
  <2> QED
    BY <1>13, <2>1, NewPidfdFacts DEF Shape, Held
<1>14. ASSUME NEW w \in Watch, New(w) PROVE FinalInv'
  <2>1. main.at = "finalize" => main.w \in Watch /\ Held(main.w)
    BY DEF Shape, MainInv, Working, TypeOK, MainRecord, Held, Dispatching
  <2> QED
    BY <1>14, <2>1, NewFacts DEF Shape, Held
<1>15. ASSUME NewListed PROVE FinalInv'
  <2>1. \A v \in Watch : Held(v)' <=> Held(v)
    BY <1>15 DEF Held, NewListed, quietVars
  <2>2. /\ watch[scan["user"].w].phase = "none"
        /\ \A v \in Watch : v # scan["user"].w => watch'[v] = watch[v]
    BY <1>15 DEF NewListed, NewInv, Shape, TypeOK
  <2>3. scan'["user"].at # "finalize" /\ UNCHANGED main /\ scan["user"].w \in Watch
    BY <1>15, NewListedFacts DEF Shape, NewListed, quietVars
  <2>4. main.at = "finalize" => main.w \in Watch
    BY DEF Shape, MainInv, Working, TypeOK, MainRecord
  <2> QED
    BY <2>1, <2>2, <2>3, <2>4
<1>16. ASSUME NEW w \in Watch, Attach(w) PROVE FinalInv'
  <2>1. main.at = "finalize" => main.w \in Watch /\ Held(main.w)
    BY DEF Shape, MainInv, Working, TypeOK, MainRecord, Held, Dispatching
  <2> QED
    BY <1>16, <2>1, AttachFacts DEF Shape, Held
<1>17. ASSUME NEW w \in Watch, Destroy(w) PROVE FinalInv'
  <2>1. main.at = "finalize" => main.w \in Watch /\ Held(main.w)
    BY DEF Shape, MainInv, Working, TypeOK, MainRecord, Held, Dispatching
  <2> QED
    BY <1>17, <2>1, DestroyFacts DEF Shape, Held
<1>18. ASSUME Finalize PROVE FinalInv'
  <2>1. main.at = "finalize" => main.w \in Watch /\ Held(main.w)
    BY DEF Shape, MainInv, Working, TypeOK, MainRecord, Held, Dispatching
  <2> QED
    BY <1>18, <2>1, FinalizeFacts, FreeFacts DEF Shape, Held
<1>19. ASSUME MainPrepares PROVE FinalInv'
  BY <1>19 DEF MainPrepares, otherVars, signalVars, listVars, MainStep, Shape, TypeOK,
     MainRecord, Held, Dispatching, MainInv, Working
<1>20. ASSUME MainPolls PROVE FinalInv'
  BY <1>20 DEF MainPolls, otherVars, signalVars, listVars, MainStep, Shape, TypeOK,
     MainRecord, Held, Dispatching, MainInv, Working
<1>21. ASSUME MainChecks PROVE FinalInv'
  BY <1>21 DEF MainChecks, otherVars, signalVars, listVars, MainStep, Shape, TypeOK,
     MainRecord, Held, Dispatching, Flagged, Attached, ScanInv, Scanner
<1>22. ASSUME MainDone PROVE FinalInv'
  BY <1>22 DEF MainDone, otherVars, signalVars, listVars, MainStep, Shape, TypeOK,
     MainRecord, Held, Dispatching, MainInv, Working
<1>23. ASSUME NEW w \in Watch, MainDispatches(w) PROVE FinalInv'
  BY <1>23 DEF MainDispatches, otherVars, signalVars, listVars, MainStep, Shape, TypeOK,
     MainRecord, Held, Dispatching, Attached
<1>24. ASSUME Waitid PROVE FinalInv'
  BY <1>24, ReapFacts DEF Held, Dispatching, otherVars
<1>25. ASSUME Reset PROVE FinalInv'
  BY <1>25, ResetFacts DEF Held, Dispatching, otherVars, Shape, ScanInv, Scanner
<1>26. ASSUME Waitpid PROVE FinalInv'
  BY <1>26, ReapFacts DEF Held, Dispatching, otherVars
<1>27. ASSUME Callback PROVE FinalInv'
  <2>1. \A w \in Watch : Held(w)' <=> Held(w)
    BY <1>27, CallbackFacts DEF Shape, TypeOK, MainRecord, Held, Dispatching, Callback
  <2>2. main'.at # "finalize" /\ UNCHANGED scan
    BY <1>27, CallbackFacts DEF Shape, TypeOK, MainRecord, Callback, otherVars
  <2>3. \A w \in Watch : watch'[w].phase \in {watch[w].phase, "destroyed"}
    BY <1>27, CallbackFacts DEF Shape
  <2> QED
    BY <2>1, <2>2, <2>3 DEF Shape, ScanInv, Scanner
<1>28. ASSUME MainReturns PROVE FinalInv'
  BY <1>28, MainReturnsFacts DEF Held, Dispatching, otherVars
<1>29. ASSUME MainFinalizes PROVE FinalInv'
  <2>1. \A v \in Watch : Held(v)' => v # main.w /\ Held(v)
    BY <1>29, MainFinalizesFacts DEF Held, Dispatching
  <2>2. main'.at # "finalize"
    BY <1>29, MainFinalizesFacts
  <2>3. scan["user"].at = "finalize" => scan["user"].w \in Watch /\ scan["user"].w # main.w
    BY <1>29, MainFinalizesFacts, MainWorks DEF Working, Shape, ScanInv, Scanner
  <2>4. \A v \in Watch \ {main.w} : watch'[v] = watch[v]
    BY <1>29, MainFinalizesFacts, FreeFacts DEF Shape
  <2>5. UNCHANGED scan
    BY <1>29, MainFinalizesFacts
  <2> QED
    BY <2>1, <2>2, <2>3, <2>4, <2>5
<1>30. CASE UNCHANGED vars
  BY <1>30 DEF vars, Held
<1> QED
  BY <1>1, <1>2, <1>3, <1>4, <1>5, <1>6, <1>7, <1>8, <1>9, <1>10, <1>11, <1>12, <1>13,
     <1>14, <1>15, <1>16, <1>17, <1>18, <1>19, <1>20, <1>21, <1>22, <1>23, <1>24, <1>25,
     <1>26, <1>27, <1>28, <1>29, <1>30 DEF Next, Kernel, Delivery, Worker, User, UserGoesOn,
     Main, Scan, Scanner

\* The list does not change under a scan.
LEMMA VisitStep ==
  ASSUME Shape, ListedInv, FinalInv, VisitInv, [Next]_vars
  PROVE  VisitInv'
<1> USE DEF VisitInv
<1>1. ASSUME NEW w \in ChildWatch, ChildExits(w) PROVE VisitInv'
  BY <1>1 DEF ChildExits, signalVars, listVars, wakeupVars
<1>2. ASSUME NEW w \in ChildWatch, ForeignReaps(w) PROVE VisitInv'
  BY <1>2 DEF ForeignReaps, signalVars, listVars, wakeupVars
<1>3. ASSUME Raise PROVE VisitInv'
  BY <1>3 DEF Raise, signalVars, listVars, wakeupVars
<1>4. ASSUME NEW a \in Activation, NEW s \in Signal, Deliver(a, s) PROVE VisitInv'
  BY <1>4 DEF Deliver, signalVars, listVars, wakeupVars
<1>5. ASSUME NEW a \in Activation, Handler(a) PROVE VisitInv'
  BY <1>5 DEF Handler, signalVars, listVars, wakeupVars
<1>6. ASSUME WorkerIterates PROVE VisitInv'
  BY <1>6 DEF WorkerIterates, quietVars, listVars, wakeupVars, ScanStep, Shape, TypeOK,
     ScanInv, Scanner, ScanRecord
<1>7. ASSUME WorkerChecks PROVE VisitInv'
  BY <1>7 DEF WorkerChecks, quietVars, listVars, wakeupVars, ScanStep, Shape, TypeOK,
     ScanInv, Scanner, ScanRecord
<1>8. ASSUME NEW p \in Scanner, ScanStarts(p) PROVE VisitInv'
  <2>1. UNCHANGED listed
    BY <1>8 DEF ScanStarts
  <2> QED
    BY <1>8, <2>1, ScanStartsFacts DEF Shape
<1>9. ASSUME NEW p \in Scanner, Take(p) PROVE VisitInv'
  <2>1. scan'[p].todo \subseteq listed /\ scan'[p].at # "wake"
    BY <1>9, TakeFacts DEF Shape, ToVisit
  <2>2. UNCHANGED listed /\ \A q \in Scanner \ {p} : scan'[q] = scan[q]
    BY <1>9, TakeFacts DEF Shape, Take, listVars
  <2> QED
    BY <2>1, <2>2
<1>10. ASSUME NEW p \in Scanner, NEW w \in Watch, Visit(p, w) PROVE VisitInv'
  BY <1>10, VisitFacts DEF Shape, listVars
<1>11. ASSUME NEW p \in Scanner, WakeSource(p) PROVE VisitInv'
  BY <1>11, WakeSourceFacts DEF Shape, listVars
<1>12. ASSUME NEW p \in Scanner, ScanEnds(p) PROVE VisitInv'
  BY <1>12, ScanEndsFacts DEF Shape
<1>13. ASSUME NEW w \in ChildWatch, NewPidfd(w) PROVE VisitInv'
  BY <1>13 DEF NewPidfd, signalVars, listVars, wakeupVars
<1>14. ASSUME NEW w \in Watch, New(w) PROVE VisitInv'
  <2>1. scan'["user"].todo = scan["user"].todo
    BY <1>14 DEF Shape, TypeOK, Scanner, New
  <2>2. UNCHANGED listed /\ scan'["worker"] = scan["worker"] /\ scan'["user"].at = "new"
    BY <1>14, NewFacts DEF Shape, New, listVars
  <2> QED
    BY <2>1, <2>2 DEF Scanner
<1>15. ASSUME NewListed PROVE VisitInv'
  BY <1>15, NewListedFacts DEF Shape, NewListed, Scanner
<1>16. ASSUME NEW w \in Watch, Attach(w) PROVE VisitInv'
  BY <1>16 DEF Attach, signalVars, listVars, wakeupVars
<1>17. ASSUME NEW w \in Watch, Destroy(w) PROVE VisitInv'
  <2>1. UNCHANGED listed
    BY <1>17, DestroyFacts DEF Shape, listVars
  <2> QED
    BY <1>17, <2>1, DestroyFacts DEF Shape, Scanner
<1>18. ASSUME Finalize PROVE VisitInv'
  <2>1. lock = None \/ UNCHANGED listed
    BY <1>18, FinalizeFacts, FreeFacts DEF Shape
  <2>2. CASE UNCHANGED listed
    BY <1>18, <2>2, FinalizeFacts DEF Shape, Scanner
  <2>3. CASE lock = None
    <3>1. \A p \in Scanner : scan[p].at \notin ScanPlaces
      BY <2>3, UnixSignalAssumption DEF Shape, ScanInv, Scanner
    <3> QED
      BY <1>18, <3>1, FinalizeFacts DEF Shape, ScanInv, ScanPlaces, Scanner
  <2> QED
    BY <2>1, <2>2, <2>3
<1>19. ASSUME MainPrepares PROVE VisitInv'
  BY <1>19 DEF MainPrepares, otherVars, signalVars, listVars, MainStep
<1>20. ASSUME MainPolls PROVE VisitInv'
  BY <1>20 DEF MainPolls, otherVars, signalVars, listVars, MainStep
<1>21. ASSUME MainChecks PROVE VisitInv'
  BY <1>21 DEF MainChecks, otherVars, signalVars, listVars, MainStep
<1>22. ASSUME MainDone PROVE VisitInv'
  BY <1>22 DEF MainDone, otherVars, signalVars, listVars, MainStep
<1>23. ASSUME NEW w \in Watch, MainDispatches(w) PROVE VisitInv'
  BY <1>23 DEF MainDispatches, otherVars, signalVars, listVars, MainStep
<1>24. ASSUME Waitid PROVE VisitInv'
  BY <1>24 DEF Waitid, Reap, otherVars, signalVars, listVars, MainStep
<1>25. ASSUME Reset PROVE VisitInv'
  BY <1>25 DEF Reset, otherVars, signalVars, listVars, MainStep
<1>26. ASSUME Waitpid PROVE VisitInv'
  BY <1>26 DEF Waitpid, Reap, otherVars, signalVars, listVars, MainStep
<1>27. ASSUME Callback PROVE VisitInv'
  BY <1>27 DEF Callback, otherVars, signalVars, listVars, MainStep
<1>28. ASSUME MainReturns PROVE VisitInv'
  BY <1>28 DEF MainReturns, otherVars, signalVars, listVars, MainStep
<1>29. ASSUME MainFinalizes PROVE VisitInv'
  <2>1. lock = None \/ UNCHANGED listed
    BY <1>29, MainFinalizesFacts, FreeFacts DEF Shape
  <2>2. CASE UNCHANGED listed
    BY <1>29, <2>2, MainFinalizesFacts
  <2>3. CASE lock = None
    <3>1. \A p \in Scanner : scan[p].at \notin ScanPlaces
      BY <2>3, UnixSignalAssumption DEF Shape, ScanInv, Scanner
    <3> QED
      BY <1>29, <3>1, MainFinalizesFacts DEF Shape, ScanInv, ScanPlaces
  <2> QED
    BY <2>1, <2>2, <2>3
<1>30. CASE UNCHANGED vars
  BY <1>30 DEF vars
<1> QED
  BY <1>1, <1>2, <1>3, <1>4, <1>5, <1>6, <1>7, <1>8, <1>9, <1>10, <1>11, <1>12, <1>13,
     <1>14, <1>15, <1>16, <1>17, <1>18, <1>19, <1>20, <1>21, <1>22, <1>23, <1>24, <1>25,
     <1>26, <1>27, <1>28, <1>29, <1>30 DEF Next, Kernel, Delivery, Worker, User, UserGoesOn,
     Main, Scan, Scanner

\* The count of the watches for a signal, with one watch more and with one less.
Watching(L, s) == {w \in L : SignalOf(w) = s}

LEMMA CountMore ==
  ASSUME CountInv, TypeOK, NEW w \in Watch \ listed, listed' = listed \cup {w}, RefHandler(w)
  PROVE  CountInv' /\ refcount' \in [Signal -> Nat]
<1>1. IsFiniteSet(listed')
  BY FS_AddElement DEF CountInv
<1>2. refcount' \in [Signal -> Nat]
  <2>1. \A s \in Signal : refcount[s] + 1 \in Nat
    BY DEF TypeOK
  <2> QED
    BY <2>1, SignalOfType DEF TypeOK, RefHandler
<1>3. ASSUME NEW s \in Signal PROVE refcount'[s] = Cardinality(Watching(listed', s))
  <2>1. IsFiniteSet(Watching(listed, s)) /\ refcount[s] = Cardinality(Watching(listed, s))
    BY FS_Subset DEF CountInv, Watching
  <2>2. CASE s = SignalOf(w)
    <3>1. Watching(listed', s) = Watching(listed, s) \cup {w} /\ w \notin Watching(listed, s)
      BY <2>2 DEF Watching
    <3>2. refcount'[s] = refcount[s] + 1
      BY <2>2 DEF RefHandler, TypeOK
    <3> QED
      BY <2>1, <3>1, <3>2, FS_AddElement
  <2>3. CASE s # SignalOf(w)
    <3>1. Watching(listed', s) = Watching(listed, s)
      BY <2>3 DEF Watching
    <3>2. refcount'[s] = refcount[s]
      BY <2>3, SignalOfType DEF RefHandler, TypeOK
    <3> QED
      BY <2>1, <3>1, <3>2
  <2> QED
    BY <2>2, <2>3
<1> QED
  BY <1>1, <1>2, <1>3 DEF CountInv, Watching

LEMMA CountLess ==
  ASSUME CountInv, TypeOK, NEW w \in listed, listed' = listed \ {w}, UnrefHandler(w)
  PROVE  CountInv' /\ refcount' \in [Signal -> Nat]
<1>1. IsFiniteSet(listed')
  BY FS_RemoveElement DEF CountInv
<1>2. ASSUME NEW s \in Signal
      PROVE  refcount'[s] = Cardinality(Watching(listed', s)) /\ refcount'[s] \in Nat
  <2>1. IsFiniteSet(Watching(listed, s)) /\ refcount[s] = Cardinality(Watching(listed, s))
    BY FS_Subset DEF CountInv, Watching
  <2>2. CASE s = SignalOf(w)
    <3>1. Watching(listed', s) = Watching(listed, s) \ {w} /\ w \in Watching(listed, s)
      BY <2>2 DEF Watching
    <3>2. refcount'[s] = refcount[s] - 1
      BY <2>2 DEF UnrefHandler, TypeOK
    <3>3. IsFiniteSet(Watching(listed', s))
          /\ Cardinality(Watching(listed', s)) = Cardinality(Watching(listed, s)) - 1
      BY <2>1, <3>1, FS_RemoveElement
    <3> QED
      BY <2>1, <3>2, <3>3, FS_CardinalityType
  <2>3. CASE s # SignalOf(w)
    <3>1. Watching(listed', s) = Watching(listed, s)
      BY <2>3 DEF Watching
    <3>2. refcount'[s] = refcount[s]
      BY <2>3, SignalOfType DEF UnrefHandler, TypeOK
    <3> QED
      BY <2>1, <3>1, <3>2 DEF TypeOK
  <2> QED
    BY <2>2, <2>3
<1>3. refcount' \in [Signal -> Nat]
  BY <1>2 DEF TypeOK, UnrefHandler
<1> QED
  BY <1>1, <1>2, <1>3 DEF CountInv, Watching

\* The handler stays installed as long as a watch for its signal is listed.
LEMMA Installed == ASSUME CountInv, TypeOK, NEW w \in listed PROVE refcount[SignalOf(w)] > 0
<1>1. /\ w \in Watching(listed, SignalOf(w)) /\ SignalOf(w) \in Signal
      /\ IsFiniteSet(Watching(listed, SignalOf(w)))
  BY SignalOfType, FS_Subset DEF Watching, CountInv, TypeOK
<1>2. Cardinality(Watching(listed, SignalOf(w))) \in Nat \ {0}
  BY <1>1, FS_EmptySet, FS_CardinalityType
<1> QED
  BY <1>1, <1>2 DEF CountInv, Watching

\* The handler is counted exactly, so the count is a number.
LEMMA CountStep ==
  ASSUME Shape, ListedInv, NewInv, FinalInv, CountInv, [Next]_vars
  PROVE  CountInv' /\ refcount' \in [Signal -> Nat]
<1> USE DEF CountInv, Shape, TypeOK
<1>1. ASSUME NEW w \in ChildWatch, ChildExits(w)
      PROVE  CountInv' /\ refcount' \in [Signal -> Nat]
  BY <1>1 DEF ChildExits, signalVars, listVars, wakeupVars
<1>2. ASSUME NEW w \in ChildWatch, ForeignReaps(w)
      PROVE  CountInv' /\ refcount' \in [Signal -> Nat]
  BY <1>2 DEF ForeignReaps, signalVars, listVars, wakeupVars
<1>3. ASSUME Raise PROVE CountInv' /\ refcount' \in [Signal -> Nat]
  BY <1>3 DEF Raise, signalVars, listVars, wakeupVars
<1>4. ASSUME NEW a \in Activation, NEW s \in Signal, Deliver(a, s)
      PROVE  CountInv' /\ refcount' \in [Signal -> Nat]
  BY <1>4 DEF Deliver, signalVars, listVars, wakeupVars
<1>5. ASSUME NEW a \in Activation, Handler(a) PROVE CountInv' /\ refcount' \in [Signal -> Nat]
  BY <1>5 DEF Handler, signalVars, listVars, wakeupVars
<1>6. ASSUME WorkerIterates PROVE CountInv' /\ refcount' \in [Signal -> Nat]
  BY <1>6 DEF WorkerIterates, quietVars, listVars, wakeupVars, ScanStep
<1>7. ASSUME WorkerChecks PROVE CountInv' /\ refcount' \in [Signal -> Nat]
  BY <1>7 DEF WorkerChecks, quietVars, listVars, wakeupVars, ScanStep
<1>8. ASSUME NEW p \in Scanner, ScanStarts(p) PROVE CountInv' /\ refcount' \in [Signal -> Nat]
  BY <1>8 DEF ScanStarts, quietVars, listVars, wakeupVars, ScanStep
<1>9. ASSUME NEW p \in Scanner, Take(p) PROVE CountInv' /\ refcount' \in [Signal -> Nat]
  BY <1>9 DEF Take, quietVars, listVars, wakeupVars, ScanStep
<1>10. ASSUME NEW p \in Scanner, NEW w \in Watch, Visit(p, w)
       PROVE  CountInv' /\ refcount' \in [Signal -> Nat]
  BY <1>10 DEF Visit, quietVars, listVars, wakeupVars, ScanStep
<1>11. ASSUME NEW p \in Scanner, WakeSource(p) PROVE CountInv' /\ refcount' \in [Signal -> Nat]
  BY <1>11 DEF WakeSource, quietVars, listVars, wakeupVars, ScanStep
<1>12. ASSUME NEW p \in Scanner, ScanEnds(p) PROVE CountInv' /\ refcount' \in [Signal -> Nat]
  BY <1>12 DEF ScanEnds, quietVars, listVars, wakeupVars, ScanStep
<1>13. ASSUME NEW w \in ChildWatch, NewPidfd(w) PROVE CountInv' /\ refcount' \in [Signal -> Nat]
  BY <1>13 DEF NewPidfd, signalVars, listVars, wakeupVars
<1>14. ASSUME NEW w \in Watch, New(w) PROVE CountInv' /\ refcount' \in [Signal -> Nat]
  BY <1>14 DEF New, signalVars, listVars, wakeupVars
<1>15. ASSUME NewListed PROVE CountInv' /\ refcount' \in [Signal -> Nat]
  <2> HIDE DEF CountInv, TypeOK
  <2>1. scan["user"].w \in Watch \ listed
    BY <1>15, NewListedFacts DEF ListedInv, NewInv
  <2> QED
    BY <1>15, <2>1, NewListedFacts, CountMore
<1>16. ASSUME NEW w \in Watch, Attach(w) PROVE CountInv' /\ refcount' \in [Signal -> Nat]
  BY <1>16 DEF Attach, signalVars, listVars, wakeupVars
<1>17. ASSUME NEW w \in Watch, Destroy(w) PROVE CountInv' /\ refcount' \in [Signal -> Nat]
  BY <1>17 DEF Destroy, signalVars, listVars, wakeupVars
<1>18. ASSUME Finalize PROVE CountInv' /\ refcount' \in [Signal -> Nat]
  <2> HIDE DEF CountInv, TypeOK
  <2> DEFINE w == scan["user"].w
  <2>1. w \in Watch /\ Free(w) /\ watch[w].phase = "destroyed"
    BY <1>18, FinalizeFacts DEF FinalInv
  <2>2. CASE watch[w].pidfd
    BY <2>1, <2>2, FreeFacts DEF CountInv, TypeOK
  <2>3. CASE ~watch[w].pidfd
    <3>1. w \in listed /\ listed' = listed \ {w} /\ UnrefHandler(w)
      BY <2>1, <2>3, FreeFacts DEF ListedInv
    <3> QED
      BY <3>1, CountLess
  <2> QED
    BY <2>2, <2>3
<1>19. ASSUME MainPrepares PROVE CountInv' /\ refcount' \in [Signal -> Nat]
  BY <1>19 DEF MainPrepares, otherVars, signalVars, listVars, MainStep
<1>20. ASSUME MainPolls PROVE CountInv' /\ refcount' \in [Signal -> Nat]
  BY <1>20 DEF MainPolls, otherVars, signalVars, listVars, MainStep
<1>21. ASSUME MainChecks PROVE CountInv' /\ refcount' \in [Signal -> Nat]
  BY <1>21 DEF MainChecks, otherVars, signalVars, listVars, MainStep
<1>22. ASSUME MainDone PROVE CountInv' /\ refcount' \in [Signal -> Nat]
  BY <1>22 DEF MainDone, otherVars, signalVars, listVars, MainStep
<1>23. ASSUME NEW w \in Watch, MainDispatches(w)
       PROVE  CountInv' /\ refcount' \in [Signal -> Nat]
  BY <1>23 DEF MainDispatches, otherVars, signalVars, listVars, MainStep
<1>24. ASSUME Waitid PROVE CountInv' /\ refcount' \in [Signal -> Nat]
  BY <1>24 DEF Waitid, Reap, otherVars, signalVars, listVars, MainStep
<1>25. ASSUME Reset PROVE CountInv' /\ refcount' \in [Signal -> Nat]
  BY <1>25 DEF Reset, otherVars, signalVars, listVars, MainStep
<1>26. ASSUME Waitpid PROVE CountInv' /\ refcount' \in [Signal -> Nat]
  BY <1>26 DEF Waitpid, Reap, otherVars, signalVars, listVars, MainStep
<1>27. ASSUME Callback PROVE CountInv' /\ refcount' \in [Signal -> Nat]
  BY <1>27 DEF Callback, otherVars, signalVars, listVars, MainStep
<1>28. ASSUME MainReturns PROVE CountInv' /\ refcount' \in [Signal -> Nat]
  BY <1>28 DEF MainReturns, otherVars, signalVars, listVars, MainStep
<1>29. ASSUME MainFinalizes PROVE CountInv' /\ refcount' \in [Signal -> Nat]
  <2> HIDE DEF CountInv, TypeOK
  <2> DEFINE w == main.w
  <2>1. w \in Watch /\ Free(w) /\ watch[w].phase = "destroyed"
    BY <1>29, MainFinalizesFacts DEF FinalInv, Shape
  <2>2. CASE watch[w].pidfd
    BY <2>1, <2>2, FreeFacts DEF CountInv, TypeOK
  <2>3. CASE ~watch[w].pidfd
    <3>1. w \in listed /\ listed' = listed \ {w} /\ UnrefHandler(w)
      BY <2>1, <2>3, FreeFacts DEF ListedInv
    <3> QED
      BY <3>1, CountLess
  <2> QED
    BY <2>2, <2>3
<1>30. CASE UNCHANGED vars
  BY <1>30 DEF vars
<1> QED
  BY <1>1, <1>2, <1>3, <1>4, <1>5, <1>6, <1>7, <1>8, <1>9, <1>10, <1>11, <1>12, <1>13,
     <1>14, <1>15, <1>16, <1>17, <1>18, <1>19, <1>20, <1>21, <1>22, <1>23, <1>24, <1>25,
     <1>26, <1>27, <1>28, <1>29, <1>30 DEF Next, Kernel, Delivery, Worker, User, UserGoesOn,
     Main, Scan, Scanner

--------------------------------------------------------------------------------
\* What the kernel and the handler change.
LEMMA DeliverFacts ==
  ASSUME TypeOK, NEW a \in Activation, NEW s \in Signal, Deliver(a, s)
  PROVE  /\ handler[a].at = "idle" /\ raised' = raised \ {s}
         /\ \A b \in Activation \ {a} : handler'[b] = handler[b]
         /\ refcount[s] > 0 => /\ handler'[a].at = "pending" /\ handler'[a].signum = s
                               /\ owed' = owed \cup {w \in listed \cap SignalWatch : s = SignalOf(w)}
         /\ ~(refcount[s] > 0) => UNCHANGED <<handler, owed>>
         /\ UNCHANGED <<unixPending, anyPending, raises, listVars, wakeupVars, scan, main, watch, child>>
  BY DEF Deliver, TypeOK

LEMMA HandlerFacts ==
  ASSUME TypeOK, NEW a \in Activation, Handler(a)
  PROVE  /\ \A b \in Activation \ {a} : handler'[b] = handler[b]
         /\ \/ /\ handler[a].at = "pending" /\ handler'[a].at = "any"
               /\ unixPending' = unixPending \cup {handler[a].signum}
               /\ UNCHANGED <<anyPending, workerWakeup>>
            \/ /\ handler[a].at = "any" /\ handler'[a].at = "wake" /\ anyPending'
               /\ UNCHANGED <<unixPending, workerWakeup>>
            \/ /\ handler[a].at = "wake" /\ handler'[a].at = "idle" /\ workerWakeup'
               /\ UNCHANGED <<unixPending, anyPending>>
         /\ UNCHANGED <<raised, raises, listVars, mainWakeup, scan, main, watch, child, owed>>
  BY DEF Handler, TypeOK

\* A signal that is on its way to a watch stays so, or sets the watch's flag.
LEMMA OnWayStep ==
  ASSUME Shape, CountInv, NEW v \in listed, OnItsWay(SignalOf(v), v), [Next]_vars
  PROVE  OnItsWay(SignalOf(v), v)' \/ watch'[v].flag
<1> USE DEF OnItsWay
<1>1. ASSUME NEW w \in ChildWatch, ChildExits(w)
      PROVE  OnItsWay(SignalOf(v), v)' \/ watch'[v].flag
  BY <1>1 DEF ChildExits, signalVars, listVars, wakeupVars
<1>2. ASSUME NEW w \in ChildWatch, ForeignReaps(w)
      PROVE  OnItsWay(SignalOf(v), v)' \/ watch'[v].flag
  BY <1>2 DEF ForeignReaps, signalVars, listVars, wakeupVars
<1>3. ASSUME Raise PROVE OnItsWay(SignalOf(v), v)' \/ watch'[v].flag
  BY <1>3 DEF Raise, signalVars, listVars, wakeupVars
<1>4. ASSUME NEW a \in Activation, NEW s \in Signal, Deliver(a, s)
      PROVE  OnItsWay(SignalOf(v), v)' \/ watch'[v].flag
  <2>1. refcount[SignalOf(v)] > 0
    BY Installed DEF Shape
  <2> QED
    BY <1>4, <2>1, DeliverFacts DEF Shape
<1>5. ASSUME NEW a \in Activation, Handler(a) PROVE OnItsWay(SignalOf(v), v)' \/ watch'[v].flag
  BY <1>5, HandlerFacts DEF Shape, signalVars, quietVars, otherVars, Scanner
<1>6. ASSUME WorkerIterates PROVE OnItsWay(SignalOf(v), v)' \/ watch'[v].flag
  BY <1>6 DEF WorkerIterates, quietVars, listVars, wakeupVars, ScanStep, Shape, TypeOK,
     Scanner, ScanRecord
<1>7. ASSUME WorkerChecks PROVE OnItsWay(SignalOf(v), v)' \/ watch'[v].flag
  BY <1>7 DEF WorkerChecks, quietVars, listVars, wakeupVars, ScanStep, Shape, TypeOK,
     Scanner, ScanRecord
<1>8. ASSUME NEW p \in Scanner, ScanStarts(p) PROVE OnItsWay(SignalOf(v), v)' \/ watch'[v].flag
  BY <1>8, ScanStartsFacts DEF Shape, signalVars, quietVars, otherVars, Scanner
<1>9. ASSUME NEW p \in Scanner, Take(p) PROVE OnItsWay(SignalOf(v), v)' \/ watch'[v].flag
  <2> DEFINE t == IF scan[p].left = 2 THEN "CHLD" ELSE "WINCH"
             taken == scan[p].taken \cup ({t} \cap unixPending)
  <2>1. /\ scan[p].left \in 1 .. 2 /\ unixPending' = unixPending \ {t}
        /\ scan'[p].taken = taken
        /\ scan[p].left = 2 => scan'[p].at = "take"
        /\ scan[p].left = 1 => scan'[p].at = "scan" /\ scan'[p].todo = ToVisit(taken)
        /\ \A q \in Scanner \ {p} : scan'[q] = scan[q]
        /\ scan[p].at = "take" /\ raised' = raised /\ handler' = handler
    BY <1>9, TakeFacts DEF Shape, quietVars
  <2> HIDE DEF t
  <2>2. SignalOf(v) \in taken => OnItsWay(SignalOf(v), v)'
    BY <2>1 DEF ToVisit
  <2>3. \/ SignalOf(v) \in taken \/ SignalOf(v) \in raised' \cup unixPending'
        \/ \E a \in Activation : handler'[a].at = "pending" /\ handler'[a].signum = SignalOf(v)
        \/ \E q \in Scanner \ {p} : \/ scan[q].at = "take" /\ SignalOf(v) \in scan[q].taken
                                    \/ scan[q].at \in {"scan", "wake"} /\ v \in scan[q].todo
    BY <2>1
  <2> HIDE DEF taken
  <2> QED
    BY <2>1, <2>2, <2>3
<1>10. ASSUME NEW p \in Scanner, NEW w \in Watch, Visit(p, w)
       PROVE  OnItsWay(SignalOf(v), v)' \/ watch'[v].flag
  BY <1>10, VisitFacts DEF Shape, signalVars, quietVars, otherVars, Scanner
<1>11. ASSUME NEW p \in Scanner, WakeSource(p) PROVE OnItsWay(SignalOf(v), v)' \/ watch'[v].flag
  BY <1>11, WakeSourceFacts DEF Shape, signalVars, quietVars, otherVars, Scanner
<1>12. ASSUME NEW p \in Scanner, ScanEnds(p) PROVE OnItsWay(SignalOf(v), v)' \/ watch'[v].flag
  BY <1>12, ScanEndsFacts DEF Shape, signalVars, quietVars, otherVars, Scanner
<1>13. ASSUME NEW w \in ChildWatch, NewPidfd(w)
       PROVE  OnItsWay(SignalOf(v), v)' \/ watch'[v].flag
  BY <1>13, NewPidfdFacts DEF Shape, signalVars, quietVars, otherVars, Scanner
<1>14. ASSUME NEW w \in Watch, New(w) PROVE OnItsWay(SignalOf(v), v)' \/ watch'[v].flag
  BY <1>14, NewFacts DEF Shape, signalVars, quietVars, otherVars, Scanner
<1>15. ASSUME NewListed PROVE OnItsWay(SignalOf(v), v)' \/ watch'[v].flag
  BY <1>15, NewListedFacts DEF Shape, signalVars, quietVars, otherVars, Scanner
<1>16. ASSUME NEW w \in Watch, Attach(w) PROVE OnItsWay(SignalOf(v), v)' \/ watch'[v].flag
  BY <1>16, AttachFacts DEF Shape, signalVars, quietVars, otherVars, Scanner
<1>17. ASSUME NEW w \in Watch, Destroy(w) PROVE OnItsWay(SignalOf(v), v)' \/ watch'[v].flag
  BY <1>17, DestroyFacts DEF Shape, signalVars, quietVars, otherVars, Scanner
<1>18. ASSUME Finalize PROVE OnItsWay(SignalOf(v), v)' \/ watch'[v].flag
  BY <1>18, FinalizeFacts, FreeFacts DEF Shape, signalVars, quietVars, otherVars, Scanner
<1>19. ASSUME MainPrepares PROVE OnItsWay(SignalOf(v), v)' \/ watch'[v].flag
  BY <1>19 DEF MainPrepares, otherVars, signalVars, listVars, MainStep
<1>20. ASSUME MainPolls PROVE OnItsWay(SignalOf(v), v)' \/ watch'[v].flag
  BY <1>20 DEF MainPolls, otherVars, signalVars, listVars, MainStep
<1>21. ASSUME MainChecks PROVE OnItsWay(SignalOf(v), v)' \/ watch'[v].flag
  BY <1>21 DEF MainChecks, otherVars, signalVars, listVars, MainStep
<1>22. ASSUME MainDone PROVE OnItsWay(SignalOf(v), v)' \/ watch'[v].flag
  BY <1>22 DEF MainDone, otherVars, signalVars, listVars, MainStep
<1>23. ASSUME NEW w \in Watch, MainDispatches(w)
       PROVE  OnItsWay(SignalOf(v), v)' \/ watch'[v].flag
  BY <1>23 DEF MainDispatches, otherVars, signalVars, listVars, MainStep
<1>24. ASSUME Waitid PROVE OnItsWay(SignalOf(v), v)' \/ watch'[v].flag
  BY <1>24, ReapFacts DEF Shape, signalVars, quietVars, otherVars, Scanner
<1>25. ASSUME Reset PROVE OnItsWay(SignalOf(v), v)' \/ watch'[v].flag
  BY <1>25, ResetFacts DEF Shape, signalVars, quietVars, otherVars, Scanner
<1>26. ASSUME Waitpid PROVE OnItsWay(SignalOf(v), v)' \/ watch'[v].flag
  BY <1>26, ReapFacts DEF Shape, signalVars, quietVars, otherVars, Scanner
<1>27. ASSUME Callback PROVE OnItsWay(SignalOf(v), v)' \/ watch'[v].flag
  BY <1>27 DEF Callback, otherVars, signalVars
<1>28. ASSUME MainReturns PROVE OnItsWay(SignalOf(v), v)' \/ watch'[v].flag
  BY <1>28, MainReturnsFacts DEF Shape, signalVars, quietVars, otherVars, Scanner
<1>29. ASSUME MainFinalizes PROVE OnItsWay(SignalOf(v), v)' \/ watch'[v].flag
  BY <1>29, MainFinalizesFacts, FreeFacts DEF Shape, signalVars, quietVars, otherVars, Scanner
<1>30. CASE UNCHANGED vars
  BY <1>30 DEF vars
<1> QED
  BY <1>1, <1>2, <1>3, <1>4, <1>5, <1>6, <1>7, <1>8, <1>9, <1>10, <1>11, <1>12, <1>13,
     <1>14, <1>15, <1>16, <1>17, <1>18, <1>19, <1>20, <1>21, <1>22, <1>23, <1>24, <1>25,
     <1>26, <1>27, <1>28, <1>29, <1>30 DEF Next, Kernel, Delivery, Worker, User, UserGoesOn,
     Main, Scan, Scanner

\* The flag of a listed watch is reset only where its child is waited for or its callback
\* begins, and when it is freed.
LEMMA FlagKept ==
  ASSUME Shape, ListedInv, NewInv, FinalInv, NEW v \in listed, watch[v].flag, [Next]_vars
  PROVE  watch'[v].flag \/ (v \notin listed' /\ v \notin owed') \/ Looks(v)'
<1>a. v \in Watch /\ ~watch[v].pidfd /\ watch[v].phase \in {"made", "attached", "destroyed"}
  BY DEF Shape, TypeOK, ListedInv
<1>1. ASSUME NEW w \in ChildWatch, ChildExits(w)
      PROVE  watch'[v].flag \/ (v \notin listed' /\ v \notin owed') \/ Looks(v)'
  BY <1>1, <1>a DEF ChildExits, signalVars, listVars, wakeupVars
<1>2. ASSUME NEW w \in ChildWatch, ForeignReaps(w)
      PROVE  watch'[v].flag \/ (v \notin listed' /\ v \notin owed') \/ Looks(v)'
  BY <1>2, <1>a DEF ForeignReaps, signalVars, listVars, wakeupVars
<1>3. ASSUME Raise PROVE watch'[v].flag \/ (v \notin listed' /\ v \notin owed') \/ Looks(v)'
  BY <1>3, <1>a DEF Raise, signalVars, listVars, wakeupVars
<1>4. ASSUME NEW a \in Activation, NEW s \in Signal, Deliver(a, s)
      PROVE  watch'[v].flag \/ (v \notin listed' /\ v \notin owed') \/ Looks(v)'
  BY <1>4, <1>a DEF Deliver, signalVars, listVars, wakeupVars
<1>5. ASSUME NEW a \in Activation, Handler(a)
      PROVE  watch'[v].flag \/ (v \notin listed' /\ v \notin owed') \/ Looks(v)'
  BY <1>5, <1>a DEF Handler, signalVars, listVars, wakeupVars
<1>6. ASSUME WorkerIterates
      PROVE  watch'[v].flag \/ (v \notin listed' /\ v \notin owed') \/ Looks(v)'
  BY <1>6, <1>a DEF WorkerIterates, quietVars, listVars, wakeupVars, ScanStep
<1>7. ASSUME WorkerChecks
      PROVE  watch'[v].flag \/ (v \notin listed' /\ v \notin owed') \/ Looks(v)'
  BY <1>7, <1>a DEF WorkerChecks, quietVars, listVars, wakeupVars, ScanStep
<1>8. ASSUME NEW p \in Scanner, ScanStarts(p)
      PROVE  watch'[v].flag \/ (v \notin listed' /\ v \notin owed') \/ Looks(v)'
  BY <1>8, <1>a DEF ScanStarts, quietVars, listVars, wakeupVars, ScanStep
<1>9. ASSUME NEW p \in Scanner, Take(p)
      PROVE  watch'[v].flag \/ (v \notin listed' /\ v \notin owed') \/ Looks(v)'
  BY <1>9, <1>a DEF Take, quietVars, listVars, wakeupVars, ScanStep
<1>10. ASSUME NEW p \in Scanner, NEW w \in Watch, Visit(p, w)
       PROVE  watch'[v].flag \/ (v \notin listed' /\ v \notin owed') \/ Looks(v)'
  BY <1>10, <1>a, VisitFacts DEF Shape
<1>11. ASSUME NEW p \in Scanner, WakeSource(p)
       PROVE  watch'[v].flag \/ (v \notin listed' /\ v \notin owed') \/ Looks(v)'
  BY <1>11, <1>a DEF WakeSource, quietVars, listVars, wakeupVars, ScanStep
<1>12. ASSUME NEW p \in Scanner, ScanEnds(p)
       PROVE  watch'[v].flag \/ (v \notin listed' /\ v \notin owed') \/ Looks(v)'
  BY <1>12, <1>a DEF ScanEnds, quietVars, listVars, wakeupVars, ScanStep
<1>13. ASSUME NEW w \in ChildWatch, NewPidfd(w)
       PROVE  watch'[v].flag \/ (v \notin listed' /\ v \notin owed') \/ Looks(v)'
  BY <1>13, <1>a, NewPidfdFacts DEF Shape
<1>14. ASSUME NEW w \in Watch, New(w)
       PROVE  watch'[v].flag \/ (v \notin listed' /\ v \notin owed') \/ Looks(v)'
  BY <1>14, <1>a, NewFacts DEF Shape
<1>15. ASSUME NewListed
       PROVE  watch'[v].flag \/ (v \notin listed' /\ v \notin owed') \/ Looks(v)'
  BY <1>15, <1>a, NewListedFacts DEF Shape, NewInv
<1>16. ASSUME NEW w \in Watch, Attach(w)
       PROVE  watch'[v].flag \/ (v \notin listed' /\ v \notin owed') \/ Looks(v)'
  BY <1>16, <1>a, AttachFacts DEF Shape
<1>17. ASSUME NEW w \in Watch, Destroy(w)
       PROVE  watch'[v].flag \/ (v \notin listed' /\ v \notin owed') \/ Looks(v)'
  BY <1>17, <1>a, DestroyFacts DEF Shape
<1>18. ASSUME Finalize PROVE watch'[v].flag \/ (v \notin listed' /\ v \notin owed') \/ Looks(v)'
  BY <1>18, <1>a, FinalizeFacts, FreeFacts DEF Shape
<1>19. ASSUME MainPrepares
       PROVE  watch'[v].flag \/ (v \notin listed' /\ v \notin owed') \/ Looks(v)'
  BY <1>19, <1>a DEF MainPrepares, otherVars, signalVars, listVars, MainStep
<1>20. ASSUME MainPolls
       PROVE  watch'[v].flag \/ (v \notin listed' /\ v \notin owed') \/ Looks(v)'
  BY <1>20, <1>a DEF MainPolls, otherVars, signalVars, listVars, MainStep
<1>21. ASSUME MainChecks
       PROVE  watch'[v].flag \/ (v \notin listed' /\ v \notin owed') \/ Looks(v)'
  BY <1>21, <1>a DEF MainChecks, otherVars, signalVars, listVars, MainStep
<1>22. ASSUME MainDone PROVE watch'[v].flag \/ (v \notin listed' /\ v \notin owed') \/ Looks(v)'
  BY <1>22, <1>a DEF MainDone, otherVars, signalVars, listVars, MainStep
<1>23. ASSUME NEW w \in Watch, MainDispatches(w)
       PROVE  watch'[v].flag \/ (v \notin listed' /\ v \notin owed') \/ Looks(v)'
  BY <1>23, <1>a DEF MainDispatches, otherVars, signalVars, listVars, MainStep
<1>24. ASSUME Waitid PROVE watch'[v].flag \/ (v \notin listed' /\ v \notin owed') \/ Looks(v)'
  BY <1>24, <1>a DEF Waitid, Reap, otherVars, signalVars, listVars, MainStep
<1>25. ASSUME Reset PROVE watch'[v].flag \/ (v \notin listed' /\ v \notin owed') \/ Looks(v)'
  BY <1>25, <1>a, ResetFacts DEF Shape, Looks
<1>26. ASSUME Waitpid PROVE watch'[v].flag \/ (v \notin listed' /\ v \notin owed') \/ Looks(v)'
  BY <1>26, <1>a DEF Waitpid, Reap, otherVars, signalVars, listVars, MainStep
<1>27. ASSUME Callback PROVE watch'[v].flag \/ (v \notin listed' /\ v \notin owed') \/ Looks(v)'
  BY <1>27, <1>a, CallbackFacts DEF Shape
<1>28. ASSUME MainReturns
       PROVE  watch'[v].flag \/ (v \notin listed' /\ v \notin owed') \/ Looks(v)'
  BY <1>28, <1>a DEF MainReturns, otherVars, signalVars, listVars, MainStep
<1>29. ASSUME MainFinalizes
       PROVE  watch'[v].flag \/ (v \notin listed' /\ v \notin owed') \/ Looks(v)'
  BY <1>29, <1>a, MainFinalizesFacts, FreeFacts DEF Shape
<1>30. CASE UNCHANGED vars
  BY <1>30, <1>a DEF vars
<1> QED
  BY <1>1, <1>2, <1>3, <1>4, <1>5, <1>6, <1>7, <1>8, <1>9, <1>10, <1>11, <1>12, <1>13,
     <1>14, <1>15, <1>16, <1>17, <1>18, <1>19, <1>20, <1>21, <1>22, <1>23, <1>24, <1>25,
     <1>26, <1>27, <1>28, <1>29, <1>30 DEF Next, Kernel, Delivery, Worker, User, UserGoesOn,
     Main, Scan, Scanner

\* After the flag is reset the child is waited for and the callback begins.
LEMMA LooksKept ==
  ASSUME Shape, NEW v \in Watch, Looks(v), [Next]_vars
  PROVE  Looks(v)' \/ (v \notin owed' /\ (v \in ChildWatch => watch'[v].phase = "destroyed"))
         \/ (v \in ChildWatch /\ child'[v] = "running")
<1> USE DEF Looks
<1>1. ASSUME NEW w \in ChildWatch, ChildExits(w)
      PROVE  Looks(v)' \/ (v \notin owed' /\ (v \in ChildWatch => watch'[v].phase = "destroyed"))
         \/ (v \in ChildWatch /\ child'[v] = "running")
  BY <1>1 DEF ChildExits, signalVars, listVars, wakeupVars, Looks
<1>2. ASSUME NEW w \in ChildWatch, ForeignReaps(w)
      PROVE  Looks(v)' \/ (v \notin owed' /\ (v \in ChildWatch => watch'[v].phase = "destroyed"))
         \/ (v \in ChildWatch /\ child'[v] = "running")
  BY <1>2 DEF ForeignReaps, signalVars, listVars, wakeupVars, Looks
<1>3. ASSUME Raise
      PROVE  Looks(v)' \/ (v \notin owed' /\ (v \in ChildWatch => watch'[v].phase = "destroyed"))
         \/ (v \in ChildWatch /\ child'[v] = "running")
  BY <1>3 DEF Raise, signalVars, listVars, wakeupVars, Looks
<1>4. ASSUME NEW a \in Activation, NEW s \in Signal, Deliver(a, s)
      PROVE  Looks(v)' \/ (v \notin owed' /\ (v \in ChildWatch => watch'[v].phase = "destroyed"))
         \/ (v \in ChildWatch /\ child'[v] = "running")
  BY <1>4, DeliverFacts DEF Shape, TypeOK, MainRecord, quietVars, otherVars, Looks
<1>5. ASSUME NEW a \in Activation, Handler(a)
      PROVE  Looks(v)' \/ (v \notin owed' /\ (v \in ChildWatch => watch'[v].phase = "destroyed"))
         \/ (v \in ChildWatch /\ child'[v] = "running")
  BY <1>5, HandlerFacts DEF Shape, TypeOK, MainRecord, quietVars, otherVars, Looks
<1>6. ASSUME WorkerIterates
      PROVE  Looks(v)' \/ (v \notin owed' /\ (v \in ChildWatch => watch'[v].phase = "destroyed"))
         \/ (v \in ChildWatch /\ child'[v] = "running")
  BY <1>6 DEF WorkerIterates, quietVars, listVars, wakeupVars, ScanStep, Looks
<1>7. ASSUME WorkerChecks
      PROVE  Looks(v)' \/ (v \notin owed' /\ (v \in ChildWatch => watch'[v].phase = "destroyed"))
         \/ (v \in ChildWatch /\ child'[v] = "running")
  BY <1>7 DEF WorkerChecks, quietVars, listVars, wakeupVars, ScanStep, Looks
<1>8. ASSUME NEW p \in Scanner, ScanStarts(p)
      PROVE  Looks(v)' \/ (v \notin owed' /\ (v \in ChildWatch => watch'[v].phase = "destroyed"))
         \/ (v \in ChildWatch /\ child'[v] = "running")
  BY <1>8, ScanStartsFacts DEF Shape, TypeOK, MainRecord, quietVars, otherVars, Looks
<1>9. ASSUME NEW p \in Scanner, Take(p)
      PROVE  Looks(v)' \/ (v \notin owed' /\ (v \in ChildWatch => watch'[v].phase = "destroyed"))
         \/ (v \in ChildWatch /\ child'[v] = "running")
  BY <1>9, TakeFacts DEF Shape, TypeOK, MainRecord, quietVars, otherVars, Looks
<1>10. ASSUME NEW p \in Scanner, NEW w \in Watch, Visit(p, w)
       PROVE  Looks(v)' \/ (v \notin owed' /\ (v \in ChildWatch => watch'[v].phase = "destroyed"))
         \/ (v \in ChildWatch /\ child'[v] = "running")
  BY <1>10, VisitFacts DEF Shape, TypeOK, MainRecord, quietVars, otherVars, Looks
<1>11. ASSUME NEW p \in Scanner, WakeSource(p)
       PROVE  Looks(v)' \/ (v \notin owed' /\ (v \in ChildWatch => watch'[v].phase = "destroyed"))
         \/ (v \in ChildWatch /\ child'[v] = "running")
  BY <1>11, WakeSourceFacts DEF Shape, TypeOK, MainRecord, quietVars, otherVars, Looks
<1>12. ASSUME NEW p \in Scanner, ScanEnds(p)
       PROVE  Looks(v)' \/ (v \notin owed' /\ (v \in ChildWatch => watch'[v].phase = "destroyed"))
         \/ (v \in ChildWatch /\ child'[v] = "running")
  BY <1>12, ScanEndsFacts DEF Shape, TypeOK, MainRecord, quietVars, otherVars, Looks
<1>13. ASSUME NEW w \in ChildWatch, NewPidfd(w)
       PROVE  Looks(v)' \/ (v \notin owed' /\ (v \in ChildWatch => watch'[v].phase = "destroyed"))
         \/ (v \in ChildWatch /\ child'[v] = "running")
  BY <1>13, NewPidfdFacts DEF Shape, TypeOK, MainRecord, quietVars, otherVars, Looks
<1>14. ASSUME NEW w \in Watch, New(w)
       PROVE  Looks(v)' \/ (v \notin owed' /\ (v \in ChildWatch => watch'[v].phase = "destroyed"))
         \/ (v \in ChildWatch /\ child'[v] = "running")
  BY <1>14, NewFacts DEF Shape, TypeOK, MainRecord, quietVars, otherVars, Looks
<1>15. ASSUME NewListed
       PROVE  Looks(v)' \/ (v \notin owed' /\ (v \in ChildWatch => watch'[v].phase = "destroyed"))
         \/ (v \in ChildWatch /\ child'[v] = "running")
  BY <1>15, NewListedFacts DEF Shape, TypeOK, MainRecord, quietVars, otherVars, Looks
<1>16. ASSUME NEW w \in Watch, Attach(w)
       PROVE  Looks(v)' \/ (v \notin owed' /\ (v \in ChildWatch => watch'[v].phase = "destroyed"))
         \/ (v \in ChildWatch /\ child'[v] = "running")
  BY <1>16, AttachFacts DEF Shape, TypeOK, MainRecord, quietVars, otherVars, Looks
<1>17. ASSUME NEW w \in Watch, Destroy(w)
       PROVE  Looks(v)' \/ (v \notin owed' /\ (v \in ChildWatch => watch'[v].phase = "destroyed"))
         \/ (v \in ChildWatch /\ child'[v] = "running")
  BY <1>17, DestroyFacts DEF Shape, TypeOK, MainRecord, quietVars, otherVars, Looks
<1>18. ASSUME Finalize
       PROVE  Looks(v)' \/ (v \notin owed' /\ (v \in ChildWatch => watch'[v].phase = "destroyed"))
         \/ (v \in ChildWatch /\ child'[v] = "running")
  BY <1>18, FinalizeFacts, FreeFacts DEF Shape, TypeOK, MainRecord, quietVars, otherVars, Looks
<1>19. ASSUME MainPrepares
       PROVE  Looks(v)' \/ (v \notin owed' /\ (v \in ChildWatch => watch'[v].phase = "destroyed"))
         \/ (v \in ChildWatch /\ child'[v] = "running")
  BY <1>19 DEF MainPrepares, otherVars, signalVars, listVars, MainStep, Looks
<1>20. ASSUME MainPolls
       PROVE  Looks(v)' \/ (v \notin owed' /\ (v \in ChildWatch => watch'[v].phase = "destroyed"))
         \/ (v \in ChildWatch /\ child'[v] = "running")
  BY <1>20 DEF MainPolls, otherVars, signalVars, listVars, MainStep, Looks
<1>21. ASSUME MainChecks
       PROVE  Looks(v)' \/ (v \notin owed' /\ (v \in ChildWatch => watch'[v].phase = "destroyed"))
         \/ (v \in ChildWatch /\ child'[v] = "running")
  BY <1>21 DEF MainChecks, otherVars, signalVars, listVars, MainStep, Looks
<1>22. ASSUME MainDone
       PROVE  Looks(v)' \/ (v \notin owed' /\ (v \in ChildWatch => watch'[v].phase = "destroyed"))
         \/ (v \in ChildWatch /\ child'[v] = "running")
  BY <1>22 DEF MainDone, otherVars, signalVars, listVars, MainStep, Looks
<1>23. ASSUME NEW w \in Watch, MainDispatches(w)
       PROVE  Looks(v)' \/ (v \notin owed' /\ (v \in ChildWatch => watch'[v].phase = "destroyed"))
         \/ (v \in ChildWatch /\ child'[v] = "running")
  BY <1>23 DEF MainDispatches, otherVars, signalVars, listVars, MainStep, Looks
<1>24. ASSUME Waitid
       PROVE  Looks(v)' \/ (v \notin owed' /\ (v \in ChildWatch => watch'[v].phase = "destroyed"))
         \/ (v \in ChildWatch /\ child'[v] = "running")
  BY <1>24, ReapFacts DEF Shape, TypeOK, MainRecord, quietVars, otherVars, Looks
<1>25. ASSUME Reset
       PROVE  Looks(v)' \/ (v \notin owed' /\ (v \in ChildWatch => watch'[v].phase = "destroyed"))
         \/ (v \in ChildWatch /\ child'[v] = "running")
  BY <1>25, ResetFacts DEF Shape, TypeOK, MainRecord, quietVars, otherVars, Looks
<1>26. ASSUME Waitpid
       PROVE  Looks(v)' \/ (v \notin owed' /\ (v \in ChildWatch => watch'[v].phase = "destroyed"))
         \/ (v \in ChildWatch /\ child'[v] = "running")
  BY <1>26, ReapFacts, UnixSignalAssumption DEF Shape, TypeOK
<1>27. ASSUME Callback
       PROVE  Looks(v)' \/ (v \notin owed' /\ (v \in ChildWatch => watch'[v].phase = "destroyed"))
         \/ (v \in ChildWatch /\ child'[v] = "running")
  BY <1>27, CallbackFacts DEF Shape, Callback, TypeOK
<1>28. ASSUME MainReturns
       PROVE  Looks(v)' \/ (v \notin owed' /\ (v \in ChildWatch => watch'[v].phase = "destroyed"))
         \/ (v \in ChildWatch /\ child'[v] = "running")
  BY <1>28, MainReturnsFacts DEF Shape, TypeOK, MainRecord, quietVars, otherVars, Looks
<1>29. ASSUME MainFinalizes
       PROVE  Looks(v)' \/ (v \notin owed' /\ (v \in ChildWatch => watch'[v].phase = "destroyed"))
         \/ (v \in ChildWatch /\ child'[v] = "running")
  BY <1>29, MainFinalizesFacts, FreeFacts DEF Shape, TypeOK, MainRecord, quietVars, otherVars, Looks
<1>30. CASE UNCHANGED vars
  BY <1>30 DEF vars, Looks
<1> QED
  BY <1>1, <1>2, <1>3, <1>4, <1>5, <1>6, <1>7, <1>8, <1>9, <1>10, <1>11, <1>12, <1>13,
     <1>14, <1>15, <1>16, <1>17, <1>18, <1>19, <1>20, <1>21, <1>22, <1>23, <1>24, <1>25,
     <1>26, <1>27, <1>28, <1>29, <1>30 DEF Next, Kernel, Delivery, Worker, User, UserGoesOn,
     Main, Scan, Scanner

\* A signal is owed to listed watches only.
LEMMA OwedStep ==
  ASSUME Shape, OwedInv, [Next]_vars
  PROVE  OwedInv'
<1> USE DEF OwedInv
<1>1. ASSUME NEW w \in ChildWatch, ChildExits(w) PROVE OwedInv'
  BY <1>1 DEF ChildExits, signalVars, listVars, wakeupVars
<1>2. ASSUME NEW w \in ChildWatch, ForeignReaps(w) PROVE OwedInv'
  BY <1>2 DEF ForeignReaps, signalVars, listVars, wakeupVars
<1>3. ASSUME Raise PROVE OwedInv'
  BY <1>3 DEF Raise, signalVars, listVars, wakeupVars
<1>4. ASSUME NEW a \in Activation, NEW s \in Signal, Deliver(a, s) PROVE OwedInv'
  BY <1>4, DeliverFacts DEF Shape, listVars
<1>5. ASSUME NEW a \in Activation, Handler(a) PROVE OwedInv'
  BY <1>5 DEF Handler, signalVars, listVars, wakeupVars
<1>6. ASSUME WorkerIterates PROVE OwedInv'
  BY <1>6 DEF WorkerIterates, quietVars, listVars, wakeupVars, ScanStep
<1>7. ASSUME WorkerChecks PROVE OwedInv'
  BY <1>7 DEF WorkerChecks, quietVars, listVars, wakeupVars, ScanStep
<1>8. ASSUME NEW p \in Scanner, ScanStarts(p) PROVE OwedInv'
  BY <1>8 DEF ScanStarts, quietVars, listVars, wakeupVars, ScanStep
<1>9. ASSUME NEW p \in Scanner, Take(p) PROVE OwedInv'
  BY <1>9 DEF Take, quietVars, listVars, wakeupVars, ScanStep
<1>10. ASSUME NEW p \in Scanner, NEW w \in Watch, Visit(p, w) PROVE OwedInv'
  BY <1>10 DEF Visit, quietVars, listVars, wakeupVars, ScanStep
<1>11. ASSUME NEW p \in Scanner, WakeSource(p) PROVE OwedInv'
  BY <1>11 DEF WakeSource, quietVars, listVars, wakeupVars, ScanStep
<1>12. ASSUME NEW p \in Scanner, ScanEnds(p) PROVE OwedInv'
  BY <1>12 DEF ScanEnds, quietVars, listVars, wakeupVars, ScanStep
<1>13. ASSUME NEW w \in ChildWatch, NewPidfd(w) PROVE OwedInv'
  BY <1>13 DEF NewPidfd, signalVars, listVars, wakeupVars
<1>14. ASSUME NEW w \in Watch, New(w) PROVE OwedInv'
  BY <1>14 DEF New, signalVars, listVars, wakeupVars
<1>15. ASSUME NewListed PROVE OwedInv'
  BY <1>15, NewListedFacts DEF Shape, quietVars
<1>16. ASSUME NEW w \in Watch, Attach(w) PROVE OwedInv'
  BY <1>16 DEF Attach, signalVars, listVars, wakeupVars
<1>17. ASSUME NEW w \in Watch, Destroy(w) PROVE OwedInv'
  BY <1>17 DEF Destroy, signalVars, listVars, wakeupVars
<1>18. ASSUME Finalize PROVE OwedInv'
  <2>1. owed' = owed \ {scan["user"].w} /\ listed \ {scan["user"].w} \subseteq listed'
    BY <1>18, FinalizeFacts, FreeFacts DEF Shape
  <2> QED
    BY <2>1
<1>19. ASSUME MainPrepares PROVE OwedInv'
  BY <1>19 DEF MainPrepares, otherVars, signalVars, listVars, MainStep
<1>20. ASSUME MainPolls PROVE OwedInv'
  BY <1>20 DEF MainPolls, otherVars, signalVars, listVars, MainStep
<1>21. ASSUME MainChecks PROVE OwedInv'
  BY <1>21 DEF MainChecks, otherVars, signalVars, listVars, MainStep
<1>22. ASSUME MainDone PROVE OwedInv'
  BY <1>22 DEF MainDone, otherVars, signalVars, listVars, MainStep
<1>23. ASSUME NEW w \in Watch, MainDispatches(w) PROVE OwedInv'
  BY <1>23 DEF MainDispatches, otherVars, signalVars, listVars, MainStep
<1>24. ASSUME Waitid PROVE OwedInv'
  BY <1>24 DEF Waitid, Reap, otherVars, signalVars, listVars, MainStep
<1>25. ASSUME Reset PROVE OwedInv'
  BY <1>25 DEF Reset, otherVars, signalVars, listVars, MainStep
<1>26. ASSUME Waitpid PROVE OwedInv'
  BY <1>26 DEF Waitpid, Reap, otherVars, signalVars, listVars, MainStep
<1>27. ASSUME Callback PROVE OwedInv'
  BY <1>27 DEF Callback, otherVars, signalVars, listVars, MainStep
<1>28. ASSUME MainReturns PROVE OwedInv'
  BY <1>28 DEF MainReturns, otherVars, signalVars, listVars, MainStep
<1>29. ASSUME MainFinalizes PROVE OwedInv'
  <2>1. owed' = owed \ {main.w} /\ listed \ {main.w} \subseteq listed'
    BY <1>29, MainFinalizesFacts, FreeFacts DEF Shape
  <2> QED
    BY <2>1
<1>30. CASE UNCHANGED vars
  BY <1>30 DEF vars
<1> QED
  BY <1>1, <1>2, <1>3, <1>4, <1>5, <1>6, <1>7, <1>8, <1>9, <1>10, <1>11, <1>12, <1>13,
     <1>14, <1>15, <1>16, <1>17, <1>18, <1>19, <1>20, <1>21, <1>22, <1>23, <1>24, <1>25,
     <1>26, <1>27, <1>28, <1>29, <1>30 DEF Next, Kernel, Delivery, Worker, User, UserGoesOn,
     Main, Scan, Scanner

\* A signal is owed newly only where the handler is about to run.
LEMMA OwedComes ==
  ASSUME Shape, NEW v \in owed', [Next]_vars
  PROVE  v \in owed \/ OnItsWay(SignalOf(v), v)'
<1>1. ASSUME NEW w \in ChildWatch, ChildExits(w) PROVE v \in owed \/ OnItsWay(SignalOf(v), v)'
  BY <1>1 DEF ChildExits, signalVars, listVars, wakeupVars
<1>2. ASSUME NEW w \in ChildWatch, ForeignReaps(w) PROVE v \in owed \/ OnItsWay(SignalOf(v), v)'
  BY <1>2 DEF ForeignReaps, signalVars, listVars, wakeupVars
<1>3. ASSUME Raise PROVE v \in owed \/ OnItsWay(SignalOf(v), v)'
  BY <1>3 DEF Raise, signalVars, listVars, wakeupVars
<1>4. ASSUME NEW a \in Activation, NEW s \in Signal, Deliver(a, s)
      PROVE  v \in owed \/ OnItsWay(SignalOf(v), v)'
  <2>1. CASE refcount[s] > 0
    BY <1>4, <2>1, DeliverFacts DEF Shape, OnItsWay
  <2>2. CASE ~(refcount[s] > 0)
    BY <1>4, <2>2, DeliverFacts DEF Shape
  <2> QED
    BY <2>1, <2>2
<1>5. ASSUME NEW a \in Activation, Handler(a) PROVE v \in owed \/ OnItsWay(SignalOf(v), v)'
  BY <1>5 DEF Handler, signalVars, listVars, wakeupVars
<1>6. ASSUME WorkerIterates PROVE v \in owed \/ OnItsWay(SignalOf(v), v)'
  BY <1>6 DEF WorkerIterates, quietVars, listVars, wakeupVars, ScanStep
<1>7. ASSUME WorkerChecks PROVE v \in owed \/ OnItsWay(SignalOf(v), v)'
  BY <1>7 DEF WorkerChecks, quietVars, listVars, wakeupVars, ScanStep
<1>8. ASSUME NEW p \in Scanner, ScanStarts(p) PROVE v \in owed \/ OnItsWay(SignalOf(v), v)'
  BY <1>8 DEF ScanStarts, quietVars, listVars, wakeupVars, ScanStep
<1>9. ASSUME NEW p \in Scanner, Take(p) PROVE v \in owed \/ OnItsWay(SignalOf(v), v)'
  BY <1>9 DEF Take, quietVars, listVars, wakeupVars, ScanStep
<1>10. ASSUME NEW p \in Scanner, NEW w \in Watch, Visit(p, w)
       PROVE  v \in owed \/ OnItsWay(SignalOf(v), v)'
  BY <1>10 DEF Visit, quietVars, listVars, wakeupVars, ScanStep
<1>11. ASSUME NEW p \in Scanner, WakeSource(p) PROVE v \in owed \/ OnItsWay(SignalOf(v), v)'
  BY <1>11 DEF WakeSource, quietVars, listVars, wakeupVars, ScanStep
<1>12. ASSUME NEW p \in Scanner, ScanEnds(p) PROVE v \in owed \/ OnItsWay(SignalOf(v), v)'
  BY <1>12 DEF ScanEnds, quietVars, listVars, wakeupVars, ScanStep
<1>13. ASSUME NEW w \in ChildWatch, NewPidfd(w) PROVE v \in owed \/ OnItsWay(SignalOf(v), v)'
  BY <1>13 DEF NewPidfd, signalVars, listVars, wakeupVars
<1>14. ASSUME NEW w \in Watch, New(w) PROVE v \in owed \/ OnItsWay(SignalOf(v), v)'
  BY <1>14 DEF New, signalVars, listVars, wakeupVars
<1>15. ASSUME NewListed PROVE v \in owed \/ OnItsWay(SignalOf(v), v)'
  BY <1>15 DEF NewListed, RefHandler, quietVars, listVars, wakeupVars, ScanStep
<1>16. ASSUME NEW w \in Watch, Attach(w) PROVE v \in owed \/ OnItsWay(SignalOf(v), v)'
  BY <1>16 DEF Attach, signalVars, listVars, wakeupVars
<1>17. ASSUME NEW w \in Watch, Destroy(w) PROVE v \in owed \/ OnItsWay(SignalOf(v), v)'
  BY <1>17 DEF Destroy, signalVars, listVars, wakeupVars
<1>18. ASSUME Finalize PROVE v \in owed \/ OnItsWay(SignalOf(v), v)'
  BY <1>18, FinalizeFacts, FreeFacts DEF Shape
<1>19. ASSUME MainPrepares PROVE v \in owed \/ OnItsWay(SignalOf(v), v)'
  BY <1>19 DEF MainPrepares, otherVars, signalVars, listVars, MainStep
<1>20. ASSUME MainPolls PROVE v \in owed \/ OnItsWay(SignalOf(v), v)'
  BY <1>20 DEF MainPolls, otherVars, signalVars, listVars, MainStep
<1>21. ASSUME MainChecks PROVE v \in owed \/ OnItsWay(SignalOf(v), v)'
  BY <1>21 DEF MainChecks, otherVars, signalVars, listVars, MainStep
<1>22. ASSUME MainDone PROVE v \in owed \/ OnItsWay(SignalOf(v), v)'
  BY <1>22 DEF MainDone, otherVars, signalVars, listVars, MainStep
<1>23. ASSUME NEW w \in Watch, MainDispatches(w) PROVE v \in owed \/ OnItsWay(SignalOf(v), v)'
  BY <1>23 DEF MainDispatches, otherVars, signalVars, listVars, MainStep
<1>24. ASSUME Waitid PROVE v \in owed \/ OnItsWay(SignalOf(v), v)'
  BY <1>24 DEF Waitid, Reap, otherVars, signalVars, listVars, MainStep
<1>25. ASSUME Reset PROVE v \in owed \/ OnItsWay(SignalOf(v), v)'
  BY <1>25 DEF Reset, otherVars, signalVars, listVars, MainStep
<1>26. ASSUME Waitpid PROVE v \in owed \/ OnItsWay(SignalOf(v), v)'
  BY <1>26 DEF Waitpid, Reap, otherVars, signalVars, listVars, MainStep
<1>27. ASSUME Callback PROVE v \in owed \/ OnItsWay(SignalOf(v), v)'
  BY <1>27 DEF Callback, otherVars, signalVars, listVars, MainStep
<1>28. ASSUME MainReturns PROVE v \in owed \/ OnItsWay(SignalOf(v), v)'
  BY <1>28 DEF MainReturns, otherVars, signalVars, listVars, MainStep
<1>29. ASSUME MainFinalizes PROVE v \in owed \/ OnItsWay(SignalOf(v), v)'
  BY <1>29, MainFinalizesFacts, FreeFacts DEF Shape
<1>30. CASE UNCHANGED vars
  BY <1>30 DEF vars
<1> QED
  BY <1>1, <1>2, <1>3, <1>4, <1>5, <1>6, <1>7, <1>8, <1>9, <1>10, <1>11, <1>12, <1>13,
     <1>14, <1>15, <1>16, <1>17, <1>18, <1>19, <1>20, <1>21, <1>22, <1>23, <1>24, <1>25,
     <1>26, <1>27, <1>28, <1>29, <1>30 DEF Next, Kernel, Delivery, Worker, User, UserGoesOn,
     Main, Scan, Scanner

\* No signal is forgotten.
LEMMA SignalStep ==
  ASSUME Shape, Lives, OwedInv, SignalNotForgotten, [Next]_vars
  PROVE  SignalNotForgotten'
<1> SUFFICES ASSUME NEW v \in owed'
             PROVE  OnItsWay(SignalOf(v), v)' \/ watch'[v].flag \/ (main'.at = "callback" /\ main'.w = v)
  BY DEF SignalNotForgotten
<1>1. v \in owed \/ OnItsWay(SignalOf(v), v)'
  BY OwedComes
<1>2. CASE v \in owed
  <2>1. v \in listed /\ v \in Watch /\ v \notin ChildWatch
    BY <1>2, UnixSignalAssumption DEF OwedInv, Shape, TypeOK
  <2>2. v \in listed' /\ (Looks(v) <=> main.at = "callback" /\ main.w = v)
        /\ (Looks(v)' <=> main'.at = "callback" /\ main'.w = v)
    BY <2>1, OwedStep DEF OwedInv, Looks
  <2>3. CASE OnItsWay(SignalOf(v), v)
    BY <2>1, <2>3, OnWayStep DEF Lives
  <2>4. CASE watch[v].flag
    BY <2>1, <2>2, <2>4, FlagKept DEF Lives
  <2>5. CASE Looks(v)
    BY <2>1, <2>2, <2>5, LooksKept
  <2> QED
    BY <1>2, <2>2, <2>3, <2>4, <2>5 DEF SignalNotForgotten
<1> QED
  BY <1>1, <1>2

\* The exit of a child is new where SIGCHLD is raised, and a watch where its flag is set.
LEMMA ExitComes ==
  ASSUME Shape, ListedInv, NewInv, FinalInv, NEW v \in listed' \cap ChildWatch, child'[v] # "running",
         watch'[v].phase \in {"made", "attached"}, [Next]_vars
  PROVE  OnItsWay("CHLD", v)' \/ watch'[v].flag
         \/ (v \in listed /\ child[v] # "running" /\ watch[v].phase \in {"made", "attached"})
<1>a. v \in Watch
  BY DEF Watch
<1>1. ASSUME NEW w \in ChildWatch, ChildExits(w)
      PROVE  OnItsWay("CHLD", v)' \/ watch'[v].flag
         \/ (v \in listed /\ child[v] # "running" /\ watch[v].phase \in {"made", "attached"})
  BY <1>1, <1>a DEF ChildExits, signalVars, listVars, wakeupVars, OnItsWay, Shape, TypeOK
<1>2. ASSUME NEW w \in ChildWatch, ForeignReaps(w)
      PROVE  OnItsWay("CHLD", v)' \/ watch'[v].flag
         \/ (v \in listed /\ child[v] # "running" /\ watch[v].phase \in {"made", "attached"})
  BY <1>2, <1>a DEF ForeignReaps, signalVars, listVars, wakeupVars, Shape, TypeOK
<1>3. ASSUME Raise
      PROVE  OnItsWay("CHLD", v)' \/ watch'[v].flag
         \/ (v \in listed /\ child[v] # "running" /\ watch[v].phase \in {"made", "attached"})
  BY <1>3, <1>a DEF Raise, signalVars, listVars, wakeupVars
<1>4. ASSUME NEW a \in Activation, NEW s \in Signal, Deliver(a, s)
      PROVE  OnItsWay("CHLD", v)' \/ watch'[v].flag
         \/ (v \in listed /\ child[v] # "running" /\ watch[v].phase \in {"made", "attached"})
  BY <1>4, <1>a DEF Deliver, signalVars, listVars, wakeupVars
<1>5. ASSUME NEW a \in Activation, Handler(a)
      PROVE  OnItsWay("CHLD", v)' \/ watch'[v].flag
         \/ (v \in listed /\ child[v] # "running" /\ watch[v].phase \in {"made", "attached"})
  BY <1>5, <1>a DEF Handler, signalVars, listVars, wakeupVars
<1>6. ASSUME WorkerIterates
      PROVE  OnItsWay("CHLD", v)' \/ watch'[v].flag
         \/ (v \in listed /\ child[v] # "running" /\ watch[v].phase \in {"made", "attached"})
  BY <1>6, <1>a DEF WorkerIterates, quietVars, listVars, wakeupVars, ScanStep
<1>7. ASSUME WorkerChecks
      PROVE  OnItsWay("CHLD", v)' \/ watch'[v].flag
         \/ (v \in listed /\ child[v] # "running" /\ watch[v].phase \in {"made", "attached"})
  BY <1>7, <1>a DEF WorkerChecks, quietVars, listVars, wakeupVars, ScanStep
<1>8. ASSUME NEW p \in Scanner, ScanStarts(p)
      PROVE  OnItsWay("CHLD", v)' \/ watch'[v].flag
         \/ (v \in listed /\ child[v] # "running" /\ watch[v].phase \in {"made", "attached"})
  BY <1>8, <1>a DEF ScanStarts, quietVars, listVars, wakeupVars, ScanStep
<1>9. ASSUME NEW p \in Scanner, Take(p)
      PROVE  OnItsWay("CHLD", v)' \/ watch'[v].flag
         \/ (v \in listed /\ child[v] # "running" /\ watch[v].phase \in {"made", "attached"})
  BY <1>9, <1>a DEF Take, quietVars, listVars, wakeupVars, ScanStep
<1>10. ASSUME NEW p \in Scanner, NEW w \in Watch, Visit(p, w)
       PROVE  OnItsWay("CHLD", v)' \/ watch'[v].flag
         \/ (v \in listed /\ child[v] # "running" /\ watch[v].phase \in {"made", "attached"})
  BY <1>10, <1>a, VisitFacts DEF Shape, listVars, quietVars
<1>11. ASSUME NEW p \in Scanner, WakeSource(p)
       PROVE  OnItsWay("CHLD", v)' \/ watch'[v].flag
         \/ (v \in listed /\ child[v] # "running" /\ watch[v].phase \in {"made", "attached"})
  BY <1>11, <1>a DEF WakeSource, quietVars, listVars, wakeupVars, ScanStep
<1>12. ASSUME NEW p \in Scanner, ScanEnds(p)
       PROVE  OnItsWay("CHLD", v)' \/ watch'[v].flag
         \/ (v \in listed /\ child[v] # "running" /\ watch[v].phase \in {"made", "attached"})
  BY <1>12, <1>a DEF ScanEnds, quietVars, listVars, wakeupVars, ScanStep
<1>13. ASSUME NEW w \in ChildWatch, NewPidfd(w)
       PROVE  OnItsWay("CHLD", v)' \/ watch'[v].flag
         \/ (v \in listed /\ child[v] # "running" /\ watch[v].phase \in {"made", "attached"})
  BY <1>13, <1>a, NewPidfdFacts DEF Shape, listVars, ListedInv
<1>14. ASSUME NEW w \in Watch, New(w)
       PROVE  OnItsWay("CHLD", v)' \/ watch'[v].flag
         \/ (v \in listed /\ child[v] # "running" /\ watch[v].phase \in {"made", "attached"})
  BY <1>14, <1>a, NewFacts DEF Shape, listVars, ListedInv
<1>15. ASSUME NewListed
       PROVE  OnItsWay("CHLD", v)' \/ watch'[v].flag
         \/ (v \in listed /\ child[v] # "running" /\ watch[v].phase \in {"made", "attached"})
  BY <1>15, <1>a, NewListedFacts DEF Shape, listVars, NewInv, quietVars
<1>16. ASSUME NEW w \in Watch, Attach(w)
       PROVE  OnItsWay("CHLD", v)' \/ watch'[v].flag
         \/ (v \in listed /\ child[v] # "running" /\ watch[v].phase \in {"made", "attached"})
  BY <1>16, <1>a, AttachFacts DEF Shape, listVars
<1>17. ASSUME NEW w \in Watch, Destroy(w)
       PROVE  OnItsWay("CHLD", v)' \/ watch'[v].flag
         \/ (v \in listed /\ child[v] # "running" /\ watch[v].phase \in {"made", "attached"})
  BY <1>17, <1>a, DestroyFacts DEF Shape, listVars
<1>18. ASSUME Finalize
       PROVE  OnItsWay("CHLD", v)' \/ watch'[v].flag
         \/ (v \in listed /\ child[v] # "running" /\ watch[v].phase \in {"made", "attached"})
  BY <1>18, <1>a, FinalizeFacts, FreeFacts DEF Shape, listVars
<1>19. ASSUME MainPrepares
       PROVE  OnItsWay("CHLD", v)' \/ watch'[v].flag
         \/ (v \in listed /\ child[v] # "running" /\ watch[v].phase \in {"made", "attached"})
  BY <1>19, <1>a DEF MainPrepares, otherVars, signalVars, listVars, MainStep
<1>20. ASSUME MainPolls
       PROVE  OnItsWay("CHLD", v)' \/ watch'[v].flag
         \/ (v \in listed /\ child[v] # "running" /\ watch[v].phase \in {"made", "attached"})
  BY <1>20, <1>a DEF MainPolls, otherVars, signalVars, listVars, MainStep
<1>21. ASSUME MainChecks
       PROVE  OnItsWay("CHLD", v)' \/ watch'[v].flag
         \/ (v \in listed /\ child[v] # "running" /\ watch[v].phase \in {"made", "attached"})
  BY <1>21, <1>a DEF MainChecks, otherVars, signalVars, listVars, MainStep
<1>22. ASSUME MainDone
       PROVE  OnItsWay("CHLD", v)' \/ watch'[v].flag
         \/ (v \in listed /\ child[v] # "running" /\ watch[v].phase \in {"made", "attached"})
  BY <1>22, <1>a DEF MainDone, otherVars, signalVars, listVars, MainStep
<1>23. ASSUME NEW w \in Watch, MainDispatches(w)
       PROVE  OnItsWay("CHLD", v)' \/ watch'[v].flag
         \/ (v \in listed /\ child[v] # "running" /\ watch[v].phase \in {"made", "attached"})
  BY <1>23, <1>a DEF MainDispatches, otherVars, signalVars, listVars, MainStep
<1>24. ASSUME Waitid
       PROVE  OnItsWay("CHLD", v)' \/ watch'[v].flag
         \/ (v \in listed /\ child[v] # "running" /\ watch[v].phase \in {"made", "attached"})
  BY <1>24, <1>a, ReapFacts DEF Shape, listVars, otherVars
<1>25. ASSUME Reset
       PROVE  OnItsWay("CHLD", v)' \/ watch'[v].flag
         \/ (v \in listed /\ child[v] # "running" /\ watch[v].phase \in {"made", "attached"})
  BY <1>25, <1>a, ResetFacts DEF Shape, listVars, otherVars
<1>26. ASSUME Waitpid
       PROVE  OnItsWay("CHLD", v)' \/ watch'[v].flag
         \/ (v \in listed /\ child[v] # "running" /\ watch[v].phase \in {"made", "attached"})
  BY <1>26, <1>a, ReapFacts DEF Shape, listVars, otherVars
<1>27. ASSUME Callback
       PROVE  OnItsWay("CHLD", v)' \/ watch'[v].flag
         \/ (v \in listed /\ child[v] # "running" /\ watch[v].phase \in {"made", "attached"})
  BY <1>27, <1>a, CallbackFacts DEF Shape, listVars, Callback, otherVars
<1>28. ASSUME MainReturns
       PROVE  OnItsWay("CHLD", v)' \/ watch'[v].flag
         \/ (v \in listed /\ child[v] # "running" /\ watch[v].phase \in {"made", "attached"})
  BY <1>28, <1>a DEF MainReturns, otherVars, signalVars, listVars, MainStep
<1>29. ASSUME MainFinalizes
       PROVE  OnItsWay("CHLD", v)' \/ watch'[v].flag
         \/ (v \in listed /\ child[v] # "running" /\ watch[v].phase \in {"made", "attached"})
  BY <1>29, <1>a, MainFinalizesFacts, FreeFacts DEF Shape, listVars
<1>30. CASE UNCHANGED vars
  BY <1>30, <1>a DEF vars
<1> QED
  BY <1>1, <1>2, <1>3, <1>4, <1>5, <1>6, <1>7, <1>8, <1>9, <1>10, <1>11, <1>12, <1>13,
     <1>14, <1>15, <1>16, <1>17, <1>18, <1>19, <1>20, <1>21, <1>22, <1>23, <1>24, <1>25,
     <1>26, <1>27, <1>28, <1>29, <1>30 DEF Next, Kernel, Delivery, Worker, User, UserGoesOn,
     Main, Scan, Scanner

\* No exit of a child is forgotten.
LEMMA ExitStep ==
  ASSUME Shape, Lives, ExitInv, [Next]_vars
  PROVE  ExitInv'
<1> SUFFICES ASSUME NEW v \in listed' \cap ChildWatch, child'[v] # "running",
                    watch'[v].phase \in {"made", "attached"}
             PROVE  \/ OnItsWay("CHLD", v)' \/ watch'[v].flag
                    \/ main'.w = v /\ main'.at \in {"waitpid", "callback"}
  BY DEF ExitInv
<1>1. CASE v \in listed /\ child[v] # "running" /\ watch[v].phase \in {"made", "attached"}
  <2>1. v \in Watch /\ SignalOf(v) = "CHLD"
    BY DEF Watch, SignalOf
  <2>2. /\ Looks(v) <=> main.w = v /\ main.at \in {"waitpid", "callback"}
        /\ Looks(v)' <=> main'.w = v /\ main'.at \in {"waitpid", "callback"}
    BY DEF Looks
  <2>3. CASE OnItsWay("CHLD", v)
    BY <1>1, <2>1, <2>3, OnWayStep DEF Lives
  <2>4. CASE watch[v].flag
    BY <1>1, <2>2, <2>4, FlagKept DEF Lives
  <2>5. CASE Looks(v)
    BY <2>1, <2>2, <2>5, LooksKept
  <2> QED
    BY <1>1, <2>2, <2>3, <2>4, <2>5 DEF ExitInv
<1> QED
  BY <1>1, ExitComes DEF Lives

\* The callback of a child watch is called once.
LEMMA CallsStep ==
  ASSUME Shape, ListedInv, NewInv, FinalInv, CallsInv, [Next]_vars
  PROVE  CallsInv'
<1> USE DEF CallsInv, Held
<1>a. ChildWatch \subseteq Watch
  BY DEF Watch
<1>1. ASSUME NEW w \in ChildWatch, ChildExits(w) PROVE CallsInv'
  BY <1>1, <1>a DEF ChildExits, signalVars, listVars, wakeupVars
<1>2. ASSUME NEW w \in ChildWatch, ForeignReaps(w) PROVE CallsInv'
  BY <1>2, <1>a DEF ForeignReaps, signalVars, listVars, wakeupVars
<1>3. ASSUME Raise PROVE CallsInv'
  BY <1>3, <1>a DEF Raise, signalVars, listVars, wakeupVars
<1>4. ASSUME NEW a \in Activation, NEW s \in Signal, Deliver(a, s) PROVE CallsInv'
  BY <1>4, <1>a DEF Deliver, signalVars, listVars, wakeupVars
<1>5. ASSUME NEW a \in Activation, Handler(a) PROVE CallsInv'
  BY <1>5, <1>a DEF Handler, signalVars, listVars, wakeupVars
<1>6. ASSUME WorkerIterates PROVE CallsInv'
  BY <1>6, <1>a DEF WorkerIterates, quietVars, listVars, wakeupVars, ScanStep
<1>7. ASSUME WorkerChecks PROVE CallsInv'
  BY <1>7, <1>a DEF WorkerChecks, quietVars, listVars, wakeupVars, ScanStep
<1>8. ASSUME NEW p \in Scanner, ScanStarts(p) PROVE CallsInv'
  BY <1>8, <1>a DEF ScanStarts, quietVars, listVars, wakeupVars, ScanStep
<1>9. ASSUME NEW p \in Scanner, Take(p) PROVE CallsInv'
  BY <1>9, <1>a DEF Take, quietVars, listVars, wakeupVars, ScanStep
<1>10. ASSUME NEW p \in Scanner, NEW w \in Watch, Visit(p, w) PROVE CallsInv'
  BY <1>10, <1>a, VisitFacts DEF Shape, Dispatching, quietVars
<1>11. ASSUME NEW p \in Scanner, WakeSource(p) PROVE CallsInv'
  BY <1>11, <1>a DEF WakeSource, quietVars, listVars, wakeupVars, ScanStep
<1>12. ASSUME NEW p \in Scanner, ScanEnds(p) PROVE CallsInv'
  BY <1>12, <1>a DEF ScanEnds, quietVars, listVars, wakeupVars, ScanStep
<1>13. ASSUME NEW w \in ChildWatch, NewPidfd(w) PROVE CallsInv'
  BY <1>13, <1>a, NewPidfdFacts DEF Shape, Dispatching, ListedInv
<1>14. ASSUME NEW w \in Watch, New(w) PROVE CallsInv'
  BY <1>14, <1>a, NewFacts DEF Shape, Dispatching, ListedInv
<1>15. ASSUME NewListed PROVE CallsInv'
  BY <1>15, <1>a, NewListedFacts DEF Shape, Dispatching, NewInv, quietVars
<1>16. ASSUME NEW w \in Watch, Attach(w) PROVE CallsInv'
  BY <1>16, <1>a, AttachFacts DEF Shape, Dispatching
<1>17. ASSUME NEW w \in Watch, Destroy(w) PROVE CallsInv'
  BY <1>17, <1>a, DestroyFacts DEF Shape, Dispatching
<1>18. ASSUME Finalize PROVE CallsInv'
  BY <1>18, <1>a, FinalizeFacts, FreeFacts DEF Shape, Dispatching
<1>19. ASSUME MainPrepares PROVE CallsInv'
  BY <1>19, <1>a DEF MainPrepares, otherVars, signalVars, listVars, MainStep, Shape, TypeOK,
     MainRecord, Held, Dispatching
<1>20. ASSUME MainPolls PROVE CallsInv'
  BY <1>20, <1>a DEF MainPolls, otherVars, signalVars, listVars, MainStep, Shape, TypeOK,
     MainRecord, Held, Dispatching
<1>21. ASSUME MainChecks PROVE CallsInv'
  BY <1>21, <1>a DEF MainChecks, otherVars, signalVars, listVars, MainStep, Shape, TypeOK,
     MainRecord, Held, Dispatching, Flagged, Attached
<1>22. ASSUME MainDone PROVE CallsInv'
  BY <1>22, <1>a DEF MainDone, otherVars, signalVars, listVars, MainStep, Shape, TypeOK,
     MainRecord, Held, Dispatching
<1>23. ASSUME NEW w \in Watch, MainDispatches(w) PROVE CallsInv'
  BY <1>23, <1>a DEF MainDispatches, otherVars, signalVars, listVars, MainStep, Shape,
     TypeOK, MainRecord, Held, Dispatching, Attached
<1>24. ASSUME Waitid PROVE CallsInv'
  BY <1>24, <1>a, ReapFacts DEF Shape, Dispatching, otherVars
<1>25. ASSUME Reset PROVE CallsInv'
  BY <1>25, <1>a, ResetFacts DEF Shape, Dispatching, otherVars
<1>26. ASSUME Waitpid PROVE CallsInv'
  BY <1>26, <1>a, ReapFacts DEF Shape, Dispatching, otherVars
<1>27. ASSUME Callback PROVE CallsInv'
  BY <1>27, <1>a, CallbackFacts DEF Shape, TypeOK, MainRecord, Dispatching, Callback
<1>28. ASSUME MainReturns PROVE CallsInv'
  BY <1>28, <1>a, MainReturnsFacts DEF Shape, Dispatching
<1>29. ASSUME MainFinalizes PROVE CallsInv'
  BY <1>29, <1>a, MainFinalizesFacts, FreeFacts DEF Shape, Dispatching
<1>30. CASE UNCHANGED vars
  BY <1>30, <1>a DEF vars
<1> QED
  BY <1>1, <1>2, <1>3, <1>4, <1>5, <1>6, <1>7, <1>8, <1>9, <1>10, <1>11, <1>12, <1>13,
     <1>14, <1>15, <1>16, <1>17, <1>18, <1>19, <1>20, <1>21, <1>22, <1>23, <1>24, <1>25,
     <1>26, <1>27, <1>28, <1>29, <1>30 DEF Next, Kernel, Delivery, Worker, User, UserGoesOn,
     Main, Scan, Scanner

\* A child is reaped for its watch's callback.
LEMMA ReapedStep ==
  ASSUME Shape, FinalInv, CallsInv, ReapedForCallback, [Next]_vars
  PROVE  ReapedForCallback'
<1> USE DEF ReapedForCallback
<1>a. ChildWatch \subseteq Watch
  BY DEF Watch
<1>1. ASSUME NEW w \in ChildWatch, ChildExits(w) PROVE ReapedForCallback'
  BY <1>1, <1>a DEF ChildExits, signalVars, listVars, wakeupVars, Shape, TypeOK
<1>2. ASSUME NEW w \in ChildWatch, ForeignReaps(w) PROVE ReapedForCallback'
  BY <1>2, <1>a DEF ForeignReaps, signalVars, listVars, wakeupVars, Shape, TypeOK
<1>3. ASSUME Raise PROVE ReapedForCallback'
  BY <1>3, <1>a DEF Raise, signalVars, listVars, wakeupVars
<1>4. ASSUME NEW a \in Activation, NEW s \in Signal, Deliver(a, s) PROVE ReapedForCallback'
  BY <1>4, <1>a DEF Deliver, signalVars, listVars, wakeupVars
<1>5. ASSUME NEW a \in Activation, Handler(a) PROVE ReapedForCallback'
  BY <1>5, <1>a DEF Handler, signalVars, listVars, wakeupVars
<1>6. ASSUME WorkerIterates PROVE ReapedForCallback'
  BY <1>6, <1>a DEF WorkerIterates, quietVars, listVars, wakeupVars, ScanStep
<1>7. ASSUME WorkerChecks PROVE ReapedForCallback'
  BY <1>7, <1>a DEF WorkerChecks, quietVars, listVars, wakeupVars, ScanStep
<1>8. ASSUME NEW p \in Scanner, ScanStarts(p) PROVE ReapedForCallback'
  BY <1>8, <1>a DEF ScanStarts, quietVars, listVars, wakeupVars, ScanStep
<1>9. ASSUME NEW p \in Scanner, Take(p) PROVE ReapedForCallback'
  BY <1>9, <1>a DEF Take, quietVars, listVars, wakeupVars, ScanStep
<1>10. ASSUME NEW p \in Scanner, NEW w \in Watch, Visit(p, w) PROVE ReapedForCallback'
  BY <1>10, <1>a, VisitFacts DEF Shape, quietVars
<1>11. ASSUME NEW p \in Scanner, WakeSource(p) PROVE ReapedForCallback'
  BY <1>11, <1>a DEF WakeSource, quietVars, listVars, wakeupVars, ScanStep
<1>12. ASSUME NEW p \in Scanner, ScanEnds(p) PROVE ReapedForCallback'
  BY <1>12, <1>a DEF ScanEnds, quietVars, listVars, wakeupVars, ScanStep
<1>13. ASSUME NEW w \in ChildWatch, NewPidfd(w) PROVE ReapedForCallback'
  BY <1>13, <1>a, NewPidfdFacts DEF Shape
<1>14. ASSUME NEW w \in Watch, New(w) PROVE ReapedForCallback'
  BY <1>14, <1>a, NewFacts DEF Shape
<1>15. ASSUME NewListed PROVE ReapedForCallback'
  BY <1>15, <1>a, NewListedFacts DEF Shape, quietVars
<1>16. ASSUME NEW w \in Watch, Attach(w) PROVE ReapedForCallback'
  BY <1>16, <1>a, AttachFacts DEF Shape
<1>17. ASSUME NEW w \in Watch, Destroy(w) PROVE ReapedForCallback'
  BY <1>17, <1>a, DestroyFacts DEF Shape
<1>18. ASSUME Finalize PROVE ReapedForCallback'
  BY <1>18, <1>a, FinalizeFacts, FreeFacts DEF Shape
<1>19. ASSUME MainPrepares PROVE ReapedForCallback'
  BY <1>19, <1>a DEF MainPrepares, otherVars, signalVars, listVars, MainStep, Shape, TypeOK,
     MainRecord, Held, Dispatching
<1>20. ASSUME MainPolls PROVE ReapedForCallback'
  BY <1>20, <1>a DEF MainPolls, otherVars, signalVars, listVars, MainStep, Shape, TypeOK,
     MainRecord, Held, Dispatching
<1>21. ASSUME MainChecks PROVE ReapedForCallback'
  BY <1>21, <1>a DEF MainChecks, otherVars, signalVars, listVars, MainStep, Shape, TypeOK,
     MainRecord, Held, Dispatching
<1>22. ASSUME MainDone PROVE ReapedForCallback'
  BY <1>22, <1>a DEF MainDone, otherVars, signalVars, listVars, MainStep, Shape, TypeOK,
     MainRecord, Held, Dispatching
<1>23. ASSUME NEW w \in Watch, MainDispatches(w) PROVE ReapedForCallback'
  BY <1>23, <1>a DEF MainDispatches, otherVars, signalVars, listVars, MainStep, Shape,
     TypeOK, MainRecord, Held, Dispatching
<1>24. ASSUME Waitid PROVE ReapedForCallback'
  BY <1>24, <1>a, ReapFacts DEF Shape, otherVars
<1>25. ASSUME Reset PROVE ReapedForCallback'
  BY <1>25, <1>a, ResetFacts DEF Shape
<1>26. ASSUME Waitpid PROVE ReapedForCallback'
  BY <1>26, <1>a, ReapFacts DEF Shape, otherVars
<1>27. ASSUME Callback PROVE ReapedForCallback'
  <2>1. main.w \in ChildWatch => watch[main.w].calls = 0
    BY <1>27 DEF Callback, CallsInv, Held, Dispatching, Shape, MainInv, Working
  <2>2. UNCHANGED child
    BY <1>27 DEF Callback
  <2> QED
    BY <1>27, <1>a, <2>1, <2>2, CallbackFacts DEF Shape, TypeOK, WatchRecord, Callback
<1>28. ASSUME MainReturns PROVE ReapedForCallback'
  BY <1>28, <1>a, MainReturnsFacts DEF Shape
<1>29. ASSUME MainFinalizes PROVE ReapedForCallback'
  BY <1>29, <1>a, MainFinalizesFacts, FreeFacts DEF Shape
<1>30. CASE UNCHANGED vars
  BY <1>30, <1>a DEF vars
<1> QED
  BY <1>1, <1>2, <1>3, <1>4, <1>5, <1>6, <1>7, <1>8, <1>9, <1>10, <1>11, <1>12, <1>13,
     <1>14, <1>15, <1>16, <1>17, <1>18, <1>19, <1>20, <1>21, <1>22, <1>23, <1>24, <1>25,
     <1>26, <1>27, <1>28, <1>29, <1>30 DEF Next, Kernel, Delivery, Worker, User, UserGoesOn,
     Main, Scan, Scanner

\* A pending signal is told, or a scan comes to it.
LEMMA PendingStep ==
  ASSUME Shape, PendingTold, [Next]_vars
  PROVE  PendingTold'
<1> USE DEF PendingTold, ScanComes
<1>1. ASSUME NEW w \in ChildWatch, ChildExits(w) PROVE PendingTold'
  BY <1>1 DEF ChildExits, signalVars, listVars, wakeupVars
<1>2. ASSUME NEW w \in ChildWatch, ForeignReaps(w) PROVE PendingTold'
  BY <1>2 DEF ForeignReaps, signalVars, listVars, wakeupVars
<1>3. ASSUME Raise PROVE PendingTold'
  BY <1>3 DEF Raise, signalVars, listVars, wakeupVars
<1>4. ASSUME NEW a \in Activation, NEW s \in Signal, Deliver(a, s) PROVE PendingTold'
  BY <1>4, DeliverFacts DEF Shape, signalVars, quietVars, otherVars, Scanner
<1>5. ASSUME NEW a \in Activation, Handler(a) PROVE PendingTold'
  BY <1>5, HandlerFacts DEF Shape, signalVars, quietVars, otherVars, Scanner
<1>6. ASSUME WorkerIterates PROVE PendingTold'
  BY <1>6 DEF WorkerIterates, quietVars, listVars, wakeupVars, ScanStep, Shape, TypeOK,
     Scanner, ScanRecord
<1>7. ASSUME WorkerChecks PROVE PendingTold'
  BY <1>7 DEF WorkerChecks, quietVars, listVars, wakeupVars, ScanStep, Shape, TypeOK,
     Scanner, ScanRecord
<1>8. ASSUME NEW p \in Scanner, ScanStarts(p) PROVE PendingTold'
  <2>1. scan'[p].at = "take" /\ scan'[p].left = 2
    BY <1>8, ScanStartsFacts DEF Shape
  <2> QED
    BY <2>1
<1>9. ASSUME NEW p \in Scanner, Take(p) PROVE PendingTold'
  <2> DEFINE t == IF scan[p].left = 2 THEN "CHLD" ELSE "WINCH"
  <2>1. /\ scan[p].left \in 1 .. 2 /\ unixPending' = unixPending \ {t}
        /\ scan[p].left = 2 => scan'[p].at = "take" /\ scan'[p].left = 1
        /\ \A q \in Scanner \ {p} : scan'[q] = scan[q]
        /\ scan[p].at = "take" /\ handler' = handler /\ anyPending' = anyPending
    BY <1>9, TakeFacts DEF Shape, quietVars
  <2>2. unixPending \subseteq {"CHLD", "WINCH"}
    BY DEF Shape, TypeOK, Signal
  <2>3. CASE scan[p].left = 2
    BY <2>1, <2>2, <2>3
  <2>4. CASE scan[p].left = 1
    BY <2>1, <2>2, <2>4
  <2> QED
    BY <2>1, <2>3, <2>4
<1>10. ASSUME NEW p \in Scanner, NEW w \in Watch, Visit(p, w) PROVE PendingTold'
  BY <1>10, VisitFacts DEF Shape, signalVars, quietVars, otherVars, Scanner
<1>11. ASSUME NEW p \in Scanner, WakeSource(p) PROVE PendingTold'
  BY <1>11, WakeSourceFacts DEF Shape, signalVars, quietVars, otherVars, Scanner
<1>12. ASSUME NEW p \in Scanner, ScanEnds(p) PROVE PendingTold'
  BY <1>12, ScanEndsFacts DEF Shape, signalVars, quietVars, otherVars, Scanner
<1>13. ASSUME NEW w \in ChildWatch, NewPidfd(w) PROVE PendingTold'
  BY <1>13, NewPidfdFacts DEF Shape, signalVars, quietVars, otherVars, Scanner
<1>14. ASSUME NEW w \in Watch, New(w) PROVE PendingTold'
  BY <1>14, NewFacts DEF Shape, signalVars, quietVars, otherVars, Scanner
<1>15. ASSUME NewListed PROVE PendingTold'
  <2>1. CASE scan'["user"].at = "take" /\ scan'["user"].left = 2
    BY <2>1 DEF Scanner
  <2>2. CASE scan'["user"].at = "idle" /\ UNCHANGED anyPending
    BY <1>15, <2>2, NewListedFacts DEF Shape, Scanner, quietVars
  <2> QED
    BY <1>15, <2>1, <2>2, NewListedFacts DEF Shape
<1>16. ASSUME NEW w \in Watch, Attach(w) PROVE PendingTold'
  BY <1>16, AttachFacts DEF Shape, signalVars, quietVars, otherVars, Scanner
<1>17. ASSUME NEW w \in Watch, Destroy(w) PROVE PendingTold'
  BY <1>17, DestroyFacts DEF Shape, signalVars, quietVars, otherVars, Scanner
<1>18. ASSUME Finalize PROVE PendingTold'
  BY <1>18, FinalizeFacts, FreeFacts DEF Shape, signalVars, quietVars, otherVars, Scanner
<1>19. ASSUME MainPrepares PROVE PendingTold'
  BY <1>19 DEF MainPrepares, otherVars, signalVars, listVars, MainStep
<1>20. ASSUME MainPolls PROVE PendingTold'
  BY <1>20 DEF MainPolls, otherVars, signalVars, listVars, MainStep
<1>21. ASSUME MainChecks PROVE PendingTold'
  BY <1>21 DEF MainChecks, otherVars, signalVars, listVars, MainStep
<1>22. ASSUME MainDone PROVE PendingTold'
  BY <1>22 DEF MainDone, otherVars, signalVars, listVars, MainStep
<1>23. ASSUME NEW w \in Watch, MainDispatches(w) PROVE PendingTold'
  BY <1>23 DEF MainDispatches, otherVars, signalVars, listVars, MainStep
<1>24. ASSUME Waitid PROVE PendingTold'
  BY <1>24, ReapFacts DEF Shape, signalVars, quietVars, otherVars, Scanner
<1>25. ASSUME Reset PROVE PendingTold'
  BY <1>25, ResetFacts DEF Shape, signalVars, quietVars, otherVars, Scanner
<1>26. ASSUME Waitpid PROVE PendingTold'
  BY <1>26, ReapFacts DEF Shape, signalVars, quietVars, otherVars, Scanner
<1>27. ASSUME Callback PROVE PendingTold'
  BY <1>27 DEF Callback, otherVars, signalVars
<1>28. ASSUME MainReturns PROVE PendingTold'
  BY <1>28, MainReturnsFacts DEF Shape, signalVars, quietVars, otherVars, Scanner
<1>29. ASSUME MainFinalizes PROVE PendingTold'
  BY <1>29, MainFinalizesFacts, FreeFacts DEF Shape, signalVars, quietVars, otherVars, Scanner
<1>30. CASE UNCHANGED vars
  BY <1>30 DEF vars
<1> QED
  BY <1>1, <1>2, <1>3, <1>4, <1>5, <1>6, <1>7, <1>8, <1>9, <1>10, <1>11, <1>12, <1>13,
     <1>14, <1>15, <1>16, <1>17, <1>18, <1>19, <1>20, <1>21, <1>22, <1>23, <1>24, <1>25,
     <1>26, <1>27, <1>28, <1>29, <1>30 DEF Next, Kernel, Delivery, Worker, User, UserGoesOn,
     Main, Scan, Scanner

\* The flag for all signals is told to the worker.
LEMMA FlagStep ==
  ASSUME Shape, FlagTold, [Next]_vars
  PROVE  FlagTold'
<1> USE DEF FlagTold
<1>1. ASSUME NEW w \in ChildWatch, ChildExits(w) PROVE FlagTold'
  BY <1>1 DEF ChildExits, signalVars, listVars, wakeupVars
<1>2. ASSUME NEW w \in ChildWatch, ForeignReaps(w) PROVE FlagTold'
  BY <1>2 DEF ForeignReaps, signalVars, listVars, wakeupVars
<1>3. ASSUME Raise PROVE FlagTold'
  BY <1>3 DEF Raise, signalVars, listVars, wakeupVars
<1>4. ASSUME NEW a \in Activation, NEW s \in Signal, Deliver(a, s) PROVE FlagTold'
  BY <1>4, DeliverFacts DEF Shape, signalVars, wakeupVars, quietVars, otherVars, Scanner
<1>5. ASSUME NEW a \in Activation, Handler(a) PROVE FlagTold'
  BY <1>5, HandlerFacts DEF Shape, signalVars, wakeupVars, quietVars, otherVars, Scanner
<1>6. ASSUME WorkerIterates PROVE FlagTold'
  BY <1>6 DEF WorkerIterates, quietVars, listVars, wakeupVars, ScanStep, Shape, TypeOK,
     Scanner, ScanRecord
<1>7. ASSUME WorkerChecks PROVE FlagTold'
  BY <1>7 DEF WorkerChecks, quietVars, listVars, wakeupVars, ScanStep, Shape, TypeOK,
     Scanner, ScanRecord
<1>8. ASSUME NEW p \in Scanner, ScanStarts(p) PROVE FlagTold'
  BY <1>8, ScanStartsFacts DEF Shape, signalVars, wakeupVars, quietVars, otherVars, Scanner
<1>9. ASSUME NEW p \in Scanner, Take(p) PROVE FlagTold'
  BY <1>9, TakeFacts DEF Shape, signalVars, wakeupVars, quietVars, otherVars, Scanner
<1>10. ASSUME NEW p \in Scanner, NEW w \in Watch, Visit(p, w) PROVE FlagTold'
  BY <1>10, VisitFacts DEF Shape, signalVars, wakeupVars, quietVars, otherVars, Scanner
<1>11. ASSUME NEW p \in Scanner, WakeSource(p) PROVE FlagTold'
  BY <1>11, WakeSourceFacts DEF Shape, signalVars, wakeupVars, quietVars, otherVars, Scanner
<1>12. ASSUME NEW p \in Scanner, ScanEnds(p) PROVE FlagTold'
  BY <1>12, ScanEndsFacts DEF Shape, signalVars, wakeupVars, quietVars, otherVars, Scanner
<1>13. ASSUME NEW w \in ChildWatch, NewPidfd(w) PROVE FlagTold'
  BY <1>13, NewPidfdFacts DEF Shape, signalVars, wakeupVars, quietVars, otherVars, Scanner
<1>14. ASSUME NEW w \in Watch, New(w) PROVE FlagTold'
  BY <1>14, NewFacts DEF Shape, signalVars, wakeupVars, quietVars, otherVars, Scanner
<1>15. ASSUME NewListed PROVE FlagTold'
  BY <1>15, NewListedFacts DEF Shape, signalVars, wakeupVars, quietVars, otherVars, Scanner
<1>16. ASSUME NEW w \in Watch, Attach(w) PROVE FlagTold'
  BY <1>16, AttachFacts DEF Shape, signalVars, wakeupVars, quietVars, otherVars, Scanner
<1>17. ASSUME NEW w \in Watch, Destroy(w) PROVE FlagTold'
  BY <1>17, DestroyFacts DEF Shape, signalVars, wakeupVars, quietVars, otherVars, Scanner
<1>18. ASSUME Finalize PROVE FlagTold'
  BY <1>18, FinalizeFacts, FreeFacts DEF Shape, signalVars, wakeupVars, quietVars, otherVars, Scanner
<1>19. ASSUME MainPrepares PROVE FlagTold'
  BY <1>19 DEF MainPrepares, otherVars, signalVars, listVars, MainStep
<1>20. ASSUME MainPolls PROVE FlagTold'
  BY <1>20 DEF MainPolls, otherVars, signalVars, listVars, MainStep
<1>21. ASSUME MainChecks PROVE FlagTold'
  BY <1>21 DEF MainChecks, otherVars, signalVars, listVars, MainStep
<1>22. ASSUME MainDone PROVE FlagTold'
  BY <1>22 DEF MainDone, otherVars, signalVars, listVars, MainStep
<1>23. ASSUME NEW w \in Watch, MainDispatches(w) PROVE FlagTold'
  BY <1>23 DEF MainDispatches, otherVars, signalVars, listVars, MainStep
<1>24. ASSUME Waitid PROVE FlagTold'
  BY <1>24, ReapFacts DEF Shape, signalVars, wakeupVars, quietVars, otherVars, Scanner
<1>25. ASSUME Reset PROVE FlagTold'
  BY <1>25, ResetFacts DEF Shape, signalVars, wakeupVars, quietVars, otherVars, Scanner
<1>26. ASSUME Waitpid PROVE FlagTold'
  BY <1>26, ReapFacts DEF Shape, signalVars, wakeupVars, quietVars, otherVars, Scanner
<1>27. ASSUME Callback PROVE FlagTold'
  BY <1>27 DEF Callback, otherVars, signalVars
<1>28. ASSUME MainReturns PROVE FlagTold'
  BY <1>28, MainReturnsFacts DEF Shape, signalVars, wakeupVars, quietVars, otherVars, Scanner
<1>29. ASSUME MainFinalizes PROVE FlagTold'
  BY <1>29, MainFinalizesFacts, FreeFacts DEF Shape, signalVars, wakeupVars, quietVars, otherVars, Scanner
<1>30. CASE UNCHANGED vars
  BY <1>30 DEF vars
<1> QED
  BY <1>1, <1>2, <1>3, <1>4, <1>5, <1>6, <1>7, <1>8, <1>9, <1>10, <1>11, <1>12, <1>13,
     <1>14, <1>15, <1>16, <1>17, <1>18, <1>19, <1>20, <1>21, <1>22, <1>23, <1>24, <1>25,
     <1>26, <1>27, <1>28, <1>29, <1>30 DEF Next, Kernel, Delivery, Worker, User, UserGoesOn,
     Main, Scan, Scanner

\* The main thread is woken for a watch whose flag is set.
LEMMA WokenStep ==
  ASSUME Shape, Lives, MainIsWoken, [Next]_vars
  PROVE  MainIsWoken'
<1> USE DEF MainIsWoken, Attached
<1>1. ASSUME NEW w \in ChildWatch, ChildExits(w) PROVE MainIsWoken'
  BY <1>1 DEF ChildExits, signalVars, listVars, wakeupVars
<1>2. ASSUME NEW w \in ChildWatch, ForeignReaps(w) PROVE MainIsWoken'
  BY <1>2 DEF ForeignReaps, signalVars, listVars, wakeupVars
<1>3. ASSUME Raise PROVE MainIsWoken'
  BY <1>3 DEF Raise, signalVars, listVars, wakeupVars
<1>4. ASSUME NEW a \in Activation, NEW s \in Signal, Deliver(a, s) PROVE MainIsWoken'
  BY <1>4, DeliverFacts DEF Shape, wakeupVars, quietVars, otherVars, Scanner
<1>5. ASSUME NEW a \in Activation, Handler(a) PROVE MainIsWoken'
  BY <1>5, HandlerFacts DEF Shape, wakeupVars, quietVars, otherVars, Scanner
<1>6. ASSUME WorkerIterates PROVE MainIsWoken'
  BY <1>6 DEF WorkerIterates, quietVars, listVars, wakeupVars, ScanStep, Shape, TypeOK,
     Scanner, ScanRecord
<1>7. ASSUME WorkerChecks PROVE MainIsWoken'
  BY <1>7 DEF WorkerChecks, quietVars, listVars, wakeupVars, ScanStep, Shape, TypeOK,
     Scanner, ScanRecord
<1>8. ASSUME NEW p \in Scanner, ScanStarts(p) PROVE MainIsWoken'
  <2>1. /\ \A q \in Scanner : scan[q].at = "wake" => scan'[q] = scan[q]
        /\ UNCHANGED <<main, watch, mainWakeup>>
    BY <1>8, ScanStartsFacts DEF Shape, wakeupVars, quietVars
  <2> QED
    BY <2>1
<1>9. ASSUME NEW p \in Scanner, Take(p) PROVE MainIsWoken'
  BY <1>9, TakeFacts DEF Shape, wakeupVars, quietVars, otherVars, Scanner
<1>10. ASSUME NEW p \in Scanner, NEW w \in Watch, Visit(p, w) PROVE MainIsWoken'
  BY <1>10, VisitFacts DEF Shape, wakeupVars, quietVars, otherVars, Scanner
<1>11. ASSUME NEW p \in Scanner, WakeSource(p) PROVE MainIsWoken'
  <2>1. mainWakeup' = (mainWakeup \/ watch[scan[p].w].context) /\ scan[p].w \in Watch
    BY <1>11, WakeSourceFacts DEF Shape, ScanInv
  <2>2. CASE watch[scan[p].w].context
    BY <2>1, <2>2
  <2>3. CASE ~watch[scan[p].w].context
    <3>1. watch[scan[p].w].phase # "attached" /\ (mainWakeup' => mainWakeup \/ FALSE)
      BY <2>1, <2>3 DEF Lives, ListedInv
    <3>2. /\ \A q \in Scanner \ {p} : scan'[q] = scan[q]
          /\ UNCHANGED <<main, watch>>
      BY <1>11, WakeSourceFacts DEF Shape, quietVars
    <3>3. mainWakeup => mainWakeup'
      BY <2>1
    <3> QED
      BY <3>1, <3>2, <3>3
  <2> QED
    BY <2>2, <2>3
<1>12. ASSUME NEW p \in Scanner, ScanEnds(p) PROVE MainIsWoken'
  BY <1>12, ScanEndsFacts DEF Shape, wakeupVars, quietVars, otherVars, Scanner
<1>13. ASSUME NEW w \in ChildWatch, NewPidfd(w) PROVE MainIsWoken'
  BY <1>13, NewPidfdFacts DEF Shape, wakeupVars, quietVars, otherVars, Scanner
<1>14. ASSUME NEW w \in Watch, New(w) PROVE MainIsWoken'
  BY <1>14, NewFacts DEF Shape, wakeupVars, quietVars, otherVars, Scanner
<1>15. ASSUME NewListed PROVE MainIsWoken'
  BY <1>15, NewListedFacts DEF Shape, wakeupVars, quietVars, otherVars, Scanner
<1>16. ASSUME NEW w \in Watch, Attach(w) PROVE MainIsWoken'
  BY <1>16, AttachFacts DEF Shape, wakeupVars, quietVars, otherVars, Scanner
<1>17. ASSUME NEW w \in Watch, Destroy(w) PROVE MainIsWoken'
  BY <1>17, DestroyFacts DEF Shape, wakeupVars, quietVars, otherVars, Scanner
<1>18. ASSUME Finalize PROVE MainIsWoken'
  BY <1>18, FinalizeFacts, FreeFacts DEF Shape, wakeupVars, quietVars, otherVars, Scanner
<1>19. ASSUME MainPrepares PROVE MainIsWoken'
  BY <1>19 DEF MainPrepares, otherVars, signalVars, listVars, MainStep, Shape, TypeOK,
     MainRecord, Held, Dispatching, Flagged
<1>20. ASSUME MainPolls PROVE MainIsWoken'
  BY <1>20 DEF MainPolls, otherVars, signalVars, listVars, MainStep, Shape, TypeOK,
     MainRecord, Held, Dispatching
<1>21. ASSUME MainChecks PROVE MainIsWoken'
  BY <1>21 DEF MainChecks, otherVars, signalVars, listVars, MainStep, Shape, TypeOK,
     MainRecord, Held, Dispatching
<1>22. ASSUME MainDone PROVE MainIsWoken'
  BY <1>22 DEF MainDone, otherVars, signalVars, listVars, MainStep, Shape, TypeOK,
     MainRecord, Held, Dispatching
<1>23. ASSUME NEW w \in Watch, MainDispatches(w) PROVE MainIsWoken'
  BY <1>23 DEF MainDispatches, otherVars, signalVars, listVars, MainStep, Shape, TypeOK,
     MainRecord, Held, Dispatching
<1>24. ASSUME Waitid PROVE MainIsWoken'
  BY <1>24, ReapFacts DEF Shape, wakeupVars, quietVars, otherVars, Scanner
<1>25. ASSUME Reset PROVE MainIsWoken'
  BY <1>25, ResetFacts DEF Shape, wakeupVars, quietVars, otherVars, Scanner
<1>26. ASSUME Waitpid PROVE MainIsWoken'
  BY <1>26, ReapFacts DEF Shape, wakeupVars, quietVars, otherVars, Scanner
<1>27. ASSUME Callback PROVE MainIsWoken'
  BY <1>27, CallbackFacts DEF Shape, TypeOK, MainRecord
<1>28. ASSUME MainReturns PROVE MainIsWoken'
  BY <1>28, MainReturnsFacts DEF Shape, wakeupVars, quietVars, otherVars, Scanner
<1>29. ASSUME MainFinalizes PROVE MainIsWoken'
  BY <1>29, MainFinalizesFacts, FreeFacts DEF Shape, wakeupVars, quietVars, otherVars, Scanner
<1>30. CASE UNCHANGED vars
  BY <1>30 DEF vars
<1> QED
  BY <1>1, <1>2, <1>3, <1>4, <1>5, <1>6, <1>7, <1>8, <1>9, <1>10, <1>11, <1>12, <1>13,
     <1>14, <1>15, <1>16, <1>17, <1>18, <1>19, <1>20, <1>21, <1>22, <1>23, <1>24, <1>25,
     <1>26, <1>27, <1>28, <1>29, <1>30 DEF Next, Kernel, Delivery, Worker, User, UserGoesOn,
     Main, Scan, Scanner

--------------------------------------------------------------------------------
\* The inductive invariant holds at the start and in every step.
LEMMA InitIInv == Init => IInv
<1> SUFFICES ASSUME Init PROVE IInv
  OBVIOUS
<1>1. TypeOK
  <2>1. scan \in [Scanner -> ScanRecord]
    BY DEF Init, ScanRecord, Scanner
  <2>2. watch \in [Watch -> WatchRecord] /\ main \in MainRecord
    BY DEF Init, WatchRecord, MainRecord
  <2>3. refcount \in [Signal -> Nat] /\ raises \in 0 .. MaxSignals
    BY UnixSignalAssumption DEF Init
  <2> QED
    BY <2>1, <2>2, <2>3 DEF Init, TypeOK
<1>2. ScanInv /\ HandlerInv /\ MainInv
  BY UnixSignalAssumption DEF Init, ScanInv, HandlerInv, MainInv, Scanner, ScanPlaces, Working
<1>3. ListedInv /\ NewInv /\ FinalInv /\ VisitInv
  BY DEF Init, ListedInv, NewInv, FinalInv, VisitInv, Held, Dispatching, Scanner
<1>4. CountInv
  <2>1. \A s \in Signal : {w \in listed : SignalOf(w) = s} = {}
    BY DEF Init
  <2> QED
    BY <2>1, FS_EmptySet DEF Init, CountInv
<1>5. CallsInv /\ OwedInv /\ ExitInv /\ SignalNotForgotten /\ ReapedForCallback
  BY DEF Init, CallsInv, OwedInv, ExitInv, SignalNotForgotten, ReapedForCallback, Watch
<1>6. PendingTold /\ FlagTold /\ MainIsWoken
  BY DEF Init, PendingTold, FlagTold, MainIsWoken
<1> QED
  BY <1>1, <1>2, <1>3, <1>4, <1>5, <1>6 DEF IInv, Shape, Lives

LEMMA NextIInv == IInv /\ [Next]_vars => IInv'
<1> SUFFICES ASSUME IInv, [Next]_vars PROVE IInv'
  OBVIOUS
<1> USE DEF IInv
<1>1. CountInv' /\ refcount' \in [Signal -> Nat]
  BY CountStep DEF Lives
<1>2. Shape'
  BY <1>1, TypeStep, ScanStep1, HandlerStep, MainStep1 DEF Shape
<1>3. Lives'
  BY <1>1, ListedStep, NewStep, FinalStep, VisitStep DEF Lives
<1>4. CallsInv' /\ OwedInv' /\ ReapedForCallback'
  BY CallsStep, OwedStep, ReapedStep DEF Lives
<1>5. ExitInv' /\ SignalNotForgotten'
  BY ExitStep, SignalStep
<1>6. PendingTold' /\ FlagTold' /\ MainIsWoken'
  BY PendingStep, FlagStep, WokenStep
<1> QED
  BY <1>2, <1>3, <1>4, <1>5, <1>6

LEMMA Invariance == Spec => []IInv
  BY InitIInv, NextIInv, PTL DEF Spec

\* No signal and no exit of a child falls through between the signal handler, the scans
\* of the worker and of a thread that makes a watch, and the iteration that dispatches:
\* unix_signal_pending, any_unix_signal_pending, the flags of the watches and the wakeups
\* are written in an order that leaves no gap, for any number of each.
THEOREM SignalsSafe == Spec => []NothingForgotten
<1>1. IInv => NothingForgotten
  <2> SUFFICES ASSUME IInv PROVE NothingForgotten
    OBVIOUS
  <2>1. ExitNotForgotten
    BY DEF IInv, ExitInv, ExitNotForgotten, Attached
  <2>2. WorkerIsTold
    <3> SUFFICES ASSUME NEW s \in unixPending PROVE WorkerIsTold
      BY DEF WorkerIsTold
    <3> QED
      BY DEF IInv, PendingTold, ScanComes, FlagTold, WorkerIsTold
  <2> QED
    BY <2>1, <2>2 DEF IInv, NothingForgotten
<1> QED
  BY <1>1, Invariance, PTL

\* A scan, which walks the lists under unix_signal_lock while other threads destroy
\* watches, never meets one that was freed; a child is reaped only for the callback of
\* its watch, which gets it once.
THEOREM WatchesSafe == Spec => []WatchesSound
<1>1. IInv => WatchesSound
  BY DEF IInv, Shape, Lives, VisitInv, ListedInv, TypeOK, ScanMeetsLive, WatchesSound
<1> QED
  BY <1>1, Invariance, PTL

\* unix_signal_refcount counts the listed watches of each signal, so the handler is
\* installed exactly while there is one.
THEOREM HandlerInstalled == Spec => []CountInv
  BY Invariance, PTL DEF IInv, Lives
================================================================================
