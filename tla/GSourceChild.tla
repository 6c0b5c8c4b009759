------------------------------ MODULE GSourceChild ------------------------------
(*****************************************************************************)
(* Child sources of a GMainContext (glib/gmain.c): a child is polled with    *)
(* its parent, makes it ready, is blocked and destroyed with it, and has its *)
(* place in the list just before it.  The owner of the context checks and    *)
(* dispatches, with iterations nested in callbacks, while other threads add, *)
(* remove and destroy.  One level of children, one priority, and sources     *)
(* that may not recurse; GMainContext has the rest of the iteration.         *)
(*****************************************************************************)
EXTENDS Integers, Sequences, FiniteSets

CONSTANTS Source, None,
          MaxDepth,        \* bound: nested iterations
          SlowDestroy      \* destroying a source drops the mutex for its notify

ASSUME ChildAssumption == /\ None \notin Source
                          /\ MaxDepth \in Nat
                          /\ SlowDestroy \in BOOLEAN

VARIABLES list,      \* the source list: the sources attached to the context
          parent,    \* source->priv->parent_source
          active,    \* G_HOOK_FLAG_ACTIVE
          ready,     \* G_SOURCE_READY
          blocked,   \* G_SOURCE_BLOCKED
          dying,     \* the sources in g_source_destroy_internal
          adding,    \* parent and child of a g_source_add_child_source in progress
          pending,   \* context->pending_dispatches
          frames,    \* the dispatch of each iteration in progress, innermost last
          late,      \* history: children added to a parent that was destroyed already
          overrun    \* history: children unblocked by their parent in their own dispatch

history == <<late, overrun>>
vars == <<list, parent, active, ready, blocked, dying, adding, pending, frames, history>>

\* What g_main_dispatch has reached: the index and the source whose callback runs, or
\* that it is destroying.
Frame == [at : {"dispatch", "callback", "destroy"}, index : 0 .. Cardinality(Source),
          cur : Source \cup {None}]
Top == frames[Len(frames)]
At(label) == frames # <<>> /\ Top.at = label
SetTop(f) == frames' = [frames EXCEPT ![Len(frames)] = f]
Range(seq) == {seq[i] : i \in DOMAIN seq}
Children(s) == {c \in Source : parent[c] = s}
Attached == Range(list)

\* The mutex can be taken: the owner is not dispatching, and no destroy holds it.
MutexFree == /\ ~At("dispatch")
             /\ dying # {} => SlowDestroy

Init == /\ list = <<>>
        /\ parent = [s \in Source |-> None]
        /\ active = Source /\ ready = {} /\ blocked = {} /\ dying = {}
        /\ adding = <<>> /\ pending = <<>> /\ frames = <<>>
        /\ late = {} /\ overrun = {}

--------------------------------------------------------------------------------
(* Sources and their children. *)

\* Mutant: a child goes to the end of the list like any other source.
WithChildAtEnd(l, p, c) == Append(l, c)
\* source_add_to_context: a child goes immediately before its parent.
WithChild(l, p, c) == LET i == CHOOSE i \in DOMAIN l : l[i] = p
                      IN  SubSeq(l, 1, i - 1) \o <<c>> \o SubSeq(l, i, Len(l))

\* g_source_attach of a source, and of the children it has.
Attach(s) ==
  /\ MutexFree
  /\ s \in active \ Attached /\ parent[s] = None
  /\ adding # <<>> => s # adding[2]
  /\ Cardinality(Children(s)) <= 1
  /\ list' = IF Children(s) = {} THEN Append(list, s)
             ELSE WithChild(Append(list, s), s, CHOOSE c \in Children(s) : TRUE)
  /\ UNCHANGED <<parent, active, ready, blocked, dying, adding, pending, frames, history>>

\* Mutant: a child that joins a blocked parent is not blocked.
ChildBlockedNot(p, c) == blocked
\* block_source for a child that joins a blocked parent.
ChildBlocked(p, c) == IF p \in blocked THEN blocked \cup {c} ELSE blocked

\* The checks of g_source_add_child_source, without a lock.  One call at a time, for a child
\* that nobody else attaches or adds.
AddChild(p, c) ==
  /\ adding = <<>>
  /\ p # c /\ {p, c} \subseteq active
  /\ c \notin Attached /\ parent[c] = None /\ Children(c) = {} /\ parent[p] = None
  /\ p \notin Attached => Children(p) = {}
  /\ adding' = <<p, c>>
  /\ UNCHANGED <<list, parent, active, ready, blocked, dying, pending, frames, history>>

\* The rest of g_source_add_child_source, with the lock if the parent has a context.
InsertChild ==
  /\ MutexFree
  /\ adding # <<>>
  /\ LET p == adding[1]
         c == adding[2]
     IN  /\ parent' = [parent EXCEPT ![c] = p]
         /\ blocked' = ChildBlocked(p, c)
         /\ list' = IF p \in Attached THEN WithChild(list, p, c) ELSE list
         /\ late' = IF p \in active THEN late ELSE late \cup {c}
  /\ adding' = <<>>
  /\ UNCHANGED <<active, ready, dying, pending, frames, overrun>>

\* g_source_destroy of an attached source, or g_source_remove_child_source, by another
\* thread or in a callback: up to where g_source_destroy_internal drops the mutex.
DestroyBegin(s) ==
  /\ MutexFree
  /\ s \in active \cap Attached
  /\ active' = active \ {s}
  /\ dying' = dying \cup {s}
  /\ UNCHANGED <<list, parent, ready, blocked, adding, pending, frames, history>>

\* g_source_destroy of a source without a context marks the source, and leaves its
\* children alone.
DestroyUnattached(s) ==
  /\ s \in active \ Attached
  /\ active' = active \ {s}
  /\ UNCHANGED <<list, parent, ready, blocked, dying, adding, pending, frames, history>>

\* The last reference to such a source goes: its children lose their parent, and live on.
Orphans(S) == [c \in Source |-> IF parent[c] \in S THEN None ELSE parent[c]]
Finalize(s) ==
  /\ s \notin active \cup dying \cup Attached /\ Children(s) # {}
  /\ adding # <<>> => s # adding[1]
  /\ parent' = Orphans({s})
  /\ UNCHANGED <<list, active, ready, blocked, dying, adding, pending, frames, history>>

\* Mutant: the child is forgotten but not destroyed.
DestroyChildForgets(c) == UNCHANGED <<active, dying>>
\* g_child_source_remove_internal for one of its children, which drops the mutex too.
DestroyChild(c) == /\ active' = active \ {c}
                   /\ dying' = IF c \in active THEN dying \cup {c} ELSE dying

DestroyNextChild(s) ==
  /\ ~At("dispatch")
  /\ s \in dying
  /\ \E c \in Children(s) : /\ parent' = [parent EXCEPT ![c] = None]
                            /\ DestroyChild(c)
  /\ UNCHANGED <<list, ready, blocked, adding, pending, frames, history>>

\* The end of g_source_destroy_internal: the source leaves its parent, and the list unless
\* a dispatch, or the caller of g_source_add_child_source, still refers to it.
InUse(s) == s \in Range(pending) \cup Range(adding) \/ \E i \in DOMAIN frames : frames[i].cur = s
DestroyEnd(s) ==
  /\ ~At("dispatch")
  /\ s \in dying /\ Children(s) = {}
  /\ dying' = dying \ {s}
  /\ parent' = [parent EXCEPT ![s] = None]
  /\ list' = IF InUse(s) THEN list ELSE SelectSeq(list, LAMBDA x : x # s)
  /\ UNCHANGED <<active, ready, blocked, adding, pending, frames, history>>

--------------------------------------------------------------------------------
(* Iterations. *)

Unused(x) == /\ x \notin active \cup dying \cup Range(adding)
             /\ \A i \in DOMAIN frames : frames[i].cur # x

\* The parents that g_main_context_check marks as ready with their children.
Parents(S) == {parent[s] : s \in S} \ {None}

\* An iteration up to dispatch: prepare clears the pending dispatches, and check walks the
\* list; the sources in R have something to do.  A source that is ready makes its parent
\* ready, which is met later in the list.
Check(R) ==
  LET live(s) == s \in active \ blocked
      fires(s) == live(s) /\ s \in ready \cup R
      found(s) == \/ fires(s)
                  \/ live(s) /\ \E i, j \in DOMAIN list :
                                  i < j /\ list[j] = s /\ fires(list[i]) /\ parent[list[i]] = s
      fired == {s \in Attached : fires(s)}
  IN  /\ ready' = ready \cup fired \cup Parents(fired)
      /\ pending' = SelectSeq(list, LAMBDA s : found(s))

Iterate ==
  /\ MutexFree
  /\ frames = <<>> \/ At("callback")
  /\ Len(frames) < MaxDepth
  /\ \E R \in SUBSET Attached : Check(R)
  /\ list' = SelectSeq(list, LAMBDA s : ~Unused(s))
  /\ parent' = Orphans({s \in Attached : Unused(s)})
  /\ frames' = Append(frames, [at |-> "dispatch", index |-> 0, cur |-> None])
  /\ UNCHANGED <<active, blocked, dying, adding, history>>

\* block_source of a source and its children, unless it is blocked.
Block(s) == blocked' = IF s \in blocked THEN blocked ELSE blocked \cup {s} \cup Children(s)

\* g_main_dispatch takes the next pending source.
DispatchNext ==
  /\ At("dispatch") /\ Top.index < Len(pending)
  /\ LET s == pending[Top.index + 1]
         f == [Top EXCEPT !.index = @ + 1]
     IN  /\ pending' = [pending EXCEPT ![f.index] = None]
         /\ ready' = ready \ {s}
         /\ IF s \in active
            THEN Block(s) /\ SetTop([f EXCEPT !.at = "callback", !.cur = s])
            ELSE SetTop(f) /\ UNCHANGED blocked
  /\ UNCHANGED <<list, parent, active, dying, adding, history>>

\* unblock_source of a source that is blocked and lives, and of its children that live.
Unblock(s) == blocked' = IF s \in blocked \cap active
                         THEN blocked \ (({s} \cup Children(s)) \cap active) ELSE blocked

Dispatching(i, s) == frames[i].at = "callback" /\ frames[i].cur = s
Outer(s) == \E i \in 1 .. Len(frames) - 1 : Dispatching(i, s)

\* The dispatch of a source returns, TRUE or FALSE.
CallbackReturn ==
  /\ At("callback")
  /\ dying # {} => SlowDestroy
  /\ LET s == Top.cur
     IN  /\ Unblock(s)
         /\ overrun' = {c \in overrun : c # s \/ Outer(c)}
                        \cup {c \in Children(s) : Outer(c) /\ c \in blocked \ blocked'}
         /\ \/ SetTop([Top EXCEPT !.at = "dispatch", !.cur = None]) /\ UNCHANGED <<active, dying>>
            \/ /\ s \in active
               /\ active' = active \ {s}
               /\ dying' = dying \cup {s}
               /\ SetTop([Top EXCEPT !.at = "destroy"])
  /\ UNCHANGED <<list, parent, ready, adding, pending, late>>

\* The owner has destroyed the source whose dispatch returned FALSE.
DestroyReturn ==
  /\ At("destroy") /\ Top.cur \notin dying
  /\ dying # {} => SlowDestroy
  /\ SetTop([Top EXCEPT !.at = "dispatch", !.cur = None])
  /\ UNCHANGED <<list, parent, active, ready, blocked, dying, adding, pending, history>>

DispatchEnd ==
  /\ At("dispatch") /\ Top.index >= Len(pending)
  /\ pending' = <<>>
  /\ frames' = SubSeq(frames, 1, Len(frames) - 1)
  /\ UNCHANGED <<list, parent, active, ready, blocked, dying, adding, history>>

Next == \/ \E s \in Source : \/ Attach(s) \/ DestroyBegin(s) \/ DestroyNextChild(s) \/ DestroyEnd(s)
                             \/ DestroyUnattached(s) \/ Finalize(s)
                             \/ \E c \in Source : AddChild(s, c)
        \/ InsertChild
        \/ Iterate \/ DispatchNext \/ CallbackReturn \/ DestroyReturn \/ DispatchEnd

Spec == Init /\ [][Next]_vars

\* A thread that has begun to destroy gets the mutex in the end, and the owner goes on in a
\* dispatch.  Callbacks need not return, and nobody has to call anything.
FairSpec == /\ Spec
            /\ WF_vars(DispatchNext \/ DestroyReturn \/ DispatchEnd)
            /\ \A s \in Source : SF_vars(DestroyNextChild(s) \/ DestroyEnd(s))

--------------------------------------------------------------------------------
(* Properties. *)

\* Every variable has its type.
TypeOK == /\ list \in Seq(Source)
          /\ parent \in [Source -> Source \cup {None}]
          /\ active \subseteq Source /\ ready \subseteq Source
          /\ blocked \subseteq Source /\ dying \subseteq Source
          /\ adding \in Seq(Source)
          /\ pending \in Seq(Source \cup {None}) /\ frames \in Seq(Frame)
          /\ late \subseteq Source /\ overrun \subseteq Source

\* While the dispatch function of a source runs, all processing of the source is blocked:
\* it is dispatched once at a time and, unless destroyed, stays blocked.  The exception is
\* a child whose dispatch function iterates the context and so dispatches its parent: at
\* its end unblock_source() unblocks the child too.
BlockedInDispatch ==
  \A i \in DOMAIN frames, s \in Source \ overrun : Dispatching(i, s) =>
    /\ s \in active => s \in blocked
    /\ \A j \in DOMAIN frames : Dispatching(j, s) => i = j

\* A source is blocked only while it or its parent is being dispatched, or its parent is
\* being destroyed and will take it along, unless it was added to a parent that had been
\* destroyed in its own dispatch, or is a child of such a one; and a child that lives is
\* blocked whenever its parent is.
BlockedWithParent ==
  \A s \in active :
    /\ s \in blocked => \/ \E i \in DOMAIN frames : Dispatching(i, s) \/ Dispatching(i, parent[s])
                        \/ parent[s] \in dying \/ {s, parent[s]} \cap late # {}
    /\ parent[s] \in blocked \cap active => s \in blocked

\* block_source() and unblock_source() meet, in nested iterations, the dispatch of a
\* parent, of its child, and children that come and go meanwhile: but for the exceptions
\* named above, a source is blocked all through its own dispatch, and otherwise exactly
\* with its parent.
DispatchBlocks == TypeOK /\ BlockedInDispatch /\ BlockedWithParent

\* A child that is dispatched in an iteration brings its parent along, behind it.
ParentFollows ==
  At("dispatch") /\ Top.index = 0 =>
    \A i \in DOMAIN pending : LET p == parent[pending[i]] IN
      p \in active \ blocked => \E j \in DOMAIN pending : j > i /\ pending[j] = p

\* A child of a source that is destroyed under the lock of its context is destroyed in the
\* end, also if other threads destroy the child, or add and remove others, or this one, at
\* the same time.  A child that comes after the end of that, or whose parent was destroyed
\* without a context, lives on.
ChildDies == \A c \in Source : parent[c] \in dying ~> c \notin active
================================================================================
