------------------------------ MODULE EventCtx ------------------------------
(***************************************************************************)
(* Watchers of an event context (src/event_ctx.c) on a one-shot backend.   *)
(*                                                                         *)
(* A batch of events, each carrying the address of a watcher node, is      *)
(* drained and dispatched one by one; every callback may add, modify or    *)
(* delete watchers and run a nested tick.  Node addresses are reused by the*)
(* allocator, so a deleted node is kept on `retired` until the outermost   *)
(* batch ends.  Deleting a watcher marks the events already drained for it *)
(* as stale (a ghost: the code has only the address).                      *)
(***************************************************************************)
EXTENDS Naturals, Sequences, FiniteSets, SequencesExt

CONSTANTS
    Fds,        \* descriptors
    Nodes,      \* addresses the allocator can return for a KlWatcher
    NoFd,       \* not a descriptor
    MaxDepth    \* bound: dispatch_depth (INT_MAX in the code, checked the same way)

EventAssumption ==
    /\ NoFd \notin Fds /\ IsFiniteSet(Fds) /\ IsFiniteSet(Nodes)
    /\ MaxDepth \in Nat \ {0}

VARIABLES
    fd,         \* fd[n]: the descriptor of linked node n, else NoFd
    retired,    \* nodes deleted during a batch and not yet reclaimed
    depth,      \* dispatch_depth
    dirty,      \* dispatch_dirty
    armed,      \* backend: descriptors whose one-shot registration is armed
    connecting, \* descriptors of detached watchers awaiting their connect completion
    stack,      \* open frames: a batch (its undispatched events) or a callback
    stale,      \* ghost: a stale event reached a callback
    foreign     \* ghost: a callback touched another watcher or ran a nested tick

vars == <<fd, retired, depth, dirty, armed, connecting, stack, stale, foreign>>

Linked == {n \in Nodes : fd[n] # NoFd}
NodeOf(f) == CHOOSE n \in Linked : fd[n] = f
Watched(f) == \E n \in Linked : fd[n] = f
FreeNodes == Nodes \ (Linked \cup retired)

Idle == stack = <<>>
InCallback == stack # <<>> /\ Head(stack).kind = "callback"
InBatch == stack # <<>> /\ Head(stack).kind = "batch"

\* Watcher calls come from a callback, or from between ticks (a timer callback included).
MayCall == Idle \/ InCallback
Touches(f) == foreign' = (foreign \/ (InCallback /\ Head(stack).fd # f))

Init ==
    /\ fd = [n \in Nodes |-> NoFd]
    /\ retired = {} /\ depth = 0 /\ dirty = FALSE
    /\ armed = {} /\ connecting = {} /\ stack = <<>> /\ stale = FALSE /\ foreign = FALSE

-----------------------------------------------------------------------------

Unwatched(f) == ~Watched(f)

\* kl_watcher_add of an unwatched descriptor; the allocator returns any free address.
WatcherAdd(f, n) ==
    /\ MayCall /\ Unwatched(f) /\ n \in FreeNodes
    /\ fd' = [fd EXCEPT ![n] = f]
    /\ armed' = armed \cup {f}
    /\ UNCHANGED <<retired, depth, dirty, connecting, stack, stale, foreign>>

\* kl_watcher_add of a watched descriptor updates its node in place; kl_watcher_mod.
WatcherMod(f) ==
    /\ MayCall /\ Watched(f) /\ Touches(f)
    /\ dirty' = TRUE
    /\ armed' = armed \cup {f}
    /\ connecting' = connecting \ {f}
    /\ UNCHANGED <<fd, retired, depth, stack, stale>>

\* kl_watcher_add_detached: a node with no registration, fired by the connect completion.
WatcherAddDetached(f, n) ==
    /\ MayCall /\ Unwatched(f) /\ n \in FreeNodes
    /\ fd' = [fd EXCEPT ![n] = f]
    /\ connecting' = connecting \cup {f}
    /\ UNCHANGED <<retired, depth, dirty, armed, stack, stale, foreign>>

\* Events already drained for node n no longer have a watcher.
Orphan(k, n) ==
    [i \in 1..Len(k) |->
        IF k[i].kind = "batch"
        THEN [k[i] EXCEPT !.events =
                 [j \in 1..Len(@) |-> IF @[j].node = n THEN [@[j] EXCEPT !.stale = TRUE] ELSE @[j]]]
        ELSE k[i]]

\* Free at once outside a batch, defer inside one.
Retire(n) == retired' = IF depth > 0 THEN retired \cup {n} ELSE retired

\* kl_watcher_del.
WatcherDel(f) ==
    /\ MayCall /\ Watched(f) /\ Touches(f)
    /\ LET n == NodeOf(f)
       IN /\ fd' = [fd EXCEPT ![n] = NoFd]
          /\ Retire(n)
          /\ stack' = Orphan(stack, n)
    /\ armed' = armed \ {f}
    /\ connecting' = connecting \ {f}
    /\ dirty' = TRUE
    /\ UNCHANGED <<depth, stale>>

\* kl_event_ctx_run up to kl_event_wait: a batch of ready descriptors is drained, each
\* disarmed by firing.
RunBegin(ready) ==
    /\ MayCall /\ depth < MaxDepth
    /\ ready \in SetToAllKPermutations(armed \cup connecting)
    /\ depth' = depth + 1
    /\ armed' = armed \ ToSet(ready)
    /\ connecting' = connecting \ ToSet(ready)
    /\ stack' = <<[kind |-> "batch",
                   events |-> [i \in 1..Len(ready) |-> [node |-> NodeOf(ready[i]), stale |-> FALSE]]]>>
                \o stack
    /\ foreign' = (foreign \/ InCallback)
    /\ UNCHANGED <<fd, retired, dirty, stale>>

MutStillLinked(n) == TRUE

StillLinked(n) == n \in Linked

\* keel__event_dispatch_watcher: the node must still be linked, by address.
Dispatch ==
    /\ InBatch /\ Head(stack).events # <<>>
    /\ LET e == Head(Head(stack).events)
           k == [stack EXCEPT ![1].events = Tail(@)]
       IN IF StillLinked(e.node)
          THEN /\ dirty' = FALSE
               /\ stack' = <<[kind |-> "callback", fd |-> fd[e.node]]>> \o k
               /\ stale' = (stale \/ e.stale)
          ELSE stack' = k /\ UNCHANGED <<dirty, stale>>
    /\ UNCHANGED <<fd, retired, depth, armed, connecting, foreign>>

MutRearms == FALSE

Rearms == ~dirty

\* on_ready returns: the automatic re-arm, unless a watcher call suppressed it.
CallbackReturn ==
    /\ InCallback
    /\ LET f == Head(stack).fd
       IN armed' = IF Rearms /\ Watched(f) THEN armed \cup {f} ELSE armed
    /\ stack' = Tail(stack)
    /\ UNCHANGED <<fd, retired, depth, dirty, connecting, stale, foreign>>

Reclaims(d) == d = 0

\* kl_event_ctx_dispatch_end: reclaim when the outermost bracket closes.
RunEnd ==
    /\ InBatch /\ Head(stack).events = <<>>
    /\ depth' = depth - 1
    /\ retired' = IF Reclaims(depth') THEN {} ELSE retired
    /\ stack' = Tail(stack)
    /\ UNCHANGED <<fd, dirty, armed, connecting, stale, foreign>>

\* kl_event_ctx_free; refused inside a batch.  The storage may be initialised again.
CtxFree ==
    /\ Idle /\ depth = 0
    /\ fd' = [n \in Nodes |-> NoFd]
    /\ retired' = {} /\ armed' = {} /\ connecting' = {}
    /\ UNCHANGED <<depth, dirty, stack, stale, foreign>>

Next ==
    \/ \E f \in Fds, n \in Nodes : WatcherAdd(f, n) \/ WatcherAddDetached(f, n)
    \/ \E f \in Fds : WatcherMod(f) \/ WatcherDel(f)
    \/ \E ready \in SetToAllKPermutations(Fds) : RunBegin(ready)
    \/ Dispatch
    \/ CallbackReturn
    \/ RunEnd
    \/ CtxFree

Spec == Init /\ [][Next]_vars

-----------------------------------------------------------------------------
(* Properties. *)

\* A node is linked or retired, never both; one node per descriptor; depth counts batches.
TypeOK ==
    /\ fd \in [Nodes -> Fds \cup {NoFd}] /\ retired \subseteq Nodes \ Linked
    /\ \A m, n \in Linked : fd[m] = fd[n] => m = n
    /\ depth = Cardinality({i \in 1..Len(stack) : stack[i].kind = "batch"})
    /\ armed \subseteq Fds /\ connecting \subseteq Fds /\ dirty \in BOOLEAN

\* While any batch holds an event of a node, the node is not back in the allocator.
DrainedNodesKept ==
    \A i \in 1..Len(stack) : stack[i].kind = "batch" =>
        \A j \in 1..Len(stack[i].events) : stack[i].events[j].node \notin FreeNodes

\* event_ctx.h, batch contract: an event drained for a watcher that was deleted meanwhile is
\* never delivered to another watcher that got the same address.
NoStaleDispatch == TypeOK /\ DrainedNodesKept /\ ~stale

\* event_ctx.h, kl_event_dispatch: after its callback a watcher is re-armed for a one-shot
\* backend, so between ticks every registered watcher can fire again.
LiveWatcherArmed ==
    Idle => \A n \in Linked : fd[n] \in armed \cup connecting

\* The same as long as callbacks touch no watcher but their own and run no nested tick.
OwnWatcherArmed == ~foreign => LiveWatcherArmed
=============================================================================
