----------------------------- MODULE ThreadPool -----------------------------
(***************************************************************************)
(* KlThreadPool (src/thread_pool.c): worker threads run blocking work, the *)
(* event-loop thread runs the done callbacks.  The two sides share two     *)
(* rings under one mutex, a condition variable and a self-pipe             *)
(* (src/platform_wakeup_posix.c).                                          *)
(*                                                                         *)
(* An action is one critical section of the mutex, or one step outside it: *)
(* the end of work_fn, the write to the pipe, its drain.  The event-loop   *)
(* thread is a position `loop` in thread_pool_on_pipe or in                *)
(* kl_thread_pool_free; pool.frames counts the activations of              *)
(* thread_pool_on_pipe that will use the pool again.                       *)
(***************************************************************************)
EXTENDS Naturals, Sequences, FiniteSets

CONSTANTS
    Items,       \* the work items a producer may submit, each once in a pool's life
    Workers,     \* the threads kl_thread_pool_create tries to start
    QueueCap,    \* cfg.queue_capacity
    None         \* no item

PoolAssumption ==
    /\ IsFiniteSet(Items) /\ IsFiniteSet(Workers) /\ Workers # {}
    /\ QueueCap \in Nat \ {0}
    /\ None \notin Items

VARIABLES
    pool,         \* the scalar fields of struct KlThreadPool
    work_queue,   \* event loop -> workers
    done_queue,   \* workers -> event loop
    pipe,         \* the self-pipe holds a byte (signals coalesce)
    loop,         \* where the event-loop thread is
    pc,           \* where each worker is
    job,          \* the item a worker executes
    fate          \* what has happened to each item

vars == <<pool, work_queue, done_queue, pipe, loop, pc, job, fate>>

done_cap == QueueCap + Cardinality(Workers)

\* The work ring is sized like the done ring.
work_cap == done_cap

-----------------------------------------------------------------------------
(* kl_thread_pool_create. *)

Fresh ==
    [inflight |-> 0, frames |-> 0, shutdown |-> FALSE, dispatching |-> FALSE,
     free_requested |-> FALSE, destroying |-> FALSE, watched |-> TRUE]

New == [i \in Items |-> "new"]

Init ==
    /\ pool = Fresh
    /\ work_queue = <<>> /\ done_queue = <<>>
    /\ pipe = FALSE
    /\ loop = "none"
    /\ pc = [w \in Workers |-> "exit"]
    /\ job = [w \in Workers |-> None]
    /\ fate = New

\* Thread creation may fail part-way: only the started workers exist, and are joined.
Create(started) ==
    /\ loop = "none"
    /\ started # {}
    /\ pool' = Fresh
    /\ work_queue' = <<>> /\ done_queue' = <<>>
    /\ pipe' = FALSE
    /\ loop' = "idle"
    /\ pc' = [w \in Workers |-> IF w \in started THEN "loop" ELSE "exit"]
    /\ job' = [w \in Workers |-> None]
    /\ fate' = New

-----------------------------------------------------------------------------
(* The event-loop thread. *)

MutAdmits == ~pool.shutdown /\ ~pool.free_requested /\ Len(work_queue) < work_cap

Admits == ~pool.shutdown /\ ~pool.free_requested /\ pool.inflight < done_cap

Waiting == {w \in Workers : pc[w] = "wait"}

\* kl_plat_cond_signal: some waiting worker, if there is one.
SignalOne ==
    IF Waiting = {} THEN UNCHANGED pc
    ELSE \E w \in Waiting : pc' = [pc EXCEPT ![w] = "loop"]

\* kl_thread_pool_submit, from the event loop or from a callback it runs.
Submit(i) ==
    /\ loop \in {"idle", "done_cb", "flush"}
    /\ fate[i] = "new"
    /\ Admits
    /\ work_queue' = Append(work_queue, i)
    /\ pool' = [pool EXCEPT !.inflight = @ + 1]
    /\ fate' = [fate EXCEPT ![i] = "accepted"]
    /\ SignalOne
    /\ UNCHANGED <<done_queue, pipe, loop, job>>

MutOnPipe ==
    /\ loop \in {"idle", "done_cb"}
    /\ pool.watched /\ pipe
    /\ pool' = [pool EXCEPT !.dispatching = TRUE, !.frames = @ + 1]
    /\ pipe' = FALSE
    /\ loop' = "drain"
    /\ UNCHANGED <<work_queue, done_queue, pc, job, fate>>

\* thread_pool_on_pipe up to its first lock: the pipe is drained before the ring.  A
\* done_fn may run a nested loop tick; its call finds dispatching set and returns.
OnPipe ==
    /\ loop \in {"idle", "done_cb"}
    /\ pool.watched /\ pipe
    /\ ~pool.dispatching
    /\ pool' = [pool EXCEPT !.dispatching = TRUE, !.frames = @ + 1]
    /\ pipe' = FALSE
    /\ loop' = "drain"
    /\ UNCHANGED <<work_queue, done_queue, pc, job, fate>>

\* One turn of its loop: leave, or pop an item and call its done_fn.
TakeDone ==
    /\ loop = "drain"
    /\ IF done_queue = <<>>
       THEN /\ pool' = [pool EXCEPT !.dispatching = FALSE, !.frames = @ - 1]
            /\ loop' = IF pool.frames = 1 THEN "idle" ELSE "done_cb"
            /\ UNCHANGED <<done_queue, fate>>
       ELSE /\ pool' = [pool EXCEPT !.inflight = @ - 1]
            /\ loop' = "done_cb"
            /\ done_queue' = Tail(done_queue)
            /\ fate' = [fate EXCEPT ![Head(done_queue)] = "done"]
    /\ UNCHANGED <<work_queue, pipe, pc, job>>

MutBroadcast == SignalOne

Broadcast == pc' = [w \in Workers |-> IF pc[w] = "wait" THEN "loop" ELSE pc[w]]

\* kl_thread_pool_free outside a dispatch, up to the joins.
BeginDestroy(p) ==
    /\ pool' = [p EXCEPT !.destroying = TRUE, !.shutdown = TRUE]
    /\ Broadcast
    /\ loop' = "join"
    /\ UNCHANGED <<work_queue, done_queue, pipe, job, fate>>

\* done_fn returns; a free it requested is carried out now.
DoneReturn ==
    /\ loop = "done_cb"
    /\ IF pool.free_requested THEN BeginDestroy([pool EXCEPT !.dispatching = FALSE, !.frames = @ - 1])
       ELSE loop' = "drain" /\ UNCHANGED <<pool, work_queue, done_queue, pipe, pc, job, fate>>

\* kl_thread_pool_free: from a done_fn it is only requested, and the pipe unwatched.
Free ==
    \/ loop \in {"idle", "done_cb"} /\ ~pool.dispatching /\ BeginDestroy(pool)
    \/ /\ loop = "done_cb"
       /\ pool.dispatching /\ ~pool.free_requested
       /\ pool' = [pool EXCEPT !.free_requested = TRUE, !.watched = FALSE]
       /\ UNCHANGED <<work_queue, done_queue, pipe, loop, pc, job, fate>>

MutJoin ==
    /\ loop = "join"
    /\ \E w \in Workers : pc[w] = "exit"
    /\ loop' = "flush"
    /\ pool' = [pool EXCEPT !.watched = FALSE]
    /\ UNCHANGED <<work_queue, done_queue, pipe, pc, job, fate>>

Join ==
    /\ loop = "join"
    /\ \A w \in Workers : pc[w] = "exit"
    /\ loop' = "flush"
    /\ pool' = [pool EXCEPT !.watched = FALSE]
    /\ UNCHANGED <<work_queue, done_queue, pipe, pc, job, fate>>

\* Teardown runs the done_fn of finished items.
FlushDone ==
    /\ loop = "flush"
    /\ done_queue # <<>>
    /\ done_queue' = Tail(done_queue)
    /\ fate' = [fate EXCEPT ![Head(done_queue)] = "done"]
    /\ UNCHANGED <<pool, work_queue, pipe, loop, pc, job>>

\* Then the cancel_fn of items that never started.
FlushCancel ==
    /\ loop = "flush"
    /\ done_queue = <<>>
    /\ work_queue # <<>>
    /\ work_queue' = Tail(work_queue)
    /\ fate' = [fate EXCEPT ![Head(work_queue)] = "cancelled"]
    /\ UNCHANGED <<pool, done_queue, pipe, loop, pc, job>>

\* The storage is released; the pool pointer is dead.
Destroy ==
    /\ loop = "flush"
    /\ done_queue = <<>> /\ work_queue = <<>>
    /\ loop' = "none"
    /\ UNCHANGED <<pool, work_queue, done_queue, pipe, pc, job, fate>>

-----------------------------------------------------------------------------
(* worker_thread. *)

\* With the mutex held: leave, wait, or take the oldest item.
Take(w) ==
    /\ pc[w] = "loop"
    /\ IF pool.shutdown
       THEN pc' = [pc EXCEPT ![w] = "exit"] /\ UNCHANGED <<work_queue, job, fate>>
       ELSE IF work_queue = <<>>
       THEN pc' = [pc EXCEPT ![w] = "wait"] /\ UNCHANGED <<work_queue, job, fate>>
       ELSE /\ pc' = [pc EXCEPT ![w] = "run"]
            /\ job' = [job EXCEPT ![w] = Head(work_queue)]
            /\ fate' = [fate EXCEPT ![Head(work_queue)] = "running"]
            /\ work_queue' = Tail(work_queue)
    /\ UNCHANGED <<pool, done_queue, pipe, loop>>

\* kl_plat_cond_wait may return without a signal.
SpuriousWake(w) ==
    /\ pc[w] = "wait"
    /\ pc' = [pc EXCEPT ![w] = "loop"]
    /\ UNCHANGED <<pool, work_queue, done_queue, pipe, loop, job, fate>>

\* work_fn returned; the item goes to the done ring.
Finish(w) ==
    /\ pc[w] = "run"
    /\ done_queue' = Append(done_queue, job[w])
    /\ fate' = [fate EXCEPT ![job[w]] = "finished"]
    /\ job' = [job EXCEPT ![w] = None]
    /\ pc' = [pc EXCEPT ![w] = "signal"]
    /\ UNCHANGED <<pool, work_queue, pipe, loop>>

Signal(w) ==
    /\ pc[w] = "signal"
    /\ pipe' = TRUE
    /\ pc' = [pc EXCEPT ![w] = "loop"]
    /\ UNCHANGED <<pool, work_queue, done_queue, loop, job, fate>>

Worker(w) == Take(w) \/ Finish(w) \/ Signal(w)

LoopThread == OnPipe \/ TakeDone \/ DoneReturn \/ Join \/ FlushDone \/ FlushCancel \/ Destroy

Next ==
    \/ \E started \in SUBSET Workers : Create(started)
    \/ \E i \in Items : Submit(i)
    \/ Free
    \/ LoopThread
    \/ \E w \in Workers : Worker(w) \/ SpuriousWake(w)

Spec == Init /\ [][Next]_vars

\* Every thread that can run does, work_fn and the callbacks return, and the event
\* loop dispatches a readable pipe.
Fairness == WF_vars(LoopThread) /\ \A w \in Workers : WF_vars(Worker(w))

FairSpec == Spec /\ Fairness

-----------------------------------------------------------------------------
(* Properties. *)

\* Every field has its type; neither ring ever holds more items than it has slots,
\* though a worker pushes to the done ring without a check.
TypeOK ==
    /\ pool \in [inflight : Nat, frames : Nat, shutdown : BOOLEAN, dispatching : BOOLEAN,
                 free_requested : BOOLEAN, destroying : BOOLEAN, watched : BOOLEAN]
    /\ work_queue \in Seq(Items) /\ Len(work_queue) <= work_cap
    /\ done_queue \in Seq(Items) /\ Len(done_queue) <= done_cap
    /\ pipe \in BOOLEAN
    /\ loop \in {"none", "idle", "drain", "done_cb", "join", "flush"}
    /\ pc \in [Workers -> {"loop", "wait", "run", "signal", "exit"}]
    /\ job \in [Workers -> Items \cup {None}]
    /\ fate \in [Items -> {"new", "accepted", "running", "finished", "done", "cancelled"}]

\* Back in the event loop, a finished item is never stranded: a byte is in the pipe, or
\* the worker that finished it is about to write one.
NoLostWakeup ==
    loop = "idle" /\ done_queue # <<>> => pipe \/ \E w \in Workers : pc[w] = "signal"

\* thread_pool.h: when kl_thread_pool_free has returned, no worker can touch the pool and
\* every accepted item got exactly one of done_fn (if it ran) and cancel_fn (if it did not).
\* No teardown begins under a dispatch that uses the pool again, however done callbacks
\* nest loop ticks and wherever the free was requested.
FreedIsSettled ==
    /\ loop = "none" =>
          /\ \A w \in Workers : pc[w] = "exit"
          /\ \A i \in Items : fate[i] \in {"new", "done", "cancelled"}
    /\ pool.destroying => ~pool.dispatching /\ pool.frames = 0

\* thread_pool.h: done_fn only follows a finished work_fn, cancel_fn only an item that
\* never started, and neither is ever called again (until a new pool is created).
CallbackStep ==
    \A i \in Items :
        \/ fate'[i] = fate[i]
        \/ fate[i] = "new" /\ fate'[i] = "accepted"
        \/ fate[i] = "accepted" /\ fate'[i] \in {"running", "cancelled"}
        \/ fate[i] = "running" /\ fate'[i] = "finished"
        \/ fate[i] = "finished" /\ fate'[i] = "done"
        \/ loop = "none" /\ fate'[i] = "new"
OneCallback == [][CallbackStep]_vars

\* Every accepted item is called back, while the pool runs or when it is freed.
Accepted(i) == fate[i] = "accepted"
Settled(i) == fate[i] \in {"done", "cancelled"}
EveryItemSettles == \A i \in Items : Accepted(i) ~> Settled(i)

\* kl_thread_pool_free returns: the broadcast reaches every sleeping worker.
Freed == loop = "none"
Freeing == pool.destroying /\ ~Freed
FreeReturns == Freeing ~> Freed
=============================================================================
