-------------------------- MODULE ThreadPoolProofs --------------------------
(***************************************************************************)
(* Proofs about the thread pool for every set of items, number of workers  *)
(* and queue capacity.  The inductive invariant ties the two rings and the *)
(* workers' jobs to the fate of each item, and counts what is in flight:   *)
(* every accepted item sits in exactly one place and inflight covers them  *)
(* all, so a worker that pushes to the done ring always finds a slot.      *)
(***************************************************************************)
EXTENDS ThreadPool, FiniteSetTheorems, SequenceTheorems, TLAPS

InQ(q, i) == \E k \in 1..Len(q) : q[k] = i

Injective(q) == \A j, k \in 1..Len(q) : q[j] = q[k] => j = k

Running(p) == {w \in Workers : p[w] = "run"}

Fields == [inflight : Nat, frames : Nat, shutdown : BOOLEAN, dispatching : BOOLEAN,
           free_requested : BOOLEAN, destroying : BOOLEAN, watched : BOOLEAN]

TypeInv ==
    /\ pool \in Fields
    /\ work_queue \in Seq(Items) /\ done_queue \in Seq(Items)
    /\ pipe \in BOOLEAN
    /\ loop \in {"none", "idle", "drain", "done_cb", "join", "flush"}
    /\ pc \in [Workers -> {"loop", "wait", "run", "signal", "exit"}]
    /\ job \in [Workers -> Items \cup {None}]
    /\ fate \in [Items -> {"new", "accepted", "running", "finished", "done", "cancelled"}]

\* An accepted item is in the work ring, a finished one in the done ring, a running one is
\* the job of exactly one worker.
OwnInv(wq, dq, p, j, f) ==
    /\ Injective(wq) /\ Injective(dq)
    /\ \A i \in Items : f[i] = "accepted" <=> InQ(wq, i)
    /\ \A i \in Items : f[i] = "finished" <=> InQ(dq, i)
    /\ \A i \in Items : f[i] = "running" <=> \E w \in Workers : p[w] = "run" /\ j[w] = i
    /\ \A w \in Workers : p[w] = "run" => j[w] \in Items
    /\ \A v, w \in Workers : p[v] = "run" /\ p[w] = "run" /\ j[v] = j[w] => v = w

CountInv(n, wq, dq, p) ==
    /\ Len(wq) + Cardinality(Running(p)) + Len(dq) <= n
    /\ n <= done_cap

\* What the position of the event-loop thread says of the rest.
PhaseInv ==
    /\ loop \in {"flush", "none"} => \A w \in Workers : pc[w] = "exit"
    /\ loop = "none" => work_queue = <<>> /\ done_queue = <<>>
    /\ pool.dispatching => loop \in {"drain", "done_cb"}
    /\ loop \in {"drain", "done_cb"} => pool.dispatching /\ pool.frames = 1
    /\ loop \notin {"drain", "done_cb"} => pool.frames = 0
    /\ pool.destroying => loop \in {"join", "flush", "none"}

PoolInv ==
    /\ TypeInv
    /\ OwnInv(work_queue, done_queue, pc, job, fate)
    /\ CountInv(pool.inflight, work_queue, done_queue, pc)
    /\ PhaseInv
    /\ NoLostWakeup

-----------------------------------------------------------------------------
(* The rings as sequences without repetition. *)

LEMMA AppendRing ==
    ASSUME NEW q \in Seq(Items), NEW x \in Items
    PROVE  /\ Append(q, x) \in Seq(Items) /\ Len(Append(q, x)) = Len(q) + 1 /\ Len(q) \in Nat
           /\ \A i \in Items : InQ(Append(q, x), i) <=> InQ(q, i) \/ i = x
           /\ Injective(q) /\ ~InQ(q, x) => Injective(Append(q, x))
<1>. DEFINE r == Append(q, x)
<1>1. /\ r \in Seq(Items) /\ Len(r) = Len(q) + 1 /\ Len(q) \in Nat
      /\ \A k \in 1..Len(q) : r[k] = q[k]
      /\ r[Len(q) + 1] = x
  BY AppendProperties
<1>. HIDE DEF r
<1>2. \A i \in Items : InQ(r, i) <=> InQ(q, i) \/ i = x
  <2>1. ASSUME NEW i \in Items, InQ(r, i) PROVE InQ(q, i) \/ i = x
    BY <1>1, <2>1 DEF InQ
  <2>2. ASSUME NEW i \in Items, InQ(q, i) PROVE InQ(r, i)
    BY <1>1, <2>2 DEF InQ
  <2>3. InQ(r, x)
    BY <1>1 DEF InQ
  <2>. QED BY <2>1, <2>2, <2>3
<1>3. ASSUME Injective(q), ~InQ(q, x), NEW j \in 1..Len(r), NEW k \in 1..Len(r), r[j] = r[k]
      PROVE  j = k
  BY <1>1, <1>3 DEF InQ, Injective
<1>4. Injective(q) /\ ~InQ(q, x) => Injective(r)
  BY <1>3 DEF Injective
<1>. QED BY <1>1, <1>2, <1>4 DEF r

LEMMA TailRing ==
    ASSUME NEW q \in Seq(Items), q # <<>>, Injective(q)
    PROVE  /\ Tail(q) \in Seq(Items) /\ Len(Tail(q)) = Len(q) - 1
           /\ Len(q) \in Nat /\ Len(q) > 0 /\ Len(Tail(q)) \in Nat
           /\ Head(q) \in Items /\ InQ(q, Head(q))
           /\ \A i \in Items : InQ(Tail(q), i) <=> InQ(q, i) /\ i # Head(q)
           /\ Injective(Tail(q))
<1>. DEFINE r == Tail(q)
<1>1. /\ r \in Seq(Items) /\ Len(r) = Len(q) - 1 /\ Len(q) \in Nat /\ Len(q) > 0
      /\ Head(q) = q[1] /\ Head(q) \in Items /\ Len(r) \in Nat
      /\ \A k \in 1..Len(r) : r[k] = q[k + 1]
  BY HeadTailProperties
<1>. HIDE DEF r
<1>2. InQ(q, Head(q))
  BY <1>1 DEF InQ
<1>3. ASSUME NEW i \in Items, InQ(r, i) PROVE InQ(q, i) /\ i # Head(q)
  <2>1. PICK k \in 1..Len(r) : r[k] = i
    BY <1>3 DEF InQ
  <2>2. k + 1 \in 1..Len(q) /\ q[k + 1] = i /\ 1 \in 1..Len(q) /\ k + 1 # 1
    BY <1>1, <2>1
  <2>. QED BY <1>1, <2>2 DEF InQ, Injective
<1>4. ASSUME NEW i \in Items, InQ(q, i), i # Head(q) PROVE InQ(r, i)
  <2>1. PICK k \in 1..Len(q) : q[k] = i
    BY <1>4 DEF InQ
  <2>2. k - 1 \in 1..Len(r) /\ r[k - 1] = i
    BY <1>1, <1>4, <2>1
  <2>. QED BY <2>2 DEF InQ
<1>5. ASSUME NEW j \in 1..Len(r), NEW k \in 1..Len(r), r[j] = r[k] PROVE j = k
  <2>1. j + 1 \in 1..Len(q) /\ k + 1 \in 1..Len(q) /\ q[j + 1] = q[k + 1]
    BY <1>1, <1>5
  <2>. QED BY <2>1 DEF Injective
<1>6. Injective(r)
  BY <1>5 DEF Injective
<1>. QED BY <1>1, <1>2, <1>3, <1>4, <1>6 DEF r

LEMMA EmptyRing ==
    /\ <<>> \in Seq(Items) /\ Len(<<>>) = 0 /\ Injective(<<>>)
    /\ \A i : ~InQ(<<>>, i)
BY DEF InQ, Injective

LEMMA Counters == ASSUME NEW p \in Fields PROVE p.inflight \in Nat /\ p.frames \in Nat
BY DEF Fields

LEMMA InflightSet ==
    ASSUME NEW p \in Fields, NEW n \in Nat, NEW q, q = [p EXCEPT !.inflight = n]
    PROVE  /\ q \in Fields /\ q.inflight = n /\ q.frames = p.frames
           /\ q.dispatching = p.dispatching /\ q.destroying = p.destroying
BY DEF Fields

LEMMA DispatchBegun ==
    ASSUME NEW p \in Fields, NEW q, q = [p EXCEPT !.dispatching = TRUE, !.frames = 1]
    PROVE  /\ q \in Fields /\ q.inflight = p.inflight /\ q.frames = 1
           /\ q.dispatching /\ q.destroying = p.destroying
BY DEF Fields

LEMMA DispatchEnded ==
    ASSUME NEW p \in Fields, NEW q, q = [p EXCEPT !.dispatching = FALSE, !.frames = 0]
    PROVE  /\ q \in Fields /\ q.inflight = p.inflight /\ q.frames = 0
           /\ ~q.dispatching /\ q.destroying = p.destroying
BY DEF Fields

LEMMA RunningCount ==
    ASSUME PoolAssumption, NEW p
    PROVE  /\ IsFiniteSet(Running(p)) /\ Cardinality(Running(p)) \in Nat
           /\ done_cap \in Nat /\ Cardinality(Workers) \in Nat
<1>1. IsFiniteSet(Running(p))
  BY FS_Subset DEF PoolAssumption, Running
<1>2. Cardinality(Running(p)) \in Nat /\ Cardinality(Workers) \in Nat
  BY <1>1, FS_CardinalityType DEF PoolAssumption
<1>. QED BY <1>1, <1>2 DEF done_cap, PoolAssumption

LEMMA SameRunners ==
    ASSUME NEW p, NEW r, \A w \in Workers : r[w] = "run" <=> p[w] = "run",
           NEW wq, NEW dq, NEW j, NEW f, OwnInv(wq, dq, p, j, f)
    PROVE  Running(r) = Running(p) /\ OwnInv(wq, dq, r, j, f)
BY DEF Running, OwnInv

-----------------------------------------------------------------------------
(* Every step keeps the invariant. *)

LEMMA FreshKeeps ==
    ASSUME PoolAssumption,
           pool' = Fresh, work_queue' = <<>>, done_queue' = <<>>, pipe' = FALSE,
           loop' \in {"none", "idle"}, pc' \in [Workers -> {"loop", "exit"}],
           loop' = "none" => \A w \in Workers : pc'[w] = "exit",
           job' = [w \in Workers |-> None], fate' = New
    PROVE  PoolInv'
<1>1. Running(pc') = {}
  BY DEF Running
<1>2. Cardinality(Running(pc')) = 0 /\ done_cap \in Nat
  BY <1>1, FS_EmptySet, RunningCount
<1>3. TypeInv'
  BY EmptyRing DEF TypeInv, Fresh, Fields, New
<1>4. OwnInv(work_queue', done_queue', pc', job', fate')
  BY EmptyRing DEF OwnInv, New
<1>5. CountInv(pool'.inflight, work_queue', done_queue', pc')
  BY <1>2, EmptyRing DEF CountInv, Fresh
<1>6. PhaseInv' /\ NoLostWakeup'
  BY DEF PhaseInv, NoLostWakeup, Fresh
<1>. QED BY <1>3, <1>4, <1>5, <1>6 DEF PoolInv

LEMMA CreateKeeps ==
    ASSUME PoolAssumption, NEW started \in SUBSET Workers, Create(started)
    PROVE  PoolInv'
BY FreshKeeps DEF Create

LEMMA SignalOneRuns ==
    ASSUME TypeInv, SignalOne
    PROVE  /\ pc' \in [Workers -> {"loop", "wait", "run", "signal", "exit"}]
           /\ \A w \in Workers : pc'[w] = pc[w] \/ (pc[w] = "wait" /\ pc'[w] = "loop")
<1>1. pc \in [Workers -> {"loop", "wait", "run", "signal", "exit"}]
  BY DEF TypeInv
<1>2. CASE Waiting = {}
  BY <1>1, <1>2 DEF SignalOne
<1>3. CASE Waiting # {}
  <2>1. PICK w \in Workers : pc[w] = "wait" /\ pc' = [pc EXCEPT ![w] = "loop"]
    BY <1>3 DEF SignalOne, Waiting
  <2>. QED BY <1>1, <2>1
<1>. QED BY <1>2, <1>3

LEMMA SubmitKeeps ==
    ASSUME PoolAssumption, PoolInv, NEW i \in Items, Submit(i)
    PROVE  PoolInv'
<1>1. /\ work_queue' = Append(work_queue, i) /\ pool' = [pool EXCEPT !.inflight = @ + 1]
      /\ fate' = [fate EXCEPT ![i] = "accepted"] /\ SignalOne
      /\ done_queue' = done_queue /\ pipe' = pipe /\ loop' = loop /\ job' = job
      /\ loop \in {"idle", "done_cb", "flush"} /\ fate[i] = "new" /\ pool.inflight < done_cap
  BY DEF Submit, Admits
<1>2. TypeInv /\ OwnInv(work_queue, done_queue, pc, job, fate) /\ work_queue \in Seq(Items)
  BY DEF PoolInv, TypeInv
<1>3. /\ pc' \in [Workers -> {"loop", "wait", "run", "signal", "exit"}]
      /\ \A w \in Workers : pc'[w] = pc[w] \/ (pc[w] = "wait" /\ pc'[w] = "loop")
  BY <1>1, <1>2, SignalOneRuns
<1>4. Running(pc') = Running(pc) /\ OwnInv(work_queue, done_queue, pc', job, fate)
  BY <1>2, <1>3, SameRunners
<1>5. ~InQ(work_queue, i)
  BY <1>1, <1>2 DEF OwnInv
<1>6. /\ work_queue' \in Seq(Items) /\ Len(work_queue') = Len(work_queue) + 1
      /\ Len(work_queue) \in Nat /\ Injective(work_queue')
      /\ \A x \in Items : InQ(work_queue', x) <=> InQ(work_queue, x) \/ x = i
  BY <1>1, <1>2, <1>5, AppendRing DEF OwnInv
<1>7. /\ pool' \in Fields /\ pool'.inflight = pool.inflight + 1 /\ pool.inflight \in Nat
      /\ pool'.dispatching = pool.dispatching /\ pool'.destroying = pool.destroying
      /\ pool'.frames = pool.frames
  <2>1. pool \in Fields
    BY <1>2 DEF TypeInv
  <2>2. pool.inflight \in Nat
    BY <2>1, Counters
  <2>3. pool.inflight + 1 \in Nat /\ pool' = [pool EXCEPT !.inflight = pool.inflight + 1]
    BY <1>1, <2>2
  <2>. QED BY <2>1, <2>2, <2>3, InflightSet
<1>8. TypeInv'
  BY <1>1, <1>2, <1>3, <1>6, <1>7 DEF TypeInv
<1>9. OwnInv(work_queue', done_queue', pc', job', fate')
  <2>1. \A x \in Items : fate'[x] = IF x = i THEN "accepted" ELSE fate[x]
    BY <1>1, <1>2 DEF TypeInv
  <2>. QED BY <1>1, <1>4, <1>6, <2>1 DEF OwnInv
<1>10. CountInv(pool'.inflight, work_queue', done_queue', pc')
  <2>1. Cardinality(Running(pc)) \in Nat /\ done_cap \in Nat /\ Len(done_queue) \in Nat
    BY <1>2, RunningCount DEF TypeInv
  <2>. QED BY <1>1, <1>4, <1>6, <1>7, <2>1 DEF PoolInv, CountInv
<1>11. PhaseInv' /\ NoLostWakeup'
  BY <1>1, <1>3, <1>7 DEF PoolInv, PhaseInv, NoLostWakeup
<1>. QED BY <1>8, <1>9, <1>10, <1>11 DEF PoolInv

LEMMA OnPipeKeeps == ASSUME PoolInv, OnPipe PROVE PoolInv'
<1>1. /\ pool' = [pool EXCEPT !.dispatching = TRUE, !.frames = @ + 1]
      /\ pipe' = FALSE /\ loop' = "drain"
      /\ work_queue' = work_queue /\ done_queue' = done_queue /\ pc' = pc /\ job' = job
      /\ fate' = fate /\ loop = "idle" /\ pool.frames = 0
  BY DEF OnPipe, PoolInv, PhaseInv
<1>2. /\ pool' \in Fields /\ pool'.inflight = pool.inflight /\ pool'.destroying = pool.destroying
      /\ pool'.dispatching /\ pool'.frames = 1
  <2>1. pool \in Fields
    BY DEF PoolInv, TypeInv
  <2>2. pool' = [pool EXCEPT !.dispatching = TRUE, !.frames = 1]
    BY <1>1
  <2>. QED BY <2>1, <2>2, DispatchBegun
<1>. QED BY <1>1, <1>2 DEF PoolInv, TypeInv, PhaseInv, NoLostWakeup

LEMMA TakeDoneKeeps == ASSUME PoolAssumption, PoolInv, TakeDone PROVE PoolInv'
<1>1. /\ work_queue' = work_queue /\ pipe' = pipe /\ pc' = pc /\ job' = job /\ loop = "drain"
      /\ pool \in Fields
  BY DEF TakeDone, PoolInv, TypeInv
<1>2. CASE done_queue = <<>>
  <2>1. /\ pool' = [pool EXCEPT !.dispatching = FALSE, !.frames = @ - 1]
        /\ pool.frames = 1 /\ loop' = "idle" /\ done_queue' = done_queue /\ fate' = fate
    BY <1>1, <1>2 DEF TakeDone, PoolInv, PhaseInv
  <2>2. /\ pool' \in Fields /\ pool'.inflight = pool.inflight /\ ~pool'.dispatching
        /\ pool'.destroying = pool.destroying /\ pool'.frames = 0
    <3>1. pool' = [pool EXCEPT !.dispatching = FALSE, !.frames = 0]
      BY <2>1
    <3>. QED BY <1>1, <3>1, DispatchEnded
  <2>. QED BY <1>1, <1>2, <2>1, <2>2 DEF PoolInv, TypeInv, PhaseInv, NoLostWakeup
<1>3. CASE done_queue # <<>>
  <2>. DEFINE h == Head(done_queue)
  <2>1. /\ pool' = [pool EXCEPT !.inflight = @ - 1] /\ loop' = "done_cb"
        /\ done_queue' = Tail(done_queue) /\ fate' = [fate EXCEPT ![h] = "done"]
    BY <1>3 DEF TakeDone
  <2>2. done_queue \in Seq(Items) /\ Injective(done_queue)
    BY DEF PoolInv, TypeInv, OwnInv
  <2>3. /\ done_queue' \in Seq(Items) /\ Len(done_queue') = Len(done_queue) - 1
        /\ Len(done_queue) \in Nat /\ Len(done_queue) > 0 /\ h \in Items /\ InQ(done_queue, h)
        /\ \A i \in Items : InQ(done_queue', i) <=> InQ(done_queue, i) /\ i # h
        /\ Injective(done_queue')
    BY <1>3, <2>1, <2>2, TailRing
  <2>. HIDE DEF h
  <2>4. /\ Cardinality(Running(pc)) \in Nat /\ done_cap \in Nat /\ Len(work_queue) \in Nat
        /\ pool.inflight \in Nat
    <3>1. Len(work_queue) \in Nat
      BY DEF PoolInv, TypeInv
    <3>. QED BY <1>1, <3>1, RunningCount, Counters
  <2>5. pool.inflight - 1 \in Nat /\ CountInv(pool.inflight - 1, work_queue', done_queue', pc')
    BY <1>1, <2>3, <2>4 DEF PoolInv, CountInv
  <2>6. /\ pool' \in Fields /\ pool'.inflight = pool.inflight - 1
        /\ pool'.dispatching = pool.dispatching /\ pool'.destroying = pool.destroying
        /\ pool'.frames = pool.frames
    BY <1>1, <2>1, <2>5, InflightSet
  <2>7. TypeInv'
    BY <1>1, <2>1, <2>3, <2>6 DEF PoolInv, TypeInv
  <2>8. OwnInv(work_queue', done_queue', pc', job', fate')
    <3>1. \A i \in Items : fate'[i] = IF i = h THEN "done" ELSE fate[i]
      BY <2>1 DEF PoolInv, TypeInv
    <3>2. fate[h] = "finished"
      BY <2>3 DEF PoolInv, OwnInv
    <3>. QED BY <1>1, <2>3, <3>1, <3>2 DEF PoolInv, OwnInv
  <2>9. PhaseInv' /\ NoLostWakeup'
    BY <1>1, <2>1, <2>6 DEF PoolInv, PhaseInv, NoLostWakeup
  <2>. QED BY <2>5, <2>6, <2>7, <2>8, <2>9 DEF PoolInv
<1>. QED BY <1>2, <1>3

LEMMA BeginDestroyKeeps ==
    ASSUME PoolInv, NEW p \in Fields, p.inflight = pool.inflight, ~p.dispatching,
           p.frames = 0, BeginDestroy(p)
    PROVE  PoolInv'
<1>1. /\ pool' = [p EXCEPT !.destroying = TRUE, !.shutdown = TRUE] /\ loop' = "join"
      /\ work_queue' = work_queue /\ done_queue' = done_queue /\ pipe' = pipe
      /\ job' = job /\ fate' = fate /\ Broadcast
  BY DEF BeginDestroy
<1>2. /\ pool' \in Fields /\ pool'.inflight = pool.inflight /\ ~pool'.dispatching
      /\ pool'.frames = 0
  BY <1>1 DEF Fields
<1>3. /\ pc' \in [Workers -> {"loop", "wait", "run", "signal", "exit"}]
      /\ \A w \in Workers : pc'[w] = pc[w] \/ (pc[w] = "wait" /\ pc'[w] = "loop")
  <2>1. pc \in [Workers -> {"loop", "wait", "run", "signal", "exit"}]
    BY DEF PoolInv, TypeInv
  <2>2. pc' = [w \in Workers |-> IF pc[w] = "wait" THEN "loop" ELSE pc[w]]
    BY <1>1 DEF Broadcast
  <2>3. \A w \in Workers : pc'[w] = pc[w] \/ (pc[w] = "wait" /\ pc'[w] = "loop")
    BY <2>2
  <2>4. pc' \in [Workers -> {"loop", "wait", "run", "signal", "exit"}]
    BY <2>1, <2>2
  <2>. QED BY <2>3, <2>4
<1>4. Running(pc') = Running(pc) /\ OwnInv(work_queue, done_queue, pc', job, fate)
  BY <1>3, SameRunners DEF PoolInv
<1>5. TypeInv'
  BY <1>1, <1>2, <1>3 DEF PoolInv, TypeInv
<1>6. CountInv(pool'.inflight, work_queue', done_queue', pc')
  BY <1>1, <1>2, <1>4 DEF PoolInv, CountInv
<1>7. PhaseInv' /\ NoLostWakeup'
  BY <1>1, <1>2 DEF PhaseInv, NoLostWakeup
<1>. QED BY <1>1, <1>4, <1>5, <1>6, <1>7 DEF PoolInv

LEMMA DoneReturnKeeps == ASSUME PoolInv, DoneReturn PROVE PoolInv'
<1>1. CASE pool.free_requested
  <2>. DEFINE p == [pool EXCEPT !.dispatching = FALSE, !.frames = @ - 1]
  <2>1. pool \in Fields /\ pool.frames = 1
    BY DEF DoneReturn, PoolInv, TypeInv, PhaseInv
  <2>2. p \in Fields /\ p.inflight = pool.inflight /\ ~p.dispatching /\ p.frames = 0
    <3>1. p = [pool EXCEPT !.dispatching = FALSE, !.frames = 0]
      BY <2>1
    <3>. HIDE DEF p
    <3>. QED BY <2>1, <3>1, DispatchEnded
  <2>3. BeginDestroy(p)
    BY <1>1 DEF DoneReturn
  <2>. QED BY <2>2, <2>3, BeginDestroyKeeps
<1>2. CASE ~pool.free_requested
  BY <1>2 DEF DoneReturn, PoolInv, TypeInv, PhaseInv, NoLostWakeup
<1>. QED BY <1>1, <1>2

LEMMA FreeKeeps == ASSUME PoolInv, Free PROVE PoolInv'
<1>1. CASE ~pool.dispatching /\ BeginDestroy(pool)
  BY <1>1, BeginDestroyKeeps DEF PoolInv, TypeInv, PhaseInv
<1>2. CASE pool.dispatching \/ ~BeginDestroy(pool)
  <2>1. /\ pool' = [pool EXCEPT !.free_requested = TRUE, !.watched = FALSE]
        /\ UNCHANGED <<work_queue, done_queue, pipe, loop, pc, job, fate>>
    BY <1>2 DEF Free
  <2>2. /\ pool' \in Fields /\ pool'.inflight = pool.inflight
        /\ pool'.dispatching = pool.dispatching /\ pool'.destroying = pool.destroying
        /\ pool'.frames = pool.frames
    BY <2>1 DEF PoolInv, TypeInv, Fields
  <2>. QED BY <2>1, <2>2 DEF PoolInv, TypeInv, PhaseInv, NoLostWakeup
<1>. QED BY <1>1, <1>2

LEMMA JoinKeeps == ASSUME PoolInv, Join PROVE PoolInv'
<1>1. /\ pool' = [pool EXCEPT !.watched = FALSE] /\ loop' = "flush" /\ loop = "join"
      /\ UNCHANGED <<work_queue, done_queue, pipe, pc, job, fate>>
      /\ \A w \in Workers : pc[w] = "exit"
  BY DEF Join
<1>2. /\ pool' \in Fields /\ pool'.inflight = pool.inflight
      /\ pool'.dispatching = pool.dispatching /\ pool'.destroying = pool.destroying
      /\ pool'.frames = pool.frames
  BY <1>1 DEF PoolInv, TypeInv, Fields
<1>. QED BY <1>1, <1>2 DEF PoolInv, TypeInv, PhaseInv, NoLostWakeup

LEMMA FlushDoneKeeps == ASSUME PoolAssumption, PoolInv, FlushDone PROVE PoolInv'
<1>. DEFINE h == Head(done_queue)
<1>1. /\ done_queue' = Tail(done_queue) /\ fate' = [fate EXCEPT ![h] = "done"]
      /\ UNCHANGED <<pool, work_queue, pipe, loop, pc, job>>
      /\ loop = "flush" /\ done_queue # <<>>
  BY DEF FlushDone
<1>2. done_queue \in Seq(Items) /\ Injective(done_queue)
  BY DEF PoolInv, TypeInv, OwnInv
<1>3. /\ done_queue' \in Seq(Items) /\ Len(done_queue') = Len(done_queue) - 1
      /\ Len(done_queue) \in Nat /\ h \in Items /\ InQ(done_queue, h)
      /\ \A i \in Items : InQ(done_queue', i) <=> InQ(done_queue, i) /\ i # h
      /\ Injective(done_queue')
  BY <1>1, <1>2, TailRing
<1>. HIDE DEF h
<1>4. TypeInv'
  BY <1>1, <1>3 DEF PoolInv, TypeInv
<1>5. OwnInv(work_queue', done_queue', pc', job', fate')
  <2>1. \A i \in Items : fate'[i] = IF i = h THEN "done" ELSE fate[i]
    BY <1>1 DEF PoolInv, TypeInv
  <2>2. fate[h] = "finished"
    BY <1>3 DEF PoolInv, OwnInv
  <2>. QED BY <1>1, <1>3, <2>1, <2>2 DEF PoolInv, OwnInv
<1>6. CountInv(pool'.inflight, work_queue', done_queue', pc')
  <2>1. /\ Cardinality(Running(pc)) \in Nat /\ done_cap \in Nat /\ Len(work_queue) \in Nat
        /\ pool.inflight \in Nat
    BY RunningCount, Counters DEF PoolInv, TypeInv
  <2>. QED BY <1>1, <1>3, <2>1 DEF PoolInv, CountInv
<1>7. PhaseInv' /\ NoLostWakeup'
  BY <1>1 DEF PoolInv, PhaseInv, NoLostWakeup
<1>. QED BY <1>4, <1>5, <1>6, <1>7 DEF PoolInv

LEMMA FlushCancelKeeps == ASSUME PoolAssumption, PoolInv, FlushCancel PROVE PoolInv'
<1>. DEFINE h == Head(work_queue)
<1>1. /\ work_queue' = Tail(work_queue) /\ fate' = [fate EXCEPT ![h] = "cancelled"]
      /\ UNCHANGED <<pool, done_queue, pipe, loop, pc, job>>
      /\ loop = "flush" /\ work_queue # <<>>
  BY DEF FlushCancel
<1>2. work_queue \in Seq(Items) /\ Injective(work_queue)
  BY DEF PoolInv, TypeInv, OwnInv
<1>3. /\ work_queue' \in Seq(Items) /\ Len(work_queue') = Len(work_queue) - 1
      /\ Len(work_queue) \in Nat /\ h \in Items /\ InQ(work_queue, h)
      /\ \A i \in Items : InQ(work_queue', i) <=> InQ(work_queue, i) /\ i # h
      /\ Injective(work_queue')
  BY <1>1, <1>2, TailRing
<1>. HIDE DEF h
<1>4. TypeInv'
  BY <1>1, <1>3 DEF PoolInv, TypeInv
<1>5. OwnInv(work_queue', done_queue', pc', job', fate')
  <2>1. \A i \in Items : fate'[i] = IF i = h THEN "cancelled" ELSE fate[i]
    BY <1>1 DEF PoolInv, TypeInv
  <2>2. fate[h] = "accepted"
    BY <1>3 DEF PoolInv, OwnInv
  <2>. QED BY <1>1, <1>3, <2>1, <2>2 DEF PoolInv, OwnInv
<1>6. CountInv(pool'.inflight, work_queue', done_queue', pc')
  <2>1. /\ Cardinality(Running(pc)) \in Nat /\ done_cap \in Nat /\ Len(done_queue) \in Nat
        /\ pool.inflight \in Nat
    BY RunningCount, Counters DEF PoolInv, TypeInv
  <2>. QED BY <1>1, <1>3, <2>1 DEF PoolInv, CountInv
<1>7. PhaseInv' /\ NoLostWakeup'
  BY <1>1 DEF PoolInv, PhaseInv, NoLostWakeup
<1>. QED BY <1>4, <1>5, <1>6, <1>7 DEF PoolInv

LEMMA DestroyKeeps == ASSUME PoolInv, Destroy PROVE PoolInv'
BY DEF Destroy, PoolInv, TypeInv, PhaseInv, NoLostWakeup

\* A step of one worker that neither starts nor ends a job.
LEMMA MoveKeeps ==
    ASSUME PoolInv, NEW w \in Workers, NEW to \in {"loop", "wait", "exit"},
           pc[w] \in {"loop", "wait", "signal"}, pc' = [pc EXCEPT ![w] = to],
           pc[w] = "signal" => pipe', pipe => pipe', pipe' \in BOOLEAN,
           UNCHANGED <<pool, work_queue, done_queue, loop, job, fate>>
    PROVE  PoolInv'
<1>1. /\ pc' \in [Workers -> {"loop", "wait", "run", "signal", "exit"}]
      /\ \A v \in Workers : pc'[v] = IF v = w THEN to ELSE pc[v]
  BY DEF PoolInv, TypeInv
<1>2. Running(pc') = Running(pc) /\ OwnInv(work_queue, done_queue, pc', job, fate)
  BY <1>1, SameRunners DEF PoolInv
<1>3. TypeInv'
  BY <1>1 DEF PoolInv, TypeInv
<1>4. CountInv(pool'.inflight, work_queue', done_queue', pc')
  BY <1>2 DEF PoolInv, CountInv
<1>5. PhaseInv'
  BY <1>1 DEF PoolInv, PhaseInv
<1>6. NoLostWakeup'
  BY <1>1 DEF PoolInv, NoLostWakeup
<1>. QED BY <1>2, <1>3, <1>4, <1>5, <1>6 DEF PoolInv

LEMMA TakeKeeps == ASSUME PoolAssumption, PoolInv, NEW w \in Workers, Take(w) PROVE PoolInv'
<1>1. pc[w] = "loop" /\ UNCHANGED <<pool, done_queue, pipe, loop>> /\ pipe \in BOOLEAN
  BY DEF Take, PoolInv, TypeInv
<1>2. CASE pool.shutdown
  BY <1>1, <1>2, MoveKeeps DEF Take
<1>3. CASE ~pool.shutdown /\ work_queue = <<>>
  BY <1>1, <1>3, MoveKeeps DEF Take
<1>4. CASE ~pool.shutdown /\ work_queue # <<>>
  <2>. DEFINE h == Head(work_queue)
  <2>1. /\ pc' = [pc EXCEPT ![w] = "run"] /\ job' = [job EXCEPT ![w] = h]
        /\ fate' = [fate EXCEPT ![h] = "running"] /\ work_queue' = Tail(work_queue)
    BY <1>4 DEF Take
  <2>2. work_queue \in Seq(Items) /\ Injective(work_queue)
    BY DEF PoolInv, TypeInv, OwnInv
  <2>3. /\ work_queue' \in Seq(Items) /\ Len(work_queue') = Len(work_queue) - 1
        /\ Len(work_queue) \in Nat /\ h \in Items /\ InQ(work_queue, h)
        /\ \A i \in Items : InQ(work_queue', i) <=> InQ(work_queue, i) /\ i # h
        /\ Injective(work_queue')
    BY <1>4, <2>1, <2>2, TailRing
  <2>. HIDE DEF h
  <2>4. /\ \A v \in Workers : pc'[v] = IF v = w THEN "run" ELSE pc[v]
        /\ \A v \in Workers : job'[v] = IF v = w THEN h ELSE job[v]
        /\ \A i \in Items : fate'[i] = IF i = h THEN "running" ELSE fate[i]
    BY <2>1 DEF PoolInv, TypeInv
  <2>5. TypeInv'
    BY <1>1, <2>1, <2>3 DEF PoolInv, TypeInv
  <2>6. OwnInv(work_queue', done_queue', pc', job', fate')
    <3>1. fate[h] = "accepted"
      BY <2>3 DEF PoolInv, OwnInv
    <3>2. \A i \in Items : fate'[i] = "running" <=> \E v \in Workers : pc'[v] = "run" /\ job'[v] = i
      BY <1>1, <2>4, <3>1 DEF PoolInv, OwnInv
    <3>3. \A u, v \in Workers : pc'[u] = "run" /\ pc'[v] = "run" /\ job'[u] = job'[v] => u = v
      BY <1>1, <2>4, <3>1 DEF PoolInv, OwnInv
    <3>4. \A v \in Workers : pc'[v] = "run" => job'[v] \in Items
      BY <2>3, <2>4 DEF PoolInv, OwnInv
    <3>5. \A i \in Items : fate'[i] = "accepted" <=> InQ(work_queue', i)
      BY <2>3, <2>4 DEF PoolInv, OwnInv
    <3>6. \A i \in Items : fate'[i] = "finished" <=> InQ(done_queue', i)
      BY <1>1, <2>3, <2>4, <3>1 DEF PoolInv, OwnInv
    <3>. QED BY <1>1, <2>3, <3>2, <3>3, <3>4, <3>5, <3>6 DEF PoolInv, OwnInv
  <2>7. CountInv(pool'.inflight, work_queue', done_queue', pc')
    <3>1. Running(pc') = Running(pc) \cup {w} /\ w \notin Running(pc)
      BY <1>1, <2>4 DEF Running
    <3>2. /\ IsFiniteSet(Running(pc)) /\ Cardinality(Running(pc)) \in Nat /\ done_cap \in Nat
          /\ pool.inflight \in Nat /\ Len(done_queue) \in Nat
      BY RunningCount, Counters DEF PoolInv, TypeInv
    <3>3. Cardinality(Running(pc')) = Cardinality(Running(pc)) + 1
      BY <3>1, <3>2, FS_AddElement
    <3>. QED BY <1>1, <2>3, <3>2, <3>3 DEF PoolInv, CountInv
  <2>8. PhaseInv'
    BY <1>1, <1>4, <2>4 DEF PoolInv, PhaseInv
  <2>9. NoLostWakeup'
    BY <1>1, <2>4 DEF PoolInv, NoLostWakeup
  <2>. QED BY <2>5, <2>6, <2>7, <2>8, <2>9 DEF PoolInv
<1>. QED BY <1>2, <1>3, <1>4

LEMMA FinishKeeps == ASSUME PoolAssumption, PoolInv, NEW w \in Workers, Finish(w) PROVE PoolInv'
<1>. DEFINE x == job[w]
<1>1. /\ pc[w] = "run" /\ done_queue' = Append(done_queue, x)
      /\ fate' = [fate EXCEPT ![x] = "finished"] /\ job' = [job EXCEPT ![w] = None]
      /\ pc' = [pc EXCEPT ![w] = "signal"] /\ UNCHANGED <<pool, work_queue, pipe, loop>>
  BY DEF Finish
<1>2. x \in Items /\ fate[x] = "running" /\ ~InQ(done_queue, x) /\ done_queue \in Seq(Items)
  BY <1>1 DEF PoolInv, TypeInv, OwnInv
<1>3. /\ done_queue' \in Seq(Items) /\ Len(done_queue') = Len(done_queue) + 1
      /\ Len(done_queue) \in Nat /\ Injective(done_queue')
      /\ \A i \in Items : InQ(done_queue', i) <=> InQ(done_queue, i) \/ i = x
  BY <1>1, <1>2, AppendRing DEF PoolInv, OwnInv
<1>4. /\ \A v \in Workers : pc'[v] = IF v = w THEN "signal" ELSE pc[v]
      /\ \A v \in Workers : v # w => job'[v] = job[v]
      /\ \A i \in Items : fate'[i] = IF i = x THEN "finished" ELSE fate[i]
  BY <1>1 DEF PoolInv, TypeInv
<1>5. TypeInv'
  BY <1>1, <1>2, <1>3 DEF PoolInv, TypeInv
<1>6. OwnInv(work_queue', done_queue', pc', job', fate')
  <2>1. \A i \in Items : fate'[i] = "running" <=> \E v \in Workers : pc'[v] = "run" /\ job'[v] = i
    BY <1>1, <1>2, <1>4 DEF PoolInv, OwnInv
  <2>2. \A u, v \in Workers : pc'[u] = "run" /\ pc'[v] = "run" /\ job'[u] = job'[v] => u = v
    BY <1>4 DEF PoolInv, OwnInv
  <2>3. \A v \in Workers : pc'[v] = "run" => job'[v] \in Items
    BY <1>4 DEF PoolInv, OwnInv
  <2>4. \A i \in Items : fate'[i] = "accepted" <=> InQ(work_queue', i)
    BY <1>1, <1>2, <1>4 DEF PoolInv, OwnInv
  <2>5. \A i \in Items : fate'[i] = "finished" <=> InQ(done_queue', i)
    BY <1>3, <1>4 DEF PoolInv, OwnInv
  <2>. QED BY <1>1, <1>3, <2>1, <2>2, <2>3, <2>4, <2>5 DEF PoolInv, OwnInv
<1>7. CountInv(pool'.inflight, work_queue', done_queue', pc')
  <2>1. Running(pc') = Running(pc) \ {w} /\ w \in Running(pc)
    BY <1>1, <1>4 DEF Running
  <2>2. /\ IsFiniteSet(Running(pc)) /\ Cardinality(Running(pc)) \in Nat /\ done_cap \in Nat
        /\ pool.inflight \in Nat /\ Len(work_queue) \in Nat
    BY RunningCount, Counters DEF PoolInv, TypeInv
  <2>3. Cardinality(Running(pc')) = Cardinality(Running(pc)) - 1
    BY <2>1, <2>2, FS_RemoveElement
  <2>. QED BY <1>1, <1>3, <2>2, <2>3 DEF PoolInv, CountInv
<1>8. PhaseInv'
  BY <1>1, <1>4 DEF PoolInv, PhaseInv
<1>9. NoLostWakeup'
  BY <1>4 DEF NoLostWakeup
<1>. QED BY <1>5, <1>6, <1>7, <1>8, <1>9 DEF PoolInv

LEMMA SignalKeeps == ASSUME PoolInv, NEW w \in Workers, Signal(w) \/ SpuriousWake(w) PROVE PoolInv'
<1>1. pipe \in BOOLEAN
  BY DEF PoolInv, TypeInv
<1>2. CASE Signal(w)
  BY <1>1, <1>2, MoveKeeps DEF Signal
<1>3. CASE SpuriousWake(w)
  BY <1>1, <1>3, MoveKeeps DEF SpuriousWake
<1>. QED BY <1>2, <1>3

LEMMA NextKeeps == ASSUME PoolAssumption, PoolInv, [Next]_vars PROVE PoolInv'
<1>1. CASE \E started \in SUBSET Workers : Create(started)
  BY <1>1, CreateKeeps
<1>2. CASE \E i \in Items : Submit(i)
  BY <1>2, SubmitKeeps
<1>3. CASE LoopThread
  BY <1>3, OnPipeKeeps, TakeDoneKeeps, DoneReturnKeeps, JoinKeeps, FlushDoneKeeps,
     FlushCancelKeeps, DestroyKeeps DEF LoopThread
<1>4. CASE \E w \in Workers : Worker(w) \/ SpuriousWake(w)
  BY <1>4, TakeKeeps, FinishKeeps, SignalKeeps DEF Worker
<1>5. CASE UNCHANGED vars
  BY <1>5 DEF vars, PoolInv, TypeInv, PhaseInv, NoLostWakeup
<1>. QED BY <1>1, <1>2, <1>3, <1>4, <1>5, FreeKeeps DEF Next

-----------------------------------------------------------------------------
(* Theorems. *)

\* Every accepted item sits in exactly one of the work ring, a worker and the done ring
\* until it is called back, and inflight covers them all (thread_pool.c).
THEOREM PoolInvariant == ASSUME PoolAssumption PROVE Spec => []PoolInv
<1>1. Init => PoolInv
  <2>1. SUFFICES ASSUME Init PROVE PoolInv
    OBVIOUS
  <2>2. Running(pc) = {}
    BY <2>1 DEF Init, Running
  <2>3. Cardinality(Running(pc)) = 0 /\ done_cap \in Nat
    BY <2>2, FS_EmptySet, RunningCount
  <2>4. TypeInv
    BY <2>1, EmptyRing DEF Init, TypeInv, Fresh, Fields, New
  <2>5. OwnInv(work_queue, done_queue, pc, job, fate)
    BY <2>1, EmptyRing DEF Init, OwnInv, New
  <2>6. CountInv(pool.inflight, work_queue, done_queue, pc)
    BY <2>1, <2>3, EmptyRing DEF Init, CountInv, Fresh
  <2>7. PhaseInv /\ NoLostWakeup
    BY <2>1 DEF Init, PhaseInv, NoLostWakeup, Fresh
  <2>. QED BY <2>4, <2>5, <2>6, <2>7 DEF PoolInv
<1>2. PoolInv /\ [Next]_vars => PoolInv'
  BY NextKeeps
<1>. QED BY <1>1, <1>2, PTL DEF Spec

\* The fields keep their types and neither ring overflows, though a worker pushes to the
\* done ring without a check (thread_pool.c, worker_thread).
THEOREM PoolTypeCorrect == ASSUME PoolAssumption PROVE Spec => []TypeOK
<1>1. PoolInv => TypeOK
  <2>1. SUFFICES ASSUME PoolInv PROVE TypeOK
    OBVIOUS
  <2>2. /\ Cardinality(Running(pc)) \in Nat /\ done_cap \in Nat /\ pool.inflight \in Nat
        /\ Len(work_queue) \in Nat /\ Len(done_queue) \in Nat
    BY <2>1, RunningCount DEF PoolInv, TypeInv, Fields
  <2>3. Len(work_queue) <= work_cap /\ Len(done_queue) <= done_cap
    BY <2>1, <2>2 DEF PoolInv, CountInv, work_cap
  <2>. QED BY <2>1, <2>3 DEF PoolInv, TypeInv, TypeOK, Fields
<1>. QED BY <1>1, PoolInvariant, PTL

\* A finished item is never stranded in the done ring while the event loop sleeps: a byte
\* is in the pipe or about to be written (thread_pool_on_pipe drains the pipe first).
THEOREM PoolNoLostWakeup == ASSUME PoolAssumption PROVE Spec => []NoLostWakeup
<1>1. PoolInv => NoLostWakeup
  BY DEF PoolInv
<1>. QED BY <1>1, PoolInvariant, PTL

\* thread_pool.h: once kl_thread_pool_free is over no worker is alive and every accepted
\* item has been called back; the pool is never torn down under its own dispatch.
THEOREM PoolFreedIsSettled == ASSUME PoolAssumption PROVE Spec => []FreedIsSettled
<1>1. PoolInv => FreedIsSettled
  <2>1. SUFFICES ASSUME PoolInv PROVE FreedIsSettled
    OBVIOUS
  <2>2. ASSUME loop = "none", NEW i \in Items PROVE fate[i] \in {"new", "done", "cancelled"}
    <3>1. /\ work_queue = <<>> /\ done_queue = <<>> /\ \A w \in Workers : pc[w] = "exit"
      BY <2>1, <2>2 DEF PoolInv, PhaseInv
    <3>2. fate[i] # "accepted" /\ fate[i] # "finished" /\ fate[i] # "running"
      BY <2>1, <3>1, EmptyRing DEF PoolInv, OwnInv
    <3>. QED BY <2>1, <3>2 DEF PoolInv, TypeInv
  <2>3. loop = "none" => \A w \in Workers : pc[w] = "exit"
    BY <2>1 DEF PoolInv, PhaseInv
  <2>4. pool.destroying => ~pool.dispatching /\ pool.frames = 0
    BY <2>1 DEF PoolInv, PhaseInv
  <2>. QED BY <2>2, <2>3, <2>4 DEF FreedIsSettled
<1>. QED BY <1>1, PoolInvariant, PTL

\* thread_pool.h: an item gets done_fn only after its work_fn ended and cancel_fn only if
\* it never started, and nothing after either.
THEOREM PoolOneCallback == ASSUME PoolAssumption PROVE Spec => OneCallback
<1>1. ASSUME PoolInv, [Next]_vars PROVE [CallbackStep]_vars
  <2>1. ASSUME fate' = fate PROVE CallbackStep
    BY <2>1 DEF CallbackStep
  <2>2. ASSUME NEW x \in Items, NEW to, fate' = [fate EXCEPT ![x] = to],
               \/ fate[x] = "new" /\ to = "accepted"
               \/ fate[x] = "accepted" /\ to \in {"running", "cancelled"}
               \/ fate[x] = "running" /\ to = "finished"
               \/ fate[x] = "finished" /\ to = "done"
        PROVE  CallbackStep
    <3>1. \A i \in Items : fate'[i] = IF i = x THEN to ELSE fate[i]
      BY <1>1, <2>2 DEF PoolInv, TypeInv
    <3>. QED BY <2>2, <3>1 DEF CallbackStep
  <2>3. ASSUME NEW started \in SUBSET Workers, Create(started) PROVE CallbackStep
    BY <2>3 DEF Create, New, CallbackStep
  <2>4. ASSUME NEW i \in Items, Submit(i) PROVE CallbackStep
    BY <2>2, <2>4 DEF Submit
  <2>5. ASSUME done_queue # <<>> PROVE Head(done_queue) \in Items /\ fate[Head(done_queue)] = "finished"
    BY <1>1, <2>5, TailRing DEF PoolInv, TypeInv, OwnInv
  <2>6. ASSUME work_queue # <<>> PROVE Head(work_queue) \in Items /\ fate[Head(work_queue)] = "accepted"
    BY <1>1, <2>6, TailRing DEF PoolInv, TypeInv, OwnInv
  <2>7. ASSUME TakeDone PROVE CallbackStep
    BY <2>1, <2>2, <2>5, <2>7 DEF TakeDone
  <2>8. ASSUME FlushDone PROVE CallbackStep
    BY <2>2, <2>5, <2>8 DEF FlushDone
  <2>9. ASSUME FlushCancel PROVE CallbackStep
    BY <2>2, <2>6, <2>9 DEF FlushCancel
  <2>10. ASSUME NEW w \in Workers, Take(w) PROVE CallbackStep
    BY <2>1, <2>2, <2>6, <2>10 DEF Take
  <2>11. ASSUME NEW w \in Workers, Finish(w) PROVE CallbackStep
    <3>1. job[w] \in Items /\ fate[job[w]] = "running" /\ fate' = [fate EXCEPT ![job[w]] = "finished"]
      BY <1>1, <2>11 DEF Finish, PoolInv, OwnInv
    <3>. QED BY <2>2, <3>1
  <2>12. CASE LoopThread
    BY <2>1, <2>7, <2>8, <2>9, <2>12 DEF LoopThread, OnPipe, DoneReturn, BeginDestroy, Join, Destroy
  <2>13. CASE \E w \in Workers : Worker(w) \/ SpuriousWake(w)
    BY <2>1, <2>10, <2>11, <2>13 DEF Worker, Signal, SpuriousWake
  <2>14. CASE Free
    BY <2>1, <2>14 DEF Free, BeginDestroy
  <2>15. CASE UNCHANGED vars
    BY <2>15
  <2>. QED BY <1>1, <2>3, <2>4, <2>12, <2>13, <2>14, <2>15 DEF Next
<1>. QED BY <1>1, PoolInvariant, PTL DEF Spec, OneCallback
=============================================================================
