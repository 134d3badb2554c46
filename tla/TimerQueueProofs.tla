-------------------------- MODULE TimerQueueProofs --------------------------
(***************************************************************************)
(* Proofs about the timers for every clock width, number of timers and     *)
(* depth of nested kl_timer_fire calls.  The inductive invariant counts,   *)
(* for every open call, the timers it could still fire: those older than   *)
(* its watermark.  A nested call or a cancellation only lowers that count. *)
(***************************************************************************)
EXTENDS TimerQueue, FiniteSetTheorems, SequenceTheorems, TLAPS

Calls == [watermark : Nat, seen : Nat, in_cb : BOOLEAN, began : Nat, entry : Nat, fired : Nat]

\* The timers a call with watermark w may fire.
Older(P, w) == {t \in P : t.id < w}

\* What holds of an open call: it has not fired more than it may, and a timer added since it
\* began cannot be due before every timer that was due then.
CallInv(c, P, n, time) ==
    /\ c.watermark <= n
    /\ c.began <= c.seen /\ c.seen <= time
    /\ c.fired + Cardinality(Older(P, c.watermark)) <= c.entry
    /\ \A t \in P : t.id >= c.watermark => t.deadline >= c.began

TimersInv ==
    /\ pending \subseteq [deadline : Nat, id : Nat] /\ IsFiniteSet(pending)
    /\ next_id \in Nat /\ now \in Nat /\ now <= U64Max
    /\ \A t \in pending : t.id < next_id
    /\ \A t, u \in pending : t.id = u.id => t = u

QueueInv ==
    /\ TimersInv
    /\ calls \in Seq(Calls)
    /\ \A i \in 1..Len(calls) : CallInv(calls[i], pending, next_id, now)

-----------------------------------------------------------------------------
(* The order of firing. *)

\* A nonempty finite set of timers with distinct ids has an earliest one: the timer with
\* the fewest predecessors.
LEMMA EarliestExists ==
    ASSUME TimersInv, pending # {}
    PROVE  \E t \in pending : Earliest(t)
<1>. DEFINE Pred(t) == {u \in pending : Before(u, t)}
            F == {Pred(t) : t \in pending}
            R == StrictSubsetOrdering(pending)
<1>1. F \subseteq FiniteSubsetsOf(pending) /\ F # {}
  <2>1. \A t \in pending : Pred(t) \subseteq pending
    OBVIOUS
  <2>2. \A t \in pending : IsFiniteSet(Pred(t))
    BY <2>1, FS_Subset DEF TimersInv
  <2>. QED BY <2>1, <2>2 DEF FiniteSubsetsOf
<1>2. PICK x \in F : \A y \in F : ~(<<y, x>> \in R)
  <2>. HIDE DEF F, R
  <2>. QED BY <1>1, FS_StrictSubsetOrderingWellFounded, WFMin DEF R
<1>3. PICK t \in pending : x = Pred(t)
  OBVIOUS
<1>4. ASSUME NEW v \in pending, Before(v, t) PROVE FALSE
  <2>1. Pred(v) \subseteq Pred(t)
    BY <1>4 DEF Before, TimersInv
  <2>2. v \in Pred(t) /\ v \notin Pred(v)
    BY <1>4 DEF Before, TimersInv
  <2>3. <<Pred(v), Pred(t)>> \in R
    BY <2>1, <2>2 DEF StrictSubsetOrdering
  <2>. QED BY <1>2, <1>3, <2>3
<1>5. \A u \in pending : u = t \/ Before(t, u)
  BY <1>4 DEF Before, TimersInv
<1>. QED BY <1>5 DEF Earliest

-----------------------------------------------------------------------------
(* Counting the timers a call may fire. *)

LEMMA OlderShrinks ==
    ASSUME NEW P, IsFiniteSet(P), NEW t, NEW w
    PROVE  /\ Cardinality(Older(P, w)) \in Nat
           /\ Cardinality(Older(P \ {t}, w)) \in Nat
           /\ Cardinality(Older(P \ {t}, w)) <= Cardinality(Older(P, w))
           /\ t \in Older(P, w) =>
                 Cardinality(Older(P \ {t}, w)) = Cardinality(Older(P, w)) - 1
<1>1. IsFiniteSet(Older(P, w)) /\ Older(P \ {t}, w) = Older(P, w) \ {t}
  BY FS_Subset DEF Older
<1>2. /\ IsFiniteSet(Older(P, w) \ {t})
      /\ Cardinality(Older(P, w) \ {t}) =
            IF t \in Older(P, w) THEN Cardinality(Older(P, w)) - 1 ELSE Cardinality(Older(P, w))
  BY <1>1, FS_RemoveElement
<1>3. Cardinality(Older(P, w)) \in Nat /\ Cardinality(Older(P, w) \ {t}) \in Nat
  BY <1>1, <1>2, FS_CardinalityType
<1>. QED BY <1>1, <1>2, <1>3

\* Removing a timer keeps what holds of a call that did not fire it.
LEMMA RemovalKeeps ==
    ASSUME NEW c \in Calls, NEW P, IsFiniteSet(P), NEW t, NEW n, NEW time, CallInv(c, P, n, time)
    PROVE  CallInv(c, P \ {t}, n, time)
<1>1. /\ Cardinality(Older(P, c.watermark)) \in Nat
      /\ Cardinality(Older(P \ {t}, c.watermark)) \in Nat
      /\ Cardinality(Older(P \ {t}, c.watermark)) <= Cardinality(Older(P, c.watermark))
  BY OlderShrinks
<1>2. c.fired \in Nat /\ c.entry \in Nat
  BY DEF Calls
<1>3. c.fired + Cardinality(Older(P \ {t}, c.watermark)) <= c.entry
  BY <1>1, <1>2 DEF CallInv
<1>. QED BY <1>3 DEF CallInv

-----------------------------------------------------------------------------
(* Every step keeps the invariant. *)

LEMMA DeadlineAhead ==
    ASSUME QueueAssumption, TimersInv, NEW delay \in 0..U64Max
    PROVE  Deadline(delay) \in Nat /\ Deadline(delay) >= now
BY DEF QueueAssumption, TimersInv, Deadline

LEMMA AddKeeps ==
    ASSUME QueueAssumption, QueueInv, NEW delay \in 0..U64Max, Add(delay)
    PROVE  QueueInv'
<1>. DEFINE e == Entry(delay)
<1>1. e.deadline \in Nat /\ e.deadline >= now /\ e.id = next_id /\ e \in [deadline : Nat, id : Nat]
  BY DeadlineAhead DEF QueueInv, TimersInv, Entry
<1>2. pending' = pending \cup {e} /\ next_id' = next_id + 1 /\ now' = now /\ calls' = calls
  BY DEF Add
<1>. HIDE DEF e
<1>3. TimersInv'
  <2>1. IsFiniteSet(pending')
    BY <1>2, FS_AddElement DEF QueueInv, TimersInv
  <2>. QED BY <1>1, <1>2, <2>1 DEF QueueInv, TimersInv
<1>4. ASSUME NEW i \in 1..Len(calls) PROVE CallInv(calls[i], pending', next_id', now')
  <2>1. calls[i] \in Calls /\ CallInv(calls[i], pending, next_id, now)
    BY DEF QueueInv
  <2>2. calls[i].watermark \in Nat /\ calls[i].began \in Nat /\ calls[i].seen \in Nat
    BY <2>1 DEF Calls
  <2>3. Older(pending', calls[i].watermark) = Older(pending, calls[i].watermark)
    BY <1>1, <1>2, <2>1, <2>2 DEF Older, CallInv, QueueInv, TimersInv
  <2>4. \A t \in pending' : t.id >= calls[i].watermark => t.deadline >= calls[i].began
    BY <1>1, <1>2, <2>1, <2>2 DEF CallInv, QueueInv, TimersInv
  <2>5. calls[i].watermark <= next_id'
    BY <1>2, <2>1, <2>2 DEF CallInv, QueueInv, TimersInv
  <2>. QED BY <1>2, <2>1, <2>3, <2>4, <2>5 DEF CallInv
<1>. QED BY <1>2, <1>3, <1>4 DEF QueueInv

LEMMA CancelKeeps ==
    ASSUME QueueInv, NEW t \in pending, Cancel(t)
    PROVE  QueueInv'
<1>1. pending' = pending \ {t} /\ next_id' = next_id /\ now' = now /\ calls' = calls
  BY DEF Cancel
<1>2. IsFiniteSet(pending')
  BY <1>1, FS_RemoveElement DEF QueueInv, TimersInv
<1>3. TimersInv'
  BY <1>1, <1>2 DEF QueueInv, TimersInv
<1>4. ASSUME NEW i \in 1..Len(calls) PROVE CallInv(calls[i], pending', next_id', now')
  <2>1. calls[i] \in Calls /\ CallInv(calls[i], pending, next_id, now) /\ IsFiniteSet(pending)
    BY DEF QueueInv, TimersInv
  <2>. QED BY <1>1, <2>1, RemovalKeeps
<1>. QED BY <1>1, <1>3, <1>4 DEF QueueInv

LEMMA NewCallShape ==
    ASSUME QueueInv
    PROVE  NewCall \in Calls /\ CallInv(NewCall, pending, next_id, now)
<1>1. Older(pending, next_id) = pending
  BY DEF QueueInv, TimersInv, Older
<1>2. Cardinality(pending) \in Nat
  BY FS_CardinalityType DEF QueueInv, TimersInv
<1>3. NewCall \in Calls
  BY <1>2 DEF NewCall, Calls, QueueInv, TimersInv
<1>4. NewCall.fired + Cardinality(Older(pending, NewCall.watermark)) <= NewCall.entry
  BY <1>1, <1>2 DEF NewCall
<1>5. \A t \in pending : t.id >= NewCall.watermark => t.deadline >= NewCall.began
  BY DEF NewCall, QueueInv, TimersInv
<1>. QED BY <1>3, <1>4, <1>5 DEF NewCall, CallInv, QueueInv, TimersInv

LEMMA FireBeginKeeps == ASSUME QueueInv, FireBegin PROVE QueueInv'
<1>1. pending' = pending /\ next_id' = next_id /\ now' = now /\ calls' = <<NewCall>> \o calls
  BY DEF FireBegin
<1>2. NewCall \in Calls /\ CallInv(NewCall, pending, next_id, now) /\ calls \in Seq(Calls)
  BY NewCallShape DEF QueueInv
<1>. DEFINE n == NewCall
<1>. HIDE DEF n
<1>3. /\ <<n>> \o calls \in Seq(Calls)
      /\ Len(<<n>> \o calls) = 1 + Len(calls)
      /\ \A i \in 1 .. 1 + Len(calls) : (<<n>> \o calls)[i] = IF i <= 1 THEN n ELSE calls[i - 1]
  <2>1. <<n>> \in Seq(Calls) /\ Len(<<n>>) = 1 /\ <<n>>[1] = n
    BY <1>2 DEF n
  <2>. QED BY <1>2, <2>1, ConcatProperties
<1>4. \A i \in 1..Len(calls') : CallInv(calls'[i], pending, next_id, now)
  BY <1>1, <1>2, <1>3 DEF n, QueueInv
<1>5. TimersInv'
  BY <1>1 DEF QueueInv, TimersInv
<1>. QED BY <1>1, <1>3, <1>4, <1>5 DEF n, QueueInv

LEMMA FirePopKeeps ==
    ASSUME QueueInv, NEW t \in pending, FirePop(t)
    PROVE  QueueInv'
<1>. DEFINE c == calls[1]
            b == [c EXCEPT !.in_cb = TRUE]
            d == [b EXCEPT !.fired = c.fired + 1]
<1>1. pending' = pending \ {t} /\ next_id' = next_id /\ now' = now /\ t.id < Head(calls).watermark
  BY DEF FirePop, Due
<1>2. calls \in Seq(Calls) /\ calls # <<>> /\ Len(calls) \in Nat /\ 1 \in 1..Len(calls)
  BY DEF QueueInv, FirePop
<1>3. c \in Calls /\ Head(calls) = c /\ CallInv(c, pending, next_id, now)
  BY <1>2 DEF QueueInv
<1>4. calls' = [calls EXCEPT ![1] = d]
  BY DEF FirePop
<1>. HIDE DEF c
<1>12. /\ b \in Calls /\ b.watermark = c.watermark /\ b.began = c.began /\ b.seen = c.seen
       /\ b.entry = c.entry /\ b.fired = c.fired
  BY <1>3 DEF Calls
<1>. HIDE DEF b
<1>5. /\ d \in Calls /\ d.watermark = c.watermark /\ d.began = c.began /\ d.seen = c.seen
      /\ d.entry = c.entry /\ d.fired = c.fired + 1
  BY <1>12 DEF Calls
<1>. HIDE DEF d
<1>6. calls' \in Seq(Calls) /\ Len(calls') = Len(calls)
  BY <1>2, <1>4, <1>5
<1>7. IsFiniteSet(pending) /\ IsFiniteSet(pending')
  BY <1>1, FS_RemoveElement DEF QueueInv, TimersInv
<1>8. TimersInv'
  BY <1>1, <1>7 DEF QueueInv, TimersInv
<1>9. CallInv(d, pending', next_id, now)
  <2>1. t \in Older(pending, c.watermark)
    BY <1>1, <1>3 DEF Older
  <2>2. /\ Cardinality(Older(pending, c.watermark)) \in Nat
        /\ Cardinality(Older(pending', c.watermark)) = Cardinality(Older(pending, c.watermark)) - 1
    BY <1>1, <1>7, <2>1, OlderShrinks
  <2>3. c.fired \in Nat /\ c.entry \in Nat
    BY <1>3 DEF Calls
  <2>4. d.fired + Cardinality(Older(pending', d.watermark)) <= d.entry
    BY <1>3, <1>5, <2>2, <2>3 DEF CallInv
  <2>. QED BY <1>1, <1>3, <1>5, <2>4 DEF CallInv
<1>10. ASSUME NEW i \in 1..Len(calls), i # 1 PROVE CallInv(calls'[i], pending', next_id, now)
  <2>1. calls'[i] = calls[i] /\ calls[i] \in Calls /\ CallInv(calls[i], pending, next_id, now)
    BY <1>2, <1>4, <1>10 DEF QueueInv
  <2>. QED BY <1>1, <1>7, <2>1, RemovalKeeps
<1>11. calls'[1] = d
  BY <1>2, <1>4
<1>. QED BY <1>1, <1>6, <1>8, <1>9, <1>10, <1>11 DEF QueueInv

LEMMA CallbackReturnKeeps == ASSUME QueueInv, CallbackReturn PROVE QueueInv'
<1>. DEFINE c == calls[1]
            d == [c EXCEPT !.in_cb = FALSE, !.seen = now]
<1>1. pending' = pending /\ next_id' = next_id /\ now' = now /\ calls' = [calls EXCEPT ![1] = d]
  BY DEF CallbackReturn
<1>2. calls \in Seq(Calls) /\ calls # <<>> /\ Len(calls) \in Nat /\ 1 \in 1..Len(calls)
  BY DEF QueueInv, CallbackReturn
<1>3. c \in Calls /\ CallInv(c, pending, next_id, now)
  BY <1>2 DEF QueueInv
<1>4. /\ d \in Calls /\ d.watermark = c.watermark /\ d.began = c.began /\ d.seen = now
      /\ d.entry = c.entry /\ d.fired = c.fired /\ c.began \in Nat /\ c.seen \in Nat
  BY <1>3 DEF Calls, QueueInv, TimersInv
<1>. HIDE DEF c, d
<1>5. CallInv(d, pending, next_id, now)
  BY <1>3, <1>4 DEF CallInv, QueueInv, TimersInv
<1>6. calls' \in Seq(Calls) /\ Len(calls') = Len(calls) /\ calls'[1] = d
  BY <1>1, <1>2, <1>4
<1>7. \A i \in 1..Len(calls) : CallInv(calls'[i], pending, next_id, now)
  BY <1>1, <1>2, <1>5, <1>6 DEF QueueInv
<1>8. TimersInv'
  BY <1>1 DEF QueueInv, TimersInv
<1>. QED BY <1>1, <1>6, <1>7, <1>8 DEF QueueInv

LEMMA FireEndKeeps == ASSUME QueueInv, FireEnd PROVE QueueInv'
<1>1. pending' = pending /\ next_id' = next_id /\ now' = now /\ calls' = Tail(calls)
  BY DEF FireEnd
<1>2. calls \in Seq(Calls) /\ calls # <<>> /\ Len(calls) \in Nat
  BY DEF QueueInv, FireEnd
<1>3. /\ Tail(calls) \in Seq(Calls) /\ Len(Tail(calls)) = Len(calls) - 1
      /\ \A i \in 1..Len(Tail(calls)) : Tail(calls)[i] = calls[i + 1]
  BY <1>2, HeadTailProperties
<1>4. \A i \in 1..Len(calls') : CallInv(calls'[i], pending, next_id, now)
  BY <1>1, <1>2, <1>3 DEF QueueInv
<1>5. TimersInv'
  BY <1>1 DEF QueueInv, TimersInv
<1>. QED BY <1>1, <1>3, <1>4, <1>5 DEF QueueInv

LEMMA TickKeeps == ASSUME QueueAssumption, QueueInv, Tick PROVE QueueInv'
<1>1. pending' = pending /\ next_id' = next_id /\ now' = now + 1 /\ calls' = calls
  BY DEF Tick
<1>2. now \in Nat /\ now' \in Nat /\ now' <= U64Max
  BY <1>1 DEF Tick, QueueAssumption, QueueInv, TimersInv
<1>3. TimersInv'
  BY <1>1, <1>2 DEF QueueInv, TimersInv
<1>4. ASSUME NEW i \in 1..Len(calls) PROVE calls[i].seen \in Nat
  <2>1. calls[i] \in Calls
    BY DEF QueueInv
  <2>. QED BY <2>1 DEF Calls
<1>5. \A i \in 1..Len(calls) : CallInv(calls[i], pending, next_id, now + 1)
  BY <1>2, <1>4 DEF QueueInv, CallInv
<1>. QED BY <1>1, <1>3, <1>5 DEF QueueInv

LEMMA NextKeeps == ASSUME QueueAssumption, QueueInv, [Next]_vars PROVE QueueInv'
<1>1. CASE \E delay \in 0..U64Max : Add(delay)
  BY <1>1, AddKeeps
<1>2. CASE \E t \in pending : Cancel(t) \/ FirePop(t)
  BY <1>2, CancelKeeps, FirePopKeeps
<1>3. CASE UNCHANGED vars
  BY <1>3 DEF vars, QueueInv, TimersInv
<1>. QED
  BY <1>1, <1>2, <1>3, FireBeginKeeps, CallbackReturnKeeps, FireEndKeeps, TickKeeps DEF Next

-----------------------------------------------------------------------------
(* Theorems. *)

\* Every open kl_timer_fire call has fired no more than the timers that were pending when it
\* began less the ones of them that are still pending, and no timer added since then is due
\* before the call began.
THEOREM QueueInvariant == ASSUME QueueAssumption PROVE Spec => []QueueInv
<1>1. Init => QueueInv
  <2>1. ASSUME Init PROVE IsFiniteSet(pending) /\ calls \in Seq(Calls) /\ Len(calls) = 0
    BY <2>1, FS_EmptySet DEF Init
  <2>. QED BY <2>1 DEF Init, QueueInv, TimersInv, QueueAssumption
<1>2. QueueInv /\ [Next]_vars => QueueInv'
  BY NextKeeps
<1>. QED BY <1>1, <1>2, PTL DEF Spec

\* timer.h: "a callback that re-adds itself cannot keep one tick from returning".  A
\* kl_timer_fire call fires no more timers than were pending when it began, however its
\* callbacks add, cancel and nest.
THEOREM TimerCallIsBounded == ASSUME QueueAssumption PROVE Spec => []CallIsBounded
<1>1. QueueInv => CallIsBounded
  <2>1. SUFFICES ASSUME QueueInv, NEW i \in 1..Len(calls) PROVE calls[i].fired <= calls[i].entry
    BY DEF CallIsBounded
  <2>2. calls[i] \in Calls /\ CallInv(calls[i], pending, next_id, now)
    BY <2>1 DEF QueueInv
  <2>3. IsFiniteSet(Older(pending, calls[i].watermark))
    BY <2>1, FS_Subset DEF QueueInv, TimersInv, Older
  <2>4. Cardinality(Older(pending, calls[i].watermark)) \in Nat
    BY <2>3, FS_CardinalityType
  <2>. QED BY <2>2, <2>4 DEF CallInv, Calls
<1>. QED BY <1>1, QueueInvariant, PTL

\* timer.c, at the watermark: a call that returns has fired every timer that was pending and
\* due when it began, though it stops at the first timer newer than itself.
THEOREM TimerFiresAllDue == ASSUME QueueAssumption PROVE Spec => FiresAllDue
<1>1. ASSUME QueueInv, [Next]_vars PROVE [FiringStep]_vars
  <2>1. SUFFICES ASSUME Len(calls') < Len(calls), NEW t \in pending, t.id < Head(calls).watermark
                 PROVE  t.deadline > Head(calls).began
    BY DEF FiringStep
  <2>2. FireEnd
    <3>1. calls \in Seq(Calls) /\ Len(calls) \in Nat
      BY <1>1 DEF QueueInv
    <3>2. ASSUME FireBegin PROVE FALSE
      <4>1. NewCall \in Calls
        BY <1>1, NewCallShape
      <4>2. Len(<<NewCall>> \o calls) = 1 + Len(calls)
        BY <3>1, <4>1
      <4>. QED BY <2>1, <3>1, <3>2, <4>2 DEF FireBegin
    <3>3. ASSUME CallbackReturn \/ \E u \in pending : FirePop(u) PROVE FALSE
      BY <2>1, <3>1, <3>3 DEF CallbackReturn, FirePop
    <3>4. ASSUME calls' = calls PROVE FALSE
      BY <2>1, <3>1, <3>4
    <3>. QED BY <1>1, <3>2, <3>3, <3>4 DEF Next, Add, Cancel, Tick, vars
  <2>3. PICK u \in pending : Earliest(u)
    BY <1>1, <2>1, EarliestExists DEF QueueInv
  <2>. DEFINE c == Head(calls)
  <2>4. c \in Calls /\ CallInv(c, pending, next_id, now)
    BY <1>1, <2>2 DEF FireEnd, QueueInv
  <2>5. c.watermark \in Nat /\ c.seen \in Nat /\ c.began \in Nat /\ c.began <= c.seen
    BY <2>4 DEF Calls, CallInv
  <2>9. t.deadline \in Nat /\ t.id \in Nat /\ u.deadline \in Nat /\ u.id \in Nat
    BY <1>1, <2>1 DEF QueueInv, TimersInv
  <2>12. ~Due(u)
    BY <2>2, <2>3 DEF FireEnd
  <2>6. u.deadline > c.seen \/ u.id >= c.watermark
    BY <2>5, <2>9, <2>12 DEF Due
  <2>7. u = t \/ Before(u, t)
    BY <2>1, <2>3 DEF Earliest
  <2>8. u.id >= c.watermark => u.deadline >= c.began
    BY <2>4 DEF CallInv
  <2>. HIDE DEF c
  <2>10. t.id < c.watermark
    BY <2>1 DEF c
  <2>11. t.deadline > c.began
    BY <2>5, <2>6, <2>7, <2>8, <2>9, <2>10 DEF Before
  <2>. QED BY <2>11 DEF c
<1>. QED BY <1>1, QueueInvariant, PTL DEF Spec, FiresAllDue

\* kl_timer_add: a delay too long for the clock saturates, so no timer is born expired.
THEOREM TimerNoPastDeadline == ASSUME QueueAssumption PROVE Spec => NoPastDeadline
<1>1. ASSUME QueueInv, [Next]_vars PROVE [DeadlineStep]_vars
  <2>1. ASSUME NEW delay \in 0..U64Max, Add(delay) PROVE DeadlineStep
    <3>1. Deadline(delay) >= now
      BY <1>1, DeadlineAhead DEF QueueInv
    <3>2. Entry(delay).deadline = Deadline(delay) /\ pending' = pending \cup {Entry(delay)}
      BY <2>1 DEF Add, Entry
    <3>. QED BY <3>1, <3>2 DEF DeadlineStep
  <2>2. ASSUME pending' \subseteq pending PROVE DeadlineStep
    BY <2>2 DEF DeadlineStep
  <2>. QED
    BY <1>1, <2>1, <2>2 DEF Next, Cancel, FirePop, FireBegin, CallbackReturn, FireEnd, Tick
<1>. QED BY <1>1, QueueInvariant, PTL DEF Spec, NoPastDeadline
=============================================================================
