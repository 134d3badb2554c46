-------------------------------- MODULE Timer -------------------------------
(***************************************************************************)
(* The timer heap (src/timer.c): a binary min-heap in an array, with the   *)
(* linear-scan cancel that moves the last entry into the hole.  It is shown*)
(* to implement TimerQueue.  Entry i of the C array is timers[i + 1].      *)
(***************************************************************************)
EXTENDS Integers, Sequences, SequencesExt

CONSTANTS U64Max, MaxTime, MaxId, MaxCalls,
    IntMax      \* INT_MAX: the largest timeout

TimerAssumption ==
    /\ U64Max \in Nat /\ MaxTime \in 0..U64Max
    /\ MaxId \in Nat /\ MaxCalls \in Nat /\ IntMax \in Nat

VARIABLES timers, next_id, now, calls

vars == <<timers, next_id, now, calls>>

Q == INSTANCE TimerQueue WITH pending <- ToSet(timers)

Swap(h, i, j) == [h EXCEPT ![i] = h[j], ![j] = h[i]]

RECURSIVE SiftUp(_, _)
SiftUp(h, i) ==
    IF i > 1 /\ Q!Before(h[i], h[i \div 2]) THEN SiftUp(Swap(h, i, i \div 2), i \div 2) ELSE h

RECURSIVE SiftDown(_, _)
SiftDown(h, i) ==
    LET children == {c \in {2 * i, 2 * i + 1} : c <= Len(h) /\ Q!Before(h[c], h[i])}
        least == CHOOSE c \in children : \A d \in children : c = d \/ Q!Before(h[c], h[d])
    IN IF children = {} THEN h ELSE SiftDown(Swap(h, i, least), least)

MutDropEntry(h, i) ==
    LET h1 == Front(h)
    IN IF i > Len(h1) THEN h1 ELSE SiftDown([h1 EXCEPT ![i] = Last(h)], i)

\* Move the last entry into the hole, then fix the heap in both directions.
DropEntry(h, i) ==
    LET h1 == Front(h)
    IN IF i > Len(h1) THEN h1 ELSE SiftDown(SiftUp([h1 EXCEPT ![i] = Last(h)], i), i)

-----------------------------------------------------------------------------

Init == timers = <<>> /\ next_id = 0 /\ now = 0 /\ calls = <<>>

Add(delay) ==
    /\ Q!MayCall /\ next_id < MaxId
    /\ timers' = SiftUp(Append(timers, Q!Entry(delay)), Len(timers) + 1)
    /\ next_id' = next_id + 1
    /\ UNCHANGED <<now, calls>>

Cancel(id) ==
    /\ Q!MayCall
    /\ \E i \in 1..Len(timers) : timers[i].id = id /\ timers' = DropEntry(timers, i)
    /\ UNCHANGED <<next_id, now, calls>>

FireBegin ==
    /\ Q!MayCall /\ Len(calls) < MaxCalls
    /\ calls' = <<Q!NewCall>> \o calls
    /\ UNCHANGED <<timers, next_id, now>>

RootDue == timers # <<>> /\ Q!Due(timers[1])

FirePop ==
    /\ calls # <<>> /\ ~Head(calls).in_cb
    /\ RootDue
    /\ timers' = DropEntry(timers, 1)
    /\ calls' = [calls EXCEPT ![1].in_cb = TRUE, ![1].fired = @ + 1]
    /\ UNCHANGED <<next_id, now>>

CallbackReturn ==
    /\ calls # <<>> /\ Head(calls).in_cb
    /\ calls' = [calls EXCEPT ![1].in_cb = FALSE, ![1].seen = now]
    /\ UNCHANGED <<timers, next_id, now>>

FireEnd ==
    /\ calls # <<>> /\ ~Head(calls).in_cb
    /\ ~RootDue
    /\ calls' = Tail(calls)
    /\ UNCHANGED <<timers, next_id, now>>

Tick ==
    /\ now < MaxTime
    /\ now' = now + 1
    /\ UNCHANGED <<timers, next_id, calls>>

Fire == FirePop \/ CallbackReturn \/ FireEnd

Next ==
    \/ \E delay \in 0..U64Max : Add(delay)
    \/ \E id \in 0..MaxId : Cancel(id)
    \/ FireBegin
    \/ Fire
    \/ Tick

Spec == Init /\ [][Next]_vars

MutNextTimeout(max_ms) ==
    IF timers = <<>> THEN max_ms
    ELSE LET rem == timers[1].deadline - now
         IN IF rem <= 0 THEN 0 ELSE IF max_ms < 0 \/ rem < max_ms THEN rem ELSE max_ms

\* kl_timer_next_timeout.
NextTimeout(max_ms) ==
    IF timers = <<>> THEN max_ms
    ELSE LET rem == timers[1].deadline - now
         IN IF rem <= 0 THEN 0
            ELSE IF max_ms < 0 THEN IF rem > IntMax THEN IntMax ELSE rem
            ELSE IF rem < max_ms THEN rem ELSE max_ms

-----------------------------------------------------------------------------
(* Properties. *)

\* The heap is a faithful implementation of the set: every call pops the earliest timer,
\* and cancels and additions from callbacks keep it so.
RefinesQueue == Q!Spec

\* No timer is due before its parent, also where a cancel moved the last entry to another
\* branch: what the next pops rely on.
HeapOrdered == \A i \in 2..Len(timers) : Q!Before(timers[i \div 2], timers[i])

\* kl_event_ctx_run never sleeps past any timer, and does not spin while none is due.
NeverOversleeps ==
    \A max_ms \in -1..IntMax :
        LET wait == NextTimeout(max_ms)
        IN /\ timers # <<>> => wait \in 0..IntMax
           /\ \A t \in ToSet(timers) : wait > 0 => now + wait <= t.deadline
           /\ wait = 0 /\ max_ms # 0 => \E t \in ToSet(timers) : t.deadline <= now

\* What the queue promises of one kl_timer_fire call, and of the deadlines.
CallIsBounded == Q!CallIsBounded
FiresAllDue == Q!FiresAllDue
NoPastDeadline == Q!NoPastDeadline
=============================================================================
