----------------------------- MODULE TimerQueue -----------------------------
(***************************************************************************)
(* What the timers of an event context promise (include/keel/timer.h),     *)
(* with the pending timers as a plain set: one-shot timers fire at or after*)
(* their deadline, earliest deadline first and in order of addition on a   *)
(* tie; callbacks may add and cancel timers and run a nested tick.         *)
(***************************************************************************)
EXTENDS Naturals, Sequences, FiniteSets

CONSTANTS
    U64Max,     \* UINT64_MAX
    MaxTime,    \* bound: the clock
    MaxId,      \* bound: timers ever added
    MaxCalls    \* bound: nested kl_timer_fire calls

QueueAssumption == U64Max \in Nat /\ MaxTime \in 0..U64Max

VARIABLES
    pending,    \* timers [deadline, id] not yet fired or cancelled
    next_id,    \* timer_next_id
    now,        \* kl_monotonic_ms
    calls       \* open kl_timer_fire calls, innermost first

vars == <<pending, next_id, now, calls>>

MutBefore(a, b) == a.deadline < b.deadline \/ (a.deadline = b.deadline /\ a.id > b.id)

\* heap_before: earlier deadline first, the older timer on a tie.
Before(a, b) == a.deadline < b.deadline \/ (a.deadline = b.deadline /\ a.id < b.id)

Earliest(t) == t \in pending /\ \A u \in pending : u = t \/ Before(t, u)

Init == pending = {} /\ next_id = 0 /\ now = 0 /\ calls = <<>>

\* Timer calls come from outside kl_timer_fire or from one of its callbacks.
MayCall == calls # <<>> => Head(calls).in_cb

MutDeadline(delay) == (now + delay) % (U64Max + 1)

\* A delay meaning "never" saturates rather than wrapping into the past.
Deadline(delay) == IF delay > U64Max - now THEN U64Max ELSE now + delay

\* A new timer: ids are handed out in order and never reused.
Entry(delay) == [deadline |-> Deadline(delay), id |-> next_id]

Add(delay) ==
    /\ MayCall /\ next_id < MaxId
    /\ pending' = pending \cup {Entry(delay)}
    /\ next_id' = next_id + 1
    /\ UNCHANGED <<now, calls>>

Cancel(t) ==
    /\ MayCall /\ t \in pending
    /\ pending' = pending \ {t}
    /\ UNCHANGED <<next_id, now, calls>>

\* A kl_timer_fire call.  began, entry and fired are ghosts: when it began, how many timers
\* were pending then, how many it has fired.
NewCall ==
    [watermark |-> next_id, seen |-> now, in_cb |-> FALSE,
     began |-> now, entry |-> Cardinality(pending), fired |-> 0]

FireBegin ==
    /\ MayCall /\ Len(calls) < MaxCalls
    /\ calls' = <<NewCall>> \o calls
    /\ UNCHANGED <<pending, next_id, now>>

MutDue(t) == t.deadline <= Head(calls).seen

Due(t) == t.deadline <= Head(calls).seen /\ t.id < Head(calls).watermark

\* Pop the earliest timer and run its callback.
FirePop(t) ==
    /\ calls # <<>> /\ ~Head(calls).in_cb
    /\ Earliest(t) /\ Due(t)
    /\ pending' = pending \ {t}
    /\ calls' = [calls EXCEPT ![1].in_cb = TRUE, ![1].fired = @ + 1]
    /\ UNCHANGED <<next_id, now>>

\* The clock is read again after each callback.
CallbackReturn ==
    /\ calls # <<>> /\ Head(calls).in_cb
    /\ calls' = [calls EXCEPT ![1].in_cb = FALSE, ![1].seen = now]
    /\ UNCHANGED <<pending, next_id, now>>

FireEnd ==
    /\ calls # <<>> /\ ~Head(calls).in_cb
    /\ \A t \in pending : Earliest(t) => ~Due(t)
    /\ calls' = Tail(calls)
    /\ UNCHANGED <<pending, next_id, now>>

Tick ==
    /\ now < MaxTime
    /\ now' = now + 1
    /\ UNCHANGED <<pending, next_id, calls>>

Next ==
    \/ \E delay \in 0..U64Max : Add(delay)
    \/ \E t \in pending : Cancel(t) \/ FirePop(t)
    \/ FireBegin
    \/ CallbackReturn
    \/ FireEnd
    \/ Tick

Spec == Init /\ [][Next]_vars

-----------------------------------------------------------------------------
(* Properties. *)

\* Timers have distinct ids below next_id, and deadlines that fit.
TypeOK ==
    /\ pending \subseteq [deadline : 0..U64Max, id : 0..next_id]
    /\ \A t, u \in pending : t.id = u.id => t = u
    /\ next_id \in 0..MaxId /\ now \in 0..MaxTime

\* timer.h: "a callback that re-adds itself cannot keep one tick from returning": a call
\* fires no more timers than were pending when it began, nested calls included.
CallIsBounded == \A i \in 1..Len(calls) : calls[i].fired <= calls[i].entry

\* timer.c, at the watermark: a call that stops at a new timer has fired every older one
\* that was due when it began.
FiringStep ==
    Len(calls') < Len(calls) =>
        \A t \in pending : t.id < Head(calls).watermark => t.deadline > Head(calls).began
FiresAllDue == [][FiringStep]_vars

\* A timer never gets a deadline in the past, whatever its delay.
DeadlineStep == \A t \in pending' \ pending : t.deadline >= now
NoPastDeadline == [][DeadlineStep]_vars
=============================================================================
