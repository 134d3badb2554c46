------------------------------ MODULE Listener ------------------------------
(***************************************************************************)
(* KlListener (src/listener.c): keep up to `window` accepts posted, one    *)
(* pool credit each, hand every accepted value off with its credit as a    *)
(* lease, and detach once every posted accept has retired.                 *)
(*                                                                         *)
(* Reserve, release, arm, cancel, on_accept and dispose hooks may re-enter,*)
(* so the open hook frames <<name, what follows>> are kept in `stack`.     *)
(* reserve == NULL behaves as a pool that never runs out.  The fd and the  *)
(* object handoff families share every line and are one value here.        *)
(***************************************************************************)
EXTENDS Integers, Sequences, FiniteSets

CONSTANTS
    Credits,        \* capacity of the connection pool
    MaxWindow,      \* largest accept window
    MaxSpurious     \* bound: accepted values reported with nothing posted

ListenerAssumption ==
    /\ Credits \in Nat /\ MaxWindow \in Nat \ {0} /\ MaxSpurious \in Nat

VARIABLES
    l,       \* struct KlListener
    stack,   \* open hook frames, innermost first
    pool,    \* credits free, leases held by connections
    prov     \* the adapter: accepts posted, interest armed, values it handed over

vars == <<l, stack, pool, prov>>

Modes == {m \in BOOLEAN \X (1..MaxWindow) \X BOOLEAN : m[1] \/ m[2] = 1}

\* kl_listener_init and kl_listener_set_accept_window: a readiness window is 1.
InitListener(completion, window, cancel) ==
    [state |-> "IDLE", completion_mode |-> completion, window |-> window,
     cancel_accept |-> cancel, inflight |-> 0, accept_cancel_requested |-> FALSE,
     pumping |-> FALSE, pump_pending |-> FALSE, in_start |-> 0, in_dispatch |-> 0,
     detached |-> FALSE]

\* armed: what the open arm hook did with its post; held: accepted values the listener
\* has neither handed off nor disposed of; retry: a post asked to be retried, and since
\* then neither has a slot been announced nor an accept retired.
InitProv ==
    [posted |-> 0, interest |-> FALSE, armed |-> "none", retry |-> FALSE,
     held |-> 0, spurious |-> 0]

Init ==
    /\ \E m \in Modes : l = InitListener(m[1], m[2], m[3])
    /\ stack = <<>>
    /\ pool = [credits |-> Credits, leases |-> 0]
    /\ prov = InitProv

Idle == stack = <<>>
Top(names) == stack # <<>> /\ Head(stack)[1] \in names
Push(name, then, k) == <<<<name, then>>>> \o k

Closing(s) == s.state \in {"CLOSING", "CLOSED"}

-----------------------------------------------------------------------------
(* Shared code: each operator ends the current activation. *)

MutCanDetach(s) ==
    /\ s.state = "CLOSING" /\ s.in_start = 0 /\ ~s.detached
    /\ s.inflight = 0

CanDetach(s) ==
    /\ s.state = "CLOSING" /\ s.in_start = 0 /\ s.in_dispatch = 0 /\ ~s.detached
    /\ s.inflight = 0

\* l_finalize.
Finalize(s, k, c, p) ==
    /\ IF CanDetach(s)
       THEN l' = [s EXCEPT !.state = "CLOSED", !.detached = TRUE] /\ stack' = Push("on_close", "", k)
       ELSE l' = s /\ stack' = k
    /\ pool' = c /\ prov' = p

\* l_release_credit: the pool has its credit back when the hook starts to re-enter.
Release(s, then, k, c, p) ==
    /\ l' = [s EXCEPT !.in_dispatch = @ + 1]
    /\ stack' = Push("release", then, k)
    /\ pool' = [c EXCEPT !.credits = @ + 1]
    /\ prov' = p

\* l_dispose.
Dispose(s, k, c, p) ==
    /\ l' = [s EXCEPT !.in_dispatch = @ + 1]
    /\ stack' = Push("dispose", "", k)
    /\ pool' = c
    /\ prov' = [p EXCEPT !.held = @ - 1]

MutCloseLoop(s, k, c, p) == Finalize([s EXCEPT !.inflight = 0], k, c, p)

\* The readiness loop of l_begin_close that returns every posted accept's credit.
CloseLoop(s, k, c, p) ==
    IF s.inflight > 0 THEN Release([s EXCEPT !.inflight = @ - 1], "close_loop", k, c, p)
    ELSE Finalize(s, k, c, p)

\* l_begin_close.
BeginClose(s, k, c, p) ==
    LET o == [s EXCEPT !.state = "CLOSING"]
    IN IF s.state = "CLOSED" THEN l' = s /\ stack' = k /\ pool' = c /\ prov' = p
       ELSE IF s.state = "CLOSING" \/ s.inflight = 0 THEN Finalize(o, k, c, p)
       ELSE IF ~s.completion_mode THEN CloseLoop(o, k, c, [p EXCEPT !.interest = FALSE])
       ELSE IF s.cancel_accept /\ ~s.accept_cancel_requested
       THEN /\ l' = [o EXCEPT !.accept_cancel_requested = TRUE, !.in_dispatch = @ + 1]
            /\ stack' = Push("cancel", "", k)
            /\ pool' = c /\ prov' = p
       ELSE Finalize(o, k, c, p)

BelowWindow(s) == s.state = "LISTENING" /\ s.inflight < s.window

\* l_pump: the inner loop's head.  Leaving it with pump_pending set would only test the
\* same condition again.
PumpLoop(s, k, c, p) ==
    IF BelowWindow(s)
    THEN /\ l' = [s EXCEPT !.in_dispatch = @ + 1]
         /\ stack' = Push("reserve", "", k)
         /\ pool' = c /\ prov' = p
    ELSE Finalize([s EXCEPT !.pump_pending = FALSE], k, c, p)

\* A break out of the inner loop: another round if one was requested meanwhile.
PumpBreak(s, k, c, p) ==
    IF s.pump_pending THEN PumpLoop([s EXCEPT !.pump_pending = FALSE], k, c, p)
    ELSE Finalize(s, k, c, p)

Pump(s, k, c, p) ==
    IF s.pumping
    THEN l' = [s EXCEPT !.pump_pending = TRUE] /\ stack' = k /\ pool' = c /\ prov' = p
    ELSE PumpLoop([s EXCEPT !.pump_pending = FALSE], k, c, p)

\* Nothing posted and nothing to post: pause, and drop a readiness interest.
Pause(s) == IF s.inflight = 0 /\ s.state = "LISTENING" THEN [s EXCEPT !.state = "PAUSED"] ELSE s
Paused(s, p) ==
    IF s.inflight = 0 /\ s.state = "LISTENING" /\ ~s.completion_mode
    THEN [p EXCEPT !.interest = FALSE] ELSE p

-----------------------------------------------------------------------------
(* Entry points. *)

Start ==
    /\ Idle /\ l.state = "IDLE"
    /\ Pump([l EXCEPT !.state = "LISTENING"], stack, pool, prov)

\* Where a posted accept may complete: the loop, inside the batch cancel, inline in arm.
\* An inline completion retires the accept the hook is posting.
Completes ==
    \/ l.completion_mode /\ prov.posted > 0 /\ (Idle \/ Top({"cancel"}))
    \/ ~l.completion_mode /\ prov.interest /\ l.inflight > 0 /\ Idle
    \/ Top({"arm"}) /\ prov.armed = "none" /\ ~Closing(l)

Completed ==
    IF Top({"arm"}) THEN [prov EXCEPT !.armed = "done"]
    ELSE IF l.completion_mode THEN [prov EXCEPT !.posted = @ - 1, !.retry = FALSE]
    ELSE [prov EXCEPT !.retry = FALSE]

MutOnAccepted ==
    /\ Completes /\ l.inflight > 0
    /\ LET s == [l EXCEPT !.inflight = @ - 1]
       IN IF Closing(s) THEN Release(s, "failed", stack, pool, [Completed EXCEPT !.held = @ + 1])
          ELSE /\ l' = [s EXCEPT !.in_dispatch = @ + 1]
               /\ stack' = Push("on_accept", "", stack)
               /\ pool' = [pool EXCEPT !.leases = @ + 1]
               /\ prov' = Completed

\* l_on_accepted: hand off with the credit as a lease, or return the credit and dispose.
OnAccepted ==
    /\ Completes /\ l.inflight > 0
    /\ LET s == [l EXCEPT !.inflight = @ - 1]
       IN IF Closing(s) THEN Release(s, "dispose", stack, pool, [Completed EXCEPT !.held = @ + 1])
          ELSE /\ l' = [s EXCEPT !.in_dispatch = @ + 1]
               /\ stack' = Push("on_accept", "", stack)
               /\ pool' = [pool EXCEPT !.leases = @ + 1]
               /\ prov' = Completed

SpuriousAccepted ==
    /\ Idle /\ l.inflight = 0 /\ l.state # "IDLE" /\ ~l.detached
    /\ prov.spurious < MaxSpurious
    /\ Dispose(l, stack, pool, [prov EXCEPT !.held = @ + 1, !.spurious = @ + 1])

OnAcceptFailed ==
    /\ Completes /\ l.inflight > 0
    /\ Release([l EXCEPT !.inflight = @ - 1], "failed", stack, pool, Completed)

\* The slot announced is not the credit that a post to be retried is just giving back.
Announced ==
    IF Top({"release"}) /\ Head(stack)[2] = "retry" THEN prov
    ELSE [prov EXCEPT !.retry = FALSE]

\* kl_listener_notify_slot_free.
Notify(s, c) ==
    LET o == IF s.state = "PAUSED" THEN [s EXCEPT !.state = "LISTENING"] ELSE s
    IN IF o.state = "LISTENING" THEN Pump(o, stack, c, Announced)
       ELSE l' = s /\ stack' = stack /\ pool' = c /\ prov' = Announced

\* The periodic sweep, and a pool whose release hook announces the slot it got back.
NotifySlotFree == (Idle \/ Top({"release"})) /\ Notify(l, pool)

\* kl_slot_lease_release by the owner of a connection, perhaps inside on_accept.
LeaseRelease ==
    /\ Idle \/ Top({"on_accept"})
    /\ pool.leases > 0
    /\ Notify(l, [credits |-> pool.credits + 1, leases |-> pool.leases - 1])

\* kl_listener_close, from the loop or from a hook that may re-enter (an arm hook that then
\* fails its post is assumed away).
Close ==
    /\ ~l.detached
    /\ \/ Idle \/ Top({"reserve", "release", "on_accept", "dispose", "cancel"})
       \/ Top({"arm"}) /\ prov.armed # "none"
    /\ BeginClose(l, stack, pool, prov)

-----------------------------------------------------------------------------
(* Hooks return to their callers. *)

Guarded == [l EXCEPT !.in_dispatch = @ - 1]

\* r: 1 reserved, 0 no credit, -1 pool error.
ReserveReturn(r) ==
    /\ Top({"reserve"})
    /\ (r = 1) => pool.credits > 0
    /\ (r = 0) => pool.credits = 0
    /\ LET s == Guarded
           k == Tail(stack)
           c == [pool EXCEPT !.credits = @ - 1]
       IN IF r = -1 THEN BeginClose([s EXCEPT !.pump_pending = FALSE], k, pool, prov)
          ELSE IF s.state # "LISTENING"
          THEN IF r = 1 THEN Release(s, "break", k, c, prov) ELSE PumpBreak(s, k, pool, prov)
          ELSE IF r = 0 THEN PumpBreak(Pause(s), k, pool, Paused(s, prov))
          ELSE /\ l' = [s EXCEPT !.inflight = @ + 1, !.pumping = TRUE, !.in_start = @ + 1]
               /\ stack' = Push("arm", s.inflight, k)
               /\ pool' = c
               /\ prov' = [prov EXCEPT !.armed = "none", !.retry = FALSE]

\* Inside the arm hook: the accept is posted, or the readiness interest asserted.
ArmPost ==
    /\ Top({"arm"}) /\ prov.armed = "none" /\ ~Closing(l)
    /\ prov' = IF l.completion_mode
               THEN [prov EXCEPT !.armed = "posted", !.posted = @ + 1]
               ELSE [prov EXCEPT !.armed = "posted", !.interest = TRUE]
    /\ UNCHANGED <<l, stack, pool>>

Posted(rc) == rc = "ok"

\* rc: 0, KL_LISTENER_ARM_RETRY or a hard failure.  The pump infers an inline completion
\* from the posted count being back at its value before the post.
ArmReturn(rc) ==
    /\ Top({"arm"})
    /\ (rc = "ok") <=> (prov.armed # "none")
    /\ LET before == Head(stack)[2]
           k == Tail(stack)
           s == [l EXCEPT !.in_start = @ - 1, !.pumping = FALSE]
       IN IF s.inflight = before \/ Posted(rc) THEN PumpLoop(s, k, pool, prov)
          ELSE Release([s EXCEPT !.inflight = before, !.pumping = TRUE], rc, k, pool,
                       [prov EXCEPT !.retry = rc = "retry"])

MutAfterArmFailure(s) == [s EXCEPT !.pump_pending = FALSE]

\* A notification made by the release of a failed post is dropped with the pump flag.
AfterArmFailure(s) == [s EXCEPT !.pumping = FALSE, !.pump_pending = FALSE]

ReleaseReturn ==
    /\ Top({"release"})
    /\ LET s == Guarded
           k == Tail(stack)
           f == AfterArmFailure(s)
           then == Head(stack)[2]
       IN CASE then = "failed" ->
                 IF Closing(s) THEN Finalize(s, k, pool, prov) ELSE Pump(s, k, pool, prov)
            [] then = "dispose" -> Dispose(s, k, pool, prov)
            [] then = "close_loop" -> CloseLoop(s, k, pool, prov)
            [] then = "break" -> PumpBreak(s, k, pool, prov)
            [] then = "retry" -> PumpBreak(Pause(f), k, pool, Paused(f, prov))
            [] then = "hard" -> BeginClose(f, k, pool, prov)

OnAcceptReturn == Top({"on_accept"}) /\ Pump(Guarded, Tail(stack), pool, prov)

DisposeReturn == Top({"dispose"}) /\ Finalize(Guarded, Tail(stack), pool, prov)

MutCancelReturn ==
    /\ Top({"cancel"})
    /\ l' = Guarded
    /\ stack' = Tail(stack)
    /\ UNCHANGED <<pool, prov>>

CancelReturn == Top({"cancel"}) /\ Finalize(Guarded, Tail(stack), pool, prov)

CloseReturn == Top({"on_close"}) /\ stack' = Tail(stack) /\ UNCHANGED <<l, pool, prov>>

\* The storage is initialised again; leases of the earlier listener are still out.
Reuse ==
    /\ Idle /\ l.detached
    /\ \E m \in Modes : l' = InitListener(m[1], m[2], m[3])
    /\ prov' = InitProv
    /\ UNCHANGED <<stack, pool>>

Returns ==
    \/ \E r \in {-1, 0, 1} : ReserveReturn(r)
    \/ \E rc \in {"ok", "retry", "hard"} : ArmReturn(rc)
    \/ ReleaseReturn
    \/ OnAcceptReturn
    \/ DisposeReturn
    \/ CancelReturn
    \/ CloseReturn

Accepts == OnAccepted \/ OnAcceptFailed

Next ==
    \/ Start
    \/ Accepts
    \/ SpuriousAccepted
    \/ NotifySlotFree
    \/ LeaseRelease
    \/ Close
    \/ ArmPost
    \/ Returns
    \/ Reuse

Spec == Init /\ [][Next]_vars

\* Hooks return, and a posted accept completes once its cancel was requested: whether
\* another one ever does is up to the peers.
CancelledAccepts == Idle /\ l.accept_cancel_requested /\ Accepts

FairSpec == Spec /\ WF_vars(Returns) /\ WF_vars(CancelledAccepts)

-----------------------------------------------------------------------------
(* Properties. *)

\* Field types; at most `window` accepts are counted as posted.
TypeOK ==
    /\ l.state \in {"IDLE", "LISTENING", "PAUSED", "CLOSING", "CLOSED"}
    /\ l.inflight \in 0..l.window
    /\ l.in_start \in Nat /\ l.in_dispatch \in Nat
    /\ pool \in [credits : 0..Credits, leases : 0..Credits]
    /\ prov.posted \in Nat /\ prov.held \in Nat

\* listener.h: on_close comes only after every posted accept has retired.
DetachedIsRetired == l.detached => prov.posted = 0

\* docs/contracts/stream.md:213: on_close never runs on top of another hook's frame.
DetachNotMidCallback ==
    \A i \in 1..Len(stack) : stack[i][1] = "on_close" => i = Len(stack)

\* What makes it safe to free the listener in on_close.
CloseDiscipline == TypeOK /\ DetachedIsRetired /\ DetachNotMidCallback

\* No path loses or doubles a credit: each is free, held by a lease or by a posted accept,
\* and back in the loop inflight counts exactly the accepts the adapter holds.
CreditsConserved ==
    /\ pool.credits + pool.leases + l.inflight = Credits
    /\ Idle => IF l.completion_mode THEN l.inflight = prov.posted
               ELSE l.inflight > 0 => prov.interest

\* Back in the loop a live listener is short of its window only for want of a credit, or
\* after a post that asked to be retried and before the next slot or retired accept: no
\* notification is lost, however deeply it was nested.  With nothing posted it is paused.
NoLostCredit ==
    Idle /\ l.state \in {"LISTENING", "PAUSED"} /\ l.inflight < l.window =>
        /\ pool.credits = 0 \/ prov.retry
        /\ l.inflight = 0 => l.state = "PAUSED"

\* Every accepted value is handed off or disposed of, never both and never neither.
EveryValueOwned ==
    prov.held = Cardinality({i \in 1..Len(stack) : stack[i] = <<"release", "dispose">>})

\* A close that begins reaches on_close: at once when its accepts can be cancelled or are
\* only an interest, otherwise once the posted ones have completed by themselves.
CloseBegun ==
    l.state = "CLOSING" /\ (l.cancel_accept \/ ~l.completion_mode \/ prov.posted = 0)
Detached == l.detached
CloseCompletes == CloseBegun ~> Detached
=============================================================================
