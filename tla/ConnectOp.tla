----------------------------- MODULE ConnectOp ------------------------------
(***************************************************************************)
(* KlConnectOp (src/connect_op.c): resolve a name, race the addresses with *)
(* a staggered start (RFC 8305), report one result, and detach once every  *)
(* operation and timer has physically retired.                             *)
(*                                                                         *)
(* Every hook may complete inline and re-enter, so the model keeps the open*)
(* hook frames in `stack`, innermost first; what a frame's caller does next*)
(* is the frame's Return action.  All callers end in co_finalize.          *)
(* Operation 0 is the resolve, operation i the attempt at address i - 1.   *)
(***************************************************************************)
EXTENDS Naturals, Sequences, FiniteSets

CONSTANTS
    N,               \* KL_CONNECT_MAX_ADDRS
    MaxSpurious      \* bound: connected descriptors reported for an inactive slot

ConnectAssumption ==
    N \in Nat \ {0} /\ MaxSpurious \in Nat

VARIABLES
    op,       \* struct KlConnectOp
    stack,    \* open hook frames <<name, operation, in_dispatch levels to leave>>
    prov      \* the adapter: operations and timers it holds, and what it was told

vars == <<op, stack, prov>>

Resolve == 0
Addrs == 1..N
Ops == 0..N
CancelHooks == {{}, {Resolve}, Addrs, Ops}

\* kl_connect_op_init: which optional hooks are set is part of the state; cancel_hooks holds
\* the operations that have a cancel hook (cancel_resolve, cancel_attempt).
InitOp(delay, deadline, cancels) ==
    [state |-> "IDLE", terminal |-> FALSE, detached |-> FALSE, result |-> "NONE",
     resolve_inflight |-> FALSE, naddrs |-> 0, next_idx |-> 0, pending |-> 0,
     attempt_active |-> {}, cancel_requested |-> {},
     delay_armed |-> FALSE, deadline_armed |-> FALSE, in_start |-> 0, in_dispatch |-> 0,
     arm_delay |-> delay, arm_deadline |-> deadline, cancel_hooks |-> cancels]

\* cancels counts the cancel requests per operation; connected descriptors were won
\* by on_done or disposed of.
InitProv ==
    [ops |-> {}, delay |-> FALSE, deadline |-> FALSE, done |-> 0, detached |-> 0,
     connected |-> 0, spurious |-> 0, won |-> 0, disposed |-> 0,
     cancels |-> [i \in Ops |-> 0]]

Init ==
    /\ \E d, e \in BOOLEAN, c \in CancelHooks : op = InitOp(d, e, c)
    /\ stack = <<>>
    /\ prov = InitProv

Idle == stack = <<>>
Top(names) == stack # <<>> /\ Head(stack)[1] \in names
Push(name, i, d, k) == <<<<name, i, d>>>> \o k

\* Where the machine may be re-entered: the event loop, and the hooks the code guards.
Reentrant == Idle \/ Top({"on_done", "cancel", "dispose_fd"})

-----------------------------------------------------------------------------
(* Shared code: each operator ends the current activation. *)

MutCanDetach(o) ==
    /\ o.terminal /\ ~o.detached
    /\ o.in_start = 0
    /\ ~o.resolve_inflight /\ o.pending = 0
    /\ ~o.delay_armed /\ ~o.deadline_armed

CanDetach(o) ==
    /\ o.terminal /\ ~o.detached
    /\ o.in_start = 0 /\ o.in_dispatch = 0
    /\ ~o.resolve_inflight /\ o.pending = 0
    /\ ~o.delay_armed /\ ~o.deadline_armed

\* co_finalize.
Finalize(o, k, p) ==
    IF CanDetach(o)
    THEN /\ op' = [o EXCEPT !.state = "DETACHED", !.detached = TRUE]
         /\ stack' = Push("on_detach", 0, 0, k)
         /\ prov' = [p EXCEPT !.detached = @ + 1]
    ELSE op' = o /\ stack' = k /\ prov' = p

Outstanding(o) == o.attempt_active \cup (IF o.resolve_inflight THEN {Resolve} ELSE {})

CancelDue(o, from) ==
    {i \in (Outstanding(o) \cap o.cancel_hooks) \ o.cancel_requested : i >= from}

\* co_request_cancels from operation `from` on; d levels of in_dispatch end with it.
RequestCancels(o, from, d, k, p) ==
    IF CancelDue(o, from) = {} THEN Finalize([o EXCEPT !.in_dispatch = @ - d], k, p)
    ELSE LET i == CHOOSE x \in CancelDue(o, from) : \A y \in CancelDue(o, from) : x <= y
         IN /\ op' = [o EXCEPT !.cancel_requested = @ \cup {i}]
            /\ stack' = Push("cancel", i, d, k)
            /\ prov' = [p EXCEPT !.cancels[i] = @ + 1]

\* co_terminal up to on_done; both timers are disarmed first.
Terminal(o, result, k, p) ==
    /\ op' = [o EXCEPT !.terminal = TRUE, !.state = "DONE", !.result = result,
                       !.in_dispatch = @ + 1, !.delay_armed = FALSE, !.deadline_armed = FALSE]
    /\ stack' = Push("on_done", 0, 0, k)
    /\ prov' = [p EXCEPT !.delay = @ /\ ~o.delay_armed, !.deadline = @ /\ ~o.deadline_armed,
                         !.done = @ + 1]

Racing(o) == o.state = "CONNECTING" /\ ~o.terminal

\* co_start_next: start the next address, or give up when nothing is pending.
StartNext(o, k, p) ==
    IF Racing(o) /\ o.next_idx < o.naddrs
    THEN LET i == o.next_idx + 1
         IN /\ op' = [o EXCEPT !.next_idx = i, !.attempt_active = @ \cup {i}, !.pending = @ + 1,
                               !.cancel_requested = @ \ {i}, !.in_start = @ + 1]
            /\ stack' = Push("start_attempt", i, 0, k)
            /\ prov' = p
    ELSE IF Racing(o) /\ o.pending = 0 THEN Terminal(o, "FAILED", k, p)
    ELSE Finalize(o, k, p)

DelayDue(o) == o.arm_delay /\ Racing(o) /\ o.next_idx < o.naddrs /\ ~o.delay_armed

\* The rest of co_start_next after an attempt was started: stagger the following one.
Stagger(o, k, p) ==
    IF DelayDue(o)
    THEN /\ op' = [o EXCEPT !.delay_armed = TRUE, !.in_start = @ + 1]
         /\ stack' = Push("arm_delay", 0, 0, k)
         /\ prov' = p
    ELSE Finalize(o, k, p)

-----------------------------------------------------------------------------
(* Entry points. *)

StartResolve(o, k, p) ==
    /\ op' = [o EXCEPT !.resolve_inflight = TRUE, !.in_start = @ + 1]
    /\ stack' = Push("start_resolve", 0, 0, k)
    /\ prov' = p

\* kl_connect_op_start: the deadline is armed before the resolve is outstanding.
Start ==
    /\ Idle
    /\ op.state = "IDLE"
    /\ LET o == [op EXCEPT !.state = "RESOLVING", !.cancel_requested = @ \ {Resolve}]
       IN IF o.arm_deadline
          THEN /\ op' = [o EXCEPT !.deadline_armed = TRUE, !.in_start = @ + 1]
               /\ stack' = Push("arm_deadline", 0, 0, stack)
               /\ prov' = prov
          ELSE StartResolve(o, stack, prov)

\* The adapter may complete operation i: it holds it, or is inside the hook that starts it.
Completes(i, hook) ==
    \/ Reentrant /\ i \in prov.ops
    \/ Top({hook}) /\ Head(stack)[2] = i

Released(i) == [prov EXCEPT !.ops = @ \ {i}]

Clamp(n) == IF n > N THEN N ELSE n

OnResolved(n) ==
    /\ op.resolve_inflight /\ Completes(Resolve, "start_resolve")
    /\ LET o == [op EXCEPT !.resolve_inflight = FALSE]
           c == [o EXCEPT !.naddrs = Clamp(n), !.next_idx = 0, !.state = "CONNECTING"]
           p == Released(Resolve)
       IN IF o.terminal THEN Finalize(o, stack, p)
          ELSE IF n = 0 THEN Terminal(c, "FAILED", stack, p)
          ELSE StartNext(c, stack, p)

OnResolveFailed ==
    /\ op.resolve_inflight /\ Completes(Resolve, "start_resolve")
    /\ LET o == [op EXCEPT !.resolve_inflight = FALSE]
           p == Released(Resolve)
       IN IF o.terminal THEN Finalize(o, stack, p) ELSE Terminal(o, "FAILED", stack, p)

MutRetired(i) ==
    [op EXCEPT !.attempt_active = @ \ {i}, !.pending = @ - 1,
               !.next_idx = IF Idle /\ op.attempt_active = {i} /\ @ = op.naddrs THEN 0 ELSE @]

Retired(i) == [op EXCEPT !.attempt_active = @ \ {i}, !.pending = @ - 1]

\* co_dispose of a connected descriptor that is not the winner.
Dispose(o, k, p) ==
    /\ op' = [o EXCEPT !.in_dispatch = @ + 1]
    /\ stack' = Push("dispose_fd", 0, 1, k)
    /\ prov' = [p EXCEPT !.disposed = @ + 1]

MutOnAttemptConnected(i) ==
    /\ i \in op.attempt_active /\ Completes(i, "start_attempt")
    /\ LET p == [Released(i) EXCEPT !.connected = @ + 1]
       IN IF op.terminal THEN Finalize(Retired(i), stack, p)
          ELSE Terminal(Retired(i), "SUCCESS", stack, [p EXCEPT !.won = @ + 1])

OnAttemptConnected(i) ==
    /\ i \in op.attempt_active /\ Completes(i, "start_attempt")
    /\ LET p == [Released(i) EXCEPT !.connected = @ + 1]
       IN IF op.terminal THEN Dispose(Retired(i), stack, p)
          ELSE Terminal(Retired(i), "SUCCESS", stack, [p EXCEPT !.won = @ + 1])

\* A duplicate completion of an inactive slot carries a real descriptor.
SpuriousConnected ==
    /\ Idle /\ op.state \in {"CONNECTING", "DONE"}
    /\ prov.spurious < MaxSpurious
    /\ Dispose(op, stack, [prov EXCEPT !.connected = @ + 1, !.spurious = @ + 1])

OnAttemptFailed(i) ==
    /\ i \in op.attempt_active /\ Completes(i, "start_attempt")
    /\ LET o == Retired(i)
           p == Released(i)
       IN IF o.terminal THEN Finalize(o, stack, p)
          ELSE IF o.next_idx < o.naddrs THEN StartNext(o, stack, p)
          ELSE IF o.pending = 0 THEN Terminal(o, "FAILED", stack, p)
          ELSE Finalize(o, stack, p)

\* The delay fires from the event loop, or inline in arm_delay.
OnDelay ==
    /\ \/ Idle /\ prov.delay
       \/ Top({"arm_delay"}) /\ op.delay_armed /\ ~prov.delay
    /\ LET p == [prov EXCEPT !.delay = FALSE]
       IN IF op.delay_armed THEN StartNext([op EXCEPT !.delay_armed = FALSE], stack, p)
          ELSE op' = op /\ stack' = stack /\ prov' = p

OnDeadline ==
    /\ op.deadline_armed
    /\ (Idle /\ prov.deadline) \/ Top({"arm_deadline"})
    /\ LET o == [op EXCEPT !.deadline_armed = FALSE]
           p == [prov EXCEPT !.deadline = FALSE]
       IN IF o.terminal THEN Finalize(o, stack, p) ELSE Terminal(o, "FAILED", stack, p)

MutCancel == Reentrant /\ ~op.detached /\ Terminal(op, "CANCELLED", stack, prov)

\* kl_connect_op_cancel.
Cancel ==
    /\ Reentrant
    /\ ~op.detached
    /\ IF op.terminal
       THEN RequestCancels([op EXCEPT !.in_dispatch = @ + 1], 0, 1, stack, prov)
       ELSE Terminal(op, "CANCELLED", stack, prov)

-----------------------------------------------------------------------------
(* Hooks return to their callers. *)

Left == [op EXCEPT !.in_start = @ - 1]

Holds(i) == [prov EXCEPT !.ops = @ \cup {i}]

StartResolveReturn(ok) ==
    /\ Top({"start_resolve"})
    /\ ~op.resolve_inflight => ok
    /\ IF op.resolve_inflight /\ ~ok
       THEN LET o == [Left EXCEPT !.resolve_inflight = FALSE]
            IN IF o.terminal THEN Finalize(o, Tail(stack), prov)
               ELSE Terminal(o, "FAILED", Tail(stack), prov)
       ELSE Finalize(Left, Tail(stack), IF op.resolve_inflight THEN Holds(Resolve) ELSE prov)

\* A hard local failure moves on to the next address without waiting for the delay.
StartAttemptReturn(ok) ==
    /\ Top({"start_attempt"})
    /\ LET i == Head(stack)[2]
       IN /\ i \notin op.attempt_active => ok
          /\ IF i \notin op.attempt_active THEN Stagger(Left, Tail(stack), prov)
             ELSE IF ok THEN Stagger(Left, Tail(stack), Holds(i))
             ELSE StartNext([Left EXCEPT !.attempt_active = @ \ {i}, !.pending = @ - 1],
                            Tail(stack), prov)

MutArmDelayReturn(ok, fired) ==
    /\ Top({"arm_delay"})
    /\ fired <=> (~op.delay_armed \/ prov.delay)
    /\ fired => ok
    /\ IF ~op.delay_armed THEN Finalize(Left, Tail(stack), prov)
       ELSE Finalize([Left EXCEPT !.delay_armed = ok], Tail(stack), [prov EXCEPT !.delay = ok])

\* fired: the timer already fired inside the hook (whatever was armed again since); such a
\* hook is assumed not to report failure.
ArmDelayReturn(ok, fired) ==
    /\ Top({"arm_delay"})
    /\ fired <=> (~op.delay_armed \/ prov.delay)
    /\ fired => ok
    /\ IF ~op.delay_armed THEN Finalize(Left, Tail(stack), prov)
       ELSE IF ok THEN Finalize(Left, Tail(stack), [prov EXCEPT !.delay = TRUE])
       ELSE StartNext([Left EXCEPT !.delay_armed = FALSE], Tail(stack), prov)

ArmDeadlineReturn(ok) ==
    /\ Top({"arm_deadline"})
    /\ ~op.deadline_armed => ok
    /\ IF op.deadline_armed /\ ~ok
       THEN Terminal([Left EXCEPT !.deadline_armed = FALSE], "FAILED", Tail(stack), prov)
       ELSE IF op.terminal THEN Finalize(Left, Tail(stack), prov)
       ELSE StartResolve(Left, Tail(stack), [prov EXCEPT !.deadline = op.deadline_armed])

\* on_done returns into co_terminal, which then requests the cancels.
OnDoneReturn ==
    /\ Top({"on_done"})
    /\ RequestCancels([op EXCEPT !.in_dispatch = @ + 1], 0, 2, Tail(stack), prov)

CancelReturn ==
    /\ Top({"cancel"})
    /\ RequestCancels(op, Head(stack)[2] + 1, Head(stack)[3], Tail(stack), prov)

DisposeReturn ==
    /\ Top({"dispose_fd"})
    /\ Finalize([op EXCEPT !.in_dispatch = @ - 1], Tail(stack), prov)

DetachReturn ==
    /\ Top({"on_detach"})
    /\ stack' = Tail(stack)
    /\ UNCHANGED <<op, prov>>

\* After on_detach the owner may initialise the storage again.
Reuse ==
    /\ Idle /\ op.detached
    /\ \E d, e \in BOOLEAN, c \in CancelHooks : op' = InitOp(d, e, c)
    /\ prov' = InitProv
    /\ UNCHANGED stack

Returns ==
    \/ \E ok \in BOOLEAN : StartResolveReturn(ok)
    \/ \E ok \in BOOLEAN : StartAttemptReturn(ok)
    \/ \E ok, fired \in BOOLEAN : ArmDelayReturn(ok, fired)
    \/ \E ok \in BOOLEAN : ArmDeadlineReturn(ok)
    \/ OnDoneReturn
    \/ CancelReturn
    \/ DisposeReturn
    \/ DetachReturn

Resolved == OnResolveFailed \/ \E n \in 0..N + 1 : OnResolved(n)

Attempted == \E i \in Addrs : OnAttemptConnected(i) \/ OnAttemptFailed(i)

Next ==
    \/ Start
    \/ Resolved
    \/ Attempted
    \/ SpuriousConnected
    \/ OnDelay
    \/ OnDeadline
    \/ Cancel
    \/ Returns
    \/ Reuse

Spec == Init /\ [][Next]_vars

\* Hooks return, and the adapter completes what it holds once it is back in the loop.
Fairness ==
    /\ WF_vars(Returns)
    /\ WF_vars(Idle /\ Resolved)
    /\ WF_vars(Idle /\ Attempted)

FairSpec == Spec /\ Fairness

-----------------------------------------------------------------------------
(* Properties. *)

\* Field types; pending counts the active attempts.
TypeOK ==
    /\ op.state \in {"IDLE", "RESOLVING", "CONNECTING", "DONE", "DETACHED"}
    /\ op.result \in {"NONE", "SUCCESS", "FAILED", "CANCELLED"}
    /\ op.attempt_active \subseteq Addrs /\ op.cancel_requested \subseteq Ops
    /\ op.next_idx \in 0..op.naddrs /\ op.naddrs \in 0..N
    /\ op.pending = Cardinality(op.attempt_active)
    /\ op.in_start \in Nat /\ op.in_dispatch \in Nat
    /\ prov.ops \subseteq Ops

\* connect_op.c: after on_detach no resolve, attempt or timer can still fire into the
\* operation, whose storage the owner may free.
DetachedIsRetired ==
    op.detached => prov.ops = {} /\ ~prov.delay /\ ~prov.deadline

\* docs/contracts/stream.md:213: on_detach never runs on top of another hook's frame.
DetachNotMidCallback ==
    \A i \in 1..Len(stack) : stack[i][1] = "on_detach" => i = Len(stack)

\* on_done and on_detach are called at most once, on_done first; on_done reports SUCCESS
\* exactly when it hands over a descriptor.
TerminalOnce ==
    /\ prov.done <= 1 /\ prov.detached <= prov.done
    /\ op.result = "SUCCESS" <=> prov.won = 1

\* Every connected descriptor, straggler and duplicate included, is either the one winner
\* or disposed of.
EveryDescriptorOwned == prov.won <= 1 /\ prov.connected = prov.won + prov.disposed

\* Each operation is asked to cancel at most once, re-entrant cancels included.
CancelOnce == \A i \in Ops : prov.cancels[i] <= 1

\* What makes it safe to free the operation in on_detach.
CloseDiscipline == TypeOK /\ DetachedIsRetired /\ DetachNotMidCallback /\ CancelOnce

\* Back in the event loop a live operation always waits for something that can come: its
\* resolve, an attempt, and the stagger timer while addresses are untried.
NeverStuck ==
    Idle =>
        /\ op.state = "RESOLVING" => Resolve \in prov.ops
        /\ op.state = "CONNECTING" =>
              /\ prov.ops # {}
              /\ op.arm_delay /\ op.next_idx < op.naddrs => prov.delay
        /\ op.state = "DONE" => prov.ops # {}

\* A started operation detaches, whatever completes inline and whoever cancels it.
Started == op.state \in {"RESOLVING", "CONNECTING", "DONE"}
Detached == op.detached
StartedDetaches == Started ~> Detached
=============================================================================
