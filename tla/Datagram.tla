------------------------------ MODULE Datagram ------------------------------
(***************************************************************************)
(* KlDatagram: the facade of src/datagram.c over the send machine, the     *)
(* receive machine and the close coordinator of src/datagram_{send,recv,   *)
(* close,core}.c, with its two concrete adapters: completion (operations   *)
(* posted to the loop under a counted life token) and readiness (one       *)
(* watcher whose interest follows the two machines).                       *)
(*                                                                         *)
(* There is one thread.  "stack" holds, innermost first, the callbacks the *)
(* user has not returned from and what each C function still has to do     *)
(* when it gets control back; only the top entry can step.  A user         *)
(* callback may call any public operation.                                 *)
(*                                                                         *)
(* Payloads, addresses and lengths are left out.  A queued datagram is its *)
(* provenance: "single", "batch", or a segment of the GSO group, "last"    *)
(* being the one whose retirement frees the group buffer.  The byte gate   *)
(* may therefore refuse whenever something is queued.  Both adapters only  *)
(* start operations and never finish them inside the hook, so the flags    *)
(* for inline completion (arming, in_submit, detaching) stay clear here.   *)
(***************************************************************************)
EXTENDS Integers, Sequences, SequencesExt

CONSTANTS
    Slots,     \* send_slots: capacity of the outbound pool
    MaxBatch,  \* datagrams in one send_batch
    MaxFill,   \* datagrams one recv_batch puts in the cursor
    MaxSegs,   \* segments of a GSO group
    MaxDepth   \* user callbacks open at once, from which a call may be made

ASSUME DatagramAssumption ==
    /\ Slots \in Nat \ {0} /\ MaxBatch \in Nat \ {0} /\ MaxFill \in Nat \ {0}
    /\ MaxSegs \in 1..Slots /\ MaxDepth \in Nat \ {0}

VARIABLES
    dg,     \* KlDatagram, the watcher registration and the adopted RECV batch
    snd,    \* KlDgramSend, and the gso_busy of the batch that sends
    rcv,    \* KlDgramRecv
    cls,    \* KlDgramClose, and the core's abandoning flag
    life,   \* KlCompLife and the operations that hold a reference to it
    stack,  \* open callbacks and pending continuations, innermost first
    seen    \* ghost: what the user was told and what is owed to them

vars == <<dg, snd, rcv, cls, life, stack, seen>>

UserFrames == {"on_recv", "on_writable", "on_drain", "on_close"}

-----------------------------------------------------------------------------
(* Initial states *)

InitSend == [ring |-> <<>>, inflight |-> FALSE, err |-> FALSE, closing |-> FALSE,
             full |-> FALSE, pend_writable |-> FALSE, pend_drain |-> FALSE,
             in_dispatch |-> 0, gso_busy |-> FALSE]

InitRecv == [started |-> FALSE, paused |-> FALSE, stopped |-> FALSE,
             inflight |-> FALSE, held |-> FALSE]

InitClose == [state |-> "OPEN", abort |-> FALSE, abandon |-> FALSE,
              abandoning |-> FALSE, busy |-> 0, backend_retired |-> FALSE,
              send_cancel_requested |-> FALSE, recv_cancel_requested |-> FALSE,
              result |-> "NONE"]

\* kl_comp_life_create: the owner's reference, and the inbound storage it pins
InitLife == [refs |-> 1, live |-> TRUE, rx |-> TRUE, recv |-> "none", send |-> "none"]

Init ==
    /\ \E completion \in BOOLEAN :
          dg = [completion |-> completion, core |-> TRUE, fd |-> TRUE, want |-> {},
                read_armed |-> FALSE, reg |-> {}, attached |-> FALSE, cursor |-> 0]
    /\ snd = InitSend /\ rcv = InitRecv /\ cls = InitClose /\ life = InitLife
    /\ stack = <<>>
    /\ seen = [closed |-> 0, reclaimed |-> 0, blocked |-> FALSE, owed |-> 0]

-----------------------------------------------------------------------------
(* The stack *)

Top == IF stack = <<>> THEN "loop" ELSE Head(stack)
Replace(frames) == stack' = frames \o Tail(stack)
Call(frames) == stack' = frames \o stack

\* where the user may call the API: from the event loop or from a callback
MayCall ==
    /\ Top \in UserFrames \cup {"loop"}
    /\ Len(SelectSeq(stack, LAMBDA f : f \in UserFrames)) <= MaxDepth

Enter(n) == [cls EXCEPT !.busy = @ + n]

-----------------------------------------------------------------------------
(* Readiness interest and life token *)

\* dg_reconcile; kl_watcher_add may fail
Reconcile(d) ==
    IF d.completion \/ ~d.fd THEN {d}
    ELSE IF d.want = {} THEN {[d EXCEPT !.read_armed = FALSE, !.reg = {}]}
    ELSE IF d.read_armed THEN {[d EXCEPT !.reg = d.want]}
    ELSE {d, [d EXCEPT !.read_armed = TRUE, !.reg = d.want]}

\* dg_reconcile_write
ReconcileWrite(d, s) ==
    IF d.completion THEN {d}
    ELSE Reconcile([d EXCEPT !.want = IF s.ring # <<>> THEN @ \cup {"WRITE"} ELSE @ \ {"WRITE"}])

Disarm(d) == Reconcile([d EXCEPT !.want = @ \ {"READ"}])

\* kl_comp_life_retain for an operation of this kind, when the post succeeds
Retained(l, op) == [l EXCEPT !.refs = @ + 1, ![op] = "posted"]

\* kl_comp_life_release; the last one runs core_rx_final
Released(l) == [l EXCEPT !.refs = @ - 1, !.rx = l.refs > 1]

CancelOp(l, op) == IF l[op] = "posted" THEN [l EXCEPT ![op] = "cancelled"] ELSE l

-----------------------------------------------------------------------------
(* The send queue *)

\* mutant: the writable edge is recorded only when the queue runs empty
MutRetireHeads(s, n) ==
    [s EXCEPT !.ring = SubSeq(@, n + 1, Len(@)),
              !.full = @ /\ n = 0,
              !.pend_writable = @ \/ (s.full /\ n > 0 /\ n = Len(s.ring)),
              !.pend_drain = @ \/ (n > 0 /\ n = Len(s.ring)),
              !.gso_busy = @ /\ ~\E i \in 1..n : s.ring[i] = "last"]

\* send_retire_head, n times: edges are recorded and fired by dispatch_leave
RetireHeads(s, n) ==
    [s EXCEPT !.ring = SubSeq(@, n + 1, Len(@)),
              !.full = @ /\ n = 0,
              !.pend_writable = @ \/ (s.full /\ n > 0),
              !.pend_drain = @ \/ (n > 0 /\ n = Len(s.ring)),
              !.gso_busy = @ /\ ~\E i \in 1..n : s.ring[i] = "last"]

Recoverable(slot) == slot # "single"

\* what the hook leaves of a head it did not take: posted, or would block
Kept(s) == [s EXCEPT !.inflight = dg.completion]

\* send_pump (and the loop of flush_batch): some heads go out or are dropped,
\* then the queue is empty, the provider keeps the rest waiting, or a datagram
\* of a single send fails for good
Pump(s) ==
    IF s.err \/ s.inflight THEN {s}
    ELSE LET after(n) == LET r == RetireHeads(s, n) IN
                IF r.ring = <<>> THEN {r}
                ELSE {Kept(r)} \cup {[r EXCEPT !.err = TRUE] : x \in {y \in {Head(r.ring)} : ~Recoverable(y)}}
         IN UNION {after(n) : n \in 0..Len(s.ring)}

\* a pump under dispatch_enter, with the reference a posted send takes
Pumped(s) ==
    /\ snd' \in Pump([s EXCEPT !.in_dispatch = @ + 1])
    /\ life' = IF snd'.inflight /\ ~s.inflight THEN Retained(life, "send") ELSE life

\* mutant: discarding a group leaves its buffer busy
MutDiscard(s) ==
    [s EXCEPT !.ring = SubSeq(@, 1, IF s.inflight THEN 1 ELSE 0), !.full = FALSE]

\* kl_dgram_send_discard_queued: everything but a head in flight
Discard(s) ==
    LET keep == IF s.inflight THEN 1 ELSE 0
        cut == SubSeq(s.ring, keep + 1, Len(s.ring)) IN
    [s EXCEPT !.ring = SubSeq(@, 1, keep), !.full = FALSE,
              !.gso_busy = @ /\ "last" \notin Range(cut)]

NoRoom(s, n) == Len(s.ring) + n > Slots

\* send_admit and kl_dgram_send_enqueue_gso: all of the datagrams or none
Admit(s, slots) ==
    [s EXCEPT !.ring = @ \o slots, !.full = @ \/ Len(s.ring) + Len(slots) = Slots]
MayRefuse(s, n) == NoRoom(s, n) \/ s.ring # <<>>
Refuse(s) == [s EXCEPT !.full = TRUE]

-----------------------------------------------------------------------------
(* Sending.  Every entry holds a frame of its own across the send and the  *)
(* reconcile after it, and the machine holds another around its tail.      *)

SendTail == <<"dispatch_leave", "leave", "reconcile", "leave">>

\* kl_datagram_send refused by validation: the send side failed or is closing
SendRefused ==
    /\ MayCall /\ dg.core /\ (snd.err \/ snd.closing)
    /\ cls' = Enter(1)
    /\ Call(<<"reconcile", "leave">>)
    /\ UNCHANGED <<dg, snd, rcv, life, seen>>

\* readiness, nothing queued: sent at once, dropped, or the send side fails
SendDirect ==
    /\ MayCall /\ dg.core /\ ~snd.err /\ ~snd.closing
    /\ ~dg.completion /\ snd.ring = <<>>
    /\ \E failed \in BOOLEAN : snd' = [snd EXCEPT !.err = failed]
    /\ cls' = Enter(2)
    /\ Call(<<"leave", "reconcile", "leave">>)
    /\ UNCHANGED <<dg, rcv, life, seen>>

SendBlocked ==
    /\ MayCall /\ dg.core /\ ~snd.err /\ ~snd.closing
    /\ MayRefuse(snd, 1)
    /\ snd' = Refuse(snd)
    /\ seen' = [seen EXCEPT !.blocked = TRUE]
    /\ cls' = Enter(2)
    /\ Call(<<"leave", "reconcile", "leave">>)
    /\ UNCHANGED <<dg, rcv, life>>

SendQueued ==
    /\ MayCall /\ dg.core /\ ~snd.err /\ ~snd.closing
    /\ ~NoRoom(snd, 1)
    /\ Pumped(Admit(snd, <<"single">>))
    /\ cls' = Enter(2)
    /\ Call(SendTail)
    /\ UNCHANGED <<dg, rcv, seen>>

\* kl_datagram_send_batch: an accepted prefix, then one drain attempt
SendBatch ==
    /\ MayCall /\ dg.core
    /\ \E n \in 0..MaxBatch, refused \in BOOLEAN :
          LET s == Admit(snd, [i \in 1..n |-> "batch"]) IN
          /\ ~NoRoom(snd, n)
          /\ snd.err \/ snd.closing => n = 0 /\ ~refused
          /\ refused => MayRefuse(s, 1)
          /\ Pumped(IF refused THEN Refuse(s) ELSE s)
          /\ seen' = [seen EXCEPT !.blocked = @ \/ refused]
    /\ cls' = Enter(2)
    /\ Call(SendTail)
    /\ UNCHANGED <<dg, rcv>>

Group(n) == [i \in 1..n |-> IF i = n THEN "last" ELSE "seg"]

\* kl_datagram_send_gso; WOULD_BLOCK without effect while the batch is busy
GsoRefused ==
    /\ MayCall /\ dg.core /\ ~snd.gso_busy
    /\ \/ (snd.err \/ snd.closing) /\ UNCHANGED <<snd, seen>>
       \/ /\ ~snd.err /\ ~snd.closing
          /\ \E n \in 1..MaxSegs : MayRefuse(snd, n)
          /\ snd' = Refuse(snd)
          /\ seen' = [seen EXCEPT !.blocked = TRUE]
    /\ cls' = Enter(1)
    /\ Call(<<"leave">>)
    /\ UNCHANGED <<dg, rcv, life>>

SendGso ==
    /\ MayCall /\ dg.core /\ ~snd.gso_busy /\ ~snd.err /\ ~snd.closing
    /\ \E n \in 1..MaxSegs :
          /\ ~NoRoom(snd, n)
          /\ Pumped([Admit(snd, Group(n)) EXCEPT !.gso_busy = TRUE])
    /\ cls' = Enter(2)
    /\ Call(SendTail)
    /\ UNCHANGED <<dg, rcv, seen>>

\* dg_on_ready, WRITE: kl_dgram_send_flush when something is queued
Flush ==
    /\ Top = "flush"
    /\ IF snd.ring = <<>>
       THEN Replace(<<>>) /\ UNCHANGED <<snd, cls, life>>
       ELSE /\ Pumped(snd)
            /\ cls' = Enter(1)
            /\ Replace(<<"dispatch_leave", "leave">>)
    /\ UNCHANGED <<dg, rcv, seen>>

\* dispatch_leave: only the outermost frame calls back, on_writable until no
\* edge is left, then on_drain if the queue is still empty
DispatchLeave ==
    /\ Top = "dispatch_leave"
    /\ IF snd.in_dispatch > 1
       THEN /\ snd' = [snd EXCEPT !.in_dispatch = @ - 1]
            /\ Replace(<<>>) /\ UNCHANGED seen
       ELSE IF snd.pend_writable
       THEN /\ snd' = [snd EXCEPT !.pend_writable = FALSE]
            /\ Call(<<"on_writable">>)
            /\ seen' = [seen EXCEPT !.blocked = FALSE]
       ELSE /\ snd' = [snd EXCEPT !.pend_drain = FALSE, !.in_dispatch = 0]
            /\ Replace(IF snd.pend_drain /\ snd.ring = <<>> THEN <<"on_drain">> ELSE <<>>)
            /\ UNCHANGED seen
    /\ UNCHANGED <<dg, rcv, cls, life>>

\* kl_datagram_comp_dispatch: the event takes the operation's reference over
\* and releases it last; a quarantined operation keeps it
Finished(op, retain) == [life EXCEPT ![op] = IF retain THEN "quarantined" ELSE "none"]
ReleaseTail(retain) == IF retain THEN <<>> ELSE <<"release">>

OnSendComplete(ok, retain) ==
    /\ Top = "loop" /\ life.send \in {"posted", "cancelled"}
    /\ retain => life.send = "cancelled" /\ ok = "FAILED"
    /\ IF ~life.live \/ ~snd.inflight
       THEN life' = Finished("send", retain) /\ Call(ReleaseTail(retain)) /\ UNCHANGED <<snd, cls>>
       ELSE LET fails == ok = "FAILED" /\ ~Recoverable(Head(snd.ring))
                s == [RetireHeads(snd, 1) EXCEPT !.inflight = FALSE, !.err = @ \/ fails,
                                                 !.in_dispatch = @ + 1]
                l == Finished("send", retain) IN
            /\ snd' \in Pump(s)
            /\ life' = IF snd'.inflight THEN Retained(l, "send") ELSE l
            /\ cls' = Enter(1)
            /\ Call(<<"dispatch_leave", "leave">> \o ReleaseTail(retain))
    /\ UNCHANGED <<dg, rcv, seen>>

-----------------------------------------------------------------------------
(* Receiving *)

ArmBlocked(r) == r.stopped \/ r.paused \/ r.inflight \/ r.held

\* dg_comp_arm: posted under a reference of its own, or refused
CompArm(r) ==
    /\ UNCHANGED dg
    /\ \/ rcv' = [r EXCEPT !.inflight = TRUE] /\ life' = Retained(life, "recv")
       \/ rcv' = [r EXCEPT !.stopped = TRUE] /\ UNCHANGED life

\* dg_rdy_arm: the interest is recorded even when it cannot be registered
RdyArm(r) ==
    /\ dg' \in Reconcile([dg EXCEPT !.want = @ \cup {"READ"}])
    /\ rcv' = IF dg'.read_armed THEN [r EXCEPT !.inflight = TRUE]
                                ELSE [r EXCEPT !.stopped = TRUE]
    /\ UNCHANGED life

\* recv_arm; a failed arm stops the receive side
Arm(r) ==
    IF ArmBlocked(r) THEN rcv' = r /\ UNCHANGED <<dg, life>>
    ELSE IF dg.completion THEN CompArm(r) ELSE RdyArm(r)

\* the receive side gives up its interest: pause, stop and failure
Unarm(r) ==
    IF ~dg.completion /\ r.inflight
    THEN rcv' = [r EXCEPT !.inflight = FALSE] /\ dg' \in Disarm(dg)
    ELSE rcv' = r /\ UNCHANGED dg

RecvFail(r) == Unarm([r EXCEPT !.stopped = TRUE, !.held = FALSE])

\* core->rx is gone once the close has been reported
HasRx == dg.core /\ cls.state # "CLOSED"

AttachBatch ==
    /\ MayCall /\ HasRx /\ ~dg.completion /\ ~dg.attached /\ ~rcv.started
    /\ dg' = [dg EXCEPT !.attached = TRUE]
    /\ UNCHANGED <<snd, rcv, cls, life, stack, seen>>

RecvStart ==
    /\ MayCall /\ HasRx
    /\ Arm([rcv EXCEPT !.started = TRUE])
    /\ IF ArmBlocked(rcv) THEN UNCHANGED <<cls, stack>>
                          ELSE cls' = Enter(1) /\ Call(<<"leave">>)
    /\ UNCHANGED <<snd, seen>>

\* KL_COMP_DGRAM_RECV: dropped when stopped, held when paused, else delivered
OnRecvComplete(ok, retain) ==
    /\ Top = "loop" /\ life.recv \in {"posted", "cancelled"}
    /\ retain => life.recv = "cancelled" /\ ~ok
    /\ life' = Finished("recv", retain)
    /\ LET release == ReleaseTail(retain)
           r == [rcv EXCEPT !.inflight = FALSE] IN
       IF ~life.live \/ ~rcv.inflight
       THEN Call(release) /\ UNCHANGED <<dg, rcv, cls, seen>>
       ELSE /\ cls' = Enter(1)
            /\ IF r.stopped \/ ~ok
               THEN /\ IF r.stopped THEN rcv' = r /\ UNCHANGED dg ELSE RecvFail(r)
                    /\ Call(<<"leave">> \o release) /\ UNCHANGED seen
               ELSE IF r.paused
               THEN /\ rcv' = [r EXCEPT !.held = TRUE]
                    /\ seen' = [seen EXCEPT !.owed = @ + 1]
                    /\ Call(<<"leave">> \o release) /\ UNCHANGED dg
               ELSE /\ rcv' = r
                    /\ Call(<<"on_recv", "rearm", "leave">> \o release)
                    /\ UNCHANGED <<dg, seen>>
    /\ UNCHANGED snd

\* after a delivery or the drain of a cursor: arm unless the callback said no
Rearm ==
    /\ Top = "rearm"
    /\ Arm(rcv)
    /\ Replace(<<>>)
    /\ UNCHANGED <<snd, cls, seen>>

\* dg_on_ready, READ: kl_dgram_recv_on_readable
Readable ==
    /\ Top = "readable"
    /\ IF rcv.stopped \/ rcv.paused \/ ~rcv.inflight
       THEN Replace(<<>>) /\ UNCHANGED cls
       ELSE /\ cls' = Enter(1)
            /\ Replace(<<IF dg.attached THEN "refill" ELSE "pull", "leave">>)
    /\ UNCHANGED <<dg, snd, rcv, life, seen>>

\* the serial loop: drained or out of budget, a fatal error, or one delivery
Pull ==
    /\ Top = "pull"
    /\ \/ Replace(<<>>) /\ UNCHANGED <<dg, rcv>>
       \/ /\ ~rcv.paused /\ ~rcv.stopped /\ rcv.inflight
          /\ \/ RecvFail(rcv) /\ Replace(<<>>)
             \/ Call(<<"on_recv">>) /\ UNCHANGED <<dg, rcv>>
    /\ UNCHANGED <<snd, cls, life, seen>>

\* recv_drive_view over the batch cursor: one buffered datagram
View ==
    /\ Top \in {"refill", "drain"}
    /\ ~rcv.paused /\ ~rcv.stopped /\ dg.cursor > 0
    /\ seen' = [seen EXCEPT !.owed = @ - 1]
    /\ LET taken == [dg EXCEPT !.cursor = @ - 1] IN
       \/ Call(<<"on_recv">>) /\ dg' = taken /\ UNCHANGED rcv
       \/ /\ rcv' = [rcv EXCEPT !.stopped = TRUE, !.held = FALSE, !.inflight = FALSE]
          /\ dg' \in IF rcv.inflight THEN Disarm(taken) ELSE {taken}
          /\ Replace(<<>>)
    /\ UNCHANGED <<snd, cls, life>>

\* the cursor is empty: one recv_batch on the readable path, nothing on resume
Refill ==
    /\ Top \in {"refill", "drain"}
    /\ \/ /\ rcv.paused \/ rcv.stopped \/ dg.cursor = 0
          /\ Replace(<<>>) /\ UNCHANGED <<dg, rcv, seen>>
       \/ /\ Top = "refill" /\ ~rcv.paused /\ ~rcv.stopped /\ dg.cursor = 0
          /\ \/ RecvFail(rcv) /\ Replace(<<>>) /\ UNCHANGED seen
             \/ \E n \in 1..MaxFill :
                   /\ dg' = [dg EXCEPT !.cursor = n]
                   /\ seen' = [seen EXCEPT !.owed = @ + n]
                   /\ UNCHANGED <<rcv, stack>>
    /\ UNCHANGED <<snd, cls, life>>

Pause ==
    /\ MayCall /\ HasRx /\ ~rcv.paused
    /\ Unarm([rcv EXCEPT !.paused = TRUE])
    /\ cls' = Enter(1)
    /\ Call(<<"leave">>)
    /\ UNCHANGED <<snd, life, seen>>

Resume ==
    /\ MayCall /\ HasRx /\ rcv.paused
    /\ LET r == [rcv EXCEPT !.paused = FALSE] IN
       IF r.stopped
       THEN rcv' = r /\ Call(<<"leave">>) /\ UNCHANGED <<dg, life, seen>>
       ELSE IF dg.attached
       THEN rcv' = r /\ Call(<<"drain", "rearm", "leave">>) /\ UNCHANGED <<dg, life, seen>>
       ELSE IF r.held
       THEN /\ rcv' = [r EXCEPT !.held = FALSE]
            /\ seen' = [seen EXCEPT !.owed = @ - 1]
            /\ Call(<<"on_recv", "rearm", "leave">>)
            /\ UNCHANGED <<dg, life>>
       ELSE Arm(r) /\ Call(<<"leave">>) /\ UNCHANGED seen
    /\ cls' = Enter(1)
    /\ UNCHANGED snd

RecvStop ==
    /\ MayCall /\ HasRx /\ ~rcv.stopped
    /\ RecvFail(rcv)
    /\ cls' = Enter(1)
    /\ Call(<<"leave">>)
    /\ UNCHANGED <<snd, life, seen>>

-----------------------------------------------------------------------------
(* Closing *)

SendDrained(s) == ~s.inflight /\ s.ring = <<>>
FullyRetired(r, s) == ~r.inflight /\ SendDrained(s)

\* each outstanding operation is asked to cancel at most once
CancelSend(c, s, l) ==
    IF s.inflight /\ ~c.send_cancel_requested
    THEN [c |-> [c EXCEPT !.send_cancel_requested = TRUE], l |-> CancelOp(l, "send")]
    ELSE [c |-> c, l |-> l]

\* mutant: the receive is left to complete by itself
MutCancelRecv(c, r, l) == [c |-> c, l |-> l]
CancelRecv(c, r, l) ==
    IF r.inflight /\ ~c.recv_cancel_requested
    THEN [c |-> [c EXCEPT !.recv_cancel_requested = TRUE], l |-> CancelOp(l, "recv")]
    ELSE [c |-> c, l |-> l]

\* close_abort_cleanup, after the queue was discarded
AbortCleanup(c, r, s, l) ==
    LET x == CancelSend([c EXCEPT !.abort = TRUE], s, l) IN CancelRecv(x.c, r, x.l)

\* kl_comp_retire_dgram, and dg_rdy_retire
RetireOf(op) == CASE op \in {"posted", "cancelled"} -> "PENDING"
                  [] op = "none" -> "RETIRED"
                  [] op = "quarantined" -> "QUARANTINED"

\* the transport error a classifier reports beside it: all of them store 0
TransportErr(op) == FALSE

\* close_join_result; a forced terminal reports a pending operation as detached
JoinResult(l, forced) ==
    LET ops == {RetireOf(l.recv), RetireOf(l.send)} IN
    IF "PENDING" \in ops
    THEN (IF forced THEN "DETACHED" ELSE "NONE")
    ELSE IF "QUARANTINED" \in ops THEN "QUARANTINED"
    ELSE IF TransportErr(l.recv) \/ TransportErr(l.send) THEN "CLOSE_ERROR" ELSE "DETACHED"

\* close_common: a frame of our own, whose leave may detach
CloseCommon(abort, c) ==
    LET opening == c.state = "OPEN"
        c1 == [c EXCEPT !.busy = @ + 1, !.abort = @ \/ abort, !.state = "CLOSING"]
        s1 == [snd EXCEPT !.closing = TRUE] IN
    /\ IF opening /\ ~rcv.stopped THEN RecvFail(rcv) ELSE UNCHANGED <<dg, rcv>>
    /\ snd' = IF c1.abort THEN Discard(s1) ELSE s1
    /\ LET x == AbortCleanup(c1, rcv', snd', life) IN
       /\ cls' = IF c1.abort THEN x.c ELSE c1
       /\ life' = IF c1.abort THEN x.l ELSE life
    /\ Call(<<"leave">>)
    /\ UNCHANGED seen

CloseBegin == MayCall /\ dg.core /\ cls.state # "CLOSED" /\ CloseCommon(FALSE, cls)
CloseCancel == MayCall /\ dg.core /\ cls.state # "CLOSED" /\ CloseCommon(TRUE, cls)

\* kl_datagram_teardown: the silent abandon, once; a no-op on a closed datagram
Teardown ==
    /\ MayCall /\ dg.core /\ ~cls.abandoning
    /\ IF cls.state = "CLOSED"
       THEN cls' = [cls EXCEPT !.abandoning = TRUE] /\ UNCHANGED <<dg, snd, rcv, life, stack, seen>>
       ELSE CloseCommon(TRUE, [cls EXCEPT !.abandoning = TRUE, !.abandon = TRUE])

\* core_backend_close and dg_close_transport
CloseTransport(d) == [d EXCEPT !.fd = FALSE, !.want = {}, !.read_armed = FALSE, !.reg = {}]

\* the handle after its core was freed, by dg_abandon_reclaim or kl_datagram_free
Freed(d) == [d EXCEPT !.core = FALSE, !.attached = FALSE, !.cursor = 0]

\* close_run_terminal, reached with no frame left; "c" has busy = 0
Terminal(c) ==
    LET escalate == ~c.abort /\ snd.err /\ ~SendDrained(snd)
        s1 == IF escalate THEN Discard(snd) ELSE snd
        x1 == IF escalate THEN AbortCleanup(c, rcv, s1, life) ELSE [c |-> c, l |-> life]
        retire == ~c.backend_retired /\ (SendDrained(s1) \/ c.abandon)
        x2 == IF retire THEN CancelRecv([x1.c EXCEPT !.backend_retired = TRUE], rcv, x1.l) ELSE x1
        d2 == IF retire THEN CloseTransport(dg) ELSE dg
        result == IF c.abandon \/ FullyRetired(rcv, s1) THEN JoinResult(x2.l, c.abandon) ELSE "NONE" IN
    IF result = "NONE"
    THEN snd' = s1 /\ cls' = x2.c /\ life' = x2.l /\ dg' = d2 /\ Replace(<<>>) /\ UNCHANGED seen
    ELSE /\ cls' = [x2.c EXCEPT !.state = "CLOSED", !.result = result]
         /\ life' = Released([x2.l EXCEPT !.live = FALSE])
         /\ IF c.abandoning
            THEN /\ dg' = Freed(d2) /\ snd' = InitSend
                 /\ Replace(<<>>)
                 /\ seen' = [seen EXCEPT !.reclaimed = @ + 1]
            ELSE /\ dg' = d2 /\ snd' = s1
                 /\ Replace(<<"on_close">>)
                 /\ seen' = [seen EXCEPT !.closed = @ + 1]

\* mutant: every leave may detach
MutUnwound(c) == TRUE

\* no frame of the datagram is open
Unwound(c) == c.busy = 0

\* close_leave: the last frame to unwind runs the terminal logic
Leave ==
    /\ Top = "leave"
    /\ LET c == Enter(-1) IN
       IF Unwound(c) /\ c.state = "CLOSING"
       THEN Terminal(c)
       ELSE cls' = c /\ Replace(<<>>) /\ UNCHANGED <<dg, snd, life, seen>>
    /\ UNCHANGED rcv

\* the last line of kl_datagram_comp_dispatch
Release ==
    /\ Top = "release"
    /\ life' = Released(life)
    /\ Replace(<<>>)
    /\ UNCHANGED <<dg, snd, rcv, cls, seen>>

\* dg_reconcile_write as the last step before a facade's leave
ReconcileTail ==
    /\ Top = "reconcile"
    /\ dg' \in ReconcileWrite(dg, snd)
    /\ Replace(<<>>)
    /\ UNCHANGED <<snd, rcv, cls, life, seen>>

Free ==
    /\ MayCall /\ dg.core /\ cls.state = "CLOSED"
    /\ dg' = Freed(dg) /\ snd' = InitSend
    /\ UNCHANGED <<rcv, cls, life, stack, seen>>

\* dg_on_ready: the loop reports some of what is registered
OnReady(ready) ==
    /\ Top = "loop" /\ ready # {} /\ ready \subseteq dg.reg
    /\ cls' = Enter(1)
    /\ Call((IF "WRITE" \in ready THEN <<"flush">> ELSE <<>>)
            \o (IF "READ" \in ready THEN <<"readable">> ELSE <<>>)
            \o <<"reconcile", "leave">>)
    /\ UNCHANGED <<dg, snd, rcv, life, seen>>

\* a user callback returns
Return ==
    /\ Top \in UserFrames
    /\ Replace(<<>>)
    /\ UNCHANGED <<dg, snd, rcv, cls, life, seen>>

Continue == \/ Flush \/ DispatchLeave \/ Rearm \/ Readable \/ Pull \/ View \/ Refill
            \/ Leave \/ Release \/ ReconcileTail

Next ==
    \/ SendRefused \/ SendDirect \/ SendBlocked \/ SendQueued \/ SendBatch
    \/ GsoRefused \/ SendGso
    \/ AttachBatch \/ RecvStart \/ Pause \/ Resume \/ RecvStop
    \/ CloseBegin \/ CloseCancel \/ Teardown \/ Free
    \/ \E ready \in SUBSET {"READ", "WRITE"} : OnReady(ready)
    \/ \E ok \in {"OK", "DROPPED", "FAILED"}, retain \in BOOLEAN : OnSendComplete(ok, retain)
    \/ \E ok, retain \in BOOLEAN : OnRecvComplete(ok, retain)
    \/ Return \/ Continue

Spec == Init /\ [][Next]_vars

\* Callbacks return and C functions run on.  A posted send, and a cancelled
\* operation, completes; a socket the loop waits to write becomes writable and
\* takes something in the end.
LoopEvent ==
    \/ \E ok \in {"OK", "DROPPED", "FAILED"}, retain \in BOOLEAN : OnSendComplete(ok, retain)
    \/ life.recv = "cancelled" /\ \E ok, retain \in BOOLEAN : OnRecvComplete(ok, retain)
    \/ \E ready \in SUBSET {"READ", "WRITE"} : "WRITE" \in ready /\ OnReady(ready)

Fairness ==
    /\ WF_vars(Continue) /\ SF_vars(Return) /\ SF_vars(LoopEvent)
    /\ SF_vars(Flush /\ snd'.ring # snd.ring)

FairSpec == Spec /\ Fairness

-----------------------------------------------------------------------------
(* Properties *)

Slot == {"single", "batch", "seg", "last"}
Op == {"none", "posted", "cancelled", "quarantined"}

TypeOK ==
    /\ dg \in [completion : BOOLEAN, core : BOOLEAN, fd : BOOLEAN,
               want : SUBSET {"READ", "WRITE"}, read_armed : BOOLEAN,
               reg : SUBSET {"READ", "WRITE"}, attached : BOOLEAN, cursor : 0..MaxFill]
    /\ snd.ring \in Seq(Slot) /\ Len(snd.ring) <= Slots
    /\ snd.in_dispatch \in Nat /\ cls.busy \in Nat
    /\ cls.state \in {"OPEN", "CLOSING", "CLOSED"}
    /\ cls.result \in {"NONE", "DETACHED", "QUARANTINED", "CLOSE_ERROR"}
    /\ life.refs \in Nat /\ life.recv \in Op /\ life.send \in Op
    /\ seen.owed \in 0..MaxFill

Below(f) == {stack[i] : i \in {j \in 1..Len(stack) : \E k \in 1..j-1 : stack[k] = f}}

(* The end of a datagram is reported once, by on_close or by the owner's   *)
(* reclaim and never by both, and nothing of it is touched afterwards: no  *)
(* function of the datagram is still on the stack when on_close runs or    *)
(* when the core is freed, whichever callback asked for the close.  The    *)
(* socket is closed by then, and was closed only after the queue went out, *)
(* unless the owner abandoned it; DETACHED means no operation is held.     *)
DetachIsLast ==
    /\ TypeOK
    /\ seen.closed + seen.reclaimed <= 1
    /\ Below("on_close") \subseteq {"release"}
    /\ ~dg.core => Range(stack) \subseteq {"on_close", "release"}
    /\ cls.state = "CLOSED" => ~dg.fd
    /\ ~dg.fd /\ ~cls.abandon => SendDrained(snd)
    /\ cls.result = "DETACHED" /\ seen.closed > 0 => life.recv = "none" /\ life.send = "none"

(* Storage outlives its users.  The references of the life token are the   *)
(* owner's, one for each operation the backend holds and one for each      *)
(* event being dispatched, so the inbound buffer is there for a posted     *)
(* receive, a late completion and a delivery in progress; the GSO group    *)
(* buffer is marked busy exactly while a queued segment points into it.    *)
StoragePinned ==
    LET holds(op) == IF life[op] = "none" THEN 0 ELSE 1 IN
    /\ life.refs = (IF life.live THEN 1 ELSE 0) + holds("recv") + holds("send")
                   + Len(SelectSeq(stack, LAMBDA f : f = "release"))
    /\ life.rx <=> life.refs > 0
    /\ Range(stack) \cap {"on_recv", "rearm", "pull", "refill", "drain"} # {} => life.rx
    /\ snd.gso_busy <=> "last" \in Range(snd.ring)
    /\ dg.completion /\ life.live =>
          /\ snd.inflight <=> life.send \in {"posted", "cancelled"}
          /\ rcv.inflight <=> life.recv \in {"posted", "cancelled"}

Quiet == stack = <<>> /\ dg.core /\ cls.state = "OPEN"

\* kl_watcher_add failed: the interest is recorded and not registered
Unregistered == dg.want # {} /\ ~dg.read_armed

(* When control is back in the loop nothing waits for an event that has    *)
(* passed.  A producer told WOULD_BLOCK has an on_writable to come: the    *)
(* queue is not empty and its head is posted or WRITE is registered.  A    *)
(* receive side that is neither paused nor stopped is armed, with READ     *)
(* registered exactly then; and every datagram taken from the socket has   *)
(* been delivered or is held.                                              *)
NoLostEdge ==
    Quiet =>
    /\ (seen.blocked \/ snd.full) /\ ~snd.err =>
          /\ snd.full /\ snd.ring # <<>>
          /\ IF dg.completion THEN snd.inflight ELSE "WRITE" \in dg.reg \/ Unregistered
    /\ rcv.started /\ ~rcv.stopped /\ ~rcv.paused => rcv.inflight /\ seen.owed = 0
    /\ ~rcv.stopped =>
          /\ seen.owed = dg.cursor + (IF rcv.held THEN 1 ELSE 0)
          /\ ~dg.completion => (("READ" \in dg.reg) <=> rcv.inflight)

\* queued datagrams and no interest in writing: kl_watcher_add failed for WRITE
Stranded == stack = <<>> /\ ~dg.completion /\ snd.ring # <<>> /\ "WRITE" \notin dg.reg

(* A close that has begun is reported, from whichever callback and however *)
(* the operations end, unless the loop refused the WRITE interest.         *)
CloseCompletes == cls.state = "CLOSING" ~> (cls.state = "CLOSED" \/ Stranded)

=============================================================================
