------------------------------ MODULE KlStream ------------------------------
(***************************************************************************)
(* KlStream: one byte stream with a read facet (src/stream_read.c), a      *)
(* write facet (src/stream_write.c over the preallocated KlDrain of        *)
(* src/drain.c) and the confirmed-detachment close (src/stream_close.c).   *)
(*                                                                         *)
(* The machine is single-threaded and re-entrant: it calls hooks (read_arm,*)
(* read_deliver, submit_fn, on_writable, cancel_recv, cancel_send,         *)
(* on_close) and a hook may complete an operation inline or call back into *)
(* the API before it returns.  The model keeps the C call stack: `stack`   *)
(* lists the hook calls that are still open, and the two callers that have *)
(* work left after their callee (recv_tail, wc_tail).  One action is the   *)
(* code that runs between two hook calls.                                  *)
(*                                                                         *)
(* Bytes are counted, not represented: a KlDrain is a FIFO, so its content *)
(* is the last `buffered` bytes accepted.                                  *)
(***************************************************************************)
EXTENDS Naturals, Sequences

CONSTANTS
    Cap,           \* wq.max_size: the preallocated capacity of the write queue
    Lens,          \* the lengths a producer writes
    MaxTaken,      \* bound: bytes accepted in one life of the stream
    MaxDepth,      \* bound: API calls are made from at most this many open frames
    Modes          \* the transport models explored (a subset of AllModes)

\* Readiness (write_fn + disarm), or completion with a backend that copies the
\* submitted bytes, or completion with one that references them.
AllModes == {"readiness", "copying", "referencing"}

ASSUME StreamAssumption ==
    /\ Cap \in Nat \ {0}
    /\ Lens \subseteq Nat \ {0}
    /\ MaxTaken \in Nat
    /\ MaxDepth \in Nat
    /\ Modes \subseteq AllModes

VARIABLES
    rd,       \* the read facet's fields of struct KlStream
    wr,       \* the write facet's fields
    cl,       \* the close facet's fields
    stack,    \* open frames, innermost first
    prov      \* the provider: the operations it physically holds, and byte totals

vars == <<rd, wr, cl, stack, prov>>

Hooks == {"read_arm", "deliver", "deliver_eof", "submit", "on_writable",
          "cancel_recv", "cancel_send", "on_close"}

Tails == {"recv_tail", "wc_tail"}

-----------------------------------------------------------------------------
(* Construction: kl_stream_init and the three facet inits. *)

InitRead(m) ==
    [read_completion_mode  |-> m # "readiness",
     read_paused           |-> FALSE,
     recv_inflight         |-> FALSE,
     recv_held             |-> FALSE,
     held_ok               |-> FALSE,
     read_closed           |-> FALSE,
     arming                |-> FALSE,
     rearm_pending         |-> FALSE,
     completed_inline      |-> FALSE,
     recv_cancel_requested |-> FALSE]

InitWrite(m) ==
    [submit_fn             |-> m # "readiness",
     submit_copying        |-> m = "copying",
     buffered              |-> 0,
     wq_err                |-> FALSE,
     send_inflight         |-> FALSE,
     inflight_len          |-> 0,
     inflight_copying      |-> FALSE,
     submitting            |-> FALSE,
     inline_done           |-> FALSE,
     inline_ok             |-> FALSE,
     wr_blocked            |-> FALSE,
     send_cancel_requested |-> FALSE]

InitClose(hooks) ==
    [close_state     |-> "OPEN",
     close_abort     |-> FALSE,
     in_close_cancel |-> 0,
     in_writable     |-> 0,
     close_notified  |-> FALSE,
     cancel_hooks    |-> hooks]

\* Nothing posted, nothing accepted, nothing sent, no receive ever armed;
\* recv_cancels counts the cancel_recv calls made for the current receive.
InitProvider ==
    [recv |-> FALSE, send |-> FALSE, taken |-> 0, sent |-> 0,
     started |-> FALSE, recv_cancels |-> 0, send_cancels |-> 0]

Init ==
    /\ \E m \in Modes : rd = InitRead(m) /\ wr = InitWrite(m)
    /\ \E hooks \in BOOLEAN : cl = InitClose(hooks)
    /\ stack = <<>>
    /\ prov = InitProvider

-----------------------------------------------------------------------------
(* Frames. *)

Idle == stack = <<>>

Top(frames) == stack # <<>> /\ Head(stack) \in frames

Push(f, k) == <<f>> \o k

\* The consumer has control: in the event loop, in a delivery or in on_writable.
\* After on_close it no longer touches the stream, except to reuse it.
UserCall ==
    /\ Idle \/ Top({"deliver", "deliver_eof", "on_writable"})
    /\ Len(stack) < MaxDepth
    /\ ~cl.close_notified

wq_closing == cl.close_state # "OPEN"

-----------------------------------------------------------------------------
(* Shared code of the three facets, as functions of the fields. *)

WritePending(w) ==
    w.buffered + (IF w.inflight_copying /\ w.send_inflight THEN w.inflight_len ELSE 0)

MutFullyRetiredErr(r, w, c) ==
    /\ ~r.recv_inflight
    /\ ~w.send_inflight
    /\ c.close_abort \/ WritePending(w) = 0

FullyRetired(r, w, c) ==
    /\ ~r.recv_inflight
    /\ ~w.send_inflight
    /\ c.close_abort \/ w.wq_err \/ WritePending(w) = 0

MutCanDetach(r, w, c) ==
    /\ c.close_state = "CLOSING"
    /\ c.in_close_cancel = 0
    /\ FullyRetired(r, w, c)

CanDetach(r, w, c) ==
    /\ c.close_state = "CLOSING"
    /\ c.in_close_cancel = 0
    /\ c.in_writable = 0
    /\ FullyRetired(r, w, c)

\* stream_close_finalize, stream_detach: on_close is called on top of frames k.
Finalize(r, w, c, k) ==
    LET detach == CanDetach(r, w, c) IN
    /\ cl' = IF detach
             THEN [c EXCEPT !.close_state = "CLOSED", !.close_notified = TRUE]
             ELSE c
    /\ stack' = IF detach /\ ~c.close_notified THEN Push("on_close", k) ELSE k

ArmBlocked(r) == r.read_closed \/ r.read_paused \/ r.recv_inflight \/ r.recv_held

ArmPosts(r) == ~r.arming /\ ~ArmBlocked(r)

MutStreamArm(r, k) ==
    /\ rd' = IF ArmBlocked(r) THEN r
             ELSE [r EXCEPT !.recv_inflight = TRUE, !.recv_cancel_requested = FALSE,
                            !.completed_inline = FALSE, !.rearm_pending = FALSE,
                            !.arming = TRUE]
    /\ stack' = IF ArmBlocked(r) THEN k ELSE Push("read_arm", k)

\* stream_arm up to its call of read_arm, or its deferral to the open trampoline.
StreamArm(r, k) ==
    /\ rd' = IF r.arming THEN [r EXCEPT !.rearm_pending = TRUE]
             ELSE IF ArmBlocked(r) THEN r
             ELSE [r EXCEPT !.recv_inflight = TRUE, !.recv_cancel_requested = FALSE,
                            !.completed_inline = FALSE, !.rearm_pending = FALSE,
                            !.arming = TRUE]
    /\ stack' = IF ArmPosts(r) THEN Push("read_arm", k) ELSE k

MutRearmDue(r) == FALSE

\* The trampoline loops when the arm completed inline and its delivery asked for more.
RearmDue(r) == r.completed_inline /\ r.rearm_pending

\* A new receive has not been cancelled yet.
Armed(r, p) ==
    IF ArmPosts(r) THEN [p EXCEPT !.started = TRUE, !.recv_cancels = 0] ELSE p

\* stream_deliver_and_continue up to its call of read_deliver.
Deliver(r, ok, k) ==
    /\ rd' = IF ok THEN r ELSE [r EXCEPT !.read_closed = TRUE]
    /\ stack' = Push(IF ok THEN "deliver" ELSE "deliver_eof", k)

\* kl_stream_read_close; a readiness disarm cancels the pending readable event.
ReadCloseOf(r) ==
    IF r.read_closed THEN r
    ELSE [r EXCEPT !.read_closed = TRUE, !.recv_held = FALSE, !.held_ok = FALSE,
                   !.recv_inflight = @ /\ r.read_completion_mode]

Disarmed(r, p) == [p EXCEPT !.recv = @ /\ r.recv_inflight]

PumpSubmits(w, c) ==
    ~w.wq_err /\ ~c.close_abort /\ ~w.send_inflight /\ w.buffered > 0

\* stream_pump_completion up to its call of submit_fn, or its early return.
Pump(w, c, k) ==
    /\ wr' = IF PumpSubmits(w, c)
             THEN [w EXCEPT !.send_inflight = TRUE, !.send_cancel_requested = FALSE,
                            !.inflight_len = w.buffered,
                            !.inflight_copying = w.submit_copying,
                            !.inline_done = FALSE, !.submitting = TRUE]
             ELSE w
    /\ stack' = IF PumpSubmits(w, c) THEN Push("submit", k) ELSE k

Submitted(w, c, p) ==
    IF PumpSubmits(w, c) THEN [p EXCEPT !.send_cancels = 0] ELSE p

MutRoom(w) == Cap - w.buffered + 1

\* The capacity check of kl_drain_reserve_write and kl_drain_reserve_buffer.
Room(w) == Cap - w.buffered

\* kl_drain_consume.
Consume(buffered, n) == IF n >= buffered THEN 0 ELSE buffered - n

MutSendRetired(w) ==
    [w EXCEPT !.buffered = Consume(@, w.inflight_len),
              !.send_inflight = FALSE, !.inflight_len = 0]

SendRetired(w) ==
    [w EXCEPT !.buffered = IF w.inflight_copying THEN @ ELSE Consume(@, w.inflight_len),
              !.send_inflight = FALSE, !.inflight_len = 0]

SendFailed(w) ==
    [w EXCEPT !.send_inflight = FALSE, !.inflight_len = 0, !.wq_err = TRUE]

MutWritableEdge(w) ==
    /\ w.wr_blocked
    /\ ~wq_closing
    /\ WritePending(w) < Cap

WritableEdge(w) ==
    /\ w.wr_blocked
    /\ ~wq_closing
    /\ w.wq_err \/ WritePending(w) < Cap

-----------------------------------------------------------------------------
(* Read facet. *)

ReadStart ==
    /\ UserCall
    /\ ~ArmBlocked(rd)
    /\ StreamArm(rd, stack)
    /\ prov' = Armed(rd, prov)
    /\ UNCHANGED <<wr, cl>>

\* read_arm posts the receive and has not returned yet.
ArmPost ==
    /\ Top({"read_arm"})
    /\ rd.recv_inflight /\ ~prov.recv
    /\ prov' = [prov EXCEPT !.recv = TRUE]
    /\ UNCHANGED <<rd, wr, cl, stack>>

\* read_arm succeeds when it posted the receive or when the receive completed inline; it
\* fails only with nothing posted.
ArmReturn(ok) ==
    /\ Top({"read_arm"})
    /\ IF ok THEN prov.recv \/ ~rd.recv_inflight ELSE ~prov.recv
    /\ LET r == [rd EXCEPT !.arming = FALSE]
           k == Tail(stack)
           failed == ~ok /\ ~r.completed_inline
       IN IF RearmDue(r)
          THEN StreamArm(r, k) /\ prov' = Armed(r, prov)
          ELSE /\ rd' = IF failed
                        THEN [r EXCEPT !.recv_inflight = FALSE, !.read_closed = TRUE]
                        ELSE r
               /\ stack' = k
               /\ prov' = prov
    /\ UNCHANGED <<wr, cl>>

\* The provider holds a receive it may complete now: from the event loop, inline
\* in read_arm, or inline in cancel_recv.
RecvRetires ==
    /\ rd.recv_inflight
    /\ \/ Idle /\ prov.recv
       \/ Top({"read_arm"})
       \/ Top({"cancel_recv"}) /\ prov.recv

MutOnRecv(ok) ==
    /\ RecvRetires
    /\ prov' = [prov EXCEPT !.recv = FALSE]
    /\ LET r == [rd EXCEPT !.recv_inflight = FALSE, !.completed_inline = @ \/ rd.arming]
       IN Deliver(r, ok, Push("recv_tail", stack)) /\ UNCHANGED cl
    /\ UNCHANGED wr

\* kl_stream_on_recv: ok = FALSE is EOF, an error or a cancelled receive.
OnRecv(ok) ==
    /\ RecvRetires
    /\ prov' = [prov EXCEPT !.recv = FALSE]
    /\ LET r == [rd EXCEPT !.recv_inflight = FALSE, !.completed_inline = @ \/ rd.arming]
       IN IF r.read_closed
          THEN rd' = r /\ Finalize(r, wr, cl, stack)
          ELSE IF r.read_paused
          THEN LET h == [r EXCEPT !.recv_held = TRUE, !.held_ok = ok]
               IN rd' = h /\ Finalize(h, wr, cl, stack)
          ELSE Deliver(r, ok, Push("recv_tail", stack)) /\ UNCHANGED cl
    /\ UNCHANGED wr

\* The backend reports more bytes than read_cap: fail closed.
OnRecvOversize ==
    /\ RecvRetires
    /\ ~rd.read_closed
    /\ prov' = [prov EXCEPT !.recv = FALSE]
    /\ LET r == [rd EXCEPT !.recv_inflight = FALSE, !.completed_inline = @ \/ rd.arming,
                           !.read_closed = TRUE]
       IN rd' = r /\ Finalize(r, wr, cl, stack)
    /\ UNCHANGED wr

DeliverReturn ==
    /\ Top({"deliver", "deliver_eof"})
    /\ IF Head(stack) = "deliver_eof" \/ rd.read_closed \/ rd.read_paused \/ rd.recv_inflight
       THEN rd' = rd /\ stack' = Tail(stack) /\ prov' = prov
       ELSE StreamArm(rd, Tail(stack)) /\ prov' = Armed(rd, prov)
    /\ UNCHANGED <<wr, cl>>

\* The end of kl_stream_on_recv, after stream_deliver_and_continue returned.
RecvTail ==
    /\ Top({"recv_tail"})
    /\ IF rd.recv_inflight
       THEN cl' = cl /\ stack' = Tail(stack)
       ELSE Finalize(rd, wr, cl, Tail(stack))
    /\ UNCHANGED <<rd, wr, prov>>

Pause ==
    /\ UserCall
    /\ ~rd.read_paused
    /\ rd' = [rd EXCEPT !.read_paused = TRUE,
                        !.recv_inflight = @ /\ rd.read_completion_mode]
    /\ prov' = Disarmed(rd', prov)
    /\ UNCHANGED <<wr, cl, stack>>

Resume ==
    /\ UserCall
    /\ rd.read_paused
    /\ LET r == [rd EXCEPT !.read_paused = FALSE]
           h == [r EXCEPT !.recv_held = FALSE, !.held_ok = FALSE]
       IN IF r.read_closed
          THEN rd' = r /\ stack' = stack /\ prov' = prov
          ELSE IF r.recv_held
          THEN Deliver(h, r.held_ok, stack) /\ prov' = prov
          ELSE IF r.recv_inflight
          THEN rd' = r /\ stack' = stack /\ prov' = prov
          ELSE StreamArm(r, stack) /\ prov' = Armed(r, prov)
    /\ UNCHANGED <<wr, cl>>

ReadClose ==
    /\ UserCall
    /\ ~rd.read_closed
    /\ rd' = ReadCloseOf(rd)
    /\ prov' = Disarmed(rd', prov)
    /\ UNCHANGED <<wr, cl, stack>>

-----------------------------------------------------------------------------
(* Write facet. *)

WriteCall(len) ==
    /\ UserCall
    /\ ~wr.wq_err
    /\ ~wq_closing
    /\ len <= Cap
    /\ prov.taken + len <= MaxTaken

\* KL_STREAM_WOULD_BLOCK: nothing taken, the producer is owed an on_writable.
WriteBlocked(len) ==
    /\ WriteCall(len)
    /\ len > Room(wr)
    /\ wr' = [wr EXCEPT !.wr_blocked = TRUE]
    /\ UNCHANGED <<rd, cl, stack, prov>>

\* Completion mode: queue the whole write (kl_drain_reserve_buffer), then pump.
WriteSubmit(len) ==
    /\ WriteCall(len)
    /\ wr.submit_fn
    /\ len <= Room(wr)
    /\ LET w == [wr EXCEPT !.buffered = @ + len, !.wr_blocked = FALSE]
       IN /\ Pump(w, cl, stack)
          /\ prov' = [Submitted(w, cl, prov) EXCEPT !.taken = @ + len]
    /\ UNCHANGED <<rd, cl>>

\* Readiness mode (kl_drain_reserve_write): an empty queue sends a prefix of n
\* bytes directly and queues the rest, a non-empty one appends.
WriteDirect(len, n) ==
    /\ WriteCall(len)
    /\ ~wr.submit_fn
    /\ len <= Room(wr)
    /\ wr.buffered > 0 => n = 0
    /\ wr' = [wr EXCEPT !.buffered = @ + (len - n), !.wr_blocked = FALSE]
    /\ prov' = [prov EXCEPT !.taken = @ + len, !.sent = @ + n]
    /\ UNCHANGED <<rd, cl, stack>>

\* Readiness mode: the writer fails on the direct send.
WriteFails(len) ==
    /\ WriteCall(len)
    /\ ~wr.submit_fn
    /\ wr.buffered = 0
    /\ wr' = [wr EXCEPT !.wq_err = TRUE]
    /\ UNCHANGED <<rd, cl, stack, prov>>

\* submit_fn returns: r # 0 is a failed submission; the pump then retires an
\* inline completion and submits the next batch.
SubmitReturn(ok) ==
    /\ Top({"submit"})
    /\ LET w == [wr EXCEPT !.submitting = FALSE]
           copied == [w EXCEPT !.buffered = IF w.inflight_copying
                                            THEN Consume(@, w.inflight_len) ELSE @]
           done == SendRetired([copied EXCEPT !.inline_done = FALSE])
           k == Tail(stack)
       IN IF ~ok
          THEN /\ wr' = [SendFailed(w) EXCEPT !.inline_done = FALSE]
               /\ stack' = k
               /\ prov' = prov
          ELSE IF ~w.inline_done
          THEN wr' = copied /\ stack' = k /\ prov' = [prov EXCEPT !.send = TRUE]
          ELSE IF ~w.inline_ok
          THEN /\ wr' = SendFailed([copied EXCEPT !.inline_done = FALSE])
               /\ stack' = k
               /\ prov' = prov
          ELSE /\ Pump(done, cl, k)
               /\ prov' = [Submitted(done, cl, prov) EXCEPT !.sent = @ + w.inflight_len]
    /\ UNCHANGED <<rd, cl>>

\* kl_stream_on_write_complete from inside submit_fn is only noted.
OnWriteInline(ok) ==
    /\ Top({"submit"})
    /\ ~wr.inline_done
    /\ wr' = [wr EXCEPT !.inline_done = TRUE, !.inline_ok = ok]
    /\ UNCHANGED <<rd, cl, stack, prov>>

\* kl_stream_on_write_complete from the event loop or inside cancel_send.
OnWriteComplete(ok) ==
    /\ Idle \/ Top({"cancel_send"})
    /\ wr.send_inflight /\ prov.send
    /\ LET w == SendRetired(wr)
           p == [prov EXCEPT !.send = FALSE]
           k == Push("wc_tail", stack)
       IN IF ok
          THEN /\ Pump(w, cl, k)
               /\ prov' = [Submitted(w, cl, p) EXCEPT !.sent = @ + wr.inflight_len]
          ELSE wr' = SendFailed(wr) /\ stack' = k /\ prov' = p
    /\ UNCHANGED <<rd, cl>>

\* The end of kl_stream_on_write_complete: the writable edge, else the retire.
WcTail ==
    /\ Top({"wc_tail"})
    /\ IF WritableEdge(wr)
       THEN /\ wr' = [wr EXCEPT !.wr_blocked = FALSE]
            /\ cl' = [cl EXCEPT !.in_writable = @ + 1]
            /\ stack' = Push("on_writable", Tail(stack))
       ELSE wr' = wr /\ Finalize(rd, wr, cl, Tail(stack))
    /\ UNCHANGED <<rd, prov>>

\* kl_stream_flush (readiness, from the event loop): n bytes leave the queue, or
\* the writer fails after n of them.
Flush(n, ok) ==
    /\ Idle
    /\ ~wr.submit_fn /\ ~wr.wq_err
    /\ ~cl.close_notified
    /\ ok \/ n < wr.buffered
    /\ LET w == [wr EXCEPT !.buffered = @ - n, !.wq_err = ~ok]
       IN IF WritableEdge(w)
          THEN /\ wr' = [w EXCEPT !.wr_blocked = FALSE]
               /\ cl' = [cl EXCEPT !.in_writable = @ + 1]
               /\ stack' = Push("on_writable", stack)
          ELSE /\ wr' = w
               /\ IF w.buffered = 0 \/ ~ok THEN Finalize(rd, w, cl, stack)
                                           ELSE UNCHANGED <<cl, stack>>
    /\ prov' = [prov EXCEPT !.sent = @ + n]
    /\ UNCHANGED rd

\* on_writable returns to flush or on_write_complete, whose tail is the retire.
WritableReturn ==
    /\ Top({"on_writable"})
    /\ Finalize(rd, wr, [cl EXCEPT !.in_writable = @ - 1], Tail(stack))
    /\ UNCHANGED <<rd, wr, prov>>

-----------------------------------------------------------------------------
(* Close facet. *)

\* The second half of stream_close_common's cancel window.
CancelSend(r, w, c, k) ==
    IF w.send_inflight /\ c.cancel_hooks /\ ~w.send_cancel_requested
    THEN /\ wr' = [w EXCEPT !.send_cancel_requested = TRUE]
         /\ cl' = c
         /\ stack' = Push("cancel_send", k)
    ELSE /\ wr' = w
         /\ Finalize(r, w, [c EXCEPT !.in_close_cancel = @ - 1], k)

\* stream_close_common: abort selects kl_stream_cancel over kl_stream_close_begin.
CloseCall(abort) ==
    /\ cl.close_state # "CLOSED"
    /\ LET r == IF wq_closing THEN rd ELSE ReadCloseOf(rd)
           c == [cl EXCEPT !.close_abort = @ \/ abort, !.close_state = "CLOSING"]
           n == [c EXCEPT !.in_close_cancel = @ + 1]
           ask == r.recv_inflight /\ c.cancel_hooks /\ ~r.recv_cancel_requested
           p == Disarmed(r, prov)
       IN IF ~c.close_abort
          THEN rd' = r /\ wr' = wr /\ Finalize(r, wr, c, stack) /\ prov' = p
          ELSE IF ask
          THEN /\ rd' = [r EXCEPT !.recv_cancel_requested = TRUE]
               /\ wr' = wr
               /\ cl' = n
               /\ stack' = Push("cancel_recv", stack)
               /\ prov' = [p EXCEPT !.recv_cancels = @ + 1]
          ELSE /\ rd' = r
               /\ CancelSend(r, wr, n, stack)
               /\ prov' = [p EXCEPT !.send_cancels =
                               @ + (IF stack' = Push("cancel_send", stack) THEN 1 ELSE 0)]

CloseBegin == UserCall /\ CloseCall(FALSE)

\* Also re-entrantly, from inside a cancel hook.
Cancel ==
    /\ UserCall \/ (Top({"cancel_recv", "cancel_send"}) /\ Len(stack) < MaxDepth)
    /\ CloseCall(TRUE)

\* The read_arm hook begins a close before it returns (one that closes before it posts, and
\* then fails, is assumed away).
ArmCloses(abort) ==
    /\ Top({"read_arm"}) /\ (prov.recv \/ ~rd.recv_inflight)
    /\ CloseCall(abort)

CancelRecvReturn ==
    /\ Top({"cancel_recv"})
    /\ rd' = rd
    /\ CancelSend(rd, wr, cl, Tail(stack))
    /\ prov' = [prov EXCEPT !.send_cancels =
                    @ + (IF stack' = Push("cancel_send", Tail(stack)) THEN 1 ELSE 0)]

CancelSendReturn ==
    /\ Top({"cancel_send"})
    /\ Finalize(rd, wr, [cl EXCEPT !.in_close_cancel = @ - 1], Tail(stack))
    /\ UNCHANGED <<rd, wr, prov>>

CloseReturn ==
    /\ Top({"on_close"})
    /\ stack' = Tail(stack)
    /\ UNCHANGED <<rd, wr, cl, prov>>

\* After detachment the owner frees the queue and initialises the storage again.
Reuse ==
    /\ Idle
    /\ cl.close_notified
    /\ \E m \in Modes : rd' = InitRead(m) /\ wr' = InitWrite(m)
    /\ \E hooks \in BOOLEAN : cl' = InitClose(hooks)
    /\ prov' = InitProvider
    /\ UNCHANGED stack

-----------------------------------------------------------------------------

Provider ==
    \/ \E ok \in BOOLEAN : OnRecv(ok)
    \/ OnRecvOversize
    \/ \E ok \in BOOLEAN : OnWriteComplete(ok)
    \/ \E n \in 0..wr.buffered, ok \in BOOLEAN : Flush(n, ok)

Inline ==
    \/ ArmPost
    \/ \E ok \in BOOLEAN : OnWriteInline(ok)
    \/ \E abort \in BOOLEAN : ArmCloses(abort)

Returns ==
    \/ \E ok \in BOOLEAN : ArmReturn(ok)
    \/ DeliverReturn
    \/ RecvTail
    \/ \E ok \in BOOLEAN : SubmitReturn(ok)
    \/ WcTail
    \/ WritableReturn
    \/ CancelRecvReturn
    \/ CancelSendReturn
    \/ CloseReturn

User ==
    \/ ReadStart
    \/ Pause
    \/ Resume
    \/ ReadClose
    \/ \E len \in Lens : WriteBlocked(len)
    \/ \E len \in Lens : WriteSubmit(len)
    \/ \E len \in Lens : \E n \in 0..len : WriteDirect(len, n)
    \/ \E len \in Lens : WriteFails(len)
    \/ CloseBegin
    \/ Cancel
    \/ Reuse

Next == Provider \/ Inline \/ Returns \/ User

Spec == Init /\ [][Next]_vars

-----------------------------------------------------------------------------
(* Properties. *)

ReadFacet ==
    [read_completion_mode : BOOLEAN, read_paused : BOOLEAN, recv_inflight : BOOLEAN,
     recv_held : BOOLEAN, held_ok : BOOLEAN, read_closed : BOOLEAN, arming : BOOLEAN,
     rearm_pending : BOOLEAN, completed_inline : BOOLEAN, recv_cancel_requested : BOOLEAN]

WriteFacet ==
    [submit_fn : BOOLEAN, submit_copying : BOOLEAN, buffered : Nat, wq_err : BOOLEAN,
     send_inflight : BOOLEAN, inflight_len : Nat, inflight_copying : BOOLEAN,
     submitting : BOOLEAN, inline_done : BOOLEAN, inline_ok : BOOLEAN,
     wr_blocked : BOOLEAN, send_cancel_requested : BOOLEAN]

CloseFacet ==
    [close_state : {"OPEN", "CLOSING", "CLOSED"}, close_abort : BOOLEAN,
     in_close_cancel : Nat, in_writable : Nat, close_notified : BOOLEAN,
     cancel_hooks : BOOLEAN]

ProviderState ==
    [recv : BOOLEAN, send : BOOLEAN, taken : Nat, sent : Nat, started : BOOLEAN,
     recv_cancels : Nat, send_cancels : Nat]

\* The fields have their types; the write queue stays within its reservation
\* (kl_drain_reserve_write / kl_drain_reserve_buffer never overrun buf_cap).
TypeOK ==
    /\ rd \in ReadFacet
    /\ wr \in WriteFacet
    /\ cl \in CloseFacet
    /\ prov \in ProviderState
    /\ stack \in Seq(Hooks \cup Tails)
    /\ wr.buffered <= Cap

\* stream_close.c: once on_close has been called, the provider physically holds
\* neither a receive into read_buf nor a send of queued bytes.
DetachedIsRetired == cl.close_notified => ~prov.recv /\ ~prov.send

\* stream_close.c, stream_write.c: on_close is never called while a frame of the
\* cancel window, of the write pump or of on_writable is still open below it.
DetachOutsideGuardedFrames ==
    \A i \in 1..Len(stack) : stack[i] = "on_close" =>
        \A j \in i + 1 .. Len(stack) :
            stack[j] \notin {"submit", "on_writable", "cancel_recv", "cancel_send",
                             "wc_tail", "on_close"}

\* docs/contracts/stream.md:213: the close callback fires "never mid-callback".
DetachNotMidCallback ==
    \A i \in 1..Len(stack) : stack[i] = "on_close" => i = Len(stack)

\* stream_read.c: back in the event loop, a started, unpaused, open read side always
\* has a receive armed: no re-arm is lost between deferral, pause and resume.
NoLostRearm ==
    Idle /\ prov.started /\ ~rd.read_paused /\ ~rd.read_closed => rd.recv_inflight

\* stream_write.c: back in the event loop, a producer refused with WOULD_BLOCK is
\* still owed an on_writable that can come: bytes are pending on a working write
\* side, and in completion mode an operation is in flight to move them.
NoLostWritable ==
    Idle /\ wr.wr_blocked /\ ~wq_closing =>
        /\ ~wr.wq_err
        /\ WritePending(wr) > 0
        /\ wr.submit_fn => wr.send_inflight

\* stream_write.c: until the write side fails, every accepted byte is either sent
\* (acknowledged by the transport) or still pending; none is lost or sent twice.
BytesConserved ==
    ~wr.wq_err /\ ~wr.submitting => prov.taken = prov.sent + WritePending(wr)

\* stream_close.c:108: each outstanding operation is asked to cancel at most once,
\* even when a cancel hook re-enters kl_stream_cancel.
CancelOnce == prov.recv_cancels <= 1 /\ prov.send_cancels <= 1

\* stream_close.c: what makes it safe to free the stream in on_close.
CloseDiscipline == DetachedIsRetired /\ DetachOutsideGuardedFrames /\ CancelOnce

\* stream_read.c:42: a provider that completes inside read_arm cannot grow the C
\* stack: at most one read_arm frame, and at most two deliveries, are ever open.
BoundedRecursion ==
    /\ \A i, j \in 1..Len(stack) :
          stack[i] = "read_arm" /\ stack[j] = "read_arm" => i = j
    /\ \A i, j, k \in 1..Len(stack) :
          i < j /\ j < k => ~(\A x \in {i, j, k} : stack[x] \in {"deliver", "deliver_eof"})

\* stream_read.c: nothing is delivered once the read side is closed (kl_stream_close,
\* kl_stream_read_close, a terminal delivery or a failed arm), held data included.
NoDeliveryAfterClose ==
    [][Len(stack') > Len(stack) /\ Head(stack') \in {"deliver", "deliver_eof"}
         => ~rd.read_closed]_vars

\* Every hook returns, and a receive or send that a cancel hook was called for completes
\* (with whatever result).  Nothing is assumed of a peer: a receive that was not cancelled
\* may stay posted, and a socket or a posted send may take no byte.
Fairness ==
    /\ WF_vars(Returns)
    /\ WF_vars(\E ok \in BOOLEAN : Idle /\ rd.recv_cancel_requested /\ OnRecv(ok))
    /\ WF_vars(\E ok \in BOOLEAN : Idle /\ wr.send_cancel_requested /\ OnWriteComplete(ok))

FairSpec == Spec /\ Fairness

Closing == cl.close_state = "CLOSING"

\* Nothing the transport holds, and nothing it could still take, keeps the stream.
NothingToWaitFor ==
    /\ ~prov.recv /\ ~prov.send
    /\ cl.close_abort \/ wr.wq_err \/ prov.sent = prov.taken

\* stream_close.c: kl_stream_cancel on a stream with cancel hooks ends in on_close,
\* whatever the peer does; and a close of either kind that has nothing left to wait for
\* is never forgotten by the frame that deferred it (docs/contracts/stream.md:170, a
\* graceful close waits for the posted read until it retires or kl_stream_cancel is called).
CloseCompletes ==
    /\ Closing /\ cl.close_abort /\ cl.cancel_hooks ~> cl.close_notified
    /\ Closing /\ NothingToWaitFor ~> cl.close_notified
=============================================================================
