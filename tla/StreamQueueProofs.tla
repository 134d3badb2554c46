------------------------- MODULE StreamQueueProofs -------------------------
(***************************************************************************)
(* Proofs about the write facet of KlStream: no accepted byte is lost or   *)
(* sent twice, and a producer refused with WOULD_BLOCK keeps a writable    *)
(* edge to come, whatever submit_fn completes inline.                      *)
(*                                                                         *)
(* QueueInv relates the queue to the operation in flight: who moves the    *)
(* queued bytes next, and what the provider has taken of them.             *)
(***************************************************************************)
EXTENDS StreamReadProofs

-----------------------------------------------------------------------------
(* No byte and no writable edge is lost. *)

\* The queue's bytes and the flags that say who moves them next; an on_writable that is owed
\* waits for an operation in flight, or for the tail of on_write_complete.
QueueInv(w, c, k, p) ==
    /\ w.send_inflight => w.submit_fn
    /\ c.close_abort => c.close_state # "OPEN"
    /\ w.submit_fn /\ ~w.wq_err /\ ~c.close_abort /\ w.buffered > 0 => w.send_inflight
    /\ ~w.wq_err /\ w.submitting => w.inflight_len = w.buffered /\ p.taken = p.sent + w.buffered
    /\ ~w.wq_err /\ ~w.submitting => p.taken = p.sent + WritePending(w)
    /\ ~w.wq_err /\ w.send_inflight /\ ~w.inflight_copying => w.inflight_len <= w.buffered
    /\ w.wr_blocked /\ ~Has("wc_tail", k) => ~w.submitting
    /\ w.wr_blocked /\ c.close_state = "OPEN" /\ ~Has("wc_tail", k) =>
          ~w.wq_err /\ WritePending(w) > 0 /\ (w.submit_fn => w.send_inflight)

\* The fields QueueInv reads.
SameQueue(w, v) ==
    /\ v.submit_fn = w.submit_fn /\ v.wq_err = w.wq_err /\ v.buffered = w.buffered
    /\ v.send_inflight = w.send_inflight /\ v.inflight_len = w.inflight_len
    /\ v.inflight_copying = w.inflight_copying /\ v.submitting = w.submitting
    /\ v.wr_blocked = w.wr_blocked

SameTotals(p, q) == q.taken = p.taken /\ q.sent = p.sent

\* A close only advances.
Onward(c, d) ==
    /\ d.close_state = "OPEN" => c.close_state = "OPEN"
    /\ c.close_abort => d.close_abort
    /\ d.close_abort => d.close_state # "OPEN"

LEMMA CalmQueue ==
    ASSUME NEW w, NEW v, NEW c, NEW d, NEW k, NEW s, NEW p, NEW q, QueueInv(w, c, k, p),
           SameQueue(w, v), SameTotals(p, q), Onward(c, d), Has("wc_tail", s) <=> Has("wc_tail", k)
    PROVE  QueueInv(v, d, s, q)
<1>1. WritePending(v) = WritePending(w)
  BY DEF SameQueue, WritePending
<1>. QED BY <1>1 DEF QueueInv, SameQueue, SameTotals, Onward

LEMMA FinalizeOnward ==
    ASSUME NEW r, NEW w, NEW c \in CloseFacet, NEW k, Finalize(r, w, c, k),
           c.close_abort => c.close_state # "OPEN"
    PROVE  Onward(c, cl')
<1>1. CASE ~CanDetach(r, w, c)
  BY <1>1 DEF Finalize, Onward
<1>2. CASE CanDetach(r, w, c)
  <2>1. cl' = [c EXCEPT !.close_state = "CLOSED", !.close_notified = TRUE]
    BY <1>2 DEF Finalize
  <2>. QED BY <1>2, <2>1 DEF CanDetach, Onward, CloseFacet
<1>. QED BY <1>1, <1>2

LEMMA CloseOnward ==
    ASSUME NEW abort \in BOOLEAN, CloseCall(abort), cl \in CloseFacet, wr \in WriteFacet,
           prov \in ProviderState
    PROVE  Onward(cl, cl') /\ SameQueue(wr, wr') /\ SameTotals(prov, prov')
<1>. DEFINE r == IF wq_closing THEN rd ELSE ReadCloseOf(rd)
            c == [cl EXCEPT !.close_abort = @ \/ abort, !.close_state = "CLOSING"]
            n == [c EXCEPT !.in_close_cancel = @ + 1]
            p == Disarmed(r, prov)
<1>1. /\ c \in CloseFacet /\ c.close_state = "CLOSING" /\ (cl.close_abort => c.close_abort)
  BY Zenon DEF CloseFacet
<1>2. p \in ProviderState /\ SameTotals(prov, p)
  BY Zenon DEF Disarmed, ProviderState, SameTotals
<1>3. \/ wr' = wr /\ Finalize(r, wr, c, stack) /\ prov' = p
      \/ wr' = wr /\ cl' = n /\ prov' = [p EXCEPT !.recv_cancels = @ + 1]
      \/ /\ CancelSend(r, wr, n, stack)
         /\ prov' = [p EXCEPT !.send_cancels =
                         @ + (IF stack' = Push("cancel_send", stack) THEN 1 ELSE 0)]
  BY DEF CloseCall
<1>. HIDE DEF r, c, p
<1>4. n \in CloseFacet /\ n.close_state = "CLOSING" /\ (cl.close_abort => n.close_abort)
  BY <1>1 DEF CloseFacet
<1>5. ASSUME NEW e, e \in CloseFacet, e.close_state = "CLOSING", cl.close_abort => e.close_abort,
             NEW k, Finalize(r, wr, e, k)
      PROVE  Onward(cl, cl')
  <2>1. Onward(e, cl') /\ cl'.close_state # "OPEN"
    BY Zenon, <1>5, FinalizeOnward DEF Finalize, CloseFacet
  <2>. QED BY SMTT(30), <1>5, <2>1 DEF Onward
<1>. HIDE DEF n
<1>6. SameTotals(prov, prov')
  BY <1>2, <1>3 DEF SameTotals, ProviderState
<1>7. CASE wr' = wr /\ (Finalize(r, wr, c, stack) \/ cl' = n)
  BY <1>1, <1>4, <1>5, <1>6, <1>7 DEF SameQueue, Onward
<1>8. CASE CancelSend(r, wr, n, stack)
  <2>1. SameQueue(wr, wr')
    BY <1>8 DEF CancelSend, SameQueue, WriteFacet
  <2>2. CASE cl' = n
    BY <1>4, <1>6, <2>1, <2>2 DEF Onward
  <2>3. CASE Finalize(r, wr, [n EXCEPT !.in_close_cancel = @ - 1], stack)
    <3>. DEFINE e == [n EXCEPT !.in_close_cancel = @ - 1]
    <3>1. cl' = e \/ cl' = [e EXCEPT !.close_state = "CLOSED", !.close_notified = TRUE]
      BY <2>3 DEF Finalize
    <3>2. Onward(cl, cl')
      BY ZenonT(40), <1>4, <3>1 DEF Onward, CloseFacet
    <3>. QED BY <1>6, <2>1, <3>2
  <2>. QED BY <1>8, <2>2, <2>3 DEF CancelSend
<1>. QED BY <1>3, <1>6, <1>7, <1>8

LEMMA CalmReadSide ==
    ASSUME StateInv, QueueInv(wr, cl, stack, prov),
           \/ ReadStart \/ Pause \/ Resume \/ ReadClose \/ DeliverReturn \/ ArmPost
           \/ \E ok \in BOOLEAN : ArmReturn(ok) \/ OnRecv(ok) \/ OnWriteInline(ok)
           \/ OnRecvOversize \/ RecvTail \/ CloseReturn
    PROVE  Onward(cl, cl') /\ SameQueue(wr, wr') /\ SameTotals(prov, prov')
<1>1. /\ cl \in CloseFacet /\ wr \in WriteFacet /\ prov \in ProviderState
      /\ cl.close_abort => cl.close_state # "OPEN"
  BY DEF StateInv, Inv, TypeInv, QueueInv
<1>2. SameQueue(wr, wr')
  BY Zenon, <1>1 DEF SameQueue, WriteFacet, ReadStart, Pause, Resume, ReadClose, DeliverReturn,
       ArmPost, ArmReturn, OnRecv, OnWriteInline, OnRecvOversize, RecvTail, CloseReturn
<1>3. cl' = cl \/ \E r, k : Finalize(r, wr, cl, k)
  BY Zenon DEF ReadStart, Pause, Resume, ReadClose, DeliverReturn, ArmPost,
       ArmReturn, OnRecv, OnWriteInline, OnRecvOversize, RecvTail, CloseReturn
<1>4. Onward(cl, cl')
  BY SMTT(30), <1>1, <1>3, FinalizeOnward DEF Onward
<1>5. \/ prov' = prov \/ (\E r : prov' = Armed(r, prov)) \/ (\E r : prov' = Disarmed(r, prov))
      \/ \E b \in BOOLEAN : prov' = [prov EXCEPT !.recv = b]
  BY Zenon DEF ReadStart, Pause, Resume, ReadClose, DeliverReturn, ArmPost,
       ArmReturn, OnRecv, OnWriteInline, OnRecvOversize, RecvTail, CloseReturn
<1>6. SameTotals(prov, prov')
  BY Zenon, <1>1, <1>5 DEF SameTotals, ProviderState, Armed, Disarmed
<1>. QED BY <1>2, <1>4, <1>6

LEMMA CalmCloseSide ==
    ASSUME StateInv, QueueInv(wr, cl, stack, prov),
           \/ CloseBegin \/ Cancel \/ \E abort \in BOOLEAN : ArmCloses(abort)
           \/ WritableReturn \/ CancelRecvReturn \/ CancelSendReturn
    PROVE  Onward(cl, cl') /\ SameQueue(wr, wr') /\ SameTotals(prov, prov')
<1>1. /\ cl \in CloseFacet /\ wr \in WriteFacet /\ prov \in ProviderState
      /\ cl.close_abort => cl.close_state # "OPEN"
  BY DEF StateInv, Inv, TypeInv, QueueInv
<1>2. CASE CloseBegin \/ Cancel \/ \E abort \in BOOLEAN : ArmCloses(abort)
  BY Zenon, <1>1, <1>2, CloseOnward DEF CloseBegin, Cancel, ArmCloses
<1>3. CASE WritableReturn \/ CancelRecvReturn \/ CancelSendReturn
  <2>1. SameQueue(wr, wr')
    BY <1>1, <1>3 DEF WritableReturn, CancelRecvReturn, CancelSendReturn, CancelSend, SameQueue,
         WriteFacet
  <2>2. SameTotals(prov, prov')
    BY <1>1, <1>3 DEF WritableReturn, CancelRecvReturn, CancelSendReturn, SameTotals, ProviderState
  <2>3. \/ cl' = cl
        \/ \E k : Finalize(rd, wr, [cl EXCEPT !.in_writable = @ - 1], k)
        \/ \E k : Finalize(rd, wr, [cl EXCEPT !.in_close_cancel = @ - 1], k)
    BY <1>3 DEF WritableReturn, CancelRecvReturn, CancelSendReturn, CancelSend
  <2>4. \/ cl' = cl
        \/ \E e \in {[cl EXCEPT !.in_writable = @ - 1], [cl EXCEPT !.in_close_cancel = @ - 1]} :
              \/ cl' = e
              \/ e.close_state = "CLOSING"
                 /\ cl' = [e EXCEPT !.close_state = "CLOSED", !.close_notified = TRUE]
    BY <2>3 DEF Finalize, CanDetach
  <2>5. Onward(cl, cl')
    BY ZenonT(40), <1>1, <2>4 DEF Onward, CloseFacet
  <2>. QED BY <2>1, <2>2, <2>5
<1>. QED BY <1>2, <1>3

\* The queue before stream_pump_completion: what SubmitReturn, OnWriteComplete and WriteSubmit
\* establish.
Pumpable(w, c, k, p) ==
    /\ w \in WriteFacet /\ k \in Seq(Frames) /\ p.taken \in Nat /\ p.sent \in Nat
    /\ w.submit_fn /\ ~w.submitting
    /\ c.close_abort => c.close_state # "OPEN"
    /\ ~w.wq_err => p.taken = p.sent + WritePending(w)
    /\ ~w.wq_err /\ w.send_inflight /\ ~w.inflight_copying => w.inflight_len <= w.buffered
    /\ w.wr_blocked => Has("wc_tail", k)

LEMMA PumpQueue ==
    ASSUME NEW w, NEW c, NEW k, NEW p, Pumpable(w, c, k, p), Pump(w, c, k), SameTotals(p, prov')
    PROVE  QueueInv(wr', c, stack', prov')
<1>1. w \in WriteFacet /\ k \in Seq(Frames)
  BY DEF Pumpable
<1>2. CASE ~PumpSubmits(w, c)
  <2>1. wr' = w /\ stack' = k
    BY <1>2 DEF Pump
  <2>2. w.buffered > 0 /\ ~w.wq_err /\ ~c.close_abort => w.send_inflight
    BY <1>2 DEF PumpSubmits
  <2>. QED BY <2>1, <2>2 DEF Pumpable, QueueInv, SameTotals
<1>3. CASE PumpSubmits(w, c)
  <2>1. /\ stack' = Push("submit", k)
        /\ wr' = [w EXCEPT !.send_inflight = TRUE, !.send_cancel_requested = FALSE,
                           !.inflight_len = w.buffered, !.inflight_copying = w.submit_copying,
                           !.inline_done = FALSE, !.submitting = TRUE]
    BY <1>3 DEF Pump
  <2>2. /\ wr'.send_inflight /\ wr'.submitting /\ wr'.inflight_len = w.buffered
        /\ wr'.buffered = w.buffered /\ wr'.wr_blocked = w.wr_blocked
        /\ wr'.submit_fn = w.submit_fn /\ wr'.wq_err = w.wq_err /\ w.buffered \in Nat
    BY <1>1, <2>1 DEF WriteFacet
  <2>3. Has("wc_tail", k) => Has("wc_tail", stack')
    BY <1>1, <2>1, PushHas, FrameKinds
  <2>4. WritePending(w) = w.buffered
    BY <1>1, <1>3 DEF PumpSubmits, WritePending, WriteFacet
  <2>. QED BY <2>2, <2>3, <2>4 DEF Pumpable, QueueInv, SameTotals
<1>. QED BY <1>2, <1>3

\* A failed send leaves the queue in error.
LEMMA FailQueue ==
    ASSUME NEW v, NEW c, NEW s, NEW p, ~v.send_inflight, v.wq_err, ~v.submitting,
           v.wr_blocked => Has("wc_tail", s), c.close_abort => c.close_state # "OPEN"
    PROVE  QueueInv(v, c, s, p)
BY DEF QueueInv

LEMMA PumpTotals ==
    ASSUME NEW w, NEW c, NEW p \in ProviderState, NEW n \in Nat
    PROVE  /\ SameTotals([p EXCEPT !.sent = @ + n], [Submitted(w, c, p) EXCEPT !.sent = @ + n])
           /\ SameTotals([p EXCEPT !.taken = @ + n], [Submitted(w, c, p) EXCEPT !.taken = @ + n])
BY DEF SameTotals, Submitted, ProviderState

LEMMA UserNoTail ==
    ASSUME StateInv, UserCall
    PROVE  ~Has("wc_tail", stack) /\ ~wr.submitting
<1>1. ~Has("submit", stack) /\ ~Has("wc_tail", stack)
  BY UserNotInPump
<1>. QED BY <1>1 DEF StateInv, Inv, FrameInv

LEMMA WriteSubmitQueue ==
    ASSUME StateInv, QueueInv(wr, cl, stack, prov), NEW len \in Lens, WriteSubmit(len)
    PROVE  QueueInv(wr', cl', stack', prov')
<1>. DEFINE w == [wr EXCEPT !.buffered = @ + len, !.wr_blocked = FALSE]
            p == [prov EXCEPT !.taken = @ + len]
<1>1. /\ wr \in WriteFacet /\ stack \in Seq(Frames) /\ prov \in ProviderState /\ len \in Nat
      /\ ~wr.submitting /\ wr.submit_fn /\ cl' = cl
  BY StreamAssumption, UserNoTail DEF StateInv, Inv, TypeInv, WriteSubmit, WriteCall
<1>8. wr.buffered + len \in Nat
  BY <1>1 DEF WriteFacet
<1>7. w \in WriteFacet
  <2>1. [wr EXCEPT !.buffered = wr.buffered + len] \in WriteFacet
    <3> DEFINE n == wr.buffered + len
    <3>1. n \in Nat
      BY <1>8
    <3> HIDE DEF n
    <3>2. [wr EXCEPT !.buffered = n] \in WriteFacet
      BY <1>1, <3>1 DEF WriteFacet
    <3> QED
      BY <3>2 DEF n
  <2> DEFINE v == [wr EXCEPT !.buffered = wr.buffered + len]
  <2> HIDE DEF v
  <2>2. [v EXCEPT !.wr_blocked = FALSE] \in WriteFacet
    BY Zenon, <2>1 DEF WriteFacet, v
  <2> QED
    BY <2>2 DEF v
<1>2. /\ w \in WriteFacet /\ w.buffered = wr.buffered + len /\ ~w.wr_blocked
      /\ w.send_inflight = wr.send_inflight /\ w.inflight_copying = wr.inflight_copying
      /\ w.inflight_len = wr.inflight_len /\ w.wq_err = wr.wq_err /\ w.submit_fn = wr.submit_fn
      /\ w.submitting = wr.submitting
  BY Zenon, <1>1, <1>7 DEF WriteFacet
<1>3. p.taken = prov.taken + len /\ p.sent = prov.sent /\ prov.taken \in Nat /\ prov.sent \in Nat
  BY <1>1 DEF ProviderState
<1>4. Pump(w, cl, stack) /\ SameTotals(p, prov')
  BY Zenon, <1>1, PumpTotals DEF WriteSubmit
<1>. HIDE DEF w, p
<1>5. WritePending(w) = WritePending(wr) + len /\ WritePending(wr) \in Nat
  BY <1>1, <1>2 DEF WritePending, WriteFacet
<1>6. Pumpable(w, cl, stack, p)
  <2>1. ~w.wq_err => p.taken = p.sent + WritePending(w)
    BY <1>1, <1>2, <1>3, <1>5 DEF QueueInv
  <2>2. ~w.wq_err /\ w.send_inflight /\ ~w.inflight_copying => w.inflight_len <= w.buffered
    BY <1>1, <1>2 DEF QueueInv, WriteFacet
  <2>. QED BY <1>1, <1>2, <1>3, <2>1, <2>2 DEF Pumpable, QueueInv
<1>. QED BY <1>1, <1>4, <1>6, PumpQueue

LEMMA RetiredFields ==
    ASSUME NEW w \in WriteFacet
    PROVE  LET v == SendRetired(w) IN
           /\ v \in WriteFacet /\ ~v.send_inflight /\ v.submit_fn = w.submit_fn
           /\ v.wq_err = w.wq_err /\ v.submitting = w.submitting /\ v.wr_blocked = w.wr_blocked
           /\ v.buffered = IF w.inflight_copying THEN w.buffered
                           ELSE Consume(w.buffered, w.inflight_len)
<1>1. w.buffered \in Nat /\ w.inflight_len \in Nat
  BY DEF WriteFacet
<1>. DEFINE b == IF w.inflight_copying THEN w.buffered ELSE Consume(w.buffered, w.inflight_len)
<1>2. b \in Nat
  BY <1>1 DEF Consume
<1>. HIDE DEF b
<1>3. SendRetired(w) = [w EXCEPT !.buffered = b, !.send_inflight = FALSE, !.inflight_len = 0]
  BY DEF SendRetired, b
<1>. DEFINE v == [w EXCEPT !.buffered = b, !.send_inflight = FALSE, !.inflight_len = 0]
<1>4. v \in WriteFacet
  BY Zenon, <1>2 DEF WriteFacet
<1>5. /\ ~v.send_inflight /\ v.submit_fn = w.submit_fn /\ v.wq_err = w.wq_err
      /\ v.submitting = w.submitting /\ v.wr_blocked = w.wr_blocked /\ v.buffered = b
  BY DEF WriteFacet
<1>. QED BY <1>3, <1>4, <1>5 DEF b

LEMMA FailedFields ==
    ASSUME NEW w \in WriteFacet
    PROVE  LET v == SendFailed(w) IN
           /\ v \in WriteFacet /\ ~v.send_inflight /\ v.wq_err
           /\ v.submitting = w.submitting /\ v.wr_blocked = w.wr_blocked
BY Zenon DEF SendFailed, WriteFacet

LEMMA OnWriteCompleteQueue ==
    ASSUME StateInv, QueueInv(wr, cl, stack, prov), NEW ok \in BOOLEAN, OnWriteComplete(ok)
    PROVE  QueueInv(wr', cl', stack', prov')
<1>. DEFINE w == SendRetired(wr)
            k == Push("wc_tail", stack)
            p == [prov EXCEPT !.send = FALSE]
            q == [p EXCEPT !.sent = @ + wr.inflight_len]
<1>1. /\ wr \in WriteFacet /\ stack \in Seq(Frames) /\ prov \in ProviderState /\ cl' = cl
      /\ wr.send_inflight /\ ~wr.submitting /\ wr.submit_fn
      /\ cl.close_abort => cl.close_state # "OPEN"
  BY DEF StateInv, Inv, TypeInv, OpInv, QueueInv, OnWriteComplete
<1>2. wr.inflight_len \in Nat /\ wr.buffered \in Nat /\ prov.taken \in Nat /\ prov.sent \in Nat
  BY <1>1 DEF WriteFacet, ProviderState
<1>3. k \in Seq(Frames) /\ Has("wc_tail", k)
  BY Zenon, <1>1, PushShape, PushHas DEF Frames, Tails
<1>4. /\ p \in ProviderState /\ q.taken = prov.taken /\ q.sent = prov.sent + wr.inflight_len
  BY Zenon, <1>1, <1>2 DEF ProviderState
<1>5. \/ wr' = SendFailed(wr) /\ stack' = k
      \/ Pump(w, cl, k) /\ prov' = [Submitted(w, cl, p) EXCEPT !.sent = @ + wr.inflight_len]
  BY Zenon DEF OnWriteComplete
<1>. HIDE DEF p, k
<1>6. CASE wr' = SendFailed(wr) /\ stack' = k
  <2>1. ~wr'.send_inflight /\ wr'.wq_err /\ ~wr'.submitting
    BY <1>1, <1>6, FailedFields
  <2>. QED BY <1>1, <1>3, <1>6, <2>1, FailQueue
<1>7. CASE Pump(w, cl, k) /\ prov' = [Submitted(w, cl, p) EXCEPT !.sent = @ + wr.inflight_len]
  <2>1. SameTotals(q, prov')
    BY Zenon, <1>2, <1>4, <1>7, PumpTotals
  <2>2. /\ w \in WriteFacet /\ ~w.send_inflight /\ w.submit_fn = wr.submit_fn
        /\ w.wq_err = wr.wq_err /\ w.submitting = wr.submitting
        /\ w.buffered = IF wr.inflight_copying THEN wr.buffered
                        ELSE Consume(wr.buffered, wr.inflight_len)
    BY Zenon, <1>1, RetiredFields
  <2>. HIDE DEF w, q
  <2>3. WritePending(w) = w.buffered /\ w.buffered \in Nat
    BY <2>2 DEF WritePending, WriteFacet
  <2>4. ASSUME ~w.wq_err PROVE q.taken = q.sent + w.buffered
    <3>1. prov.taken = prov.sent + WritePending(wr)
      BY <1>1, <2>2, <2>4 DEF QueueInv
    <3>2. CASE wr.inflight_copying
      <4>1. WritePending(wr) = wr.buffered + wr.inflight_len
        BY <1>1, <3>2 DEF WritePending
      <4>. QED BY <1>2, <1>4, <2>2, <3>1, <3>2, <4>1
    <3>3. CASE ~wr.inflight_copying
      <4>1. wr.inflight_len <= wr.buffered
        BY <1>1, <2>2, <2>4, <3>3 DEF QueueInv
      <4>2. WritePending(wr) = wr.buffered
        BY <1>1, <1>2, <3>3 DEF WritePending
      <4>3. Consume(wr.buffered, wr.inflight_len) = wr.buffered - wr.inflight_len
        BY <1>2, <4>1 DEF Consume
      <4>4. w.buffered = wr.buffered - wr.inflight_len
        BY <2>2, <3>3, <4>3
      <4>. QED BY <1>2, <1>4, <3>1, <4>1, <4>2, <4>4
    <3>. QED BY <3>2, <3>3
  <2>5. q.taken \in Nat /\ q.sent \in Nat
    BY <1>2, <1>4
  <2>6. Pumpable(w, cl, k, q)
    BY <1>1, <1>3, <2>2, <2>3, <2>4, <2>5 DEF Pumpable
  <2>. QED BY <1>1, <1>7, <2>1, <2>6, PumpQueue
<1>. QED BY <1>5, <1>6, <1>7

\* What SubmitReturn finds: the innermost frame is submit_fn's, the queue as it was submitted.
LEMMA SubmitTop ==
    ASSUME StateInv, QueueInv(wr, cl, stack, prov), Top({"submit"})
    PROVE  /\ wr \in WriteFacet /\ prov \in ProviderState /\ Tail(stack) \in Seq(Frames)
           /\ wr.submitting /\ wr.send_inflight /\ wr.submit_fn
           /\ wr.wr_blocked => Has("wc_tail", Tail(stack))
           /\ cl.close_abort => cl.close_state # "OPEN"
           /\ ~wr.wq_err => wr.inflight_len = wr.buffered /\ prov.taken = prov.sent + wr.buffered
<1>1. wr \in WriteFacet /\ prov \in ProviderState /\ stack \in Seq(Frames) /\ stack # <<>>
      /\ Head(stack) = "submit"
  BY DEF StateInv, Inv, TypeInv, Top
<1>2. /\ Tail(stack) \in Seq(Frames)
      /\ \A g : Has(g, stack) <=> g = Head(stack) \/ Has(g, Tail(stack))
  BY <1>1, PopShape
<1>3. wr.submitting /\ wr.send_inflight
  BY <1>1, <1>2 DEF StateInv, Inv, FrameInv, OpInv
<1>4. Has("wc_tail", stack) <=> Has("wc_tail", Tail(stack))
  BY <1>1, <1>2
<1>. QED BY <1>1, <1>2, <1>3, <1>4 DEF QueueInv

LEMMA SubmitReturnQueue ==
    ASSUME StateInv, QueueInv(wr, cl, stack, prov), NEW ok \in BOOLEAN, SubmitReturn(ok)
    PROVE  QueueInv(wr', cl', stack', prov')
<1>. DEFINE w == [wr EXCEPT !.submitting = FALSE]
            copied == [w EXCEPT !.buffered = IF w.inflight_copying
                                             THEN Consume(@, w.inflight_len) ELSE @]
            noted == [copied EXCEPT !.inline_done = FALSE]
            failed == [SendFailed(w) EXCEPT !.inline_done = FALSE]
            k == Tail(stack)
<1>1. /\ wr \in WriteFacet /\ prov \in ProviderState /\ k \in Seq(Frames)
      /\ wr.submitting /\ wr.send_inflight /\ wr.submit_fn
      /\ wr.wr_blocked => Has("wc_tail", k)
      /\ cl.close_abort => cl.close_state # "OPEN"
      /\ ~wr.wq_err => wr.inflight_len = wr.buffered /\ prov.taken = prov.sent + wr.buffered
  BY SubmitTop DEF SubmitReturn
<1>2. /\ \/ wr' = failed /\ stack' = k /\ prov' = prov
         \/ wr' = copied /\ stack' = k /\ prov' = [prov EXCEPT !.send = TRUE]
         \/ wr' = SendFailed(noted) /\ stack' = k /\ prov' = prov
         \/ /\ Pump(SendRetired(noted), cl, k)
            /\ prov' = [Submitted(SendRetired(noted), cl, prov) EXCEPT !.sent = @ + w.inflight_len]
      /\ cl' = cl
  BY Zenon DEF SubmitReturn
<1>3. /\ w \in WriteFacet /\ ~w.submitting /\ w.send_inflight /\ w.submit_fn
      /\ w.wr_blocked = wr.wr_blocked /\ w.wq_err = wr.wq_err
      /\ w.inflight_len = wr.inflight_len /\ w.buffered = wr.buffered
  BY Zenon, <1>1 DEF WriteFacet
<1>4. w.buffered \in Nat /\ w.inflight_len \in Nat /\ prov.taken \in Nat /\ prov.sent \in Nat
  BY <1>1, <1>3 DEF WriteFacet, ProviderState
<1>. HIDE DEF w, k
<1>. DEFINE b == IF w.inflight_copying THEN Consume(w.buffered, w.inflight_len) ELSE w.buffered
<1>5. b \in Nat /\ copied = [w EXCEPT !.buffered = b]
  BY <1>4 DEF Consume
<1>6. ~w.wq_err => b = IF w.inflight_copying THEN 0 ELSE w.buffered
  BY <1>1, <1>3, <1>4 DEF Consume
<1>. HIDE DEF b, copied
<1>7. /\ copied \in WriteFacet /\ ~copied.submitting /\ copied.send_inflight /\ copied.submit_fn
      /\ copied.wr_blocked = w.wr_blocked /\ copied.wq_err = w.wq_err
      /\ copied.inflight_len = w.inflight_len /\ copied.inflight_copying = w.inflight_copying
      /\ copied.buffered = b
  BY <1>3, <1>5 DEF WriteFacet
<1>8. /\ noted \in WriteFacet /\ ~noted.submitting /\ noted.submit_fn
      /\ noted.wr_blocked = w.wr_blocked /\ noted.wq_err = w.wq_err
      /\ noted.inflight_len = w.inflight_len /\ noted.inflight_copying = w.inflight_copying
      /\ noted.buffered = b
  BY Zenon, <1>7 DEF WriteFacet
<1>. HIDE DEF noted
<1>9. CASE wr' = failed /\ stack' = k
  <2>1. /\ ~SendFailed(w).send_inflight /\ SendFailed(w).wq_err /\ ~SendFailed(w).submitting
        /\ SendFailed(w).wr_blocked = w.wr_blocked /\ SendFailed(w) \in WriteFacet
    BY <1>3, FailedFields
  <2>2. ~wr'.send_inflight /\ wr'.wq_err /\ ~wr'.submitting /\ wr'.wr_blocked = w.wr_blocked
    BY <1>9, <2>1 DEF WriteFacet
  <2>. QED BY ZenonT(40), <1>1, <1>2, <1>3, <1>9, <2>2, FailQueue
<1>10. CASE wr' = copied /\ stack' = k /\ prov' = [prov EXCEPT !.send = TRUE]
  <2>1. prov'.taken = prov.taken /\ prov'.sent = prov.sent
    BY <1>1, <1>10 DEF ProviderState
  <2>2. WritePending(copied) = b + (IF w.inflight_copying THEN w.inflight_len ELSE 0)
    BY <1>7 DEF WritePending
  <2>3. ~w.wq_err => prov'.taken = prov'.sent + WritePending(copied)
    BY <1>1, <1>3, <1>4, <1>6, <2>1, <2>2
  <2>4. ~w.wq_err /\ ~w.inflight_copying => w.inflight_len <= b
    BY <1>1, <1>3, <1>4, <1>6
  <2>. QED BY <1>1, <1>2, <1>3, <1>7, <1>10, <2>3, <2>4 DEF QueueInv
<1>11. CASE wr' = SendFailed(noted) /\ stack' = k
  <2>1. ~wr'.send_inflight /\ wr'.wq_err /\ ~wr'.submitting /\ wr'.wr_blocked = w.wr_blocked
    BY <1>8, <1>11, FailedFields
  <2>. QED BY <1>1, <1>2, <1>3, <1>11, <2>1, FailQueue
<1>12. CASE /\ Pump(SendRetired(noted), cl, k)
            /\ prov' = [Submitted(SendRetired(noted), cl, prov) EXCEPT !.sent = @ + w.inflight_len]
  <2>. DEFINE v == SendRetired(noted)
              q == [prov EXCEPT !.sent = @ + w.inflight_len]
  <2>1. SameTotals(q, prov')
    BY Zenon, <1>1, <1>4, <1>12, PumpTotals
  <2>2. q.taken = prov.taken /\ q.sent = prov.sent + w.inflight_len
    BY <1>1 DEF ProviderState
  <2>3. /\ v \in WriteFacet /\ ~v.send_inflight /\ v.submit_fn /\ v.wq_err = w.wq_err
        /\ ~v.submitting /\ v.wr_blocked = w.wr_blocked
        /\ v.buffered = IF w.inflight_copying THEN b ELSE Consume(b, w.inflight_len)
    BY <1>8, RetiredFields
  <2>. HIDE DEF v, q
  <2>4. WritePending(v) = v.buffered /\ v.buffered \in Nat
    BY <2>3 DEF WritePending, WriteFacet
  <2>5. ~w.wq_err => v.buffered = 0
    BY <1>1, <1>3, <1>4, <1>6, <2>3 DEF Consume
  <2>6. ~w.wq_err => q.taken = q.sent + v.buffered
    BY <1>1, <1>3, <1>4, <2>2, <2>5
  <2>7. Pumpable(v, cl, k, q)
    BY <1>1, <1>3, <1>4, <2>2, <2>3, <2>4, <2>6 DEF Pumpable
  <2>. QED BY <1>2, <1>12, <2>1, <2>7, PumpQueue DEF v
<1>. QED BY <1>2, <1>9, <1>10, <1>11, <1>12

LEMMA WcTailQueue ==
    ASSUME StateInv, QueueInv(wr, cl, stack, prov), WcTail
    PROVE  QueueInv(wr', cl', stack', prov')
<1>1. /\ wr \in WriteFacet /\ cl \in CloseFacet /\ stack \in Seq(Frames) /\ stack # <<>>
      /\ Head(stack) = "wc_tail" /\ prov' = prov
  BY DEF StateInv, Inv, TypeInv, Top, WcTail
<1>2. Has("wc_tail", stack) /\ Tail(stack) \in Seq(Frames)
  BY <1>1, PopShape
<1>3. ~wr.submitting
  BY <1>1 DEF StateInv, Inv, FrameInv
<1>4. CASE WritableEdge(wr)
  <2>1. /\ wr' = [wr EXCEPT !.wr_blocked = FALSE] /\ cl' = [cl EXCEPT !.in_writable = @ + 1]
    BY <1>4 DEF WcTail
  <2>2. /\ ~wr'.wr_blocked /\ wr'.submit_fn = wr.submit_fn /\ wr'.wq_err = wr.wq_err
        /\ wr'.buffered = wr.buffered /\ wr'.send_inflight = wr.send_inflight
        /\ wr'.inflight_len = wr.inflight_len /\ wr'.inflight_copying = wr.inflight_copying
        /\ wr'.submitting = wr.submitting
        /\ cl'.close_abort = cl.close_abort /\ cl'.close_state = cl.close_state
    BY <1>1, <2>1 DEF WriteFacet, CloseFacet
  <2>3. WritePending(wr') = WritePending(wr)
    BY <2>2 DEF WritePending
  <2>. QED BY <1>1, <1>3, <2>2, <2>3 DEF QueueInv
<1>5. CASE ~WritableEdge(wr)
  <2>1. wr' = wr /\ Finalize(rd, wr, cl, Tail(stack))
    BY <1>5 DEF WcTail
  <2>2. Onward(cl, cl')
    BY <1>1, <2>1, FinalizeOnward DEF QueueInv
  <2>3. wr.buffered \in Nat /\ wr.inflight_len \in Nat /\ Cap \in Nat /\ Cap > 0
    BY <1>1, StreamAssumption DEF WriteFacet
  <2>4. ASSUME wr.wr_blocked, cl.close_state = "OPEN"
        PROVE  ~wr.wq_err /\ WritePending(wr) > 0 /\ (wr.submit_fn => wr.send_inflight)
    <3>1. ~wr.wq_err /\ ~(WritePending(wr) < Cap)
      BY <1>5, <2>4 DEF WritableEdge, wq_closing
    <3>2. WritePending(wr) \in Nat /\ WritePending(wr) > 0
      BY <2>3, <3>1 DEF WritePending
    <3>3. ~wr.send_inflight => wr.buffered > 0
      BY <2>3, <3>2 DEF WritePending
    <3>. QED BY <2>4, <3>1, <3>2, <3>3 DEF QueueInv
  <2>. QED BY <1>1, <1>3, <2>1, <2>2, <2>4 DEF QueueInv, Onward
<1>. QED BY <1>4, <1>5

LEMMA FlushQueue ==
    ASSUME StateInv, QueueInv(wr, cl, stack, prov), NEW n \in 0..wr.buffered, NEW ok \in BOOLEAN,
           Flush(n, ok)
    PROVE  QueueInv(wr', cl', stack', prov')
<1>. DEFINE w == [wr EXCEPT !.buffered = @ - n, !.wq_err = ~ok]
<1>1. /\ wr \in WriteFacet /\ cl \in CloseFacet /\ prov \in ProviderState
      /\ ~wr.submit_fn /\ ~wr.wq_err /\ stack = <<>>
  BY DEF StateInv, Inv, TypeInv, Flush, Idle
<1>2. /\ ~wr.send_inflight /\ ~wr.submitting /\ (cl.close_abort => cl.close_state # "OPEN")
  BY <1>1 DEF StateInv, Inv, OpInv, QueueInv
<1>3. /\ wr.buffered \in Nat /\ n \in Nat /\ n <= wr.buffered /\ prov.taken \in Nat
      /\ prov.sent \in Nat /\ Cap \in Nat /\ Cap > 0
  BY <1>1, StreamAssumption DEF WriteFacet, ProviderState
<1>4. prov'.taken = prov.taken /\ prov'.sent = prov.sent + n
  BY <1>1 DEF Flush, ProviderState
<1>5. /\ w.buffered = wr.buffered - n /\ w.wq_err = ~ok /\ ~w.submit_fn /\ ~w.send_inflight
      /\ ~w.submitting /\ w.wr_blocked = wr.wr_blocked /\ w \in WriteFacet
  <2>. DEFINE b == wr.buffered - n
              e == ~ok
  <2>1. b \in Nat /\ e \in BOOLEAN
    BY <1>3
  <2>. HIDE DEF b, e
  <2>2. [wr EXCEPT !.buffered = b, !.wq_err = e] \in WriteFacet
    BY Zenon, <1>1, <2>1 DEF WriteFacet
  <2>3. w = [wr EXCEPT !.buffered = b, !.wq_err = e]
    BY DEF b, e
  <2>4. /\ w.buffered = b /\ w.wq_err = e /\ ~w.submit_fn /\ ~w.send_inflight /\ ~w.submitting
        /\ w.wr_blocked = wr.wr_blocked
    BY Zenon, <1>1, <1>2, <2>3 DEF WriteFacet
  <2>. QED BY <2>2, <2>3, <2>4 DEF b, e
<1>6. \/ /\ WritableEdge(w) /\ wr' = [w EXCEPT !.wr_blocked = FALSE]
         /\ cl' = [cl EXCEPT !.in_writable = @ + 1]
      \/ /\ ~WritableEdge(w) /\ wr' = w
         /\ cl' = cl \/ \E k : Finalize(rd, w, cl, k)
  BY DEF Flush
<1>. HIDE DEF w
<1>7. WritePending(w) = w.buffered /\ w.buffered \in Nat
  BY <1>5 DEF WritePending, WriteFacet
<1>8. ~w.wq_err => prov'.taken = prov'.sent + w.buffered
  <2>1. prov.taken = prov.sent + WritePending(wr) /\ WritePending(wr) = wr.buffered
    BY <1>1, <1>2, <1>3 DEF QueueInv, WritePending
  <2>. QED BY <1>3, <1>4, <1>5, <2>1
<1>9. CASE /\ WritableEdge(w) /\ wr' = [w EXCEPT !.wr_blocked = FALSE]
           /\ cl' = [cl EXCEPT !.in_writable = @ + 1]
  <2>1. /\ ~wr'.wr_blocked /\ ~wr'.submit_fn /\ wr'.wq_err = w.wq_err
        /\ wr'.buffered = w.buffered /\ ~wr'.send_inflight /\ ~wr'.submitting
        /\ cl'.close_abort = cl.close_abort /\ cl'.close_state = cl.close_state
    BY <1>1, <1>5, <1>9 DEF WriteFacet, CloseFacet
  <2>2. WritePending(wr') = w.buffered
    BY <1>7, <2>1 DEF WritePending
  <2>. QED BY <1>2, <1>8, <2>1, <2>2 DEF QueueInv
<1>10. CASE /\ ~WritableEdge(w) /\ wr' = w
            /\ cl' = cl \/ \E k : Finalize(rd, w, cl, k)
  <2>1. Onward(cl, cl')
    BY <1>1, <1>2, <1>10, FinalizeOnward DEF Onward
  <2>2. ASSUME w.wr_blocked, cl.close_state = "OPEN" PROVE ~w.wq_err /\ WritePending(w) > 0
    BY <1>3, <1>7, <1>10, <2>2 DEF WritableEdge, wq_closing
  <2>. QED BY <1>5, <1>7, <1>8, <1>10, <2>1, <2>2 DEF QueueInv, Onward
<1>. QED BY <1>6, <1>9, <1>10

LEMMA WriteBlockedQueue ==
    ASSUME StateInv, QueueInv(wr, cl, stack, prov), NEW len \in Lens, WriteBlocked(len)
    PROVE  QueueInv(wr', cl', stack', prov')
<1>1. /\ wr \in WriteFacet /\ ~wr.wq_err /\ cl.close_state = "OPEN" /\ len \in Nat /\ len <= Cap
      /\ len > Cap - wr.buffered /\ cl' = cl /\ stack' = stack /\ prov' = prov
      /\ wr' = [wr EXCEPT !.wr_blocked = TRUE] /\ ~wr.submitting
  BY StreamAssumption, UserNoTail DEF StateInv, Inv, TypeInv, WriteBlocked, WriteCall,
       wq_closing, Room
<1>2. /\ wr'.submit_fn = wr.submit_fn /\ wr'.wq_err = wr.wq_err
      /\ wr'.buffered = wr.buffered /\ wr'.send_inflight = wr.send_inflight
      /\ wr'.inflight_len = wr.inflight_len /\ wr'.inflight_copying = wr.inflight_copying
      /\ wr'.submitting = wr.submitting
  BY <1>1 DEF WriteFacet
<1>3. WritePending(wr') = WritePending(wr)
  BY <1>2 DEF WritePending
<1>4. /\ wr.buffered \in Nat /\ wr.inflight_len \in Nat /\ Cap \in Nat
  BY <1>1, StreamAssumption DEF WriteFacet
<1>5. wr.buffered > 0
  BY <1>1, <1>4
<1>6. WritePending(wr) > 0
  BY <1>4, <1>5 DEF WritePending
<1>7. wr.submit_fn => wr.send_inflight
  BY <1>1, <1>5 DEF QueueInv
<1>. QED BY <1>1, <1>2, <1>3, <1>6, <1>7 DEF QueueInv

LEMMA WriteDirectQueue ==
    ASSUME StateInv, QueueInv(wr, cl, stack, prov), NEW len \in Lens, NEW n \in 0..len,
           WriteDirect(len, n)
    PROVE  QueueInv(wr', cl', stack', prov')
<1>1. /\ wr \in WriteFacet /\ prov \in ProviderState /\ ~wr.submit_fn /\ ~wr.wq_err
      /\ len \in Nat /\ n \in Nat /\ n <= len /\ cl' = cl /\ ~wr.submitting
      /\ wr' = [wr EXCEPT !.buffered = @ + (len - n), !.wr_blocked = FALSE]
      /\ prov' = [prov EXCEPT !.taken = @ + len, !.sent = @ + n]
  BY StreamAssumption, UserNoTail DEF StateInv, Inv, TypeInv, WriteDirect, WriteCall
<1>2. ~wr.send_inflight
  BY <1>1 DEF QueueInv
<1>3. /\ wr'.buffered = wr.buffered + (len - n) /\ ~wr'.wr_blocked /\ ~wr'.submit_fn
      /\ ~wr'.send_inflight /\ ~wr'.submitting
  BY <1>1, <1>2 DEF WriteFacet
<1>4. prov'.taken = prov.taken + len /\ prov'.sent = prov.sent + n
  BY <1>1 DEF ProviderState
<1>5. /\ wr.buffered \in Nat /\ prov.taken \in Nat /\ prov.sent \in Nat
  BY <1>1 DEF WriteFacet, ProviderState
<1>6. prov.taken = prov.sent + wr.buffered
  <2>1. WritePending(wr) = wr.buffered
    BY <1>2, <1>5 DEF WritePending
  <2>. QED BY <1>1, <2>1 DEF QueueInv
<1>7. WritePending(wr') = wr'.buffered
  BY <1>1, <1>3, <1>5 DEF WritePending
<1>8. prov'.taken = prov'.sent + wr'.buffered
  BY <1>1, <1>3, <1>4, <1>5, <1>6
<1>. QED BY <1>1, <1>3, <1>7, <1>8 DEF QueueInv

LEMMA WriteFailsQueue ==
    ASSUME StateInv, QueueInv(wr, cl, stack, prov), NEW len \in Lens, WriteFails(len)
    PROVE  QueueInv(wr', cl', stack', prov')
<1>1. /\ wr \in WriteFacet /\ ~wr.submit_fn /\ ~wr.wq_err /\ wr.buffered = 0 /\ cl' = cl
      /\ ~wr.submitting /\ ~Has("wc_tail", stack) /\ wr' = [wr EXCEPT !.wq_err = TRUE]
      /\ cl.close_state = "OPEN"
  BY UserNoTail DEF StateInv, Inv, TypeInv, WriteFails, WriteCall, wq_closing
<1>2. ~wr.send_inflight
  BY <1>1 DEF QueueInv
<1>3. WritePending(wr) = 0
  BY <1>1, <1>2 DEF WritePending
<1>4. ~wr.wr_blocked
  BY <1>1, <1>3 DEF QueueInv
<1>5. ~wr'.send_inflight /\ wr'.wq_err /\ ~wr'.submitting /\ ~wr'.wr_blocked
  BY <1>1, <1>2, <1>4 DEF WriteFacet
<1>6. cl.close_abort => cl.close_state # "OPEN"
  BY DEF QueueInv
<1>. QED BY Zenon, <1>1, <1>5, <1>6, FailQueue

LEMMA FreshQueue ==
    ASSUME NEW m, NEW h, NEW k
    PROVE  QueueInv(InitWrite(m), InitClose(h), k, InitProvider)
BY DEF QueueInv, InitWrite, InitClose, InitProvider, WritePending

LEMMA QueueStep ==
    ASSUME StateInv, QueueInv(wr, cl, stack, prov), [Next]_vars
    PROVE  QueueInv(wr', cl', stack', prov')
<1>0. stack \in Seq(Frames)
  BY DEF StateInv, Inv, TypeInv
<1>1. CASE UNCHANGED vars
  BY <1>1 DEF vars
<1>2. ASSUME Onward(cl, cl'), SameQueue(wr, wr'), SameTotals(prov, prov'),
             Quiet({"wc_tail"}, stack, stack')
      PROVE  QueueInv(wr', cl', stack', prov')
  <2>1. Has("wc_tail", stack') <=> Has("wc_tail", stack)
    BY <1>0, <1>2, QuietHas
  <2>. QED BY <1>2, <2>1, CalmQueue
<1>3. CASE \/ ReadStart \/ Pause \/ Resume \/ ReadClose \/ DeliverReturn \/ ArmPost
           \/ \E ok \in BOOLEAN : ArmReturn(ok) \/ OnRecv(ok) \/ OnWriteInline(ok)
           \/ OnRecvOversize \/ RecvTail \/ CloseReturn
  <2>1. Quiet({"wc_tail"}, stack, stack')
    BY <1>3, QuietUser, QuietDelivery, QuietInline, QuietReturn, QuietOversize, QuietWeaken
  <2>2. Onward(cl, cl') /\ SameQueue(wr, wr') /\ SameTotals(prov, prov')
    BY <1>3, CalmReadSide
  <2>. QED BY <1>2, <2>1, <2>2
<1>4. CASE \/ CloseBegin \/ Cancel \/ \E abort \in BOOLEAN : ArmCloses(abort)
           \/ WritableReturn \/ CancelRecvReturn \/ CancelSendReturn
  <2>1. Quiet({"wc_tail"}, stack, stack')
    BY <1>4, QuietClose, QuietReturn, QuietWeaken
  <2>2. Onward(cl, cl') /\ SameQueue(wr, wr') /\ SameTotals(prov, prov')
    BY <1>4, CalmCloseSide
  <2>. QED BY <1>2, <2>1, <2>2
<1>5. CASE \/ \E len \in Lens : WriteBlocked(len) \/ WriteSubmit(len) \/ WriteFails(len)
           \/ \E len \in Lens : \E n \in 0..len : WriteDirect(len, n)
  BY <1>5, WriteBlockedQueue, WriteSubmitQueue, WriteFailsQueue, WriteDirectQueue
<1>6. CASE \/ \E ok \in BOOLEAN : SubmitReturn(ok) \/ OnWriteComplete(ok)
           \/ WcTail \/ \E n \in 0..wr.buffered, ok \in BOOLEAN : Flush(n, ok)
  BY <1>6, SubmitReturnQueue, OnWriteCompleteQueue, WcTailQueue, FlushQueue
<1>7. CASE Reuse
  BY <1>7, FreshQueue DEF Reuse
<1>. QED
  BY SMTT(30), <1>1, <1>3, <1>4, <1>5, <1>6, <1>7 DEF Next, Provider, Inline, Returns, User

-----------------------------------------------------------------------------
(* Theorems. *)

QueueFlow == QueueInv(wr, cl, stack, prov)

\* In every reachable state the queued bytes are accounted for, and the owed on_writable has a
\* send in flight or the tail of on_write_complete to bring it.
THEOREM StreamQueueInvariant == Spec => [](StateInv /\ QueueFlow)
<1>1. Init => QueueFlow
  BY FreshQueue DEF Init, QueueFlow
<1>2. StateInv /\ QueueFlow /\ [Next]_vars => QueueFlow'
  BY QueueStep DEF QueueFlow
<1>. QED BY <1>1, <1>2, StreamInvariant, PTL DEF Spec

\* stream_write.c: back in the event loop, a producer refused with WOULD_BLOCK is owed an
\* on_writable that can still come.
THEOREM StreamNoLostWritable == Spec => []NoLostWritable
<1>1. StateInv /\ QueueFlow => NoLostWritable
  BY DEF QueueFlow, QueueInv, NoLostWritable, Idle, wq_closing, Has
<1>. QED BY <1>1, StreamQueueInvariant, PTL

\* stream_write.c: until the write side fails, every accepted byte is sent once or pending.
THEOREM StreamBytesConserved == Spec => []BytesConserved
<1>1. StateInv /\ QueueFlow => BytesConserved
  BY DEF QueueFlow, QueueInv, BytesConserved
<1>. QED BY <1>1, StreamQueueInvariant, PTL
=============================================================================
