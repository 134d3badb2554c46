-------------------------- MODULE StreamReadProofs --------------------------
(***************************************************************************)
(* Proofs about the read facet of KlStream: no re-arm is lost, inline      *)
(* completions do not grow the C stack, nothing is delivered after the end.*)
(*                                                                         *)
(* The invariant of KlStreamProofs says which frames are open; ReadFlow    *)
(* adds who is left to arm the next receive: one in flight, an open        *)
(* delivery, or the trampoline of an arm that deferred another.            *)
(***************************************************************************)
EXTENDS KlStreamProofs

-----------------------------------------------------------------------------
(* Frames that a step leaves alone. *)

Deliveries == {"deliver", "deliver_eof"}

\* Frames of D are neither called nor returned from between k and s.
Quiet(D, k, s) ==
    \/ s = k
    \/ k # <<>> /\ Head(k) \notin D /\ s = Tail(k)
    \/ \E f \in Frames \ D : s = Push(f, k)
    \/ k # <<>> /\ Head(k) \notin D /\ \E f \in Frames \ D : s = Push(f, Tail(k))
    \/ \E f, g \in Frames \ D : s = Push(f, Push(g, k))

\* Between two open deliveries lies the read_arm whose inline completion made the inner one.
Separated(k) ==
    \A i, j \in 1..Len(k) : i < j /\ k[i] \in Deliveries /\ k[j] \in Deliveries =>
        \E m \in 1..Len(k) : i < m /\ m < j /\ k[m] = "read_arm"

\* Every open delivery is below a read_arm.
Covered(k) ==
    \A j \in 1..Len(k) : k[j] \in Deliveries => \E m \in 1..Len(k) : m < j /\ k[m] = "read_arm"

LEMMA QuietHas ==
    ASSUME NEW D, NEW k \in Seq(Frames), NEW s, Quiet(D, k, s)
    PROVE  \A d \in D : Has(d, s) <=> Has(d, k)
<1>1. CASE s = k
  BY <1>1
<1>2. CASE k # <<>> /\ Head(k) \notin D /\ s = Tail(k)
  BY <1>2, PopShape
<1>3. CASE \E f \in Frames \ D : s = Push(f, k)
  BY <1>3, PushHas
<1>4. CASE k # <<>> /\ Head(k) \notin D /\ \E f \in Frames \ D : s = Push(f, Tail(k))
  <2>1. PICK f \in Frames \ D : s = Push(f, Tail(k))
    BY <1>4
  <2>2. Tail(k) \in Seq(Frames) /\ \A d \in D : Has(d, k) <=> Has(d, Tail(k))
    BY <1>4, PopShape
  <2>3. \A d \in D : Has(d, s) <=> Has(d, Tail(k))
    BY Zenon, <2>1, <2>2, PushHas
  <2>. QED BY <2>2, <2>3
<1>5. CASE \E f, g \in Frames \ D : s = Push(f, Push(g, k))
  <2>1. PICK f \in Frames \ D, g \in Frames \ D : s = Push(f, Push(g, k))
    BY <1>5
  <2>2. Push(g, k) \in Seq(Frames) /\ \A d \in D : Has(d, Push(g, k)) <=> Has(d, k)
    BY Zenon, <2>1, PushShape, PushHas
  <2>3. \A d \in D : Has(d, s) <=> Has(d, Push(g, k))
    BY <2>1, <2>2, PushHas
  <2>. QED BY <2>2, <2>3
<1>. QED BY <1>1, <1>2, <1>3, <1>4, <1>5 DEF Quiet

LEMMA PushSeparated ==
    ASSUME NEW f \in Frames, NEW k \in Seq(Frames), Separated(k), f \in Deliveries => Covered(k)
    PROVE  Separated(Push(f, k))
<1>. DEFINE s == Push(f, k)
<1>0. /\ Len(s) = Len(k) + 1 /\ Len(k) \in Nat
      /\ s[1] = f
      /\ \A i \in 1..Len(k) : s[i + 1] = k[i]
      /\ \A i \in 2..Len(k) + 1 : s[i] = k[i - 1] /\ i - 1 \in 1..Len(k)
  BY Zenon, PushShape
<1>. HIDE DEF s
<1>1. ASSUME NEW i \in 1..Len(k) + 1, NEW j \in 1..Len(k) + 1, i < j,
             s[i] \in Deliveries, s[j] \in Deliveries
      PROVE  \E m \in 1..Len(k) + 1 : i < m /\ m < j /\ s[m] = "read_arm"
  <2>1. j - 1 \in 1..Len(k) /\ k[j - 1] \in Deliveries
    BY <1>0, <1>1
  <2>2. CASE i = 1
    <3>1. PICK m \in 1..Len(k) : m < j - 1 /\ k[m] = "read_arm"
      BY <1>0, <1>1, <2>1, <2>2 DEF Covered
    <3>2. m + 1 \in 1..Len(k) + 1 /\ i < m + 1 /\ m + 1 < j /\ s[m + 1] = "read_arm"
      BY <1>0, <2>2, <3>1
    <3>. QED BY <3>2
  <2>3. CASE i # 1
    <3>1. i - 1 \in 1..Len(k) /\ k[i - 1] \in Deliveries /\ i - 1 < j - 1
      BY <1>0, <1>1, <2>3
    <3>2. PICK m \in 1..Len(k) : i - 1 < m /\ m < j - 1 /\ k[m] = "read_arm"
      BY <2>1, <3>1 DEF Separated
    <3>3. m + 1 \in 1..Len(k) + 1 /\ i < m + 1 /\ m + 1 < j /\ s[m + 1] = "read_arm"
      BY <1>0, <3>2
    <3>. QED BY <3>3
  <2>. QED BY <2>2, <2>3
<1>2. Separated(s)
  BY <1>0, <1>1 DEF Separated
<1>. QED BY <1>2 DEF s

LEMMA PushCovered ==
    ASSUME NEW f \in Frames \ Deliveries, NEW k \in Seq(Frames), Covered(k)
    PROVE  Covered(Push(f, k))
<1>. DEFINE s == Push(f, k)
<1>0. /\ Len(s) = Len(k) + 1 /\ Len(k) \in Nat
      /\ s[1] = f
      /\ \A i \in 1..Len(k) : s[i + 1] = k[i]
      /\ \A i \in 2..Len(k) + 1 : s[i] = k[i - 1] /\ i - 1 \in 1..Len(k)
  BY Zenon, PushShape
<1>. HIDE DEF s
<1>1. ASSUME NEW j \in 1..Len(k) + 1, s[j] \in Deliveries
      PROVE  \E m \in 1..Len(k) + 1 : m < j /\ s[m] = "read_arm"
  <2>1. j - 1 \in 1..Len(k) /\ k[j - 1] \in Deliveries
    BY <1>0, <1>1
  <2>2. PICK m \in 1..Len(k) : m < j - 1 /\ k[m] = "read_arm"
    BY <2>1 DEF Covered
  <2>3. m + 1 \in 1..Len(k) + 1 /\ m + 1 < j /\ s[m + 1] = "read_arm"
    BY <1>0, <2>2
  <2>. QED BY <2>3
<1>2. Covered(s)
  BY <1>0, <1>1 DEF Covered
<1>. QED BY <1>2 DEF s

LEMMA NowCovered ==
    ASSUME NEW k \in Seq(Frames),
           k = <<>> \/ Head(k) = "read_arm" \/ ~(Has("deliver", k) \/ Has("deliver_eof", k))
    PROVE  Covered(k)
<1>1. CASE ~(Has("deliver", k) \/ Has("deliver_eof", k))
  BY <1>1 DEF Covered, Has, Deliveries
<1>2. CASE k = <<>>
  BY <1>2 DEF Covered
<1>3. CASE k # <<>> /\ Head(k) = "read_arm"
  <2>1. k[1] = "read_arm" /\ Len(k) \in Nat /\ 1 \in 1..Len(k)
    BY <1>3
  <2>2. ASSUME NEW j \in 1..Len(k), k[j] \in Deliveries PROVE 1 < j
    BY <2>1, <2>2 DEF Deliveries
  <2>. QED BY <2>1, <2>2 DEF Covered
<1>. QED BY <1>1, <1>2, <1>3

LEMMA PopSeparated ==
    ASSUME NEW k \in Seq(Frames), k # <<>>, Separated(k)
    PROVE  Separated(Tail(k))
<1>1. /\ Tail(k) \in Seq(Frames)
      /\ Len(Tail(k)) = Len(k) - 1 /\ Len(k) \in Nat \ {0}
      /\ \A i \in 1..Len(k) - 1 : Tail(k)[i] = k[i + 1]
  BY HeadTailProperties
<1>. SUFFICES ASSUME NEW i \in 1..Len(k) - 1, NEW j \in 1..Len(k) - 1, i < j,
                     k[i + 1] \in Deliveries, k[j + 1] \in Deliveries
              PROVE  \E m \in 1..Len(k) - 1 : i < m /\ m < j /\ k[m + 1] = "read_arm"
  BY <1>1 DEF Separated
<1>2. i + 1 \in 1..Len(k) /\ j + 1 \in 1..Len(k) /\ i + 1 < j + 1
  BY <1>1
<1>3. PICK m \in 1..Len(k) : i + 1 < m /\ m < j + 1 /\ k[m] = "read_arm"
  BY <1>2 DEF Separated
<1>4. m - 1 \in 1..Len(k) - 1 /\ i < m - 1 /\ m - 1 < j /\ k[(m - 1) + 1] = "read_arm"
  BY <1>1, <1>3
<1>. QED BY <1>4

LEMMA QuietSeparated ==
    ASSUME NEW k \in Seq(Frames), NEW s, Quiet(Deliveries, k, s), Separated(k)
    PROVE  Separated(s)
<1>1. CASE s = k
  BY <1>1
<1>2. CASE k # <<>> /\ s = Tail(k)
  BY <1>2, PopSeparated
<1>3. CASE \E f \in Frames \ Deliveries : s = Push(f, k)
  BY <1>3, PushSeparated
<1>4. CASE k # <<>> /\ \E f \in Frames \ Deliveries : s = Push(f, Tail(k))
  <2>1. Tail(k) \in Seq(Frames) /\ Separated(Tail(k))
    BY <1>4, PopShape, PopSeparated
  <2>. QED BY Zenon, <1>4, <2>1, PushSeparated
<1>5. CASE \E f, g \in Frames \ Deliveries : s = Push(f, Push(g, k))
  <2>1. PICK f \in Frames \ Deliveries, g \in Frames \ Deliveries : s = Push(f, Push(g, k))
    BY <1>5
  <2>2. Push(g, k) \in Seq(Frames) /\ Separated(Push(g, k))
    BY PushShape, PushSeparated
  <2>. QED BY <2>1, <2>2, PushSeparated
<1>. QED BY <1>1, <1>2, <1>3, <1>4, <1>5 DEF Quiet

-----------------------------------------------------------------------------
(* Which frames a step calls and returns from. *)

Marked == Deliveries \cup {"wc_tail"}

LEMMA SegmentFrames ==
    ASSUME NEW r, NEW w, NEW c, NEW k
    PROVE  /\ Finalize(r, w, c, k) => stack' = k \/ stack' = Push("on_close", k)
           /\ StreamArm(r, k) => stack' = k \/ stack' = Push("read_arm", k)
           /\ Pump(w, c, k) => stack' = k \/ stack' = Push("submit", k)
           /\ CancelSend(r, w, c, k) =>
                 stack' = k \/ stack' = Push("cancel_send", k) \/ stack' = Push("on_close", k)
BY DEF Finalize, StreamArm, Pump, CancelSend

LEMMA CloseFrames ==
    ASSUME NEW abort, CloseCall(abort)
    PROVE  \/ stack' = stack
           \/ \E f \in {"cancel_recv", "cancel_send", "on_close"} : stack' = Push(f, stack)
BY SegmentFrames DEF CloseCall

LEMMA FrameKinds ==
    /\ {"read_arm", "submit", "on_close", "cancel_recv", "cancel_send", "on_writable"}
          \subseteq Frames \ Marked
    /\ Deliveries \subseteq Frames /\ "recv_tail" \in Frames \ Marked
    /\ "wc_tail" \in Frames \ Deliveries /\ Deliveries \subseteq Frames \ {"wc_tail"}
BY SMTT(30) DEF Frames, Hooks, Tails, Marked, Deliveries

LEMMA QuietInline ==
    ASSUME ArmPost \/ \E ok \in BOOLEAN : OnWriteInline(ok)
    PROVE  Quiet(Marked, stack, stack')
BY Zenon DEF ArmPost, OnWriteInline, Quiet

LEMMA QuietClose ==
    ASSUME CloseBegin \/ Cancel \/ \E abort \in BOOLEAN : ArmCloses(abort)
    PROVE  Quiet(Marked, stack, stack')
BY Zenon, CloseFrames, FrameKinds DEF CloseBegin, Cancel, ArmCloses, Quiet

LEMMA QuietUser ==
    ASSUME \/ ReadStart \/ Pause \/ ReadClose \/ Reuse
           \/ \E len \in Lens : WriteBlocked(len) \/ WriteSubmit(len) \/ WriteFails(len)
           \/ \E len \in Lens : \E n \in 0..len : WriteDirect(len, n)
    PROVE  Quiet(Marked, stack, stack')
<1>1. CASE ReadStart
  BY Zenon, <1>1, SegmentFrames, FrameKinds DEF ReadStart, Quiet
<1>2. CASE \E len \in Lens : WriteSubmit(len)
  BY Zenon, <1>2, SegmentFrames, FrameKinds DEF WriteSubmit, Quiet
<1>3. CASE stack' = stack
  BY <1>3 DEF Quiet
<1>. QED BY Zenon, <1>1, <1>2, <1>3 DEF Pause, ReadClose, Reuse, WriteBlocked,
  WriteFails, WriteDirect

LEMMA QuietReturn ==
    ASSUME \/ \E ok \in BOOLEAN : ArmReturn(ok) \/ SubmitReturn(ok)
           \/ RecvTail \/ WritableReturn \/ CancelRecvReturn \/ CancelSendReturn \/ CloseReturn
    PROVE  Quiet(Marked, stack, stack')
<1>1. stack # <<>> /\ Head(stack) \notin Marked
  BY DEF ArmReturn, SubmitReturn, RecvTail, WritableReturn, CancelRecvReturn, CancelSendReturn,
         CloseReturn, Top, Marked, Deliveries
<1>2. \/ stack' = Tail(stack)
      \/ \E f \in {"read_arm", "submit", "on_close", "cancel_send"} : stack' = Push(f, Tail(stack))
  BY Zenon, SegmentFrames DEF ArmReturn, SubmitReturn, RecvTail, WritableReturn, CancelRecvReturn,
         CancelSendReturn, CloseReturn
<1>. QED BY <1>1, <1>2, FrameKinds DEF Quiet

LEMMA QuietFlush ==
    ASSUME \E n \in 0..wr.buffered, ok \in BOOLEAN : Flush(n, ok)
    PROVE  Quiet(Marked, stack, stack')
<1>1. stack' = stack \/ stack' = Push("on_writable", stack) \/ stack' = Push("on_close", stack)
  BY SegmentFrames DEF Flush
<1>. QED BY <1>1, FrameKinds DEF Quiet

LEMMA QuietOversize ==
    ASSUME OnRecvOversize
    PROVE  Quiet(Marked, stack, stack')
BY SegmentFrames, FrameKinds DEF OnRecvOversize, Quiet

LEMMA QuietWriteComplete ==
    ASSUME NEW ok \in BOOLEAN, OnWriteComplete(ok)
    PROVE  Quiet(Deliveries, stack, stack')
<1>1. stack' = Push("wc_tail", stack) \/ stack' = Push("submit", Push("wc_tail", stack))
  BY SegmentFrames DEF OnWriteComplete
<1>. QED BY <1>1, FrameKinds DEF Quiet, Marked

LEMMA QuietWcTail ==
    ASSUME WcTail
    PROVE  Quiet(Deliveries, stack, stack')
<1>1. stack # <<>> /\ Head(stack) \notin Deliveries
  BY DEF WcTail, Top, Deliveries
<1>2. \/ stack' = Tail(stack)
      \/ \E f \in {"on_writable", "on_close"} : stack' = Push(f, Tail(stack))
  BY Zenon, SegmentFrames DEF WcTail
<1>. QED BY <1>1, <1>2, FrameKinds DEF Quiet, Marked

LEMMA QuietDelivery ==
    ASSUME (\E ok \in BOOLEAN : OnRecv(ok)) \/ Resume \/ DeliverReturn
    PROVE  Quiet({"wc_tail"}, stack, stack')
<1>1. CASE \E ok \in BOOLEAN : OnRecv(ok)
  <2>1. PICK ok \in BOOLEAN : OnRecv(ok)
    BY <1>1
  <2>. DEFINE r == [rd EXCEPT !.recv_inflight = FALSE, !.completed_inline = @ \/ rd.arming]
              h == [r EXCEPT !.recv_held = TRUE, !.held_ok = ok]
  <2>2. \/ Finalize(r, wr, cl, stack) \/ Finalize(h, wr, cl, stack)
        \/ Deliver(r, ok, Push("recv_tail", stack))
    BY Zenon, <2>1 DEF OnRecv
  <2>. HIDE DEF r, h
  <2>3. \/ stack' = stack \/ stack' = Push("on_close", stack)
        \/ \E f \in Deliveries : stack' = Push(f, Push("recv_tail", stack))
    BY <2>2, SegmentFrames DEF Deliver, Deliveries
  <2>. QED BY <2>3, FrameKinds DEF Quiet, Marked
<1>2. CASE Resume
  <2>1. stack' = stack \/ \E f \in Deliveries \cup {"read_arm"} : stack' = Push(f, stack)
    BY <1>2, SegmentFrames DEF Resume, Deliver, Deliveries
  <2>. QED BY <2>1, FrameKinds DEF Quiet, Marked
<1>3. CASE DeliverReturn
  <2>1. /\ stack # <<>> /\ Head(stack) # "wc_tail"
        /\ stack' = Tail(stack) \/ stack' = Push("read_arm", Tail(stack))
    BY Zenon, <1>3, SegmentFrames DEF DeliverReturn, Top
  <2>. QED BY <2>1, FrameKinds DEF Quiet, Marked
<1>. QED BY <1>1, <1>2, <1>3

LEMMA QuietWeaken ==
    ASSUME NEW k, NEW s, Quiet(Marked, k, s)
    PROVE  Quiet(Deliveries, k, s) /\ Quiet({"wc_tail"}, k, s)
BY DEF Quiet, Marked

-----------------------------------------------------------------------------
(* No re-arm is lost. *)

\* A held completion is alone on the read side; the trampoline's flags agree with the frames.
ReadBase(r, k) ==
    /\ r.recv_held => /\ r.read_paused /\ ~r.read_closed /\ ~r.arming /\ ~r.recv_inflight
                      /\ ~Has("deliver", k) /\ ~Has("deliver_eof", k)
    /\ r.arming /\ ~r.read_closed /\ ~r.recv_inflight => r.completed_inline
    /\ r.arming /\ ~r.read_closed /\ Head(k) # "read_arm" => ~r.recv_inflight
    /\ r.arming /\ ~r.read_closed /\ r.recv_inflight => ~r.read_paused

\* A started, unpaused, open read side has a receive, or a delivery or a trampoline that will
\* arm the next one.
Rearming(r, k, p) ==
    p.started /\ ~r.read_paused /\ ~r.read_closed =>
        \/ r.recv_inflight
        \/ Has("deliver", k)
        \/ r.arming /\ r.completed_inline /\ r.rearm_pending

ReadInv(r, k, p) == Rearming(r, k, p) /\ ReadBase(r, k)

LEMMA CalmRead ==
    ASSUME StateInv, ReadInv(rd, stack, prov), rd' = rd, prov'.started = prov.started,
           Quiet(Deliveries, stack, stack'),
           stack' = stack \/ stack = <<>> \/ Head(stack) # "read_arm"
    PROVE  ReadInv(rd', stack', prov')
<1>1. stack \in Seq(Frames) /\ (rd.arming <=> Has("read_arm", stack))
  BY DEF StateInv, Inv, TypeInv, FrameInv
<1>2. stack = <<>> => ~rd.arming
  BY <1>1 DEF Has
<1>3. /\ Has("deliver", stack') <=> Has("deliver", stack)
      /\ Has("deliver_eof", stack') <=> Has("deliver_eof", stack)
  BY <1>1, QuietHas DEF Deliveries
<1>. QED BY <1>2, <1>3 DEF ReadInv, Rearming, ReadBase

LEMMA CalmWrites ==
    ASSUME StateInv,
           \/ \E len \in Lens : WriteBlocked(len) \/ WriteSubmit(len) \/ WriteFails(len)
           \/ \E len \in Lens : \E n \in 0..len : WriteDirect(len, n)
    PROVE  /\ rd' = rd /\ prov'.started = prov.started
           /\ stack = <<>> \/ Head(stack) # "read_arm"
<1>1. prov \in ProviderState
  BY SMTT(30) DEF StateInv, Inv, TypeInv
<1>2. rd' = rd /\ (stack = <<>> \/ Head(stack) # "read_arm")
  BY ZenonT(40) DEF WriteBlocked, WriteSubmit, WriteFails, WriteDirect, WriteCall, UserCall,
       Idle, Top
<1>3. prov'.started = prov.started
  BY Zenon, <1>1 DEF WriteBlocked, WriteSubmit, WriteFails, WriteDirect, Submitted, ProviderState
<1>. QED BY <1>2, <1>3

LEMMA CalmProvider ==
    ASSUME StateInv,
           \/ \E ok \in BOOLEAN : OnWriteComplete(ok) \/ OnWriteInline(ok)
           \/ \E n \in 0..wr.buffered, ok \in BOOLEAN : Flush(n, ok)
           \/ ArmPost
    PROVE  /\ rd' = rd /\ prov'.started = prov.started
           /\ stack' = stack \/ stack = <<>> \/ Head(stack) # "read_arm"
<1>1. prov \in ProviderState
  BY SMTT(30) DEF StateInv, Inv, TypeInv
<1>2. rd' = rd /\ (stack' = stack \/ stack = <<>> \/ Head(stack) # "read_arm")
  BY ZenonT(40) DEF OnWriteComplete, OnWriteInline, Flush, ArmPost, Idle, Top
<1>3. prov'.started = prov.started
  BY Zenon, <1>1 DEF OnWriteComplete, OnWriteInline, Flush, ArmPost, Submitted, ProviderState
<1>. QED BY <1>2, <1>3

LEMMA CalmReturns ==
    ASSUME StateInv,
           \/ \E ok \in BOOLEAN : SubmitReturn(ok)
           \/ WcTail \/ RecvTail \/ WritableReturn \/ CancelRecvReturn \/ CancelSendReturn
           \/ CloseReturn
    PROVE  /\ rd' = rd /\ prov'.started = prov.started
           /\ Head(stack) # "read_arm"
<1>1. prov \in ProviderState
  BY DEF StateInv, Inv, TypeInv
<1>2. rd' = rd /\ Head(stack) # "read_arm"
  BY DEF SubmitReturn, WcTail, RecvTail, WritableReturn, CancelRecvReturn, CancelSendReturn,
         CloseReturn, Top
<1>3. prov'.started = prov.started
  BY <1>1 DEF SubmitReturn, WcTail, RecvTail, WritableReturn, CancelRecvReturn, CancelSendReturn,
         CloseReturn, Submitted, ProviderState
<1>. QED BY <1>2, <1>3

LEMMA ArmReads ==
    ASSUME NEW r \in ReadFacet, NEW k \in Seq(Frames), NEW p \in ProviderState,
           ReadBase(r, k), StreamArm(r, k), prov' = Armed(r, p)
    PROVE  ReadInv(rd', stack', prov')
<1>1. CASE r.arming
  <2>1. rd' = [r EXCEPT !.rearm_pending = TRUE] /\ stack' = k /\ prov' = p
    BY <1>1 DEF StreamArm, Armed, ArmPosts
  <2>. QED BY <1>1, <2>1 DEF ReadInv, ReadBase, Rearming, ReadFacet
<1>2. CASE ~r.arming /\ ArmBlocked(r)
  <2>1. rd' = r /\ stack' = k /\ prov' = p
    BY <1>2 DEF StreamArm, Armed, ArmPosts
  <2>. QED BY <1>2, <2>1 DEF ReadInv, ReadBase, Rearming, ArmBlocked
<1>3. CASE ~r.arming /\ ~ArmBlocked(r)
  <2>1. /\ rd' = [r EXCEPT !.recv_inflight = TRUE, !.recv_cancel_requested = FALSE,
                           !.completed_inline = FALSE, !.rearm_pending = FALSE, !.arming = TRUE]
        /\ stack' = Push("read_arm", k)
    BY <1>3 DEF StreamArm, ArmPosts
  <2>2. Head(stack') = "read_arm"
    BY Zenon, <2>1, PushShape, FrameKinds
  <2>3. rd'.recv_inflight /\ ~rd'.recv_held /\ ~rd'.read_paused
    BY <1>3, <2>1 DEF ArmBlocked, ReadFacet
  <2>. QED BY <2>2, <2>3 DEF ReadInv, ReadBase, Rearming
<1>. QED BY <1>1, <1>2, <1>3

LEMMA PopBase ==
    ASSUME NEW r, NEW k \in Seq(Frames), k # <<>>, Head(k) # "read_arm", ReadBase(r, k)
    PROVE  ReadBase(r, Tail(k))
<1>1. \A g : Has(g, Tail(k)) => Has(g, k)
  BY PopShape
<1>. QED BY <1>1 DEF ReadBase

LEMMA ReadStartReads ==
    ASSUME StateInv, ReadInv(rd, stack, prov), ReadStart
    PROVE  ReadInv(rd', stack', prov')
BY ArmReads DEF StateInv, Inv, TypeInv, ReadInv, ReadStart

LEMMA ArmReturnReads ==
    ASSUME StateInv, ReadInv(rd, stack, prov), NEW ok \in BOOLEAN, ArmReturn(ok)
    PROVE  ReadInv(rd', stack', prov')
<1>. DEFINE r == [rd EXCEPT !.arming = FALSE]
            k == Tail(stack)
<1>1. /\ rd \in ReadFacet /\ stack \in Seq(Frames) /\ prov \in ProviderState
      /\ stack # <<>> /\ Head(stack) = "read_arm"
  BY DEF StateInv, Inv, TypeInv, ArmReturn, Top
<1>2. /\ k \in Seq(Frames) /\ \A g : g # "read_arm" => (Has(g, stack) <=> Has(g, k))
  BY <1>1, PopShape
<1>3. /\ r \in ReadFacet /\ ~r.arming /\ r.recv_held = rd.recv_held
      /\ r.read_paused = rd.read_paused /\ r.read_closed = rd.read_closed
      /\ r.recv_inflight = rd.recv_inflight /\ r.completed_inline = rd.completed_inline
      /\ r.rearm_pending = rd.rearm_pending
  BY Zenon, <1>1 DEF ReadFacet
<1>4. IF RearmDue(r) THEN StreamArm(r, k) /\ prov' = Armed(r, prov)
      ELSE /\ rd' = IF ~ok /\ ~r.completed_inline
                    THEN [r EXCEPT !.recv_inflight = FALSE, !.read_closed = TRUE] ELSE r
           /\ stack' = k /\ prov' = prov
  BY DEF ArmReturn
<1>. HIDE DEF r, k
<1>5. ReadBase(r, k)
  BY <1>2, <1>3 DEF ReadInv, ReadBase
<1>6. CASE RearmDue(r)
  BY <1>1, <1>2, <1>3, <1>4, <1>5, <1>6, ArmReads
<1>7. CASE ~RearmDue(r) /\ ~(~ok /\ ~r.completed_inline)
  <2>1. rd' = r /\ stack' = k /\ prov' = prov
    BY <1>4, <1>7
  <2>. QED BY <1>2, <1>3, <1>5, <1>7, <2>1 DEF ReadInv, Rearming, RearmDue
<1>8. CASE ~RearmDue(r) /\ ~ok /\ ~r.completed_inline
  <2>1. rd' = [r EXCEPT !.recv_inflight = FALSE, !.read_closed = TRUE] /\ stack' = k /\ prov' = prov
    BY <1>4, <1>8
  <2>2. rd'.read_closed /\ rd'.recv_held = r.recv_held
    BY <1>3, <2>1 DEF ReadFacet
  <2>3. ~rd.recv_held
    <3>1. rd.arming
      BY <1>1, PopShape DEF StateInv, Inv, FrameInv
    <3>. QED BY <3>1 DEF ReadInv, ReadBase
  <2>. QED BY <1>3, <2>2, <2>3 DEF ReadInv, ReadBase, Rearming
<1>. QED BY <1>6, <1>7, <1>8

LEMMA OnRecvReads ==
    ASSUME StateInv, ReadInv(rd, stack, prov), NEW ok \in BOOLEAN, OnRecv(ok)
    PROVE  ReadInv(rd', stack', prov')
<1>. DEFINE r == [rd EXCEPT !.recv_inflight = FALSE, !.completed_inline = @ \/ rd.arming]
            h == [r EXCEPT !.recv_held = TRUE, !.held_ok = ok]
<1>1. /\ rd \in ReadFacet /\ stack \in Seq(Frames) /\ prov \in ProviderState
      /\ rd.recv_inflight
      /\ stack = <<>> \/ Head(stack) \in {"read_arm", "cancel_recv"}
  BY DEF StateInv, Inv, TypeInv, OnRecv, RecvRetires, Idle, Top
<1>2. /\ r \in ReadFacet /\ ~r.recv_inflight /\ (r.arming => r.completed_inline)
      /\ r.arming = rd.arming /\ r.read_closed = rd.read_closed /\ r.read_paused = rd.read_paused
      /\ r.recv_held = rd.recv_held
  BY ZenonT(40), <1>1 DEF ReadFacet
<1>5. IF r.read_closed THEN rd' = r /\ Finalize(r, wr, cl, stack)
      ELSE IF r.read_paused THEN rd' = h /\ Finalize(h, wr, cl, stack)
      ELSE Deliver(r, ok, Push("recv_tail", stack))
  BY DEF OnRecv
<1>. HIDE DEF r
<1>3. h \in ReadFacet /\ h.arming = r.arming /\ h.read_closed = r.read_closed
      /\ h.read_paused = r.read_paused /\ ~h.recv_inflight
  BY Zenon, <1>2 DEF ReadFacet
<1>4. ~rd.recv_held
  BY <1>1 DEF ReadInv, ReadBase
<1>. HIDE DEF h
<1>6. CASE r.read_closed
  BY <1>2, <1>4, <1>5, <1>6 DEF ReadInv, ReadBase, Rearming
<1>7. CASE ~r.read_closed /\ r.read_paused
  <2>1. stack # <<>> => Head(stack) # "cancel_recv"
    BY <1>1, <1>2, <1>7, PopShape DEF StateInv, Inv, FrameInv, CloseInv
  <2>2. stack # <<>> => Head(stack) # "read_arm"
    <3>1. stack # <<>> /\ Head(stack) = "read_arm" => rd.arming
      BY <1>1, PopShape DEF StateInv, Inv, FrameInv
    <3>. QED BY <1>1, <1>2, <1>7, <3>1 DEF ReadInv, ReadBase
  <2>3. stack = <<>> /\ \A g : ~Has(g, stack)
    BY <1>1, <2>1, <2>2 DEF Has
  <2>4. ~rd.arming
    BY <2>3 DEF StateInv, Inv, FrameInv
  <2>5. cl.close_state = "OPEN"
    BY <1>2, <1>7 DEF StateInv, Inv, CloseInv
  <2>6. rd' = h /\ stack' = stack
    BY <1>5, <1>7, <2>5 DEF Finalize, CanDetach
  <2>. QED BY Zenon, <1>2, <1>3, <1>7, <2>3, <2>4, <2>6 DEF ReadInv, ReadBase, Rearming
<1>8. CASE ~r.read_closed /\ ~r.read_paused
  <2>1. /\ rd' = IF ok THEN r ELSE [r EXCEPT !.read_closed = TRUE]
        /\ stack' = Push(IF ok THEN "deliver" ELSE "deliver_eof", Push("recv_tail", stack))
    BY <1>5, <1>8 DEF Deliver
  <2>2. CASE ok
    <3>1. Has("deliver", stack')
      BY <1>1, <2>1, <2>2, PushShape, PushHas, FrameKinds DEF Deliveries
    <3>. QED BY <1>2, <1>4, <2>1, <2>2, <3>1 DEF ReadInv, ReadBase, Rearming
  <2>3. CASE ~ok
    <3>1. rd'.read_closed /\ ~rd'.recv_held
      BY <1>2, <1>4, <2>1, <2>3 DEF ReadFacet
    <3>. QED BY <3>1 DEF ReadInv, ReadBase, Rearming
  <2>. QED BY <2>2, <2>3
<1>. QED BY <1>6, <1>7, <1>8

LEMMA OversizeReads ==
    ASSUME StateInv, ReadInv(rd, stack, prov), OnRecvOversize
    PROVE  ReadInv(rd', stack', prov')
<1>1. rd \in ReadFacet /\ rd.recv_inflight
  BY DEF StateInv, Inv, TypeInv, OnRecvOversize, RecvRetires
<1>2. rd'.read_closed /\ rd'.recv_held = rd.recv_held
  BY <1>1 DEF OnRecvOversize, ReadFacet
<1>3. ~rd.recv_held
  BY <1>1 DEF ReadInv, ReadBase
<1>. QED BY <1>2, <1>3 DEF ReadInv, ReadBase, Rearming

LEMMA DeliverReturnReads ==
    ASSUME StateInv, ReadInv(rd, stack, prov), DeliverReturn
    PROVE  ReadInv(rd', stack', prov')
<1>1. /\ rd \in ReadFacet /\ stack \in Seq(Frames) /\ prov \in ProviderState
      /\ stack # <<>> /\ Head(stack) \in Deliveries
  BY DEF StateInv, Inv, TypeInv, DeliverReturn, Top, Deliveries
<1>2. ReadBase(rd, Tail(stack)) /\ Tail(stack) \in Seq(Frames)
  BY <1>1, PopBase, PopShape DEF ReadInv, Deliveries
<1>3. CASE Head(stack) = "deliver_eof" \/ rd.read_closed \/ rd.read_paused \/ rd.recv_inflight
  <2>1. rd' = rd /\ stack' = Tail(stack) /\ prov' = prov
    BY <1>3 DEF DeliverReturn
  <2>2. Head(stack) = "deliver_eof" => (Has("deliver", stack) <=> Has("deliver", Tail(stack)))
    BY <1>1, PopShape
  <2>. QED BY <1>2, <1>3, <2>1, <2>2 DEF ReadInv, Rearming
<1>4. CASE ~(Head(stack) = "deliver_eof" \/ rd.read_closed \/ rd.read_paused \/ rd.recv_inflight)
  <2>1. StreamArm(rd, Tail(stack)) /\ prov' = Armed(rd, prov)
    BY <1>4 DEF DeliverReturn
  <2>. QED BY Zenon, <1>1, <1>2, <2>1, ArmReads
<1>. QED BY <1>3, <1>4

LEMMA PauseReads ==
    ASSUME StateInv, ReadInv(rd, stack, prov), Pause
    PROVE  ReadInv(rd', stack', prov')
<1>1. /\ rd \in ReadFacet /\ ~rd.read_paused /\ stack' = stack
      /\ stack = <<>> \/ Head(stack) # "read_arm"
      /\ rd.arming <=> Has("read_arm", stack)
  BY DEF StateInv, Inv, TypeInv, FrameInv, Pause, UserCall, Idle, Top
<1>2. /\ rd'.read_paused /\ rd'.recv_held = rd.recv_held /\ rd'.arming = rd.arming
      /\ rd'.read_closed = rd.read_closed /\ rd'.completed_inline = rd.completed_inline
      /\ rd'.recv_inflight => rd.recv_inflight
  BY <1>1 DEF Pause, ReadFacet
<1>3. rd.arming => stack # <<>>
  BY <1>1 DEF Has
<1>4. ~rd.recv_held
  BY <1>1 DEF ReadInv, ReadBase
<1>. QED BY <1>1, <1>2, <1>3, <1>4 DEF ReadInv, ReadBase, Rearming

LEMMA ResumeReads ==
    ASSUME StateInv, ReadInv(rd, stack, prov), Resume
    PROVE  ReadInv(rd', stack', prov')
<1>. DEFINE r == [rd EXCEPT !.read_paused = FALSE]
            h == [r EXCEPT !.recv_held = FALSE, !.held_ok = FALSE]
<1>1. /\ rd \in ReadFacet /\ stack \in Seq(Frames) /\ prov \in ProviderState
  BY DEF StateInv, Inv, TypeInv
<1>2. /\ r \in ReadFacet /\ ~r.read_paused /\ r.recv_held = rd.recv_held
      /\ r.recv_inflight = rd.recv_inflight /\ r.arming = rd.arming
      /\ r.read_closed = rd.read_closed /\ r.completed_inline = rd.completed_inline
  BY Zenon, <1>1 DEF ReadFacet
<1>3. IF r.read_closed THEN rd' = r /\ stack' = stack /\ prov' = prov
      ELSE IF r.recv_held THEN Deliver(h, r.held_ok, stack) /\ prov' = prov
      ELSE IF r.recv_inflight THEN rd' = r /\ stack' = stack /\ prov' = prov
      ELSE StreamArm(r, stack) /\ prov' = Armed(r, prov)
  BY DEF Resume
<1>. HIDE DEF r
<1>4. h \in ReadFacet /\ ~h.recv_held /\ h.arming = r.arming
  BY Zenon, <1>2 DEF ReadFacet
<1>. HIDE DEF h
<1>5. CASE r.read_closed
  <2>1. ~rd.recv_held
    BY <1>2, <1>5 DEF ReadInv, ReadBase
  <2>. QED BY <1>2, <1>3, <1>5, <2>1 DEF ReadInv, ReadBase, Rearming
<1>6. CASE ~r.read_closed /\ r.recv_held
  <2>1. ~rd.arming
    BY <1>2, <1>6 DEF ReadInv, ReadBase
  <2>2. /\ rd' = IF r.held_ok THEN h ELSE [h EXCEPT !.read_closed = TRUE]
        /\ stack' = Push(IF r.held_ok THEN "deliver" ELSE "deliver_eof", stack)
    BY <1>3, <1>6 DEF Deliver
  <2>3. CASE r.held_ok
    <3>1. Has("deliver", stack')
      BY <1>1, <2>2, <2>3, PushHas, FrameKinds DEF Deliveries
    <3>. QED BY <1>2, <1>4, <2>1, <2>2, <2>3, <3>1 DEF ReadInv, ReadBase, Rearming
  <2>4. CASE ~r.held_ok
    <3>1. rd'.read_closed /\ ~rd'.recv_held
      BY <1>4, <2>2, <2>4 DEF ReadFacet
    <3>. QED BY <3>1 DEF ReadInv, ReadBase, Rearming
  <2>. QED BY <2>3, <2>4
<1>7. CASE ~r.read_closed /\ ~r.recv_held /\ r.recv_inflight
  BY <1>2, <1>3, <1>7 DEF ReadInv, ReadBase, Rearming
<1>8. CASE ~r.read_closed /\ ~r.recv_held /\ ~r.recv_inflight
  <2>1. ReadBase(r, stack)
    BY <1>2, <1>8 DEF ReadInv, ReadBase
  <2>. QED BY <1>1, <1>2, <1>3, <1>8, <2>1, ArmReads
<1>. QED BY <1>5, <1>6, <1>7, <1>8

LEMMA ClosedReads ==
    ASSUME rd'.read_closed, ~rd'.recv_held
    PROVE  ReadInv(rd', stack', prov')
BY DEF ReadInv, ReadBase, Rearming

LEMMA CloseCallReads ==
    ASSUME StateInv, ReadInv(rd, stack, prov),
           ReadClose \/ CloseBegin \/ Cancel \/ \E abort \in BOOLEAN : ArmCloses(abort)
    PROVE  ReadInv(rd', stack', prov')
<1>. DEFINE q == ReadCloseOf(rd)
<1>1. rd \in ReadFacet /\ (wq_closing => rd.read_closed)
  BY DEF StateInv, Inv, TypeInv, CloseInv, wq_closing
<1>2. rd.read_closed => ~rd.recv_held
  BY DEF ReadInv, ReadBase
<1>3. q \in ReadFacet /\ q.read_closed /\ ~q.recv_held
  BY ZenonT(40), <1>1, <1>2 DEF ReadCloseOf, ReadFacet
<1>4. \/ rd' = q
      \/ rd' = rd /\ wq_closing
      \/ rd' = [q EXCEPT !.recv_cancel_requested = TRUE]
      \/ rd' = [rd EXCEPT !.recv_cancel_requested = TRUE] /\ wq_closing
  <2>1. CASE ReadClose
    BY <2>1 DEF ReadClose
  <2>2. ASSUME NEW abort, CloseCall(abort)
        PROVE  LET r == IF wq_closing THEN rd ELSE q
               IN  rd' = r \/ rd' = [r EXCEPT !.recv_cancel_requested = TRUE]
    BY <2>2 DEF CloseCall
  <2>3. CASE \E abort : CloseCall(abort)
    BY <2>2, <2>3
  <2>. QED BY Zenon, <2>1, <2>3 DEF CloseBegin, Cancel, ArmCloses
<1>. HIDE DEF q
<1>5. rd'.read_closed /\ ~rd'.recv_held
  BY <1>1, <1>2, <1>3, <1>4 DEF ReadFacet
<1>. QED BY <1>5, ClosedReads

LEMMA FreshReads ==
    ASSUME NEW m, rd' = InitRead(m), prov' = InitProvider
    PROVE  ReadInv(rd', stack', prov')
BY DEF InitRead, InitProvider, ReadInv, ReadBase, Rearming

LEMMA ReadStep ==
    ASSUME StateInv, ReadInv(rd, stack, prov), [Next]_vars
    PROVE  ReadInv(rd', stack', prov')
<1>1. CASE UNCHANGED vars
  BY <1>1 DEF vars
<1>2. CASE \/ \E len \in Lens : WriteBlocked(len) \/ WriteSubmit(len) \/ WriteFails(len)
           \/ \E len \in Lens : \E n \in 0..len : WriteDirect(len, n)
  BY <1>2, CalmWrites, QuietUser, QuietWeaken, CalmRead
<1>3. CASE ArmPost \/ \E ok \in BOOLEAN : OnWriteInline(ok)
  BY <1>3, CalmProvider, QuietInline, QuietWeaken, CalmRead
<1>4. CASE \E n \in 0..wr.buffered, ok \in BOOLEAN : Flush(n, ok)
  BY <1>4, CalmProvider, QuietFlush, QuietWeaken, CalmRead
<1>5. CASE \E ok \in BOOLEAN : OnWriteComplete(ok)
  BY <1>5, CalmProvider, QuietWriteComplete, CalmRead
<1>6. CASE \/ \E ok \in BOOLEAN : SubmitReturn(ok)
           \/ RecvTail \/ WritableReturn \/ CancelRecvReturn \/ CancelSendReturn \/ CloseReturn
  BY <1>6, CalmReturns, QuietReturn, QuietWeaken, CalmRead
<1>7. CASE WcTail
  BY <1>7, CalmReturns, QuietWcTail, CalmRead
<1>8. CASE ReadStart \/ Pause \/ Resume \/ DeliverReturn \/ OnRecvOversize
  BY <1>8, ReadStartReads, PauseReads, ResumeReads, DeliverReturnReads, OversizeReads
<1>9. CASE \E ok \in BOOLEAN : ArmReturn(ok) \/ OnRecv(ok)
  BY <1>9, ArmReturnReads, OnRecvReads
<1>10. CASE ReadClose \/ CloseBegin \/ Cancel \/ \E abort \in BOOLEAN : ArmCloses(abort)
  BY <1>10, CloseCallReads
<1>11. CASE Reuse
  BY <1>11, FreshReads DEF Reuse
<1>. QED
  BY <1>1, <1>2, <1>3, <1>4, <1>5, <1>6, <1>7, <1>8, <1>9, <1>10, <1>11
     DEF Next, Provider, Inline, Returns, User

LEMMA DeliverySteps ==
    ASSUME [Next]_vars
    PROVE  \/ Quiet(Deliveries, stack, stack')
           \/ (\E ok \in BOOLEAN : OnRecv(ok)) \/ Resume \/ DeliverReturn
<1>1. CASE UNCHANGED vars
  BY <1>1 DEF vars, Quiet
<1>2. CASE \/ ReadStart \/ Pause \/ ReadClose \/ Reuse
           \/ \E len \in Lens : WriteBlocked(len) \/ WriteSubmit(len) \/ WriteFails(len)
           \/ \E len \in Lens : \E n \in 0..len : WriteDirect(len, n)
  BY <1>2, QuietUser, QuietWeaken
<1>3. CASE ArmPost \/ \E ok \in BOOLEAN : OnWriteInline(ok)
  BY <1>3, QuietInline, QuietWeaken
<1>4. CASE CloseBegin \/ Cancel \/ \E abort \in BOOLEAN : ArmCloses(abort)
  BY <1>4, QuietClose, QuietWeaken
<1>5. CASE \/ \E ok \in BOOLEAN : ArmReturn(ok) \/ SubmitReturn(ok)
           \/ RecvTail \/ WritableReturn \/ CancelRecvReturn \/ CancelSendReturn \/ CloseReturn
  BY <1>5, QuietReturn, QuietWeaken
<1>6. CASE \E n \in 0..wr.buffered, ok \in BOOLEAN : Flush(n, ok)
  BY <1>6, QuietFlush, QuietWeaken
<1>7. CASE OnRecvOversize \/ WcTail \/ \E ok \in BOOLEAN : OnWriteComplete(ok)
  BY <1>7, QuietOversize, QuietWcTail, QuietWriteComplete, QuietWeaken
<1>. QED
  BY <1>1, <1>2, <1>3, <1>4, <1>5, <1>6, <1>7 DEF Next, Provider, Inline, Returns, User

LEMMA SeparatedStep ==
    ASSUME StateInv, ReadInv(rd, stack, prov), Separated(stack), [Next]_vars
    PROVE  Separated(stack')
<1>0. stack \in Seq(Frames)
  BY DEF StateInv, Inv, TypeInv
<1>1. CASE Quiet(Deliveries, stack, stack')
  BY <1>0, <1>1, QuietSeparated
<1>2. ASSUME NEW ok \in BOOLEAN, OnRecv(ok) PROVE Separated(stack')
  <2>1. CASE rd.read_closed \/ rd.read_paused
    <3>1. rd \in ReadFacet
      BY DEF StateInv, Inv, TypeInv
    <3>2. stack' = stack \/ stack' = Push("on_close", stack)
      BY <1>2, <2>1, <3>1, SegmentFrames DEF OnRecv, ReadFacet
    <3>. QED BY <1>0, <3>2, PushSeparated, FrameKinds DEF Marked
  <2>2. CASE ~rd.read_closed /\ ~rd.read_paused
    <3>1. rd \in ReadFacet
      BY DEF StateInv, Inv, TypeInv
    <3>2. \E f \in Deliveries : stack' = Push(f, Push("recv_tail", stack))
      BY <1>2, <2>2, <3>1 DEF OnRecv, Deliver, Deliveries, ReadFacet
    <3>3. stack # <<>> => Head(stack) # "cancel_recv"
      BY <1>0, <2>2, PopShape DEF StateInv, Inv, FrameInv, CloseInv
    <3>4. stack = <<>> \/ Head(stack) = "read_arm"
      BY <1>2, <3>3 DEF OnRecv, RecvRetires, Idle, Top
    <3>5. Covered(stack)
      BY <1>0, <3>4, NowCovered
    <3>6. Covered(Push("recv_tail", stack)) /\ Separated(Push("recv_tail", stack))
          /\ Push("recv_tail", stack) \in Seq(Frames)
      BY <1>0, <3>5, PushCovered, PushSeparated, PushShape, FrameKinds DEF Marked
    <3>. QED BY <3>2, <3>6, PushSeparated, FrameKinds
  <2>. QED BY <2>1, <2>2
<1>3. CASE Resume
  <2>1. CASE ~rd.recv_held \/ rd.read_closed
    <3>1. rd \in ReadFacet
      BY DEF StateInv, Inv, TypeInv
    <3>2. stack' = stack \/ stack' = Push("read_arm", stack)
      BY Zenon, <1>3, <2>1, <3>1, SegmentFrames DEF Resume, ReadFacet
    <3>. QED BY <1>0, <3>2, PushSeparated, FrameKinds DEF Marked
  <2>2. CASE rd.recv_held /\ ~rd.read_closed
    <3>1. rd \in ReadFacet
      BY DEF StateInv, Inv, TypeInv
    <3>2. \E f \in Deliveries : stack' = Push(f, stack)
      BY <1>3, <2>2, <3>1 DEF Resume, Deliver, Deliveries, ReadFacet
    <3>3. Covered(stack)
      BY <1>0, <2>2, NowCovered DEF ReadInv, ReadBase
    <3>. QED BY <1>0, <3>2, <3>3, PushSeparated, FrameKinds
  <2>. QED BY <2>1, <2>2
<1>4. CASE DeliverReturn
  <2>1. stack # <<>> /\ (stack' = Tail(stack) \/ stack' = Push("read_arm", Tail(stack)))
    BY Zenon, <1>4, SegmentFrames DEF DeliverReturn, Top
  <2>2. Tail(stack) \in Seq(Frames) /\ Separated(Tail(stack))
    BY <1>0, <2>1, PopShape, PopSeparated
  <2>. QED BY Zenon, <2>1, <2>2, PushSeparated, FrameKinds DEF Marked
<1>. QED BY <1>1, <1>2, <1>3, <1>4, DeliverySteps

LEMMA NoDelivery ==
    ASSUME StateInv, [Next]_vars, rd.read_closed, Len(stack') > Len(stack)
    PROVE  Head(stack') \notin Deliveries
<1>0. stack \in Seq(Frames) /\ rd \in ReadFacet
  BY DEF StateInv, Inv, TypeInv
<1>1. CASE Quiet(Deliveries, stack, stack')
  <2>1. CASE stack # <<>> /\ \E f \in Frames \ Deliveries : stack' = Push(f, Tail(stack))
    <3>1. Tail(stack) \in Seq(Frames) /\ Len(Tail(stack)) = Len(stack) - 1 /\ Len(stack) \in Nat
      BY <1>0, <2>1, HeadTailProperties
    <3>2. PICK f \in Frames : stack' = Push(f, Tail(stack))
      BY <2>1
    <3>3. Len(Push(f, Tail(stack))) = Len(Tail(stack)) + 1
      BY ZenonT(40), <3>1, PushShape
    <3>. QED BY <3>1, <3>2, <3>3
  <2>2. CASE stack # <<>> /\ stack' = Tail(stack)
    <3>1. Len(Tail(stack)) = Len(stack) - 1 /\ Len(stack) \in Nat
      BY <1>0, <2>2, HeadTailProperties
    <3>. QED BY <2>2, <3>1
  <2>3. CASE \E f \in Frames \ Deliveries : stack' = Push(f, stack)
    <3>1. PICK f \in Frames \ Deliveries : stack' = Push(f, stack)
      BY <2>3
    <3>2. Head(Push(f, stack)) = f
      BY <1>0, PushShape
    <3>. QED BY <3>1, <3>2
  <2>4. CASE \E f, g \in Frames \ Deliveries : stack' = Push(f, Push(g, stack))
    <3>1. PICK f \in Frames \ Deliveries, g \in Frames \ Deliveries :
             stack' = Push(f, Push(g, stack))
      BY <2>4
    <3>2. Push(g, stack) \in Seq(Frames)
      BY <1>0, PushShape
    <3>. QED BY ZenonT(40), <3>1, <3>2, PushShape
  <2>5. CASE stack' = stack
    <3>1. Len(stack) \in Nat
      BY <1>0
    <3>. QED BY <2>5, <3>1
  <2>. QED BY <1>1, <2>1, <2>2, <2>3, <2>4, <2>5 DEF Quiet
<1>2. CASE \E ok \in BOOLEAN : OnRecv(ok)
  <2>1. stack' = stack \/ stack' = Push("on_close", stack)
    BY <1>0, <1>2, SegmentFrames DEF OnRecv, ReadFacet
  <2>2. Len(stack) \in Nat /\ Head(Push("on_close", stack)) = "on_close"
    BY <1>0, PushShape, FrameKinds
  <2>. QED BY <2>1, <2>2 DEF Deliveries
<1>3. CASE Resume
  <2>1. stack' = stack /\ Len(stack) \in Nat
    BY <1>0, <1>3 DEF Resume, ReadFacet
  <2>. QED BY <2>1
<1>4. CASE DeliverReturn
  <2>1. stack # <<>> /\ stack' = Tail(stack)
    BY <1>4 DEF DeliverReturn, Top
  <2>2. Len(Tail(stack)) = Len(stack) - 1 /\ Len(stack) \in Nat
    BY <1>0, <2>1, HeadTailProperties
  <2>. QED BY <2>1, <2>2
<1>. QED BY <1>1, <1>2, <1>3, <1>4, DeliverySteps

-----------------------------------------------------------------------------
(* Theorems. *)

ReadFlow == ReadInv(rd, stack, prov) /\ Separated(stack)

\* In every reachable state a started, unpaused, open read side has a receive in flight, an
\* open delivery or a deferred arm to continue it, and deliveries nest only through read_arm.
THEOREM StreamReadInvariant == Spec => [](StateInv /\ ReadFlow)
<1>1. Init => ReadFlow
  <2>1. ASSUME NEW m PROVE ReadInv(InitRead(m), <<>>, InitProvider)
    BY DEF InitRead, InitProvider, ReadInv, ReadBase, Rearming
  <2>2. Separated(<<>>)
    BY DEF Separated
  <2>. QED BY <2>1, <2>2 DEF Init, ReadFlow
<1>2. StateInv /\ ReadFlow /\ [Next]_vars => ReadFlow'
  BY ReadStep, SeparatedStep DEF ReadFlow
<1>. QED BY <1>1, <1>2, StreamInvariant, PTL DEF Spec

\* stream_read.c: back in the event loop, a started, unpaused, open read side has a receive
\* armed, however the arms were deferred, completed inline, held or resumed.
THEOREM StreamNoLostRearm == Spec => []NoLostRearm
<1>1. ASSUME StateInv, ReadFlow, Idle PROVE NoLostRearm
  <2>1. \A f : ~Has(f, stack)
    BY <1>1 DEF Idle, Has
  <2>2. ~rd.arming
    BY <1>1, <2>1 DEF StateInv, Inv, FrameInv
  <2>. QED BY <1>1, <2>1, <2>2 DEF ReadFlow, ReadInv, Rearming, NoLostRearm
<1>2. StateInv /\ ReadFlow => NoLostRearm
  BY <1>1 DEF NoLostRearm
<1>. QED BY <1>2, StreamReadInvariant, PTL

\* stream_read.c:42: inline completions do not grow the C stack: one read_arm frame and two
\* deliveries are the most that is ever open.
THEOREM StreamBoundedRecursion == Spec => []BoundedRecursion
<1>1. ASSUME StateInv, ReadFlow PROVE BoundedRecursion
  <2>1. Once("read_arm", stack) /\ Separated(stack) /\ Len(stack) \in Nat
    BY <1>1 DEF StateInv, Inv, TypeInv, FrameInv, ReadFlow
  <2>2. ASSUME NEW i \in 1..Len(stack), NEW j \in 1..Len(stack), NEW k \in 1..Len(stack),
               i < j, j < k, stack[i] \in Deliveries, stack[j] \in Deliveries,
               stack[k] \in Deliveries
        PROVE  FALSE
    <3>1. PICK m \in 1..Len(stack) : i < m /\ m < j /\ stack[m] = "read_arm"
      BY <2>1, <2>2 DEF Separated
    <3>2. PICK n \in 1..Len(stack) : j < n /\ n < k /\ stack[n] = "read_arm"
      BY <2>1, <2>2 DEF Separated
    <3>3. m = n
      BY <2>1, <3>1, <3>2 DEF Once
    <3>. QED BY <2>1, <3>1, <3>2, <3>3
  <2>. QED BY <2>1, <2>2 DEF BoundedRecursion, Once, Deliveries
<1>. QED BY <1>1, StreamReadInvariant, PTL

\* stream_read.c: no step calls read_deliver once the read side is closed, held data included.
THEOREM StreamNoDeliveryAfterClose == Spec => NoDeliveryAfterClose
<1>1. ASSUME StateInv, [Next]_vars
      PROVE  [Len(stack') > Len(stack) /\ Head(stack') \in {"deliver", "deliver_eof"}
                => ~rd.read_closed]_vars
  BY <1>1, NoDelivery DEF Deliveries
<1>. QED BY <1>1, StreamInvariant, PTL DEF Spec, NoDeliveryAfterClose
=============================================================================
