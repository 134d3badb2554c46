--------------------------- MODULE KlStreamProofs ---------------------------
(***************************************************************************)
(* Proofs about KlStream for every capacity, write length, bound and mode. *)
(* The inductive invariant relates the flags of struct KlStream to the     *)
(* frames that are open on the C stack: each flag the code uses to detect  *)
(* re-entry (arming, submitting, in_writable, in_close_cancel) says exactly*)
(* which hook calls have not returned.                                     *)
(***************************************************************************)
EXTENDS KlStream, SequenceTheorems, TLAPS

Frames == Hooks \cup Tails

Guarded == {"submit", "on_writable", "cancel_recv", "cancel_send", "wc_tail", "on_close"}

Has(f, k) == \E i \in 1..Len(k) : k[i] = f

Once(f, k) == \A i, j \in 1..Len(k) : k[i] = f /\ k[j] = f => i = j

One(b) == IF b THEN 1 ELSE 0

DetachClean(k) ==
    \A i \in 1..Len(k) : k[i] = "on_close" =>
        \A j \in i + 1 .. Len(k) : k[j] \notin Guarded

-----------------------------------------------------------------------------
(* The inductive invariant, as a predicate of the fields and the frames. *)

TypeInv(r, w, c, k, p) ==
    /\ r \in ReadFacet
    /\ w \in WriteFacet
    /\ c \in CloseFacet
    /\ p \in ProviderState
    /\ k \in Seq(Frames)
    /\ w.buffered <= Cap

\* What the provider holds, the stream knows to be in flight.
OpInv(r, w, p) ==
    /\ p.recv => r.recv_inflight
    /\ p.send => w.send_inflight /\ ~w.submitting
    /\ w.submitting => w.send_inflight

CancelInv(r, w, p) ==
    /\ p.recv_cancels = One(r.recv_cancel_requested)
    /\ p.send_cancels = One(w.send_cancel_requested)

CloseInv(r, w, c) ==
    /\ c.close_notified <=> c.close_state = "CLOSED"
    /\ c.close_state # "OPEN" => r.read_closed
    /\ c.close_state = "CLOSED" => ~r.recv_inflight /\ ~w.send_inflight

\* on_write_complete leaves its tail below nothing but the pump's submit.
TailInv(c, k) ==
    Has("wc_tail", k) =>
        \/ /\ Head(k) = "wc_tail" /\ ~Has("wc_tail", Tail(k))
           /\ Tail(k) = <<>> \/ c.close_state # "OPEN"
        \/ /\ Head(k) = "submit" /\ Tail(k) # <<>> /\ Head(Tail(k)) = "wc_tail"
           /\ ~Has("wc_tail", Tail(Tail(k)))
           /\ Tail(Tail(k)) = <<>> \/ c.close_state # "OPEN"

FrameInv(r, w, c, k) ==
    /\ \A f \in {"read_arm", "submit", "on_writable", "cancel_recv", "cancel_send"} : Once(f, k)
    /\ w.submitting <=> Has("submit", k)
    /\ Has("submit", k) => Head(k) = "submit"
    /\ r.arming <=> Has("read_arm", k)
    /\ c.in_writable = One(Has("on_writable", k))
    /\ c.in_close_cancel = One(Has("cancel_recv", k)) + One(Has("cancel_send", k))
    /\ Has("on_close", k) => c.close_notified
    /\ Has("cancel_recv", k) \/ Has("cancel_send", k) => c.close_abort /\ c.close_state # "OPEN"
    /\ Has("cancel_recv", k) => r.recv_cancel_requested \/ ~r.recv_inflight
    /\ Has("cancel_send", k) => w.send_cancel_requested \/ ~w.send_inflight

Inv(r, w, c, k, p) ==
    /\ TypeInv(r, w, c, k, p)
    /\ OpInv(r, w, p)
    /\ CancelInv(r, w, p)
    /\ CloseInv(r, w, c)
    /\ TailInv(c, k)
    /\ FrameInv(r, w, c, k)
    /\ DetachClean(k)

StateInv == Inv(rd, wr, cl, stack, prov)

-----------------------------------------------------------------------------
(* Pushing and popping frames. *)

LEMMA PushShape ==
    ASSUME NEW f \in Frames, NEW k \in Seq(Frames)
    PROVE  /\ Push(f, k) \in Seq(Frames)
           /\ Push(f, k) # <<>>
           /\ Len(Push(f, k)) = Len(k) + 1
           /\ Push(f, k)[1] = f
           /\ \A i \in 1..Len(k) : Push(f, k)[i + 1] = k[i]
           /\ \A i \in 2..Len(k) + 1 : Push(f, k)[i] = k[i - 1] /\ i - 1 \in 1..Len(k)
           /\ Len(k) \in Nat
           /\ Head(Push(f, k)) = f
           /\ Tail(Push(f, k)) = k
<1>1. <<f>> \in Seq(Frames) /\ Len(<<f>>) = 1 /\ <<f>>[1] = f
  OBVIOUS
<1>2. /\ <<f>> \o k \in Seq(Frames)
      /\ Len(<<f>> \o k) = 1 + Len(k)
      /\ \A i \in 1 .. 1 + Len(k) :
            (<<f>> \o k)[i] = IF i <= 1 THEN <<f>>[i] ELSE k[i - 1]
  BY <1>1, ConcatProperties
<1>3. Len(k) \in Nat
  OBVIOUS
<1>4. (<<f>> \o k)[1] = f /\ \A i \in 1..Len(k) : (<<f>> \o k)[i + 1] = k[i]
  BY <1>1, <1>2, <1>3
<1>8. \A i \in 2..Len(k) + 1 : (<<f>> \o k)[i] = k[i - 1] /\ i - 1 \in 1..Len(k)
  BY <1>1, <1>2, <1>3
<1>5. <<f>> \o k # <<>> /\ Head(<<f>> \o k) = f
  BY <1>2, <1>3, <1>4
<1>6. /\ Tail(<<f>> \o k) \in Seq(Frames)
      /\ Len(Tail(<<f>> \o k)) = Len(k)
      /\ \A i \in 1..Len(k) : Tail(<<f>> \o k)[i] = k[i]
  BY <1>2, <1>3, <1>4, <1>5, HeadTailProperties
<1>7. Tail(<<f>> \o k) = k
  BY <1>6, SeqEqual
<1>. QED
  BY <1>2, <1>3, <1>4, <1>5, <1>7, <1>8 DEF Push

LEMMA PushHas ==
    ASSUME NEW f \in Frames, NEW k \in Seq(Frames)
    PROVE  \A g : Has(g, Push(f, k)) <=> g = f \/ Has(g, k)
<1>. DEFINE s == Push(f, k)
<1>0. /\ Len(s) = Len(k) + 1 /\ Len(k) \in Nat
      /\ s[1] = f
      /\ \A i \in 1..Len(k) : s[i + 1] = k[i]
      /\ \A i \in 2..Len(k) + 1 : s[i] = k[i - 1] /\ i - 1 \in 1..Len(k)
  BY PushShape
<1>. HIDE DEF s
<1>1. ASSUME NEW g, Has(g, s), g # f PROVE Has(g, k)
  <2>1. PICK i \in 1..Len(k) + 1 : s[i] = g
    BY <1>0, <1>1 DEF Has
  <2>2. i # 1
    BY <1>0, <1>1, <2>1
  <2>3. i - 1 \in 1..Len(k) /\ k[i - 1] = g
    BY <1>0, <2>1, <2>2
  <2>. QED BY <2>3 DEF Has
<1>2. ASSUME NEW g, Has(g, k) PROVE Has(g, s)
  <2>1. PICK i \in 1..Len(k) : k[i] = g
    BY <1>2 DEF Has
  <2>2. i + 1 \in 1..Len(s) /\ s[i + 1] = g
    BY <1>0, <2>1
  <2>. QED BY <2>2 DEF Has
<1>3. Has(f, s)
  <2>1. 1 \in 1..Len(s) /\ s[1] = f
    BY <1>0
  <2>. QED BY <2>1 DEF Has
<1>4. \A g : Has(g, s) <=> g = f \/ Has(g, k)
  BY <1>1, <1>2, <1>3
<1>. QED BY <1>4 DEF s

LEMMA PushOnce ==
    ASSUME NEW f \in Frames, NEW k \in Seq(Frames), NEW g, Once(g, k),
           g = f => ~Has(g, k)
    PROVE  Once(g, Push(f, k))
<1>. DEFINE s == Push(f, k)
<1>0. /\ Len(s) = Len(k) + 1 /\ Len(k) \in Nat
      /\ s[1] = f
      /\ \A i \in 1..Len(k) : s[i + 1] = k[i]
      /\ \A i \in 2..Len(k) + 1 : s[i] = k[i - 1] /\ i - 1 \in 1..Len(k)
  BY PushShape
<1>. HIDE DEF s
<1>1. ASSUME NEW i \in 1..Len(k) + 1, NEW j \in 1..Len(k) + 1, s[i] = g, s[j] = g
      PROVE  i = j
  <2>1. CASE i # 1 /\ j # 1
    <3>1. /\ i - 1 \in 1..Len(k) /\ k[i - 1] = g
          /\ j - 1 \in 1..Len(k) /\ k[j - 1] = g
      BY <1>0, <1>1, <2>1
    <3>2. i - 1 = j - 1
      BY <3>1 DEF Once
    <3>. QED BY <3>2
  <2>2. CASE i = 1 /\ j # 1
    <3>1. j - 1 \in 1..Len(k) /\ k[j - 1] = g /\ f = g
      BY <1>0, <1>1, <2>2
    <3>. QED BY <3>1 DEF Has
  <2>3. CASE j = 1 /\ i # 1
    <3>1. i - 1 \in 1..Len(k) /\ k[i - 1] = g /\ f = g
      BY <1>0, <1>1, <2>3
    <3>. QED BY <3>1 DEF Has
  <2>. QED BY <2>1, <2>2, <2>3
<1>2. Once(g, s)
  BY <1>0, <1>1 DEF Once
<1>. QED BY <1>2 DEF s

LEMMA PushClean ==
    ASSUME NEW f \in Frames, NEW k \in Seq(Frames), DetachClean(k),
           f = "on_close" => \A g \in Guarded : ~Has(g, k)
    PROVE  DetachClean(Push(f, k))
<1>. DEFINE s == Push(f, k)
<1>0. /\ Len(s) = Len(k) + 1 /\ Len(k) \in Nat
      /\ s[1] = f
      /\ \A i \in 1..Len(k) : s[i + 1] = k[i]
      /\ \A i \in 2..Len(k) + 1 : s[i] = k[i - 1] /\ i - 1 \in 1..Len(k)
  BY PushShape
<1>. HIDE DEF s
<1>1. ASSUME NEW i \in 1..Len(k) + 1, s[i] = "on_close", NEW j \in i + 1 .. Len(k) + 1
      PROVE  s[j] \notin Guarded
  <2>1. j - 1 \in 1..Len(k) /\ s[j] = k[j - 1]
    BY <1>0
  <2>2. CASE i = 1
    <3>1. f = "on_close" /\ Has(k[j - 1], k)
      BY <1>0, <1>1, <2>1, <2>2 DEF Has
    <3>. QED BY <2>1, <3>1
  <2>3. CASE i # 1
    <3>1. i - 1 \in 1..Len(k) /\ k[i - 1] = "on_close" /\ j - 1 \in (i - 1) + 1 .. Len(k)
      BY <1>0, <1>1, <2>3
    <3>. QED BY <2>1, <3>1 DEF DetachClean
  <2>. QED BY <2>2, <2>3
<1>2. DetachClean(s)
  BY <1>0, <1>1 DEF DetachClean
<1>. QED BY <1>2 DEF s

LEMMA PopShape ==
    ASSUME NEW k \in Seq(Frames), k # <<>>
    PROVE  /\ Tail(k) \in Seq(Frames)
           /\ Head(k) \in Frames
           /\ \A g : Has(g, k) <=> g = Head(k) \/ Has(g, Tail(k))
           /\ \A g : Once(g, k) => Once(g, Tail(k)) /\ (Head(k) = g => ~Has(g, Tail(k)))
           /\ DetachClean(k) => DetachClean(Tail(k))
<1>1. /\ Head(k) \in Frames /\ Tail(k) \in Seq(Frames)
      /\ Len(Tail(k)) = Len(k) - 1 /\ Len(k) \in Nat \ {0} /\ Head(k) = k[1]
      /\ \A i \in 1..Len(k) - 1 : Tail(k)[i] = k[i + 1]
  BY HeadTailProperties
<1>2. ASSUME NEW g PROVE Has(g, k) <=> g = Head(k) \/ Has(g, Tail(k))
  BY <1>1 DEF Has
<1>3. ASSUME NEW g, Once(g, k)
      PROVE  Once(g, Tail(k)) /\ (Head(k) = g => ~Has(g, Tail(k)))
  BY <1>1, <1>3 DEF Once, Has
<1>4. ASSUME DetachClean(k) PROVE DetachClean(Tail(k))
  <2>. SUFFICES ASSUME NEW i \in 1..Len(k) - 1, k[i + 1] = "on_close",
                       NEW j \in i + 1 .. Len(k) - 1
                PROVE  k[j + 1] \notin Guarded
    BY <1>1 DEF DetachClean
  <2>1. i + 1 \in 1..Len(k) /\ j + 1 \in (i + 1) + 1 .. Len(k)
    BY <1>1
  <2>. QED BY <2>1, <1>4 DEF DetachClean
<1>. QED BY <1>1, <1>2, <1>3, <1>4

-----------------------------------------------------------------------------
(* The shared code segments keep the invariant. *)

LEMMA FinalizeKeeps ==
    ASSUME NEW r, NEW w, NEW c, NEW k, NEW p, Inv(r, w, c, k, p),
           ~Has("submit", k), ~Has("wc_tail", k), Finalize(r, w, c, k)
    PROVE  Inv(r, w, cl', stack', p)
<1>1. CASE ~CanDetach(r, w, c)
  BY <1>1 DEF Finalize
<1>2. CASE CanDetach(r, w, c)
  <2>. DEFINE d == [c EXCEPT !.close_state = "CLOSED", !.close_notified = TRUE]
              s == Push("on_close", k)
  <2>1. c \in CloseFacet /\ k \in Seq(Frames) /\ "on_close" \in Frames
    BY DEF Inv, TypeInv, Frames, Hooks
  <2>2. /\ d \in CloseFacet /\ d.close_state = "CLOSED" /\ d.close_notified
        /\ d.in_close_cancel = c.in_close_cancel /\ d.in_writable = c.in_writable
        /\ d.close_abort = c.close_abort
    BY <2>1 DEF CloseFacet
  <2>3. ~r.recv_inflight /\ ~w.send_inflight /\ c.in_close_cancel = 0 /\ c.in_writable = 0
        /\ c.close_state = "CLOSING"
    BY <1>2 DEF CanDetach, FullyRetired
  <2>4. cl' = d /\ stack' = s
    BY <1>2, <2>3 DEF Finalize, Inv, CloseInv
  <2>5. \A g : Has(g, s) <=> g = "on_close" \/ Has(g, k)
    BY <2>1, PushHas
  <2>6. /\ ~Has("on_writable", k) /\ ~Has("cancel_recv", k) /\ ~Has("cancel_send", k)
        /\ ~Has("on_close", k)
    BY <2>3 DEF Inv, FrameInv, CloseInv, One
  <2>7. \A g \in Guarded : ~Has(g, k)
    BY <2>6 DEF Guarded
  <2>8. DetachClean(s)
    BY <2>1, <2>7, PushClean DEF Inv
  <2>9. \A f \in {"read_arm", "submit", "on_writable", "cancel_recv", "cancel_send"} : Once(f, s)
    BY <2>1, PushOnce DEF Inv, FrameInv
  <2>. HIDE DEF d, s
  <2>10. TypeInv(r, w, d, s, p)
    BY <2>1, <2>2, PushShape DEF s, Inv, TypeInv
  <2>11. CloseInv(r, w, d)
    BY <2>2, <2>3 DEF Inv, CloseInv
  <2>12. TailInv(d, s)
    BY <2>5 DEF TailInv
  <2>13. FrameInv(r, w, d, s)
    BY <2>2, <2>3, <2>5, <2>6, <2>9 DEF Inv, FrameInv, One
  <2>. QED BY <2>4, <2>8, <2>10, <2>11, <2>12, <2>13 DEF Inv
<1>. QED BY <1>1, <1>2
\* Frames the invariant says nothing about.
Neutral == {"deliver", "deliver_eof", "recv_tail"}

LEMMA NeutralPush ==
    ASSUME NEW r, NEW w, NEW c, NEW k, NEW p, Inv(r, w, c, k, p),
           ~Has("submit", k), ~Has("wc_tail", k), NEW f \in Neutral
    PROVE  /\ Inv(r, w, c, Push(f, k), p)
           /\ ~Has("submit", Push(f, k)) /\ ~Has("wc_tail", Push(f, k))
<1>. DEFINE s == Push(f, k)
<1>1. k \in Seq(Frames) /\ f \in Frames /\ f \notin Guarded /\ f # "read_arm" /\ f # "on_close"
  BY DEF Inv, TypeInv, Frames, Hooks, Tails, Neutral, Guarded
<1>2. \A g : Has(g, s) <=> g = f \/ Has(g, k)
  BY <1>1, PushHas
<1>3. \A g \in Guarded \cup {"read_arm"} : Has(g, s) <=> Has(g, k)
  BY <1>1, <1>2
<1>4. DetachClean(s)
  BY <1>1, PushClean DEF Inv
<1>5. \A g \in {"read_arm", "submit", "on_writable", "cancel_recv", "cancel_send"} : Once(g, s)
  BY <1>1, PushOnce DEF Inv, FrameInv, Guarded
<1>6. s \in Seq(Frames)
  BY <1>1, PushShape
<1>. HIDE DEF s
<1>7. FrameInv(r, w, c, s)
  BY <1>3, <1>5 DEF Inv, FrameInv, Guarded, One
<1>8. TailInv(c, s) /\ ~Has("submit", s) /\ ~Has("wc_tail", s)
  BY <1>3 DEF TailInv, Guarded
<1>9. Inv(r, w, c, s, p)
  BY <1>4, <1>6, <1>7, <1>8 DEF Inv, TypeInv
<1>. QED BY <1>8, <1>9 DEF s

LEMMA NeutralPop ==
    ASSUME NEW r, NEW w, NEW c, NEW k, NEW p, Inv(r, w, c, k, p),
           k # <<>>, Head(k) \in Neutral \cup {"on_close"}
    PROVE  /\ Inv(r, w, c, Tail(k), p)
           /\ ~Has("submit", Tail(k)) /\ ~Has("wc_tail", Tail(k))
<1>. DEFINE s == Tail(k)
<1>1. /\ k \in Seq(Frames)
      /\ Head(k) \notin {"read_arm", "submit", "on_writable", "cancel_recv", "cancel_send", "wc_tail"}
  BY DEF Inv, TypeInv, Neutral
<1>2. /\ s \in Seq(Frames)
      /\ \A g : Has(g, k) <=> g = Head(k) \/ Has(g, s)
      /\ \A g : Once(g, k) => Once(g, s)
      /\ DetachClean(k) => DetachClean(s)
  BY <1>1, PopShape
<1>. HIDE DEF s
<1>3. ~Has("submit", k) /\ ~Has("wc_tail", k)
  BY <1>1 DEF Inv, FrameInv, TailInv
<1>4. \A g \in {"read_arm", "submit", "on_writable", "cancel_recv", "cancel_send", "wc_tail"} :
         Has(g, s) <=> Has(g, k)
  BY <1>1, <1>2
<1>5. Has("on_close", s) => Has("on_close", k)
  BY <1>2
<1>6. ~Has("submit", s) /\ ~Has("wc_tail", s)
  BY <1>3, <1>4
<1>7. FrameInv(r, w, c, s)
  BY <1>2, <1>4, <1>5, <1>6 DEF Inv, FrameInv, One
<1>8. TailInv(c, s)
  BY <1>6 DEF TailInv
<1>9. Inv(r, w, c, s, p)
  BY <1>2, <1>7, <1>8 DEF Inv, TypeInv
<1>. QED BY <1>6, <1>9 DEF s

\* No call of the API or of a tail starts below an open submit.
LEMMA NotInPump ==
    ASSUME NEW r, NEW w, NEW c, NEW k, NEW p, Inv(r, w, c, k, p),
           k = <<>> \/ Head(k) \notin {"submit", "wc_tail"}
    PROVE  ~Has("submit", k) /\ ~Has("wc_tail", k)
BY DEF Inv, FrameInv, TailInv, Has

\* A change of the read facet that starts no operation.
LEMMA ReadKeeps ==
    ASSUME NEW r, NEW w, NEW c, NEW k, NEW p, Inv(r, w, c, k, p),
           NEW q \in ReadFacet, NEW z \in ProviderState,
           q.arming = r.arming, q.recv_inflight => r.recv_inflight,
           r.read_closed => q.read_closed,
           q.recv_cancel_requested = r.recv_cancel_requested,
           z.recv => q.recv_inflight, z.send = p.send,
           z.recv_cancels = p.recv_cancels, z.send_cancels = p.send_cancels
    PROVE  Inv(q, w, c, k, z)
<1>1. TypeInv(q, w, c, k, z)
  BY DEF Inv, TypeInv
<1>2. OpInv(q, w, z) /\ CancelInv(q, w, z)
  BY DEF Inv, OpInv, CancelInv
<1>3. CloseInv(q, w, c)
  BY DEF Inv, CloseInv
<1>4. FrameInv(q, w, c, k)
  BY DEF Inv, FrameInv
<1>. QED BY <1>1, <1>2, <1>3, <1>4 DEF Inv

LEMMA ArmKeeps ==
    ASSUME NEW r, NEW w, NEW c, NEW k, NEW p, Inv(r, w, c, k, p),
           ~Has("submit", k), ~Has("wc_tail", k), StreamArm(r, k)
    PROVE  Inv(rd', w, c, stack', Armed(r, p))
<1>0. r \in ReadFacet /\ p \in ProviderState /\ k \in Seq(Frames)
  BY DEF Inv, TypeInv
<1>1. CASE r.arming
  <2>. DEFINE q == [r EXCEPT !.rearm_pending = TRUE]
  <2>1. rd' = q /\ stack' = k /\ Armed(r, p) = p
    BY <1>1 DEF StreamArm, Armed, ArmPosts
  <2>2. /\ q \in ReadFacet /\ q.arming = r.arming /\ q.recv_inflight = r.recv_inflight
        /\ q.read_closed = r.read_closed /\ q.recv_cancel_requested = r.recv_cancel_requested
    BY <1>0 DEF ReadFacet
  <2>. HIDE DEF q
  <2>3. p.recv => q.recv_inflight
    BY <2>2 DEF Inv, OpInv
  <2>4. Inv(q, w, c, k, p)
    BY <1>0, <2>2, <2>3, ReadKeeps
  <2>. QED BY <2>1, <2>4
<1>2. CASE ~r.arming /\ ArmBlocked(r)
  BY <1>2 DEF StreamArm, Armed, ArmPosts
<1>3. CASE ArmPosts(r)
  <2>. DEFINE q == [r EXCEPT !.recv_inflight = TRUE, !.recv_cancel_requested = FALSE,
                             !.completed_inline = FALSE, !.rearm_pending = FALSE,
                             !.arming = TRUE]
              z == [p EXCEPT !.started = TRUE, !.recv_cancels = 0]
              s == Push("read_arm", k)
  <2>1. rd' = q /\ stack' = s /\ Armed(r, p) = z
    BY <1>3 DEF StreamArm, Armed, ArmPosts
  <2>2. /\ q \in ReadFacet /\ q.arming /\ q.recv_inflight /\ ~q.recv_cancel_requested
        /\ q.read_closed = r.read_closed
    BY <1>0 DEF ReadFacet
  <2>3. /\ z \in ProviderState /\ z.recv = p.recv /\ z.send = p.send /\ z.recv_cancels = 0
        /\ z.send_cancels = p.send_cancels
    BY <1>0 DEF ProviderState
  <2>4. ~r.arming /\ ~r.read_closed /\ c.close_state = "OPEN"
    BY <1>3 DEF ArmPosts, ArmBlocked, Inv, CloseInv
  <2>5. "read_arm" \in Frames
    BY DEF Frames, Hooks
  <2>6. \A g : Has(g, s) <=> g = "read_arm" \/ Has(g, k)
    BY <1>0, <2>5, PushHas
  <2>7. ~Has("read_arm", k) /\ ~Has("cancel_recv", k) /\ ~Has("cancel_send", k)
    BY <2>4 DEF Inv, FrameInv
  <2>8. \A g \in {"read_arm", "submit", "on_writable", "cancel_recv", "cancel_send"} : Once(g, s)
    BY <1>0, <2>5, <2>7, PushOnce DEF Inv, FrameInv
  <2>9. DetachClean(s)
    BY <1>0, <2>5, PushClean DEF Inv
  <2>10. s \in Seq(Frames)
    BY <1>0, <2>5, PushShape
  <2>. HIDE DEF q, z, s
  <2>11. TypeInv(q, w, c, s, z)
    BY <2>2, <2>3, <2>10 DEF Inv, TypeInv
  <2>12. OpInv(q, w, z) /\ CancelInv(q, w, z)
    BY <2>2, <2>3 DEF Inv, OpInv, CancelInv, One
  <2>13. CloseInv(q, w, c)
    BY <2>2, <2>4 DEF Inv, CloseInv
  <2>14. TailInv(c, s)
    BY <2>6 DEF TailInv
  <2>15. FrameInv(q, w, c, s)
    BY <2>2, <2>4, <2>6, <2>7, <2>8 DEF Inv, FrameInv, One
  <2>. QED BY <2>1, <2>9, <2>11, <2>12, <2>13, <2>14, <2>15 DEF Inv
<1>. QED BY <1>1, <1>2, <1>3 DEF ArmPosts
Singles == {"read_arm", "submit", "on_writable", "cancel_recv", "cancel_send"}

LEMMA PushFacts ==
    ASSUME NEW r, NEW w, NEW c, NEW k, NEW p, Inv(r, w, c, k, p),
           NEW f \in Frames \ {"on_close"}, f \in Singles => ~Has(f, k)
    PROVE  /\ Push(f, k) \in Seq(Frames) /\ Push(f, k) # <<>>
           /\ Head(Push(f, k)) = f /\ Tail(Push(f, k)) = k
           /\ \A g : Has(g, Push(f, k)) <=> g = f \/ Has(g, k)
           /\ \A g \in Singles : Once(g, Push(f, k))
           /\ DetachClean(Push(f, k))
<1>1. k \in Seq(Frames)
  BY DEF Inv, TypeInv
<1>2. \A g : Has(g, Push(f, k)) <=> g = f \/ Has(g, k)
  BY <1>1, PushHas
<1>3. \A g \in Singles : Once(g, Push(f, k))
  BY <1>1, PushOnce DEF Inv, FrameInv, Singles
<1>4. DetachClean(Push(f, k))
  BY <1>1, PushClean DEF Inv
<1>. QED BY <1>1, <1>2, <1>3, <1>4, PushShape

LEMMA PopFacts ==
    ASSUME NEW r, NEW w, NEW c, NEW k, NEW p, Inv(r, w, c, k, p), k # <<>>
    PROVE  /\ Tail(k) \in Seq(Frames)
           /\ \A g : Has(g, k) <=> g = Head(k) \/ Has(g, Tail(k))
           /\ \A g \in Singles : Once(g, Tail(k)) /\ (Head(k) = g => ~Has(g, Tail(k)))
           /\ DetachClean(Tail(k))
<1>1. k \in Seq(Frames)
  BY DEF Inv, TypeInv
<1>. QED BY <1>1, PopShape DEF Inv, FrameInv, Singles

LEMMA WriteKeeps ==
    ASSUME NEW r, NEW w, NEW c, NEW k, NEW p, Inv(r, w, c, k, p),
           NEW v \in WriteFacet, NEW z \in ProviderState,
           v.buffered <= Cap, v.submitting = w.submitting,
           v.send_inflight => w.send_inflight, v.submitting => v.send_inflight,
           v.send_cancel_requested = w.send_cancel_requested,
           z.send => v.send_inflight /\ ~v.submitting, z.recv = p.recv,
           z.recv_cancels = p.recv_cancels, z.send_cancels = p.send_cancels
    PROVE  Inv(r, v, c, k, z)
<1>1. TypeInv(r, v, c, k, z)
  BY DEF Inv, TypeInv
<1>2. OpInv(r, v, z) /\ CancelInv(r, v, z)
  BY DEF Inv, OpInv, CancelInv
<1>3. CloseInv(r, v, c)
  BY DEF Inv, CloseInv
<1>4. FrameInv(r, v, c, k)
  BY DEF Inv, FrameInv
<1>. QED BY <1>1, <1>2, <1>3, <1>4 DEF Inv

LEMMA PumpKeeps ==
    ASSUME NEW r, NEW w, NEW c, NEW k, NEW p, Inv(r, w, c, k, p),
           ~Has("submit", k), c.close_state # "CLOSED", Pump(w, c, k)
    PROVE  Inv(r, wr', c, stack', Submitted(w, c, p))
<1>0. w \in WriteFacet /\ p \in ProviderState /\ k \in Seq(Frames)
  BY DEF Inv, TypeInv
<1>1. CASE ~PumpSubmits(w, c)
  BY <1>1 DEF Pump, Submitted
<1>2. CASE PumpSubmits(w, c)
  <2>. DEFINE v == [w EXCEPT !.send_inflight = TRUE, !.send_cancel_requested = FALSE,
                             !.inflight_len = w.buffered,
                             !.inflight_copying = w.submit_copying,
                             !.inline_done = FALSE, !.submitting = TRUE]
              z == [p EXCEPT !.send_cancels = 0]
              s == Push("submit", k)
  <2>1. wr' = v /\ stack' = s /\ Submitted(w, c, p) = z
    BY <1>2 DEF Pump, Submitted
  <2>2. /\ v \in WriteFacet /\ v.send_inflight /\ v.submitting /\ ~v.send_cancel_requested
        /\ v.buffered = w.buffered
    BY <1>0 DEF WriteFacet
  <2>3. /\ z \in ProviderState /\ z.recv = p.recv /\ z.send = p.send
        /\ z.recv_cancels = p.recv_cancels /\ z.send_cancels = 0
    BY <1>0 DEF ProviderState
  <2>4. ~w.send_inflight /\ ~c.close_abort
    BY <1>2 DEF PumpSubmits
  <2>5. ~p.send /\ ~Has("cancel_recv", k) /\ ~Has("cancel_send", k)
    BY <2>4 DEF Inv, OpInv, FrameInv
  <2>6. /\ s \in Seq(Frames) /\ s # <<>> /\ Head(s) = "submit" /\ Tail(s) = k
        /\ \A g : Has(g, s) <=> g = "submit" \/ Has(g, k)
        /\ \A g \in Singles : Once(g, s)
        /\ DetachClean(s)
    BY PushFacts DEF Frames, Hooks
  <2>. HIDE DEF v, z, s
  <2>7. TypeInv(r, v, c, s, z)
    BY <2>2, <2>3, <2>6 DEF Inv, TypeInv
  <2>8. OpInv(r, v, z) /\ CancelInv(r, v, z)
    BY <2>2, <2>3, <2>5 DEF Inv, OpInv, CancelInv, One
  <2>9. CloseInv(r, v, c)
    BY <2>2 DEF Inv, CloseInv
  <2>10. TailInv(c, s)
    <3>. SUFFICES ASSUME Has("wc_tail", k) PROVE TailInv(c, s)
      BY <2>6 DEF TailInv
    <3>1. Head(k) = "wc_tail" /\ ~Has("wc_tail", Tail(k))
          /\ (Tail(k) = <<>> \/ c.close_state # "OPEN")
      <4>1. Head(k) # "submit"
        BY <1>0, PopShape DEF Has
      <4>. QED BY <4>1 DEF Inv, TailInv
    <3>2. k # <<>>
      BY DEF Has
    <3>. QED BY <2>6, <3>1, <3>2 DEF TailInv
  <2>11. FrameInv(r, v, c, s)
    BY <2>2, <2>5, <2>6 DEF Inv, FrameInv, Singles, One
  <2>. QED BY <2>1, <2>6, <2>7, <2>8, <2>9, <2>10, <2>11 DEF Inv
<1>. QED BY <1>1, <1>2

\* on_writable is entered and left.
LEMMA WritablePush ==
    ASSUME NEW r, NEW w, NEW c, NEW k, NEW p, Inv(r, w, c, k, p),
           ~Has("submit", k), ~Has("wc_tail", k), ~Has("on_writable", k)
    PROVE  Inv(r, w, [c EXCEPT !.in_writable = @ + 1], Push("on_writable", k), p)
<1>. DEFINE d == [c EXCEPT !.in_writable = @ + 1]
            s == Push("on_writable", k)
<1>0. c \in CloseFacet /\ c.in_writable = 0
  BY DEF Inv, TypeInv, FrameInv, One
<1>1. /\ d \in CloseFacet /\ d.in_writable = 1 /\ d.close_state = c.close_state
      /\ d.close_notified = c.close_notified /\ d.close_abort = c.close_abort
      /\ d.in_close_cancel = c.in_close_cancel
  BY <1>0 DEF CloseFacet
<1>2. /\ s \in Seq(Frames) /\ \A g : Has(g, s) <=> g = "on_writable" \/ Has(g, k)
      /\ \A g \in Singles : Once(g, s)
      /\ DetachClean(s)
  BY PushFacts DEF Frames, Hooks
<1>. HIDE DEF d, s
<1>3. TypeInv(r, w, d, s, p)
  BY <1>1, <1>2 DEF Inv, TypeInv
<1>4. CloseInv(r, w, d)
  BY <1>1 DEF Inv, CloseInv
<1>5. TailInv(d, s)
  BY <1>2 DEF TailInv
<1>6. FrameInv(r, w, d, s)
  BY <1>1, <1>2 DEF Inv, FrameInv, Singles, One
<1>7. Inv(r, w, d, s, p)
  BY <1>2, <1>3, <1>4, <1>5, <1>6 DEF Inv
<1>. QED BY <1>7 DEF d, s

LEMMA WritablePop ==
    ASSUME NEW r, NEW w, NEW c, NEW k, NEW p, Inv(r, w, c, k, p),
           k # <<>>, Head(k) = "on_writable"
    PROVE  /\ Inv(r, w, [c EXCEPT !.in_writable = @ - 1], Tail(k), p)
           /\ ~Has("submit", Tail(k)) /\ ~Has("wc_tail", Tail(k))
<1>. DEFINE d == [c EXCEPT !.in_writable = @ - 1]
            s == Tail(k)
<1>2. /\ s \in Seq(Frames) /\ \A g : Has(g, k) <=> g = "on_writable" \/ Has(g, s)
      /\ \A g \in Singles : Once(g, s)
      /\ ~Has("on_writable", s)
      /\ DetachClean(s)
  BY PopFacts DEF Singles
<1>. HIDE DEF s
<1>0. c \in CloseFacet /\ c.in_writable = 1
  BY <1>2 DEF Inv, TypeInv, FrameInv, One
<1>1. /\ d \in CloseFacet /\ d.in_writable = 0 /\ d.close_state = c.close_state
      /\ d.close_notified = c.close_notified /\ d.close_abort = c.close_abort
      /\ d.in_close_cancel = c.in_close_cancel
  BY <1>0 DEF CloseFacet
<1>. HIDE DEF d
<1>8. ~Has("submit", s) /\ ~Has("wc_tail", s)
  BY <1>2, NotInPump
<1>3. TypeInv(r, w, d, s, p)
  BY <1>1, <1>2 DEF Inv, TypeInv
<1>4. CloseInv(r, w, d)
  BY <1>1 DEF Inv, CloseInv
<1>5. TailInv(d, s)
  BY <1>8 DEF TailInv
<1>6. FrameInv(r, w, d, s)
  BY <1>1, <1>2, <1>8 DEF Inv, FrameInv, Singles, One
<1>7. Inv(r, w, d, s, p)
  BY <1>2, <1>3, <1>4, <1>5, <1>6 DEF Inv
<1>. QED BY <1>7, <1>8 DEF d, s

\* on_write_complete stacks its tail, and runs it.
LEMMA WcPush ==
    ASSUME NEW r, NEW w, NEW c, NEW k, NEW p, Inv(r, w, c, k, p),
           ~Has("submit", k), ~Has("wc_tail", k), k = <<>> \/ c.close_state # "OPEN"
    PROVE  /\ Inv(r, w, c, Push("wc_tail", k), p)
           /\ ~Has("submit", Push("wc_tail", k))
<1>. DEFINE s == Push("wc_tail", k)
<1>2. /\ s \in Seq(Frames) /\ \A g : Has(g, s) <=> g = "wc_tail" \/ Has(g, k)
      /\ \A g \in Singles : Once(g, s)
      /\ Head(s) = "wc_tail" /\ Tail(s) = k
      /\ DetachClean(s)
  BY PushFacts DEF Frames, Hooks, Tails, Singles
<1>. HIDE DEF s
<1>5. TailInv(c, s)
  BY <1>2 DEF TailInv
<1>6. FrameInv(r, w, c, s)
  BY <1>2 DEF Inv, FrameInv, Singles, One
<1>7. Inv(r, w, c, s, p)
  BY <1>2, <1>5, <1>6 DEF Inv, TypeInv
<1>. QED BY <1>2, <1>7 DEF s

LEMMA WcPop ==
    ASSUME NEW r, NEW w, NEW c, NEW k, NEW p, Inv(r, w, c, k, p),
           k # <<>>, Head(k) = "wc_tail"
    PROVE  /\ Inv(r, w, c, Tail(k), p)
           /\ ~Has("submit", Tail(k)) /\ ~Has("wc_tail", Tail(k))
           /\ c.close_state = "OPEN" => Tail(k) = <<>>
<1>. DEFINE s == Tail(k)
<1>2. /\ s \in Seq(Frames) /\ \A g : Has(g, k) <=> g = "wc_tail" \/ Has(g, s)
      /\ \A g \in Singles : Once(g, s)
      /\ DetachClean(s)
  BY PopFacts
<1>1. ~Has("wc_tail", s) /\ (s = <<>> \/ c.close_state # "OPEN")
  BY <1>2 DEF Inv, TailInv
<1>. HIDE DEF s
<1>3. ~Has("submit", s)
  BY <1>2 DEF Inv, FrameInv
<1>5. TailInv(c, s)
  BY <1>1 DEF TailInv
<1>6. FrameInv(r, w, c, s)
  BY <1>2, <1>3 DEF Inv, FrameInv, Singles, One
<1>7. Inv(r, w, c, s, p)
  BY <1>2, <1>5, <1>6 DEF Inv, TypeInv
<1>. QED BY <1>1, <1>3, <1>7 DEF s

\* read_arm and submit_fn return.
LEMMA ArmPop ==
    ASSUME NEW r, NEW w, NEW c, NEW k, NEW p, Inv(r, w, c, k, p),
           k # <<>>, Head(k) = "read_arm"
    PROVE  /\ Inv([r EXCEPT !.arming = FALSE], w, c, Tail(k), p)
           /\ ~Has("submit", Tail(k)) /\ ~Has("wc_tail", Tail(k))
<1>. DEFINE q == [r EXCEPT !.arming = FALSE]
            s == Tail(k)
<1>2. /\ s \in Seq(Frames) /\ \A g : Has(g, k) <=> g = "read_arm" \/ Has(g, s)
      /\ \A g \in Singles : Once(g, s)
      /\ ~Has("read_arm", s)
      /\ DetachClean(s)
  BY PopFacts DEF Singles
<1>1. /\ q \in ReadFacet /\ ~q.arming /\ q.recv_inflight = r.recv_inflight
      /\ q.read_closed = r.read_closed /\ q.recv_cancel_requested = r.recv_cancel_requested
  BY DEF Inv, TypeInv, ReadFacet
<1>. HIDE DEF s, q
<1>8. ~Has("submit", s) /\ ~Has("wc_tail", s)
  BY <1>2, NotInPump
<1>3. TypeInv(q, w, c, s, p)
  BY <1>1, <1>2 DEF Inv, TypeInv
<1>4. CloseInv(q, w, c) /\ OpInv(q, w, p) /\ CancelInv(q, w, p)
  BY <1>1 DEF Inv, CloseInv, OpInv, CancelInv
<1>5. TailInv(c, s)
  BY <1>8 DEF TailInv
<1>6. FrameInv(q, w, c, s)
  BY <1>1, <1>2, <1>8 DEF Inv, FrameInv, Singles, One
<1>7. Inv(q, w, c, s, p)
  BY <1>2, <1>3, <1>4, <1>5, <1>6 DEF Inv
<1>. QED BY <1>7, <1>8 DEF q, s

LEMMA SubmitPop ==
    ASSUME NEW r, NEW w, NEW c, NEW k, NEW p, Inv(r, w, c, k, p),
           k # <<>>, Head(k) = "submit"
    PROVE  /\ Inv(r, [w EXCEPT !.submitting = FALSE], c, Tail(k), p)
           /\ ~Has("submit", Tail(k))
           /\ w.send_inflight /\ ~p.send
<1>. DEFINE v == [w EXCEPT !.submitting = FALSE]
            s == Tail(k)
<1>2. /\ s \in Seq(Frames) /\ \A g : Has(g, k) <=> g = "submit" \/ Has(g, s)
      /\ \A g \in Singles : Once(g, s)
      /\ ~Has("submit", s)
      /\ DetachClean(s)
  BY PopFacts DEF Singles
<1>5. TailInv(c, s)
  <2>. SUFFICES ASSUME Has("wc_tail", s) PROVE TailInv(c, s)
    BY DEF TailInv
  <2>. QED BY <1>2 DEF Inv, TailInv
<1>1. /\ v \in WriteFacet /\ ~v.submitting /\ v.send_inflight = w.send_inflight
      /\ v.buffered = w.buffered /\ v.send_cancel_requested = w.send_cancel_requested
  BY DEF Inv, TypeInv, WriteFacet
<1>. HIDE DEF s, v
<1>8. w.submitting /\ w.send_inflight /\ ~p.send
  BY <1>2 DEF Inv, FrameInv, OpInv
<1>3. TypeInv(r, v, c, s, p)
  BY <1>1, <1>2 DEF Inv, TypeInv
<1>4. CloseInv(r, v, c) /\ OpInv(r, v, p) /\ CancelInv(r, v, p)
  BY <1>1, <1>8 DEF Inv, CloseInv, OpInv, CancelInv
<1>6. FrameInv(r, v, c, s)
  BY <1>1, <1>2 DEF Inv, FrameInv, Singles, One
<1>7. Inv(r, v, c, s, p)
  BY <1>2, <1>3, <1>4, <1>5, <1>6 DEF Inv
<1>. QED BY <1>2, <1>7, <1>8 DEF v, s

\* The depth counter of the cancel window.
LEMMA DepthUp ==
    ASSUME NEW c \in CloseFacet
    PROVE  LET d == [c EXCEPT !.in_close_cancel = @ + 1] IN
           /\ d \in CloseFacet /\ d.in_writable = c.in_writable /\ d.close_state = c.close_state
           /\ d.close_notified = c.close_notified /\ d.close_abort = c.close_abort
           /\ d.in_close_cancel = c.in_close_cancel + 1
<1>. DEFINE d == [c EXCEPT !.in_close_cancel = @ + 1]
<1>1. d \in CloseFacet
  BY DEF CloseFacet
<1>2. d.in_writable = c.in_writable /\ d.close_state = c.close_state
  BY DEF CloseFacet
<1>3. d.close_notified = c.close_notified /\ d.close_abort = c.close_abort
  BY DEF CloseFacet
<1>4. d.in_close_cancel = c.in_close_cancel + 1
  BY DEF CloseFacet
<1>. QED BY <1>1, <1>2, <1>3, <1>4

LEMMA DepthDown ==
    ASSUME NEW c \in CloseFacet, c.in_close_cancel \in {1, 2}
    PROVE  LET d == [c EXCEPT !.in_close_cancel = @ - 1] IN
           /\ d \in CloseFacet /\ d.in_writable = c.in_writable /\ d.close_state = c.close_state
           /\ d.close_notified = c.close_notified /\ d.close_abort = c.close_abort
           /\ d.in_close_cancel = c.in_close_cancel - 1
<1>. DEFINE d == [c EXCEPT !.in_close_cancel = @ - 1]
<1>1. d \in CloseFacet
  BY DEF CloseFacet
<1>2. d.in_writable = c.in_writable /\ d.close_state = c.close_state
  BY DEF CloseFacet
<1>3. d.close_notified = c.close_notified /\ d.close_abort = c.close_abort
  BY DEF CloseFacet
<1>4. d.in_close_cancel = c.in_close_cancel - 1
  BY DEF CloseFacet
<1>. QED BY <1>1, <1>2, <1>3, <1>4

\* The cancel window is entered for the receive, and for the send.
LEMMA CancelRecvPush ==
    ASSUME NEW r, NEW w, NEW c, NEW k, NEW p, Inv(r, w, c, k, p),
           ~Has("submit", k), ~Has("wc_tail", k), c.close_abort, c.close_state # "OPEN",
           r.recv_inflight, ~r.recv_cancel_requested
    PROVE  Inv([r EXCEPT !.recv_cancel_requested = TRUE], w,
               [c EXCEPT !.in_close_cancel = @ + 1], Push("cancel_recv", k),
               [p EXCEPT !.recv_cancels = @ + 1])
<1>. DEFINE q == [r EXCEPT !.recv_cancel_requested = TRUE]
            d == [c EXCEPT !.in_close_cancel = @ + 1]
            z == [p EXCEPT !.recv_cancels = @ + 1]
            s == Push("cancel_recv", k)
<1>1. /\ q \in ReadFacet /\ q.arming = r.arming /\ q.recv_inflight = r.recv_inflight
      /\ q.read_closed = r.read_closed /\ q.recv_cancel_requested
  BY DEF Inv, TypeInv, ReadFacet
<1>0. c \in CloseFacet /\ c.in_close_cancel \in {0, 1, 2}
  BY DEF Inv, TypeInv, FrameInv, One
<1>2. /\ d \in CloseFacet /\ d.in_writable = c.in_writable /\ d.close_state = c.close_state
      /\ d.close_notified = c.close_notified /\ d.close_abort = c.close_abort
      /\ d.in_close_cancel = c.in_close_cancel + 1
  BY <1>0, DepthUp
<1>3. /\ z \in ProviderState /\ z.recv = p.recv /\ z.send = p.send
      /\ z.recv_cancels = p.recv_cancels + 1 /\ z.send_cancels = p.send_cancels
  BY DEF Inv, TypeInv, ProviderState
<1>4. ~Has("cancel_recv", k)
  BY DEF Inv, FrameInv
<1>5. /\ s \in Seq(Frames) /\ \A g : Has(g, s) <=> g = "cancel_recv" \/ Has(g, k)
      /\ \A g \in Singles : Once(g, s)
      /\ DetachClean(s)
  BY <1>4, PushFacts DEF Frames, Hooks
<1>. HIDE DEF q, d, z, s
<1>6. TypeInv(q, w, d, s, z)
  BY <1>1, <1>2, <1>3, <1>5 DEF Inv, TypeInv
<1>7. OpInv(q, w, z) /\ CancelInv(q, w, z) /\ CloseInv(q, w, d)
  BY <1>1, <1>2, <1>3 DEF Inv, OpInv, CancelInv, CloseInv, One
<1>8. TailInv(d, s)
  BY <1>5 DEF TailInv
<1>9. FrameInv(q, w, d, s)
  <2>1. FrameInv(r, w, c, k)
    BY DEF Inv
  <2>2. d.in_close_cancel = One(Has("cancel_recv", s)) + One(Has("cancel_send", s))
    <3>1. c.in_close_cancel = One(Has("cancel_send", k))
      BY <2>1, <1>4 DEF FrameInv, One
    <3>2. Has("cancel_recv", s) /\ (Has("cancel_send", s) <=> Has("cancel_send", k))
      BY <1>5
    <3>. QED BY <1>2, <3>1, <3>2 DEF One
  <2>3. /\ \A g \in Singles : Once(g, s)
        /\ \A g \in {"submit", "read_arm", "on_writable", "on_close"} : Has(g, s) <=> Has(g, k)
        /\ ~Has("submit", s)
    BY <1>5
  <2>4. /\ w.submitting <=> Has("submit", s)
        /\ q.arming <=> Has("read_arm", s)
        /\ Has("on_close", s) => d.close_notified
    BY <1>1, <1>2, <2>1, <2>3 DEF FrameInv
  <2>5. d.in_writable = One(Has("on_writable", s))
    BY <1>2, <2>1, <2>3 DEF FrameInv, One
  <2>6. d.close_abort /\ d.close_state # "OPEN"
    BY <1>2
  <2>7. /\ Has("cancel_recv", s) => q.recv_cancel_requested \/ ~q.recv_inflight
        /\ Has("cancel_send", s) => w.send_cancel_requested \/ ~w.send_inflight
    BY <1>1, <1>5, <2>1 DEF FrameInv
  <2>. QED BY <2>2, <2>3, <2>4, <2>5, <2>6, <2>7 DEF FrameInv, Singles
<1>10. Inv(q, w, d, s, z)
  BY <1>5, <1>6, <1>7, <1>8, <1>9 DEF Inv
<1>. QED BY <1>10 DEF q, d, z, s

LEMMA CancelSendPush ==
    ASSUME NEW r, NEW w, NEW c, NEW k, NEW p, Inv(r, w, c, k, p),
           ~Has("submit", k), ~Has("wc_tail", k), c.close_abort, c.close_state # "OPEN",
           w.send_inflight, ~w.send_cancel_requested
    PROVE  Inv(r, [w EXCEPT !.send_cancel_requested = TRUE],
               [c EXCEPT !.in_close_cancel = @ + 1], Push("cancel_send", k),
               [p EXCEPT !.send_cancels = @ + 1])
<1>. DEFINE v == [w EXCEPT !.send_cancel_requested = TRUE]
            d == [c EXCEPT !.in_close_cancel = @ + 1]
            z == [p EXCEPT !.send_cancels = @ + 1]
            s == Push("cancel_send", k)
<1>1. /\ v \in WriteFacet /\ v.submitting = w.submitting /\ v.send_inflight = w.send_inflight
      /\ v.buffered = w.buffered /\ v.send_cancel_requested
  BY DEF Inv, TypeInv, WriteFacet
<1>0. c \in CloseFacet /\ c.in_close_cancel \in {0, 1, 2}
  BY DEF Inv, TypeInv, FrameInv, One
<1>2. /\ d \in CloseFacet /\ d.in_writable = c.in_writable /\ d.close_state = c.close_state
      /\ d.close_notified = c.close_notified /\ d.close_abort = c.close_abort
      /\ d.in_close_cancel = c.in_close_cancel + 1
  BY <1>0, DepthUp
<1>3. /\ z \in ProviderState /\ z.recv = p.recv /\ z.send = p.send
      /\ z.recv_cancels = p.recv_cancels /\ z.send_cancels = p.send_cancels + 1
  BY DEF Inv, TypeInv, ProviderState
<1>4. ~Has("cancel_send", k)
  BY DEF Inv, FrameInv
<1>5. /\ s \in Seq(Frames) /\ \A g : Has(g, s) <=> g = "cancel_send" \/ Has(g, k)
      /\ \A g \in Singles : Once(g, s)
      /\ DetachClean(s)
  BY <1>4, PushFacts DEF Frames, Hooks
<1>. HIDE DEF v, d, z, s
<1>6. TypeInv(r, v, d, s, z)
  BY <1>1, <1>2, <1>3, <1>5 DEF Inv, TypeInv
<1>7. OpInv(r, v, z) /\ CancelInv(r, v, z) /\ CloseInv(r, v, d)
  BY <1>1, <1>2, <1>3 DEF Inv, OpInv, CancelInv, CloseInv, One
<1>8. TailInv(d, s)
  BY <1>5 DEF TailInv
<1>9. FrameInv(r, v, d, s)
  <2>1. FrameInv(r, w, c, k)
    BY DEF Inv
  <2>2. d.in_close_cancel = One(Has("cancel_recv", s)) + One(Has("cancel_send", s))
    <3>1. c.in_close_cancel = One(Has("cancel_recv", k))
      BY <2>1, <1>4 DEF FrameInv, One
    <3>2. Has("cancel_send", s) /\ (Has("cancel_recv", s) <=> Has("cancel_recv", k))
      BY <1>5
    <3>. QED BY <1>2, <3>1, <3>2 DEF One
  <2>3. /\ \A g \in Singles : Once(g, s)
        /\ \A g \in {"submit", "read_arm", "on_writable", "on_close"} : Has(g, s) <=> Has(g, k)
        /\ ~Has("submit", s)
    BY <1>5
  <2>4. /\ v.submitting <=> Has("submit", s)
        /\ r.arming <=> Has("read_arm", s)
        /\ Has("on_close", s) => d.close_notified
    BY <1>1, <1>2, <2>1, <2>3 DEF FrameInv
  <2>5. d.in_writable = One(Has("on_writable", s))
    BY <1>2, <2>1, <2>3 DEF FrameInv, One
  <2>6. d.close_abort /\ d.close_state # "OPEN"
    BY <1>2
  <2>7. /\ Has("cancel_recv", s) => r.recv_cancel_requested \/ ~r.recv_inflight
        /\ Has("cancel_send", s) => v.send_cancel_requested \/ ~v.send_inflight
    BY <1>1, <1>5, <2>1 DEF FrameInv
  <2>. QED BY <2>2, <2>3, <2>4, <2>5, <2>6, <2>7 DEF FrameInv, Singles
<1>10. Inv(r, v, d, s, z)
  BY <1>5, <1>6, <1>7, <1>8, <1>9 DEF Inv
<1>. QED BY <1>10 DEF v, d, z, s

\* A cancel hook returns; the window of its frame closes.
LEMMA CancelPop ==
    ASSUME NEW r, NEW w, NEW c, NEW k, NEW p, Inv(r, w, c, k, p),
           k # <<>>, Head(k) \in {"cancel_recv", "cancel_send"}
    PROVE  /\ Inv(r, w, [c EXCEPT !.in_close_cancel = @ - 1], Tail(k), p)
           /\ ~Has("submit", Tail(k)) /\ ~Has("wc_tail", Tail(k))
           /\ c.close_abort /\ c.close_state # "OPEN" /\ c.in_close_cancel \in {1, 2}
<1>. DEFINE d == [c EXCEPT !.in_close_cancel = @ - 1]
            s == Tail(k)
<1>2. /\ s \in Seq(Frames) /\ \A g : Has(g, k) <=> g = Head(k) \/ Has(g, s)
      /\ \A g \in Singles : Once(g, s)
      /\ ~Has(Head(k), s)
      /\ DetachClean(s)
  BY PopFacts DEF Singles
<1>. HIDE DEF s
<1>0. c \in CloseFacet /\ c.in_close_cancel \in {1, 2} /\ c.close_abort /\ c.close_state # "OPEN"
  BY <1>2 DEF Inv, TypeInv, FrameInv, One
<1>1. /\ d \in CloseFacet /\ d.in_writable = c.in_writable /\ d.close_state = c.close_state
      /\ d.close_notified = c.close_notified /\ d.close_abort = c.close_abort
      /\ d.in_close_cancel = c.in_close_cancel - 1
  BY <1>0, DepthDown
<1>. HIDE DEF d
<1>8. ~Has("submit", s) /\ ~Has("wc_tail", s)
  BY <1>2, NotInPump
<1>3. TypeInv(r, w, d, s, p)
  BY <1>1, <1>2 DEF Inv, TypeInv
<1>4. CloseInv(r, w, d)
  BY <1>1 DEF Inv, CloseInv
<1>5. TailInv(d, s)
  BY <1>8 DEF TailInv
<1>6. FrameInv(r, w, d, s)
  <2>1. FrameInv(r, w, c, k)
    BY DEF Inv
  <2>2. \A g \in {"submit", "read_arm", "on_writable", "on_close"} : Has(g, s) <=> Has(g, k)
    BY <1>2
  <2>3. d.in_close_cancel = One(Has("cancel_recv", s)) + One(Has("cancel_send", s))
    <3>1. CASE Head(k) = "cancel_recv"
      BY <3>1, <1>0, <1>1, <1>2, <2>1 DEF FrameInv, One
    <3>2. CASE Head(k) = "cancel_send"
      BY <3>2, <1>0, <1>1, <1>2, <2>1 DEF FrameInv, One
    <3>. QED BY <3>1, <3>2
  <2>4. /\ w.submitting <=> Has("submit", s)
        /\ r.arming <=> Has("read_arm", s)
        /\ Has("on_close", s) => d.close_notified
    BY <1>1, <2>1, <2>2 DEF FrameInv
  <2>5. d.in_writable = One(Has("on_writable", s))
    BY <1>1, <2>1, <2>2 DEF FrameInv, One
  <2>6. d.close_abort /\ d.close_state # "OPEN"
    BY <1>0, <1>1
  <2>7. /\ Has("cancel_recv", s) => r.recv_cancel_requested \/ ~r.recv_inflight
        /\ Has("cancel_send", s) => w.send_cancel_requested \/ ~w.send_inflight
    BY <1>2, <2>1 DEF FrameInv
  <2>. QED BY <1>2, <1>8, <2>3, <2>4, <2>5, <2>6, <2>7 DEF FrameInv, Singles
<1>7. Inv(r, w, d, s, p)
  BY <1>2, <1>3, <1>4, <1>5, <1>6 DEF Inv
<1>. QED BY <1>0, <1>7, <1>8 DEF d, s

LEMMA DepthUpDown ==
    ASSUME NEW c \in CloseFacet, NEW n, n = [c EXCEPT !.in_close_cancel = @ + 1]
    PROVE  [n EXCEPT !.in_close_cancel = @ - 1] = c
<1>1. n.in_close_cancel - 1 = c.in_close_cancel
  BY DEF CloseFacet
<1>. QED BY <1>1 DEF CloseFacet

LEMMA DepthDownUp ==
    ASSUME NEW n \in CloseFacet, n.in_close_cancel \in {1, 2},
           NEW c, c = [n EXCEPT !.in_close_cancel = @ - 1]
    PROVE  [c EXCEPT !.in_close_cancel = @ + 1] = n
<1>1. c.in_close_cancel + 1 = n.in_close_cancel
  BY DEF CloseFacet
<1>. QED BY <1>1 DEF CloseFacet

LEMMA CancelSendKeeps ==
    ASSUME NEW r, NEW w, NEW c, NEW k, NEW p, Inv(r, w, c, k, p),
           ~Has("submit", k), ~Has("wc_tail", k), c.close_abort, c.close_state # "OPEN",
           NEW n, n = [c EXCEPT !.in_close_cancel = @ + 1], CancelSend(r, w, n, k)
    PROVE  Inv(r, wr', cl', stack',
               [p EXCEPT !.send_cancels = @ + (IF stack' = Push("cancel_send", k) THEN 1 ELSE 0)])
<1>0. c \in CloseFacet /\ p \in ProviderState /\ k \in Seq(Frames)
  BY DEF Inv, TypeInv
<1>1. CASE w.send_inflight /\ n.cancel_hooks /\ ~w.send_cancel_requested
  <2>1. /\ wr' = [w EXCEPT !.send_cancel_requested = TRUE] /\ cl' = n
        /\ stack' = Push("cancel_send", k)
    BY <1>1 DEF CancelSend
  <2>2. Inv(r, wr', cl', stack', [p EXCEPT !.send_cancels = @ + 1])
    BY <1>1, <2>1, CancelSendPush
  <2>. QED BY <2>1, <2>2
<1>2. CASE ~(w.send_inflight /\ n.cancel_hooks /\ ~w.send_cancel_requested)
  <2>1. wr' = w /\ Finalize(r, w, [n EXCEPT !.in_close_cancel = @ - 1], k)
    BY <1>2 DEF CancelSend
  <2>2. [n EXCEPT !.in_close_cancel = @ - 1] = c
    BY <1>0, DepthUpDown
  <2>3. Inv(r, wr', cl', stack', p)
    BY <2>1, <2>2, FinalizeKeeps
  <2>4. stack' # Push("cancel_send", k)
    <3>1. stack' = k \/ stack' = Push("on_close", k)
      BY <2>1 DEF Finalize
    <3>0. "cancel_send" \in Frames /\ "on_close" \in Frames
      BY DEF Frames, Hooks
    <3>2. Len(Push("cancel_send", k)) = Len(k) + 1 /\ Len(k) \in Nat
          /\ Head(Push("cancel_send", k)) = "cancel_send"
          /\ Head(Push("on_close", k)) = "on_close"
      BY <1>0, <3>0, PushShape
    <3>3. k # Push("cancel_send", k)
      BY <3>2
    <3>4. Push("on_close", k) # Push("cancel_send", k)
      BY <3>2
    <3>. QED BY <3>1, <3>3, <3>4
  <2>5. [p EXCEPT !.send_cancels = @ + 0] = p
    BY <1>0 DEF ProviderState
  <2>. QED BY <2>3, <2>4, <2>5
<1>. QED BY <1>1, <1>2

LEMMA ReadCloseFacts ==
    ASSUME NEW r \in ReadFacet
    PROVE  /\ ReadCloseOf(r) \in ReadFacet /\ ReadCloseOf(r).read_closed
           /\ ReadCloseOf(r).arming = r.arming
           /\ ReadCloseOf(r).recv_cancel_requested = r.recv_cancel_requested
           /\ ReadCloseOf(r).recv_inflight => r.recv_inflight
BY DEF ReadCloseOf, ReadFacet

LEMMA DisarmFacts ==
    ASSUME NEW r \in ReadFacet, NEW p \in ProviderState
    PROVE  /\ Disarmed(r, p) \in ProviderState
           /\ Disarmed(r, p).recv <=> p.recv /\ r.recv_inflight
           /\ Disarmed(r, p).send = p.send
           /\ Disarmed(r, p).recv_cancels = p.recv_cancels
           /\ Disarmed(r, p).send_cancels = p.send_cancels
BY DEF Disarmed, ReadFacet, ProviderState

\* The first half of stream_close_common.
LEMMA ClosingKeeps ==
    ASSUME NEW r, NEW w, NEW c, NEW k, NEW p, Inv(r, w, c, k, p), c.close_state # "CLOSED",
           NEW q, q = (IF c.close_state # "OPEN" THEN r ELSE ReadCloseOf(r)),
           NEW abort \in BOOLEAN,
           NEW d, d = [c EXCEPT !.close_abort = @ \/ abort, !.close_state = "CLOSING"]
    PROVE  Inv(q, w, d, k, Disarmed(q, p))
<1>0. r \in ReadFacet /\ c \in CloseFacet /\ p \in ProviderState
  BY DEF Inv, TypeInv
<1>1. /\ q \in ReadFacet /\ q.read_closed /\ q.arming = r.arming
      /\ q.recv_cancel_requested = r.recv_cancel_requested
      /\ q.recv_inflight => r.recv_inflight
  BY <1>0, ReadCloseFacts DEF Inv, CloseInv
<1>2. /\ d \in CloseFacet /\ d.close_state = "CLOSING" /\ (c.close_abort => d.close_abort)
      /\ d.close_notified = c.close_notified /\ d.in_writable = c.in_writable
      /\ d.in_close_cancel = c.in_close_cancel
  BY <1>0 DEF CloseFacet
<1>3. Inv(q, w, c, k, Disarmed(q, p))
  BY <1>0, <1>1, DisarmFacts, ReadKeeps
<1>4. TypeInv(q, w, d, k, Disarmed(q, p))
  BY <1>2, <1>3 DEF Inv, TypeInv
<1>5. CloseInv(q, w, d)
  BY <1>1, <1>2, <1>3 DEF Inv, CloseInv
<1>6. TailInv(d, k)
  BY <1>2, <1>3 DEF Inv, TailInv
<1>7. FrameInv(q, w, d, k)
  BY <1>2, <1>3 DEF Inv, FrameInv
<1>. QED BY <1>3, <1>4, <1>5, <1>6, <1>7 DEF Inv

LEMMA CloseCallKeeps ==
    ASSUME StateInv, ~Has("submit", stack), ~Has("wc_tail", stack),
           NEW abort \in BOOLEAN, CloseCall(abort)
    PROVE  StateInv'
<1>. DEFINE q == IF wq_closing THEN rd ELSE ReadCloseOf(rd)
            d == [cl EXCEPT !.close_abort = @ \/ abort, !.close_state = "CLOSING"]
            n == [d EXCEPT !.in_close_cancel = @ + 1]
            z == Disarmed(q, prov)
            ask == q.recv_inflight /\ d.cancel_hooks /\ ~q.recv_cancel_requested
<1>1. Inv(q, wr, d, stack, z)
  BY ClosingKeeps DEF StateInv, CloseCall, wq_closing
<1>2. CASE ~d.close_abort
  <2>1. rd' = q /\ wr' = wr /\ Finalize(q, wr, d, stack) /\ prov' = z
    BY <1>2 DEF CloseCall
  <2>. QED BY <1>1, <2>1, FinalizeKeeps DEF StateInv
<1>3. d.close_state # "OPEN"
  BY DEF StateInv, Inv, TypeInv, CloseFacet
<1>4. CASE d.close_abort /\ ask
  <2>1. /\ rd' = [q EXCEPT !.recv_cancel_requested = TRUE] /\ wr' = wr /\ cl' = n
        /\ stack' = Push("cancel_recv", stack)
        /\ prov' = [z EXCEPT !.recv_cancels = @ + 1]
    BY <1>4 DEF CloseCall
  <2>. HIDE DEF q, d, z
  <2>. QED BY <1>1, <1>3, <1>4, <2>1, CancelRecvPush DEF StateInv
<1>5. CASE d.close_abort /\ ~ask
  <2>1. /\ rd' = q /\ CancelSend(q, wr, n, stack)
        /\ prov' = [z EXCEPT !.send_cancels =
                        @ + (IF stack' = Push("cancel_send", stack) THEN 1 ELSE 0)]
    BY <1>5 DEF CloseCall
  <2>. HIDE DEF q, d, z
  <2>2. Inv(q, wr', cl', stack', prov')
    BY <1>1, <1>3, <1>5, <2>1, CancelSendKeeps
  <2>. QED BY <2>1, <2>2 DEF StateInv
<1>. QED BY <1>2, <1>4, <1>5

-----------------------------------------------------------------------------
(* One lemma per action. *)

LEMMA UserNotInPump ==
    ASSUME StateInv, UserCall
    PROVE  ~Has("submit", stack) /\ ~Has("wc_tail", stack)
BY NotInPump DEF StateInv, UserCall, Idle, Top

LEMMA TopNotInPump ==
    ASSUME StateInv, NEW F, Top(F), "submit" \notin F, "wc_tail" \notin F
    PROVE  ~Has("submit", stack) /\ ~Has("wc_tail", stack)
BY NotInPump DEF StateInv, Top

LEMMA ReadStartKeeps == StateInv /\ ReadStart => StateInv'
BY UserNotInPump, ArmKeeps DEF ReadStart, StateInv

LEMMA ArmPostKeeps == StateInv /\ ArmPost => StateInv'
<1>. SUFFICES ASSUME StateInv, ArmPost PROVE StateInv'
  OBVIOUS
<1>. DEFINE z == [prov EXCEPT !.recv = TRUE]
<1>1. /\ z \in ProviderState /\ z.recv /\ z.send = prov.send
      /\ z.recv_cancels = prov.recv_cancels /\ z.send_cancels = prov.send_cancels
  BY DEF StateInv, Inv, TypeInv, ProviderState
<1>2. rd \in ReadFacet
  BY DEF StateInv, Inv, TypeInv
<1>3. rd.recv_inflight /\ prov' = z /\ rd' = rd /\ wr' = wr /\ cl' = cl /\ stack' = stack
  BY DEF ArmPost
<1>. HIDE DEF z
<1>. QED BY <1>1, <1>2, <1>3, ReadKeeps DEF StateInv

LEMMA ArmReturnKeeps == ASSUME StateInv, NEW ok \in BOOLEAN, ArmReturn(ok) PROVE StateInv'
<1>. DEFINE q == [rd EXCEPT !.arming = FALSE]
            k == Tail(stack)
            failed == ~ok /\ ~q.completed_inline
<1>1. Inv(q, wr, cl, k, prov) /\ ~Has("submit", k) /\ ~Has("wc_tail", k)
  BY ArmPop DEF StateInv, ArmReturn, Top
<1>2. wr' = wr /\ cl' = cl
  BY DEF ArmReturn
<1>3. CASE RearmDue(q)
  <2>1. StreamArm(q, k) /\ prov' = Armed(q, prov)
    BY <1>3 DEF ArmReturn
  <2>. HIDE DEF q, k
  <2>. QED BY <1>1, <1>2, <2>1, ArmKeeps DEF StateInv
<1>4. CASE ~RearmDue(q) /\ ~failed
  BY <1>1, <1>2, <1>4 DEF ArmReturn, StateInv
<1>5. CASE ~RearmDue(q) /\ failed
  <2>. DEFINE t == [q EXCEPT !.recv_inflight = FALSE, !.read_closed = TRUE]
  <2>1. rd' = t /\ stack' = k /\ prov' = prov
    BY <1>5 DEF ArmReturn
  <2>2. ~prov.recv
    BY <1>5 DEF ArmReturn, StateInv, Inv, OpInv
  <2>3. q \in ReadFacet /\ prov \in ProviderState
    BY <1>1 DEF Inv, TypeInv
  <2>. HIDE DEF q, k
  <2>4. /\ t \in ReadFacet /\ ~t.recv_inflight /\ t.read_closed /\ t.arming = q.arming
        /\ t.recv_cancel_requested = q.recv_cancel_requested
    BY <2>3 DEF ReadFacet
  <2>. HIDE DEF t
  <2>5. Inv(t, wr, cl, k, prov)
    BY <1>1, <2>2, <2>3, <2>4, ReadKeeps
  <2>. QED BY <1>2, <2>1, <2>5 DEF StateInv
<1>. QED BY <1>3, <1>4, <1>5

\* The receive that retires: the fields after it, before any delivery.
LEMMA RetiredRecv ==
    ASSUME StateInv, RecvRetires, NEW q \in ReadFacet, ~q.recv_inflight, q.arming = rd.arming,
           rd.read_closed => q.read_closed,
           q.recv_cancel_requested = rd.recv_cancel_requested,
           prov' = [prov EXCEPT !.recv = FALSE]
    PROVE  /\ Inv(q, wr, cl, stack, prov')
           /\ ~Has("submit", stack) /\ ~Has("wc_tail", stack)
<1>1. /\ prov' \in ProviderState /\ ~prov'.recv /\ prov'.send = prov.send
      /\ prov'.recv_cancels = prov.recv_cancels /\ prov'.send_cancels = prov.send_cancels
  BY DEF StateInv, Inv, TypeInv, ProviderState
<1>2. Inv(q, wr, cl, stack, prov')
  BY <1>1, ReadKeeps DEF StateInv
<1>3. ~Has("submit", stack) /\ ~Has("wc_tail", stack)
  BY NotInPump DEF StateInv, RecvRetires, Idle, Top
<1>. QED BY <1>2, <1>3

LEMMA DeliverKeeps ==
    ASSUME NEW r, NEW w, NEW c, NEW k, NEW p, Inv(r, w, c, k, p),
           ~Has("submit", k), ~Has("wc_tail", k), NEW ok \in BOOLEAN, Deliver(r, ok, k)
    PROVE  Inv(rd', w, c, stack', p)
<1>1. CASE ok
  BY <1>1, NeutralPush DEF Deliver, Neutral
<1>2. CASE ~ok
  <2>. DEFINE q == [r EXCEPT !.read_closed = TRUE]
  <2>1. rd' = q /\ stack' = Push("deliver_eof", k)
    BY <1>2 DEF Deliver
  <2>2. /\ q \in ReadFacet /\ q.recv_inflight = r.recv_inflight /\ q.read_closed
        /\ q.arming = r.arming /\ q.recv_cancel_requested = r.recv_cancel_requested
    BY DEF Inv, TypeInv, ReadFacet
  <2>3. p \in ProviderState /\ (p.recv => q.recv_inflight)
    BY <2>2 DEF Inv, TypeInv, OpInv
  <2>. HIDE DEF q
  <2>4. Inv(q, w, c, k, p)
    BY <2>2, <2>3, ReadKeeps
  <2>. QED BY <2>1, <2>4, NeutralPush DEF Neutral
<1>. QED BY <1>1, <1>2

LEMMA OnRecvKeeps == ASSUME StateInv, NEW ok \in BOOLEAN, OnRecv(ok) PROVE StateInv'
<1>. DEFINE q == [rd EXCEPT !.recv_inflight = FALSE, !.completed_inline = @ \/ rd.arming]
            h == [q EXCEPT !.recv_held = TRUE, !.held_ok = ok]
<1>0. RecvRetires /\ prov' = [prov EXCEPT !.recv = FALSE] /\ wr' = wr /\ rd \in ReadFacet
  BY DEF OnRecv, StateInv, Inv, TypeInv
<1>1. /\ q \in ReadFacet /\ ~q.recv_inflight /\ q.arming = rd.arming
      /\ q.read_closed = rd.read_closed
      /\ q.recv_cancel_requested = rd.recv_cancel_requested
  BY <1>0 DEF ReadFacet
<1>2. /\ Inv(q, wr, cl, stack, prov')
      /\ ~Has("submit", stack) /\ ~Has("wc_tail", stack)
  BY <1>0, <1>1, RetiredRecv
<1>3. CASE q.read_closed
  <2>1. rd' = q /\ Finalize(q, wr, cl, stack)
    BY <1>3 DEF OnRecv
  <2>. HIDE DEF q
  <2>. QED BY <1>0, <1>2, <2>1, FinalizeKeeps DEF StateInv
<1>4. CASE ~q.read_closed /\ q.read_paused
  <2>1. rd' = h /\ Finalize(h, wr, cl, stack)
    BY <1>4 DEF OnRecv
  <2>. HIDE DEF q
  <2>2. /\ h \in ReadFacet /\ h.recv_inflight = q.recv_inflight /\ h.arming = q.arming
        /\ h.read_closed = q.read_closed
        /\ h.recv_cancel_requested = q.recv_cancel_requested
    BY <1>1 DEF ReadFacet
  <2>. HIDE DEF h
  <2>3. Inv(h, wr, cl, stack, prov')
    BY <1>0, <1>1, <2>2, RetiredRecv
  <2>. QED BY <1>0, <1>2, <2>1, <2>3, FinalizeKeeps DEF StateInv
<1>5. CASE ~q.read_closed /\ ~q.read_paused
  <2>1. Deliver(q, ok, Push("recv_tail", stack)) /\ cl' = cl
    BY <1>5 DEF OnRecv
  <2>. HIDE DEF q
  <2>2. /\ Inv(q, wr, cl, Push("recv_tail", stack), prov')
        /\ ~Has("submit", Push("recv_tail", stack)) /\ ~Has("wc_tail", Push("recv_tail", stack))
    BY <1>2, NeutralPush DEF Neutral
  <2>. QED BY <1>0, <2>1, <2>2, DeliverKeeps DEF StateInv
<1>. QED BY <1>3, <1>4, <1>5

LEMMA OnRecvOversizeKeeps == ASSUME StateInv, OnRecvOversize PROVE StateInv'
<1>. DEFINE q == [rd EXCEPT !.recv_inflight = FALSE, !.completed_inline = @ \/ rd.arming,
                            !.read_closed = TRUE]
<1>0. RecvRetires /\ prov' = [prov EXCEPT !.recv = FALSE] /\ wr' = wr /\ rd \in ReadFacet
      /\ rd' = q /\ Finalize(q, wr, cl, stack)
  BY DEF OnRecvOversize, StateInv, Inv, TypeInv
<1>1. /\ q \in ReadFacet /\ ~q.recv_inflight /\ q.arming = rd.arming /\ q.read_closed
      /\ q.recv_cancel_requested = rd.recv_cancel_requested
  BY <1>0 DEF ReadFacet
<1>. HIDE DEF q
<1>2. /\ Inv(q, wr, cl, stack, prov')
      /\ ~Has("submit", stack) /\ ~Has("wc_tail", stack)
  BY <1>0, <1>1, RetiredRecv
<1>. QED BY <1>0, <1>2, FinalizeKeeps DEF StateInv

LEMMA DeliverReturnKeeps == ASSUME StateInv, DeliverReturn PROVE StateInv'
<1>1. /\ Inv(rd, wr, cl, Tail(stack), prov)
      /\ ~Has("submit", Tail(stack)) /\ ~Has("wc_tail", Tail(stack))
  BY NeutralPop DEF StateInv, DeliverReturn, Top, Neutral
<1>2. CASE rd' = rd /\ stack' = Tail(stack) /\ prov' = prov
  BY <1>1, <1>2 DEF StateInv, DeliverReturn
<1>3. CASE StreamArm(rd, Tail(stack)) /\ prov' = Armed(rd, prov)
  BY <1>1, <1>3, ArmKeeps DEF StateInv, DeliverReturn
<1>. QED BY <1>2, <1>3 DEF DeliverReturn

LEMMA RecvTailKeeps == ASSUME StateInv, RecvTail PROVE StateInv'
<1>1. /\ Inv(rd, wr, cl, Tail(stack), prov)
      /\ ~Has("submit", Tail(stack)) /\ ~Has("wc_tail", Tail(stack))
  BY NeutralPop DEF StateInv, RecvTail, Top, Neutral
<1>2. CASE cl' = cl /\ stack' = Tail(stack)
  BY <1>1, <1>2 DEF StateInv, RecvTail
<1>3. CASE Finalize(rd, wr, cl, Tail(stack))
  BY <1>1, <1>3, FinalizeKeeps DEF StateInv, RecvTail
<1>. QED BY <1>2, <1>3 DEF RecvTail

LEMMA PauseKeeps == ASSUME StateInv, Pause PROVE StateInv'
<1>. DEFINE q == [rd EXCEPT !.read_paused = TRUE,
                            !.recv_inflight = @ /\ rd.read_completion_mode]
<1>0. rd \in ReadFacet /\ prov \in ProviderState
  BY DEF StateInv, Inv, TypeInv
<1>1. rd' = q /\ prov' = Disarmed(q, prov) /\ wr' = wr /\ cl' = cl /\ stack' = stack
  BY DEF Pause
<1>2. /\ q \in ReadFacet /\ (q.recv_inflight => rd.recv_inflight) /\ q.arming = rd.arming
      /\ q.read_closed = rd.read_closed
      /\ q.recv_cancel_requested = rd.recv_cancel_requested
  BY <1>0 DEF ReadFacet
<1>. HIDE DEF q
<1>3. Inv(q, wr, cl, stack, Disarmed(q, prov))
  BY <1>0, <1>2, DisarmFacts, ReadKeeps DEF StateInv
<1>. QED BY <1>1, <1>3 DEF StateInv

LEMMA ResumeKeeps == ASSUME StateInv, Resume PROVE StateInv'
<1>. DEFINE q == [rd EXCEPT !.read_paused = FALSE]
            h == [q EXCEPT !.recv_held = FALSE, !.held_ok = FALSE]
<1>0. /\ rd \in ReadFacet /\ prov \in ProviderState
      /\ ~Has("submit", stack) /\ ~Has("wc_tail", stack)
  BY UserNotInPump DEF StateInv, Inv, TypeInv, Resume
<1>1. /\ q \in ReadFacet /\ q.recv_inflight = rd.recv_inflight /\ q.arming = rd.arming
      /\ q.read_closed = rd.read_closed /\ q.held_ok \in BOOLEAN
      /\ q.recv_cancel_requested = rd.recv_cancel_requested
  BY <1>0 DEF ReadFacet
<1>2. /\ h \in ReadFacet /\ h.recv_inflight = rd.recv_inflight /\ h.arming = rd.arming
      /\ h.read_closed = rd.read_closed
      /\ h.recv_cancel_requested = rd.recv_cancel_requested
  BY <1>0 DEF ReadFacet
<1>3. \/ rd' = q /\ stack' = stack /\ prov' = prov
      \/ Deliver(h, q.held_ok, stack) /\ prov' = prov
      \/ StreamArm(q, stack) /\ prov' = Armed(q, prov)
  BY DEF Resume
<1>4. wr' = wr /\ cl' = cl
  BY DEF Resume
<1>. HIDE DEF q, h
<1>5. prov.recv => q.recv_inflight /\ h.recv_inflight
  BY <1>1, <1>2 DEF StateInv, Inv, OpInv
<1>6. Inv(q, wr, cl, stack, prov)
  BY <1>0, <1>1, <1>5, ReadKeeps DEF StateInv
<1>7. Inv(h, wr, cl, stack, prov)
  BY <1>0, <1>2, <1>5, ReadKeeps DEF StateInv
<1>8. CASE Deliver(h, q.held_ok, stack) /\ prov' = prov
  BY <1>0, <1>1, <1>4, <1>7, <1>8, DeliverKeeps DEF StateInv
<1>9. CASE StreamArm(q, stack) /\ prov' = Armed(q, prov)
  BY <1>0, <1>4, <1>6, <1>9, ArmKeeps DEF StateInv
<1>. QED BY <1>3, <1>4, <1>6, <1>8, <1>9 DEF StateInv

LEMMA ReadCloseKeeps == ASSUME StateInv, ReadClose PROVE StateInv'
<1>0. rd \in ReadFacet /\ prov \in ProviderState
  BY DEF StateInv, Inv, TypeInv
<1>. DEFINE q == ReadCloseOf(rd)
<1>1. rd' = q /\ prov' = Disarmed(q, prov) /\ wr' = wr /\ cl' = cl /\ stack' = stack
  BY DEF ReadClose
<1>2. /\ q \in ReadFacet /\ (q.recv_inflight => rd.recv_inflight) /\ q.arming = rd.arming
      /\ q.read_closed /\ q.recv_cancel_requested = rd.recv_cancel_requested
  BY <1>0, ReadCloseFacts
<1>. HIDE DEF q
<1>3. Inv(q, wr, cl, stack, Disarmed(q, prov))
  BY <1>0, <1>2, DisarmFacts, ReadKeeps DEF StateInv
<1>. QED BY <1>1, <1>3 DEF StateInv

LEMMA WriteBlockedKeeps == ASSUME StateInv, NEW len, WriteBlocked(len) PROVE StateInv'
<1>. DEFINE v == [wr EXCEPT !.wr_blocked = TRUE]
<1>0. wr \in WriteFacet /\ prov \in ProviderState /\ wr.buffered <= Cap
  BY DEF StateInv, Inv, TypeInv
<1>1. /\ v \in WriteFacet /\ v.buffered = wr.buffered /\ v.submitting = wr.submitting
      /\ v.send_inflight = wr.send_inflight
      /\ v.send_cancel_requested = wr.send_cancel_requested
  BY <1>0 DEF WriteFacet
<1>2. wr' = v /\ rd' = rd /\ cl' = cl /\ stack' = stack /\ prov' = prov
  BY DEF WriteBlocked
<1>. HIDE DEF v
<1>3. (v.submitting => v.send_inflight) /\ (prov.send => v.send_inflight /\ ~v.submitting)
  BY <1>1 DEF StateInv, Inv, OpInv
<1>. QED BY <1>0, <1>1, <1>2, <1>3, WriteKeeps DEF StateInv

LEMMA WriteFailsKeeps == ASSUME StateInv, NEW len, WriteFails(len) PROVE StateInv'
<1>. DEFINE v == [wr EXCEPT !.wq_err = TRUE]
<1>0. wr \in WriteFacet /\ prov \in ProviderState /\ wr.buffered <= Cap
  BY DEF StateInv, Inv, TypeInv
<1>1. /\ v \in WriteFacet /\ v.buffered = wr.buffered /\ v.submitting = wr.submitting
      /\ v.send_inflight = wr.send_inflight
      /\ v.send_cancel_requested = wr.send_cancel_requested
  BY <1>0 DEF WriteFacet
<1>2. wr' = v /\ rd' = rd /\ cl' = cl /\ stack' = stack /\ prov' = prov
  BY DEF WriteFails
<1>. HIDE DEF v
<1>3. (v.submitting => v.send_inflight) /\ (prov.send => v.send_inflight /\ ~v.submitting)
  BY <1>1 DEF StateInv, Inv, OpInv
<1>. QED BY <1>0, <1>1, <1>2, <1>3, WriteKeeps DEF StateInv

\* The byte totals are not part of the invariant.
LEMMA TotalsKeep ==
    ASSUME NEW r, NEW w, NEW c, NEW k, NEW p, Inv(r, w, c, k, p),
           NEW a \in Nat, NEW b \in Nat
    PROVE  Inv(r, w, c, k, [p EXCEPT !.taken = a, !.sent = b])
<1>. DEFINE z == [p EXCEPT !.taken = a, !.sent = b]
<1>0. r \in ReadFacet /\ p \in ProviderState /\ (p.recv => r.recv_inflight)
  BY DEF Inv, TypeInv, OpInv
<1>1. /\ z \in ProviderState /\ z.recv = p.recv /\ z.send = p.send
      /\ z.recv_cancels = p.recv_cancels /\ z.send_cancels = p.send_cancels
  BY <1>0 DEF ProviderState
<1>. HIDE DEF z
<1>2. Inv(r, w, c, k, z)
  BY <1>0, <1>1, ReadKeeps
<1>. QED BY <1>2 DEF z

LEMMA AddTotals ==
    ASSUME NEW p \in ProviderState, NEW a \in Nat, NEW b \in Nat
    PROVE  /\ p.taken + a \in Nat /\ p.sent + b \in Nat
           /\ [p EXCEPT !.taken = @ + a, !.sent = @ + b]
              = [p EXCEPT !.taken = p.taken + a, !.sent = p.sent + b]
           /\ [p EXCEPT !.taken = @ + a] = [p EXCEPT !.taken = p.taken + a, !.sent = p.sent]
           /\ [p EXCEPT !.sent = @ + b] = [p EXCEPT !.taken = p.taken, !.sent = p.sent + b]
           /\ p.taken \in Nat /\ p.sent \in Nat
<1>1. p.taken \in Nat /\ p.sent \in Nat
  BY DEF ProviderState
<1>2. p.taken + a \in Nat /\ p.sent + b \in Nat
  BY <1>1
<1>3. [p EXCEPT !.taken = @ + a, !.sent = @ + b]
      = [p EXCEPT !.taken = p.taken + a, !.sent = p.sent + b]
  BY <1>2 DEF ProviderState
<1>4. [p EXCEPT !.taken = @ + a] = [p EXCEPT !.taken = p.taken + a, !.sent = p.sent]
  BY <1>2 DEF ProviderState
<1>5. [p EXCEPT !.sent = @ + b] = [p EXCEPT !.taken = p.taken, !.sent = p.sent + b]
  BY <1>2 DEF ProviderState
<1>. QED BY <1>1, <1>2, <1>3, <1>4, <1>5

LEMMA WriteSubmitKeeps ==
    ASSUME StateInv, NEW len \in Lens, WriteSubmit(len) PROVE StateInv'
<1>. DEFINE v == [wr EXCEPT !.buffered = @ + len, !.wr_blocked = FALSE]
<1>0. /\ wr \in WriteFacet /\ prov \in ProviderState /\ wr.buffered <= Cap
      /\ wr.buffered \in Nat /\ len \in Nat /\ Cap \in Nat
  BY StreamAssumption DEF StateInv, Inv, TypeInv, WriteFacet
<1>1. wr.buffered + len <= Cap /\ wr.buffered + len \in Nat
  BY <1>0 DEF WriteSubmit, Room
<1>2. /\ v \in WriteFacet /\ v.buffered = wr.buffered + len /\ v.submitting = wr.submitting
      /\ v.send_inflight = wr.send_inflight
      /\ v.send_cancel_requested = wr.send_cancel_requested
  BY <1>0, <1>1 DEF WriteFacet
<1>3. /\ Pump(v, cl, stack) /\ rd' = rd /\ cl' = cl
      /\ prov' = [Submitted(v, cl, prov) EXCEPT !.taken = @ + len]
      /\ cl.close_state # "CLOSED"
  BY DEF WriteSubmit, WriteCall, wq_closing
<1>4. ~Has("submit", stack)
  BY UserNotInPump DEF WriteSubmit, WriteCall
<1>. HIDE DEF v
<1>5. (v.submitting => v.send_inflight) /\ (prov.send => v.send_inflight /\ ~v.submitting)
  BY <1>2 DEF StateInv, Inv, OpInv
<1>6. Inv(rd, v, cl, stack, prov)
  BY <1>0, <1>1, <1>2, <1>5, WriteKeeps DEF StateInv
<1>7. Inv(rd, wr', cl, stack', Submitted(v, cl, prov))
  BY <1>3, <1>4, <1>6, PumpKeeps
<1>8. Submitted(v, cl, prov) \in ProviderState
  BY <1>7 DEF Inv, TypeInv
<1>. DEFINE z == Submitted(v, cl, prov)
<1>. HIDE DEF z
<1>9. /\ [z EXCEPT !.taken = @ + len] = [z EXCEPT !.taken = z.taken + len, !.sent = z.sent]
      /\ z.taken + len \in Nat /\ z.sent \in Nat
  BY <1>0, <1>8, AddTotals DEF z
<1>10. Inv(rd, wr', cl, stack', [z EXCEPT !.taken = z.taken + len, !.sent = z.sent])
  BY <1>7, <1>9, TotalsKeep DEF z
<1>. QED BY <1>3, <1>9, <1>10 DEF StateInv, z

LEMMA WriteDirectKeeps ==
    ASSUME StateInv, NEW len \in Lens, NEW n \in 0..len, WriteDirect(len, n) PROVE StateInv'
<1>. DEFINE v == [wr EXCEPT !.buffered = @ + (len - n), !.wr_blocked = FALSE]
<1>0. /\ wr \in WriteFacet /\ prov \in ProviderState /\ wr.buffered <= Cap
      /\ wr.buffered \in Nat /\ len \in Nat /\ Cap \in Nat /\ n \in Nat /\ n <= len
  BY StreamAssumption DEF StateInv, Inv, TypeInv, WriteFacet
<1>1. wr.buffered + (len - n) <= Cap /\ wr.buffered + (len - n) \in Nat
  BY <1>0 DEF WriteDirect, Room
<1>2. /\ v \in WriteFacet /\ v.buffered = wr.buffered + (len - n)
      /\ v.submitting = wr.submitting /\ v.send_inflight = wr.send_inflight
      /\ v.send_cancel_requested = wr.send_cancel_requested
  BY <1>0, <1>1 DEF WriteFacet
<1>3. /\ wr' = v /\ rd' = rd /\ cl' = cl /\ stack' = stack
      /\ prov' = [prov EXCEPT !.taken = @ + len, !.sent = @ + n]
  BY DEF WriteDirect
<1>. HIDE DEF v
<1>5. (v.submitting => v.send_inflight) /\ (prov.send => v.send_inflight /\ ~v.submitting)
  BY <1>2 DEF StateInv, Inv, OpInv
<1>6. Inv(rd, v, cl, stack, prov)
  BY <1>0, <1>1, <1>2, <1>5, WriteKeeps DEF StateInv
<1>7. Inv(rd, v, cl, stack, [prov EXCEPT !.taken = prov.taken + len, !.sent = prov.sent + n])
  BY <1>0, <1>6, AddTotals, TotalsKeep
<1>. QED BY <1>0, <1>3, <1>7, AddTotals DEF StateInv

LEMMA OnWriteInlineKeeps == ASSUME StateInv, NEW ok \in BOOLEAN, OnWriteInline(ok) PROVE StateInv'
<1>. DEFINE v == [wr EXCEPT !.inline_done = TRUE, !.inline_ok = ok]
<1>0. wr \in WriteFacet /\ prov \in ProviderState /\ wr.buffered <= Cap
  BY DEF StateInv, Inv, TypeInv
<1>1. /\ v \in WriteFacet /\ v.buffered = wr.buffered /\ v.submitting = wr.submitting
      /\ v.send_inflight = wr.send_inflight
      /\ v.send_cancel_requested = wr.send_cancel_requested
  BY <1>0 DEF WriteFacet
<1>2. wr' = v /\ rd' = rd /\ cl' = cl /\ stack' = stack /\ prov' = prov
  BY DEF OnWriteInline
<1>. HIDE DEF v
<1>3. (v.submitting => v.send_inflight) /\ (prov.send => v.send_inflight /\ ~v.submitting)
  BY <1>1 DEF StateInv, Inv, OpInv
<1>. QED BY <1>0, <1>1, <1>2, <1>3, WriteKeeps DEF StateInv

\* v follows w by retiring bytes or the send, and starts nothing.
Shrinks(w, v) ==
    /\ v \in WriteFacet /\ v.buffered <= Cap
    /\ v.submitting = w.submitting
    /\ v.send_cancel_requested = w.send_cancel_requested
    /\ v.send_inflight => w.send_inflight

LEMMA ConsumeFacts ==
    ASSUME NEW b \in Nat, NEW n \in Nat, b <= Cap
    PROVE  Consume(b, n) \in Nat /\ Consume(b, n) <= b /\ Consume(b, n) <= Cap
BY StreamAssumption DEF Consume

LEMMA RetireFacts ==
    ASSUME NEW w \in WriteFacet, w.buffered <= Cap
    PROVE  /\ Shrinks(w, SendRetired(w)) /\ ~SendRetired(w).send_inflight
           /\ Shrinks(w, SendFailed(w)) /\ ~SendFailed(w).send_inflight
<1>1. w.buffered \in Nat /\ w.inflight_len \in Nat
  BY DEF WriteFacet
<1>. DEFINE b == IF w.inflight_copying THEN w.buffered ELSE Consume(w.buffered, w.inflight_len)
<1>2. b \in Nat /\ b <= Cap
  BY <1>1, ConsumeFacts
<1>3. SendRetired(w) = [w EXCEPT !.buffered = b, !.send_inflight = FALSE, !.inflight_len = 0]
  BY DEF SendRetired, WriteFacet
<1>. HIDE DEF b
<1>. DEFINE v == [w EXCEPT !.buffered = b, !.send_inflight = FALSE, !.inflight_len = 0]
<1>6. v \in WriteFacet
  BY <1>2 DEF WriteFacet
<1>7. /\ v.buffered = b /\ ~v.send_inflight /\ v.submitting = w.submitting
      /\ v.send_cancel_requested = w.send_cancel_requested
  BY DEF WriteFacet
<1>4. Shrinks(w, SendRetired(w)) /\ ~SendRetired(w).send_inflight
  BY <1>2, <1>3, <1>6, <1>7 DEF Shrinks
<1>5. Shrinks(w, SendFailed(w)) /\ ~SendFailed(w).send_inflight
  BY DEF Shrinks, SendFailed, WriteFacet
<1>. QED BY <1>4, <1>5

LEMMA InlineFacts ==
    ASSUME NEW w \in WriteFacet, w.buffered <= Cap
    PROVE  LET v == [w EXCEPT !.inline_done = FALSE] IN
           Shrinks(w, v) /\ v.send_inflight = w.send_inflight
BY DEF Shrinks, WriteFacet

LEMMA CopiedFacts ==
    ASSUME NEW w \in WriteFacet, w.buffered <= Cap
    PROVE  LET v == [w EXCEPT !.buffered = IF w.inflight_copying
                                           THEN Consume(@, w.inflight_len) ELSE @] IN
           Shrinks(w, v) /\ v.send_inflight = w.send_inflight
<1>1. w.buffered \in Nat /\ w.inflight_len \in Nat
  BY DEF WriteFacet
<1>. DEFINE b == IF w.inflight_copying THEN Consume(w.buffered, w.inflight_len) ELSE w.buffered
            v == [w EXCEPT !.buffered = b]
<1>2. b \in Nat /\ b <= Cap
  BY <1>1, ConsumeFacts
<1>. HIDE DEF b
<1>3. Shrinks(w, v) /\ v.send_inflight = w.send_inflight
  BY <1>2 DEF Shrinks, WriteFacet
<1>4. [w EXCEPT !.buffered = IF w.inflight_copying
                             THEN Consume(@, w.inflight_len) ELSE @] = v
  BY DEF WriteFacet, b
<1>. QED BY <1>3, <1>4

LEMMA ShrinkKeeps ==
    ASSUME NEW r, NEW w, NEW c, NEW k, NEW p, Inv(r, w, c, k, p), ~w.submitting,
           NEW v, Shrinks(w, v), ~p.send \/ v.send_inflight
    PROVE  Inv(r, v, c, k, p)
<1>1. p \in ProviderState /\ (p.send => v.send_inflight /\ ~v.submitting)
  BY DEF Inv, TypeInv, Shrinks
<1>. QED BY <1>1, WriteKeeps DEF Shrinks

LEMMA SubmitReturnKeeps == ASSUME StateInv, NEW ok \in BOOLEAN, SubmitReturn(ok) PROVE StateInv'
<1>. DEFINE w == [wr EXCEPT !.submitting = FALSE]
            copied == [w EXCEPT !.buffered = IF w.inflight_copying
                                             THEN Consume(@, w.inflight_len) ELSE @]
            noted == [copied EXCEPT !.inline_done = FALSE]
            failed == [SendFailed(w) EXCEPT !.inline_done = FALSE]
            k == Tail(stack)
<1>1. /\ Inv(rd, w, cl, k, prov) /\ ~Has("submit", k) /\ wr.send_inflight /\ ~prov.send
  BY SubmitPop DEF StateInv, SubmitReturn, Top
<1>2. /\ w \in WriteFacet /\ w.buffered <= Cap /\ ~w.submitting /\ w.send_inflight
      /\ w.inflight_len \in Nat
  BY <1>1 DEF StateInv, Inv, TypeInv, WriteFacet
<1>3. /\ \/ wr' = failed /\ stack' = k /\ prov' = prov
         \/ wr' = copied /\ stack' = k /\ prov' = [prov EXCEPT !.send = TRUE]
         \/ wr' = SendFailed(noted) /\ stack' = k /\ prov' = prov
         \/ /\ Pump(SendRetired(noted), cl, k)
            /\ prov' = [Submitted(SendRetired(noted), cl, prov) EXCEPT !.sent = @ + w.inflight_len]
      /\ rd' = rd /\ cl' = cl
  BY DEF SubmitReturn
<1>4. cl.close_state # "CLOSED"
  BY <1>1 DEF StateInv, Inv, CloseInv
<1>. HIDE DEF w, k
<1>5. Shrinks(w, copied) /\ copied.send_inflight
  BY <1>2, CopiedFacts
<1>. HIDE DEF copied
<1>6. Shrinks(copied, noted)
  BY <1>5, InlineFacts DEF Shrinks
<1>. HIDE DEF noted
<1>7. /\ Shrinks(noted, SendRetired(noted)) /\ ~SendRetired(noted).send_inflight
      /\ Shrinks(noted, SendFailed(noted)) /\ ~SendFailed(noted).send_inflight
  BY <1>6, RetireFacts DEF Shrinks
<1>8. Shrinks(w, SendFailed(w)) /\ ~SendFailed(w).send_inflight
  BY <1>2, RetireFacts
<1>9. Shrinks(SendFailed(w), failed)
  BY <1>8, InlineFacts DEF Shrinks
<1>. HIDE DEF failed
<1>10. Inv(rd, copied, cl, k, prov)
  BY <1>1, <1>2, <1>5, ShrinkKeeps
<1>11. Inv(rd, noted, cl, k, prov)
  BY <1>1, <1>2, <1>5, <1>6, <1>10, ShrinkKeeps DEF Shrinks
<1>12. CASE wr' = failed /\ stack' = k /\ prov' = prov
  <2>1. Inv(rd, SendFailed(w), cl, k, prov)
    BY <1>1, <1>2, <1>8, ShrinkKeeps
  <2>2. Inv(rd, failed, cl, k, prov)
    BY <1>1, <1>2, <1>8, <1>9, <2>1, ShrinkKeeps DEF Shrinks
  <2>. QED BY <1>3, <1>12, <2>2 DEF StateInv
<1>13. CASE wr' = copied /\ stack' = k /\ prov' = [prov EXCEPT !.send = TRUE]
  <2>. DEFINE z == [prov EXCEPT !.send = TRUE]
  <2>1. /\ z \in ProviderState /\ z.recv = prov.recv /\ z.recv_cancels = prov.recv_cancels
        /\ z.send_cancels = prov.send_cancels
    BY <1>1 DEF Inv, TypeInv, ProviderState
  <2>. HIDE DEF z
  <2>2. Inv(rd, copied, cl, k, z)
    BY <1>2, <1>5, <1>10, <2>1, WriteKeeps DEF Shrinks
  <2>. QED BY <1>3, <1>13, <2>2 DEF StateInv, z
<1>14. CASE wr' = SendFailed(noted) /\ stack' = k /\ prov' = prov
  <2>1. Inv(rd, SendFailed(noted), cl, k, prov)
    BY <1>1, <1>2, <1>5, <1>6, <1>7, <1>11, ShrinkKeeps DEF Shrinks
  <2>. QED BY <1>3, <1>14, <2>1 DEF StateInv
<1>15. CASE /\ Pump(SendRetired(noted), cl, k)
            /\ prov' = [Submitted(SendRetired(noted), cl, prov) EXCEPT !.sent = @ + w.inflight_len]
  <2>. DEFINE z == Submitted(SendRetired(noted), cl, prov)
  <2>1. Inv(rd, SendRetired(noted), cl, k, prov)
    BY <1>1, <1>2, <1>5, <1>6, <1>7, <1>11, ShrinkKeeps DEF Shrinks
  <2>2. Inv(rd, wr', cl, stack', z)
    BY <1>1, <1>4, <1>15, <2>1, PumpKeeps
  <2>. HIDE DEF z
  <2>3. z \in ProviderState
    BY <2>2 DEF Inv, TypeInv
  <2>4. Inv(rd, wr', cl, stack', [z EXCEPT !.taken = z.taken, !.sent = z.sent + w.inflight_len])
    BY <1>2, <2>2, <2>3, AddTotals, TotalsKeep
  <2>. QED BY <1>2, <1>3, <1>15, <2>3, <2>4, AddTotals DEF StateInv, z
<1>. QED BY <1>3, <1>12, <1>13, <1>14, <1>15

LEMMA OnWriteCompleteKeeps ==
    ASSUME StateInv, NEW ok \in BOOLEAN, OnWriteComplete(ok) PROVE StateInv'
<1>. DEFINE p == [prov EXCEPT !.send = FALSE]
            k == Push("wc_tail", stack)
<1>1. /\ wr \in WriteFacet /\ wr.buffered <= Cap /\ prov \in ProviderState
      /\ wr.inflight_len \in Nat
  BY DEF StateInv, Inv, TypeInv, WriteFacet
<1>2. /\ p \in ProviderState /\ ~p.send /\ p.recv = prov.recv
      /\ p.recv_cancels = prov.recv_cancels /\ p.send_cancels = prov.send_cancels
  BY <1>1 DEF ProviderState
<1>3. /\ rd' = rd /\ cl' = cl /\ wr.send_inflight /\ prov.send
      /\ \/ /\ Pump(SendRetired(wr), cl, k)
            /\ prov' = [Submitted(SendRetired(wr), cl, p) EXCEPT !.sent = @ + wr.inflight_len]
         \/ wr' = SendFailed(wr) /\ stack' = k /\ prov' = p
  BY DEF OnWriteComplete
<1>4. /\ ~Has("submit", stack) /\ ~Has("wc_tail", stack)
      /\ stack = <<>> \/ cl.close_state # "OPEN"
  <2>1. ~Has("submit", stack) /\ ~Has("wc_tail", stack)
    BY NotInPump DEF StateInv, OnWriteComplete, Idle, Top
  <2>2. ASSUME stack # <<>> PROVE cl.close_state # "OPEN"
    <3>1. Head(stack) = "cancel_send" /\ stack \in Seq(Frames)
      BY <2>2 DEF OnWriteComplete, Idle, Top, StateInv, Inv, TypeInv
    <3>2. Has("cancel_send", stack)
      BY <2>2, <3>1, PopShape
    <3>. QED BY <3>2 DEF StateInv, Inv, FrameInv
  <2>. QED BY <2>1, <2>2
<1>5. ~wr.submitting /\ cl.close_state # "CLOSED"
  BY <1>3 DEF StateInv, Inv, OpInv, CloseInv
<1>. HIDE DEF p
<1>6. Inv(rd, wr, cl, stack, p)
  BY <1>1, <1>2, <1>3, <1>5, WriteKeeps DEF StateInv
<1>7. Inv(rd, wr, cl, k, p) /\ ~Has("submit", k)
  BY <1>4, <1>6, WcPush
<1>. HIDE DEF k
<1>8. /\ Shrinks(wr, SendRetired(wr)) /\ ~SendRetired(wr).send_inflight
      /\ Shrinks(wr, SendFailed(wr)) /\ ~SendFailed(wr).send_inflight
  BY <1>1, RetireFacts
<1>9. Inv(rd, SendRetired(wr), cl, k, p)
  BY <1>2, <1>5, <1>7, <1>8, ShrinkKeeps
<1>10. Inv(rd, SendFailed(wr), cl, k, p)
  BY <1>2, <1>5, <1>7, <1>8, ShrinkKeeps
<1>11. CASE wr' = SendFailed(wr) /\ stack' = k /\ prov' = p
  BY <1>3, <1>10, <1>11 DEF StateInv
<1>12. CASE /\ Pump(SendRetired(wr), cl, k)
            /\ prov' = [Submitted(SendRetired(wr), cl, p) EXCEPT !.sent = @ + wr.inflight_len]
  <2>. DEFINE z == Submitted(SendRetired(wr), cl, p)
  <2>2. Inv(rd, wr', cl, stack', z)
    BY <1>5, <1>7, <1>9, <1>12, PumpKeeps
  <2>. HIDE DEF z
  <2>3. z \in ProviderState
    BY <2>2 DEF Inv, TypeInv
  <2>4. Inv(rd, wr', cl, stack', [z EXCEPT !.taken = z.taken, !.sent = z.sent + wr.inflight_len])
    BY <1>1, <2>2, <2>3, AddTotals, TotalsKeep
  <2>. QED BY <1>1, <1>3, <1>12, <2>3, <2>4, AddTotals DEF StateInv, z
<1>. QED BY <1>3, <1>11, <1>12

\* A writable edge, taken from the event loop or from on_write_complete's tail.
LEMMA EdgeKeeps ==
    ASSUME NEW r, NEW w, NEW c, NEW k, NEW p, Inv(r, w, c, k, p),
           k = <<>>, NEW v, v = [w EXCEPT !.wr_blocked = FALSE]
    PROVE  Inv(r, v, [c EXCEPT !.in_writable = @ + 1], Push("on_writable", k), p)
<1>1. w \in WriteFacet /\ w.buffered <= Cap /\ p \in ProviderState
  BY DEF Inv, TypeInv
<1>2. /\ v \in WriteFacet /\ v.buffered = w.buffered /\ v.submitting = w.submitting
      /\ v.send_inflight = w.send_inflight
      /\ v.send_cancel_requested = w.send_cancel_requested
  BY <1>1 DEF WriteFacet
<1>3. (v.submitting => v.send_inflight) /\ (p.send => v.send_inflight /\ ~v.submitting)
  BY <1>2 DEF Inv, OpInv
<1>4. Inv(r, v, c, k, p)
  BY <1>1, <1>2, <1>3, WriteKeeps
<1>5. ~Has("submit", k) /\ ~Has("wc_tail", k) /\ ~Has("on_writable", k)
  BY DEF Has
<1>. QED BY <1>4, <1>5, WritablePush

LEMMA WcTailKeeps == ASSUME StateInv, WcTail PROVE StateInv'
<1>1. /\ Inv(rd, wr, cl, Tail(stack), prov)
      /\ ~Has("submit", Tail(stack)) /\ ~Has("wc_tail", Tail(stack))
      /\ cl.close_state = "OPEN" => Tail(stack) = <<>>
  BY WcPop DEF StateInv, WcTail, Top
<1>2. rd' = rd /\ prov' = prov
  BY DEF WcTail
<1>3. CASE WritableEdge(wr)
  <2>1. /\ wr' = [wr EXCEPT !.wr_blocked = FALSE] /\ cl' = [cl EXCEPT !.in_writable = @ + 1]
        /\ stack' = Push("on_writable", Tail(stack)) /\ Tail(stack) = <<>>
    BY <1>1, <1>3 DEF WcTail, WritableEdge, wq_closing
  <2>. QED BY <1>1, <1>2, <2>1, EdgeKeeps DEF StateInv
<1>4. CASE ~WritableEdge(wr)
  BY <1>1, <1>2, <1>4, FinalizeKeeps DEF WcTail, StateInv
<1>. QED BY <1>3, <1>4

LEMMA FlushKeeps ==
    ASSUME StateInv, NEW n \in 0..wr.buffered, NEW ok \in BOOLEAN, Flush(n, ok) PROVE StateInv'
<1>. DEFINE w == [wr EXCEPT !.buffered = @ - n, !.wq_err = ~ok]
<1>0. /\ wr \in WriteFacet /\ prov \in ProviderState /\ wr.buffered <= Cap
      /\ wr.buffered \in Nat /\ n \in Nat /\ n <= wr.buffered /\ Cap \in Nat
  BY StreamAssumption DEF StateInv, Inv, TypeInv, WriteFacet
<1>1. wr.buffered - n \in Nat /\ wr.buffered - n <= Cap
  BY <1>0
<1>2. /\ w \in WriteFacet /\ w.buffered = wr.buffered - n /\ w.submitting = wr.submitting
      /\ w.send_inflight = wr.send_inflight
      /\ w.send_cancel_requested = wr.send_cancel_requested
  BY <1>0, <1>1 DEF WriteFacet
<1>3. /\ rd' = rd /\ prov' = [prov EXCEPT !.sent = @ + n] /\ stack = <<>>
      /\ \/ /\ wr' = [w EXCEPT !.wr_blocked = FALSE] /\ cl' = [cl EXCEPT !.in_writable = @ + 1]
            /\ stack' = Push("on_writable", stack)
         \/ wr' = w /\ Finalize(rd, w, cl, stack)
         \/ wr' = w /\ cl' = cl /\ stack' = stack
  BY DEF Flush, Idle
<1>. HIDE DEF w
<1>4. (w.submitting => w.send_inflight) /\ (prov.send => w.send_inflight /\ ~w.submitting)
  BY <1>2 DEF StateInv, Inv, OpInv
<1>5. Inv(rd, w, cl, stack, prov)
  BY <1>0, <1>1, <1>2, <1>4, WriteKeeps DEF StateInv
<1>6. Inv(rd, w, cl, stack, [prov EXCEPT !.taken = prov.taken, !.sent = prov.sent + n])
  BY <1>0, <1>5, AddTotals, TotalsKeep
<1>7. Inv(rd, w, cl, stack, prov')
  BY <1>0, <1>3, <1>6, AddTotals
<1>8. ~Has("submit", stack) /\ ~Has("wc_tail", stack)
  BY <1>3 DEF Has
<1>. QED BY <1>3, <1>7, <1>8, EdgeKeeps, FinalizeKeeps DEF StateInv

LEMMA WritableReturnKeeps == ASSUME StateInv, WritableReturn PROVE StateInv'
<1>. DEFINE d == [cl EXCEPT !.in_writable = @ - 1]
<1>1. /\ Inv(rd, wr, d, Tail(stack), prov)
      /\ ~Has("submit", Tail(stack)) /\ ~Has("wc_tail", Tail(stack))
  BY WritablePop DEF StateInv, WritableReturn, Top
<1>2. Finalize(rd, wr, d, Tail(stack)) /\ rd' = rd /\ wr' = wr /\ prov' = prov
  BY DEF WritableReturn
<1>. HIDE DEF d
<1>. QED BY <1>1, <1>2, FinalizeKeeps DEF StateInv

LEMMA ClosesKeep ==
    ASSUME StateInv, CloseBegin \/ Cancel \/ \E abort \in BOOLEAN : ArmCloses(abort)
    PROVE  StateInv'
<1>1. ~Has("submit", stack) /\ ~Has("wc_tail", stack)
  BY NotInPump DEF StateInv, CloseBegin, Cancel, ArmCloses, UserCall, Idle, Top
<1>2. \E abort \in BOOLEAN : CloseCall(abort)
  BY DEF CloseBegin, Cancel, ArmCloses
<1>. QED BY <1>1, <1>2, CloseCallKeeps

LEMMA CancelRecvReturnKeeps == ASSUME StateInv, CancelRecvReturn PROVE StateInv'
<1>. DEFINE d == [cl EXCEPT !.in_close_cancel = @ - 1]
<1>1. /\ Inv(rd, wr, d, Tail(stack), prov)
      /\ ~Has("submit", Tail(stack)) /\ ~Has("wc_tail", Tail(stack))
      /\ cl.close_abort /\ cl.close_state # "OPEN" /\ cl.in_close_cancel \in {1, 2}
  BY CancelPop DEF StateInv, CancelRecvReturn, Top
<1>2. cl \in CloseFacet
  BY DEF StateInv, Inv, TypeInv
<1>3. d.close_abort /\ d.close_state # "OPEN"
  BY <1>1, <1>2, DepthDown
<1>4. cl = [d EXCEPT !.in_close_cancel = @ + 1]
  BY <1>1, <1>2, DepthDownUp
<1>5. /\ rd' = rd /\ CancelSend(rd, wr, cl, Tail(stack))
      /\ prov' = [prov EXCEPT !.send_cancels =
                      @ + (IF stack' = Push("cancel_send", Tail(stack)) THEN 1 ELSE 0)]
  BY DEF CancelRecvReturn
<1>. HIDE DEF d
<1>6. Inv(rd, wr', cl', stack', prov')
  BY <1>1, <1>3, <1>4, <1>5, CancelSendKeeps
<1>. QED BY <1>5, <1>6 DEF StateInv

LEMMA CancelSendReturnKeeps == ASSUME StateInv, CancelSendReturn PROVE StateInv'
<1>. DEFINE d == [cl EXCEPT !.in_close_cancel = @ - 1]
<1>1. /\ Inv(rd, wr, d, Tail(stack), prov)
      /\ ~Has("submit", Tail(stack)) /\ ~Has("wc_tail", Tail(stack))
  BY CancelPop DEF StateInv, CancelSendReturn, Top
<1>2. Finalize(rd, wr, d, Tail(stack)) /\ rd' = rd /\ wr' = wr /\ prov' = prov
  BY DEF CancelSendReturn
<1>. HIDE DEF d
<1>. QED BY <1>1, <1>2, FinalizeKeeps DEF StateInv

LEMMA CloseReturnKeeps == ASSUME StateInv, CloseReturn PROVE StateInv'
BY NeutralPop DEF StateInv, CloseReturn, Top

\* A freshly initialised stream, at the start or when its storage is reused.
LEMMA FreshKeeps ==
    ASSUME NEW m \in Modes, NEW hooks \in BOOLEAN
    PROVE  Inv(InitRead(m), InitWrite(m), InitClose(hooks), <<>>, InitProvider)
<1>. DEFINE r == InitRead(m)
            w == InitWrite(m)
            c == InitClose(hooks)
            p == InitProvider
<1>1. /\ r \in ReadFacet /\ ~r.recv_inflight /\ ~r.read_closed /\ ~r.arming
      /\ ~r.recv_cancel_requested
  BY DEF InitRead, ReadFacet
<1>2. /\ w \in WriteFacet /\ w.buffered = 0 /\ ~w.send_inflight /\ ~w.submitting
      /\ ~w.send_cancel_requested
  BY DEF InitWrite, WriteFacet
<1>3. /\ c \in CloseFacet /\ c.close_state = "OPEN" /\ c.in_close_cancel = 0
      /\ c.in_writable = 0 /\ ~c.close_notified
  BY DEF InitClose, CloseFacet
<1>4. /\ p \in ProviderState /\ ~p.recv /\ ~p.send /\ p.recv_cancels = 0 /\ p.send_cancels = 0
  BY DEF InitProvider, ProviderState
<1>5. \A f : ~Has(f, <<>>)
  BY DEF Has
<1>6. \A f : Once(f, <<>>)
  BY DEF Once
<1>7. <<>> \in Seq(Frames) /\ DetachClean(<<>>)
  BY DEF DetachClean
<1>. HIDE DEF r, w, c, p
<1>8. TypeInv(r, w, c, <<>>, p)
  BY <1>1, <1>2, <1>3, <1>4, <1>7, StreamAssumption DEF TypeInv
<1>9. OpInv(r, w, p) /\ CancelInv(r, w, p) /\ CloseInv(r, w, c) /\ TailInv(c, <<>>)
  BY <1>1, <1>2, <1>3, <1>4, <1>5 DEF OpInv, CancelInv, CloseInv, TailInv, One
<1>10. FrameInv(r, w, c, <<>>)
  BY <1>1, <1>2, <1>3, <1>5, <1>6 DEF FrameInv, One
<1>11. Inv(r, w, c, <<>>, p)
  BY <1>7, <1>8, <1>9, <1>10 DEF Inv
<1>. QED BY <1>11 DEF r, w, c, p

LEMMA ReuseKeeps == ASSUME StateInv, Reuse PROVE StateInv'
BY FreshKeeps DEF Reuse, Idle, StateInv

LEMMA NextKeeps == ASSUME StateInv, [Next]_vars PROVE StateInv'
<1>1. CASE Provider
  BY <1>1, OnRecvKeeps, OnRecvOversizeKeeps, OnWriteCompleteKeeps, FlushKeeps DEF Provider
<1>2. CASE Inline
  BY <1>2, ArmPostKeeps, OnWriteInlineKeeps, ClosesKeep DEF Inline
<1>3. CASE Returns
  BY <1>3, ArmReturnKeeps, DeliverReturnKeeps, RecvTailKeeps, SubmitReturnKeeps, WcTailKeeps,
     WritableReturnKeeps, CancelRecvReturnKeeps, CancelSendReturnKeeps, CloseReturnKeeps
     DEF Returns
<1>4. CASE User
  BY <1>4, ReadStartKeeps, PauseKeeps, ResumeKeeps, ReadCloseKeeps, WriteBlockedKeeps,
     WriteSubmitKeeps, WriteDirectKeeps, WriteFailsKeeps, ClosesKeep, ReuseKeeps DEF User
<1>5. CASE UNCHANGED vars
  BY <1>5 DEF vars, StateInv
<1>. QED BY <1>1, <1>2, <1>3, <1>4, <1>5 DEF Next

-----------------------------------------------------------------------------
(* Theorems. *)

\* The flags of struct KlStream describe the open hook frames in every reachable
\* state, for every capacity, write length and transport mode.
THEOREM StreamInvariant == Spec => []StateInv
<1>1. Init => StateInv
  BY FreshKeeps DEF Init, StateInv
<1>2. StateInv /\ [Next]_vars => StateInv'
  BY NextKeeps
<1>. QED BY <1>1, <1>2, PTL DEF Spec

\* The fields keep their types, and the preallocated write queue never overruns.
THEOREM StreamTypeCorrect == Spec => []TypeOK
<1>1. StateInv => TypeOK
  BY DEF StateInv, Inv, TypeInv, TypeOK, Frames
<1>. QED BY <1>1, StreamInvariant, PTL

\* stream_close.c: when on_close has been called the provider holds no operation;
\* on_close never runs on top of a frame of the cancel window, the write pump or
\* on_writable; cancellation is requested at most once per operation.
THEOREM StreamCloseDiscipline == Spec => []CloseDiscipline
<1>1. StateInv => DetachedIsRetired
  BY DEF StateInv, Inv, CloseInv, OpInv, DetachedIsRetired
<1>2. StateInv => DetachOutsideGuardedFrames
  BY DEF StateInv, Inv, DetachClean, Guarded, DetachOutsideGuardedFrames
<1>3. StateInv => CancelOnce
  BY DEF StateInv, Inv, CancelInv, One, CancelOnce
<1>4. StateInv => CloseDiscipline
  BY <1>1, <1>2, <1>3 DEF CloseDiscipline
<1>. QED BY <1>4, StreamInvariant, PTL
=============================================================================
