--------------------------- MODULE ListenerProofs ---------------------------
(***************************************************************************)
(* Proofs about the listener for every pool size and accept window.  Every *)
(* credit is accounted for through any nesting of the reserve, arm,        *)
(* release, dispose, cancel and on_accept hooks, and on_close runs alone.  *)
(*                                                                         *)
(* The argument: at most one arm hook is open, `pumping` is set while it   *)
(* is, and nothing is stacked on it before its post is decided.  So undoing*)
(* a failed post restores exactly what the pump saw before it.             *)
(***************************************************************************)
EXTENDS Listener, SequenceTheorems, TLAPS

Names == {"reserve", "on_accept", "dispose", "cancel", "on_close"}

Thens == {"dispose", "failed", "close_loop", "break", "retry", "hard"}

Frames == (Names \X {""}) \cup ({"release"} \X Thens) \cup ({"arm"} \X Nat)

LState ==
    [state : {"IDLE", "LISTENING", "PAUSED", "CLOSING", "CLOSED"}, completion_mode : BOOLEAN,
     window : Nat, cancel_accept : BOOLEAN, inflight : Nat, accept_cancel_requested : BOOLEAN,
     pumping : BOOLEAN, pump_pending : BOOLEAN, in_start : Int, in_dispatch : Int,
     detached : BOOLEAN]

PState == [posted : Nat, interest : BOOLEAN, armed : {"none", "posted", "done"},
           retry : BOOLEAN, held : Int, spurious : Nat]

Pools == [credits : Nat, leases : Nat]

Has(name, k) == \E i \in 1..Len(k) : k[i][1] = name

\* The frames of l_pump: none of them lies above an open arm hook.
PumpFrame(f) ==
    f[1] \in {"reserve", "arm"} \/ (f[1] = "release" /\ f[2] \in {"break", "retry", "hard"})

StackInv(s, k) ==
    /\ k \in Seq(Frames)
    /\ ~Has("on_close", k)
    /\ \A i, j \in 1..Len(k) : i < j /\ PumpFrame(k[i]) => k[j][1] # "arm"
    /\ Has("arm", k) => s.pumping
    /\ Has("reserve", k) => Closing(s)
    /\ \A i \in 1..Len(k) : k[i] = <<"release", "close_loop">> => ~s.completion_mode

\* s in_start and in_dispatch count the open frames.
Counted(s, k) ==
    /\ s.in_start = IF Has("arm", k) THEN 1 ELSE 0
    /\ s.in_dispatch + s.in_start = Len(k)

\* x accepts are posted as far as listener s knows, and n credits are accounted for.
PoolInv(s, x, c, p, n) ==
    /\ s \in LState /\ c \in Pools /\ p \in PState /\ x \in Nat
    /\ c.credits + c.leases + x = n
    /\ x <= s.window
    /\ ~s.completion_mode => s.window = 1 /\ p.posted = 0
    /\ s.completion_mode => x = p.posted
    /\ ~s.completion_mode /\ x > 0 => p.interest
    /\ s.detached => x = 0 /\ s.state = "CLOSED"

Base(s, x, k, c, p, n) ==
    /\ PoolInv(s, x, c, p, n)
    /\ StackInv(s, k)
    /\ Has("arm", k) => p.armed # "none"

\* The activations between two hooks.
Settled(s, k, c, p) == Base(s, s.inflight, k, c, p, Credits) /\ Counted(s, k)

\* Inside the reserve hook of a listener that is not closing.
InReserve ==
    /\ stack \in Seq(Frames) /\ stack # <<>> /\ Head(stack) = <<"reserve", "">>
    /\ Base(l, l.inflight, Tail(stack), pool, prov, Credits) /\ ~Has("arm", Tail(stack))
    /\ Counted(l, stack)
    /\ l.state = "LISTENING" /\ l.inflight < l.window

\* Inside the arm hook, before its post is decided.
InArm ==
    /\ stack \in Seq(Frames) /\ stack # <<>> /\ Head(stack)[1] = "arm" /\ Head(stack)[2] \in Nat
    /\ Base(l, Head(stack)[2], Tail(stack), pool, prov, Credits - 1) /\ ~Has("arm", Tail(stack))
    /\ Counted(l, stack)
    /\ l.pumping /\ l.state = "LISTENING" /\ prov.armed = "none"
    /\ l.inflight = Head(stack)[2] + 1 /\ l.inflight <= l.window

\* Inside on_close.
InClose ==
    /\ stack = <<<<"on_close", "">>>>
    /\ Settled(l, <<>>, pool, prov)
    /\ l.detached

ListenerInv == Settled(l, stack, pool, prov) \/ InReserve \/ InArm \/ InClose

-----------------------------------------------------------------------------
(* Pushing and popping frames. *)

LEMMA ConsShape ==
    ASSUME NEW f \in Frames, NEW k \in Seq(Frames)
    PROVE  /\ <<f>> \o k \in Seq(Frames) /\ <<f>> \o k # <<>>
           /\ Len(<<f>> \o k) = Len(k) + 1 /\ Len(k) \in Nat
           /\ Head(<<f>> \o k) = f /\ Tail(<<f>> \o k) = k
           /\ (<<f>> \o k)[1] = f
           /\ \A i \in 1..Len(k) : (<<f>> \o k)[i + 1] = k[i]
           /\ \A i \in 2..Len(k) + 1 : (<<f>> \o k)[i] = k[i - 1] /\ i - 1 \in 1..Len(k)
<1>. DEFINE q == <<f>> \o k
<1>1. <<f>> \in Seq(Frames) /\ Len(<<f>>) = 1 /\ <<f>>[1] = f /\ Len(k) \in Nat
  OBVIOUS
<1>2. /\ q \in Seq(Frames) /\ Len(q) = 1 + Len(k)
      /\ \A i \in 1 .. 1 + Len(k) : q[i] = IF i <= 1 THEN <<f>>[i] ELSE k[i - 1]
  BY <1>1, ConcatProperties
<1>3. q[1] = f /\ \A i \in 1..Len(k) : q[i + 1] = k[i]
  BY <1>1, <1>2
<1>4. \A i \in 2..Len(k) + 1 : q[i] = k[i - 1] /\ i - 1 \in 1..Len(k)
  BY <1>1, <1>2
<1>. HIDE DEF q
<1>5. q # <<>> /\ Head(q) = f
  BY <1>1, <1>2, <1>3
<1>6. /\ Tail(q) \in Seq(Frames) /\ Len(Tail(q)) = Len(k)
      /\ \A i \in 1..Len(k) : Tail(q)[i] = k[i]
  BY <1>1, <1>2, <1>3, <1>5, HeadTailProperties
<1>7. Tail(q) = k
  BY <1>6, SeqEqual
<1>. QED BY <1>1, <1>2, <1>3, <1>4, <1>5, <1>7 DEF q

LEMMA ConsHas ==
    ASSUME NEW f \in Frames, NEW k \in Seq(Frames), NEW g
    PROVE  Has(g, <<f>> \o k) <=> g = f[1] \/ Has(g, k)
<1>. DEFINE q == <<f>> \o k
<1>1. /\ Len(q) = Len(k) + 1 /\ Len(k) \in Nat /\ q[1] = f
      /\ \A i \in 1..Len(k) : q[i + 1] = k[i]
      /\ \A i \in 2..Len(k) + 1 : q[i] = k[i - 1] /\ i - 1 \in 1..Len(k)
  BY ConsShape
<1>. HIDE DEF q
<1>2. ASSUME Has(g, q), g # f[1] PROVE Has(g, k)
  <2>1. PICK i \in 1..Len(k) + 1 : q[i][1] = g
    BY <1>1, <1>2 DEF Has
  <2>2. i # 1
    BY <1>1, <1>2, <2>1
  <2>3. i - 1 \in 1..Len(k) /\ k[i - 1][1] = g
    BY <1>1, <2>1, <2>2
  <2>. QED BY <2>3 DEF Has
<1>3. ASSUME Has(g, k) PROVE Has(g, q)
  <2>1. PICK i \in 1..Len(k) : k[i][1] = g
    BY <1>3 DEF Has
  <2>2. i + 1 \in 1..Len(q) /\ q[i + 1][1] = g
    BY <1>1, <2>1
  <2>. QED BY <2>2 DEF Has
<1>4. Has(f[1], q)
  <2>1. 1 \in 1..Len(q) /\ q[1] = f
    BY <1>1
  <2>. QED BY <2>1 DEF Has
<1>5. Has(g, q) <=> g = f[1] \/ Has(g, k)
  BY <1>2, <1>3, <1>4
<1>. QED BY <1>5 DEF q

LEMMA TailHas ==
    ASSUME NEW k \in Seq(Frames), k # <<>>
    PROVE  /\ Tail(k) \in Seq(Frames) /\ Len(Tail(k)) = Len(k) - 1 /\ Len(k) \in Nat
           /\ Len(k) > 0 /\ Head(k) \in Frames /\ Head(k) = k[1]
           /\ \A i \in 1..Len(Tail(k)) : Tail(k)[i] = k[i + 1] /\ i + 1 \in 1..Len(k)
           /\ \A g : Has(g, k) <=> g = Head(k)[1] \/ Has(g, Tail(k))
<1>. DEFINE q == Tail(k)
<1>1. /\ q \in Seq(Frames) /\ Len(q) = Len(k) - 1 /\ Len(k) \in Nat /\ Len(k) > 0
      /\ Head(k) = k[1] /\ Head(k) \in Frames
      /\ \A i \in 1..Len(q) : q[i] = k[i + 1] /\ i + 1 \in 1..Len(k)
  BY HeadTailProperties
<1>. HIDE DEF q
<1>2. ASSUME NEW g, Has(g, k), g # Head(k)[1] PROVE Has(g, q)
  <2>1. PICK i \in 1..Len(k) : k[i][1] = g
    BY <1>2 DEF Has
  <2>2. i - 1 \in 1..Len(q) /\ q[i - 1][1] = g
    BY <1>1, <1>2, <2>1
  <2>. QED BY <2>2 DEF Has
<1>3. ASSUME NEW g, Has(g, q) PROVE Has(g, k)
  BY <1>1, <1>3 DEF Has
<1>4. Has(Head(k)[1], k)
  BY <1>1 DEF Has
<1>. QED BY <1>1, <1>2, <1>3, <1>4 DEF q

LEMMA ConsStack ==
    ASSUME NEW s, NEW k, StackInv(s, k), NEW f \in Frames,
           f[1] # "on_close", PumpFrame(f) => ~Has("arm", k),
           f[1] = "arm" => s.pumping, f[1] = "reserve" => Closing(s),
           f = <<"release", "close_loop">> => ~s.completion_mode
    PROVE  StackInv(s, <<f>> \o k)
<1>. DEFINE q == <<f>> \o k
<1>0. k \in Seq(Frames)
  BY DEF StackInv
<1>1. /\ q \in Seq(Frames) /\ Len(q) = Len(k) + 1 /\ Len(k) \in Nat /\ q[1] = f
      /\ \A i \in 1..Len(k) : q[i + 1] = k[i]
      /\ \A i \in 2..Len(k) + 1 : q[i] = k[i - 1] /\ i - 1 \in 1..Len(k)
  BY <1>0, ConsShape
<1>2. \A g : Has(g, q) <=> g = f[1] \/ Has(g, k)
  BY <1>0, ConsHas
<1>. HIDE DEF q
<1>3. ASSUME NEW i \in 1..Len(q), NEW j \in 1..Len(q), i < j, PumpFrame(q[i]), q[j][1] = "arm"
      PROVE  FALSE
  <2>1. j \in 2..Len(k) + 1 /\ k[j - 1][1] = "arm" /\ j - 1 \in 1..Len(k)
    BY <1>1, <1>3
  <2>2. CASE i = 1
    BY <1>1, <1>3, <2>1, <2>2 DEF Has
  <2>3. CASE i # 1
    <3>1. q[i] = k[i - 1] /\ i - 1 \in 1..Len(k) /\ i - 1 < j - 1
      BY <1>1, <1>3, <2>3
    <3>. QED BY <1>3, <2>1, <3>1 DEF StackInv
  <2>. QED BY <2>2, <2>3
<1>4. ASSUME NEW i \in 1..Len(q), q[i] = <<"release", "close_loop">> PROVE ~s.completion_mode
  <2>1. CASE i = 1
    BY <1>1, <1>4, <2>1
  <2>2. CASE i # 1
    <3>1. k[i - 1] = <<"release", "close_loop">> /\ i - 1 \in 1..Len(k)
      BY <1>1, <1>4, <2>2
    <3>. QED BY <3>1 DEF StackInv
  <2>. QED BY <2>1, <2>2
<1>5. StackInv(s, q)
  BY <1>1, <1>2, <1>3, <1>4 DEF StackInv
<1>. QED BY <1>5 DEF q

LEMMA PopStack ==
    ASSUME NEW s, NEW k, StackInv(s, k), k # <<>>
    PROVE  /\ StackInv(s, Tail(k))
           /\ PumpFrame(Head(k)) => ~Has("arm", Tail(k))
           /\ Head(k) = <<"release", "close_loop">> => ~s.completion_mode
           /\ Head(k)[1] = "reserve" => Closing(s)
           /\ Head(k) \in Frames /\ Head(k)[1] # "on_close"
<1>. DEFINE q == Tail(k)
<1>1. /\ q \in Seq(Frames) /\ Len(q) = Len(k) - 1 /\ Len(k) \in Nat
      /\ Len(k) > 0 /\ Head(k) \in Frames /\ Head(k) = k[1]
      /\ \A i \in 1..Len(q) : q[i] = k[i + 1] /\ i + 1 \in 1..Len(k)
      /\ \A g : Has(g, k) <=> g = Head(k)[1] \/ Has(g, q)
  BY TailHas DEF StackInv
<1>. HIDE DEF q
<1>2. ASSUME PumpFrame(Head(k)), Has("arm", q) PROVE FALSE
  <2>1. PICK j \in 1..Len(q) : q[j][1] = "arm"
    BY <1>2 DEF Has
  <2>2. 1 \in 1..Len(k) /\ j + 1 \in 1..Len(k) /\ 1 < j + 1 /\ PumpFrame(k[1]) /\ k[j + 1][1] = "arm"
    BY <1>1, <1>2, <2>1
  <2>. QED BY <2>2 DEF StackInv
<1>3. ASSUME NEW i \in 1..Len(q), NEW j \in 1..Len(q), i < j, PumpFrame(q[i]), q[j][1] = "arm"
      PROVE  FALSE
  <2>1. /\ i + 1 \in 1..Len(k) /\ j + 1 \in 1..Len(k) /\ i + 1 < j + 1
        /\ PumpFrame(k[i + 1]) /\ k[j + 1][1] = "arm"
    BY <1>1, <1>3
  <2>. QED BY <2>1 DEF StackInv
<1>4. \A i \in 1..Len(q) : q[i] = <<"release", "close_loop">> => ~s.completion_mode
  BY <1>1 DEF StackInv
<1>5. StackInv(s, q)
  BY <1>1, <1>3, <1>4 DEF StackInv
<1>. QED BY <1>1, <1>2, <1>5 DEF q, StackInv

\* What a change of the other fields of the listener leaves alone.
Like(r, s) ==
    /\ r \in LState /\ r.state = s.state /\ r.completion_mode = s.completion_mode
    /\ r.window = s.window /\ r.pumping = s.pumping /\ r.detached = s.detached

LEMMA LikeBase ==
    ASSUME NEW s, NEW r, Like(r, s), NEW x, NEW k, NEW c, NEW p, NEW n, Base(s, x, k, c, p, n)
    PROVE  Base(r, x, k, c, p, n)
BY DEF Like, Base, PoolInv, StackInv, Closing

LEMMA LikeUpdates ==
    ASSUME NEW s \in LState
    PROVE  /\ \A d \in Int : LET r == [s EXCEPT !.in_dispatch = d] IN
                 Like(r, s) /\ r.inflight = s.inflight /\ r.in_start = s.in_start /\ r.in_dispatch = d
           /\ \A b \in BOOLEAN : LET r == [s EXCEPT !.pump_pending = b] IN
                 /\ Like(r, s) /\ r.inflight = s.inflight /\ r.in_start = s.in_start
                 /\ r.in_dispatch = s.in_dispatch
           /\ \A x \in Nat : LET r == [s EXCEPT !.inflight = x] IN
                 /\ Like(r, s) /\ r.inflight = x /\ r.in_start = s.in_start
                 /\ r.in_dispatch = s.in_dispatch
BY DEF LState, Like

LEMMA EmptyStack ==
    ASSUME NEW s
    PROVE  /\ StackInv(s, <<>>) /\ (\A g : ~Has(g, <<>>)) /\ Len(<<>>) = 0
           /\ Push("on_close", "", <<>>) = <<<<"on_close", "">>>>
BY DEF StackInv, Has, Push

LEMMA PushSettled ==
    ASSUME NEW s, NEW k, NEW c, NEW p, NEW n, Base(s, s.inflight, k, c, p, n), Counted(s, k),
           NEW f \in Frames, f[1] \in {"release", "on_accept", "dispose", "cancel"},
           PumpFrame(f) => ~Has("arm", k),
           f = <<"release", "close_loop">> => ~s.completion_mode,
           NEW r, r = [s EXCEPT !.in_dispatch = @ + 1]
    PROVE  /\ Base(r, r.inflight, <<f>> \o k, c, p, n) /\ Counted(r, <<f>> \o k)
           /\ Like(r, s) /\ r.inflight = s.inflight
<1>1. s \in LState /\ s.in_dispatch \in Int /\ s.in_start \in Int
  BY DEF Base, PoolInv, LState
<1>2. /\ Like(r, s) /\ r.inflight = s.inflight /\ r.in_start = s.in_start
      /\ r.in_dispatch = s.in_dispatch + 1
  BY <1>1, LikeUpdates
<1>3. Base(r, r.inflight, k, c, p, n)
  BY <1>2, LikeBase
<1>4. k \in Seq(Frames) /\ r.completion_mode = s.completion_mode
  BY <1>2 DEF Base, StackInv, Like
<1>5. Len(<<f>> \o k) = Len(k) + 1 /\ Len(k) \in Nat
  BY <1>4, ConsShape
<1>6. Has("arm", <<f>> \o k) <=> Has("arm", k)
  BY <1>4, ConsHas
<1>7. StackInv(r, <<f>> \o k)
  BY <1>3, <1>4, ConsStack DEF Base
<1>8. Counted(r, <<f>> \o k)
  BY <1>1, <1>2, <1>5, <1>6 DEF Counted
<1>9. Base(r, r.inflight, <<f>> \o k, c, p, n)
  BY <1>3, <1>6, <1>7 DEF Base
<1>. QED BY <1>2, <1>8, <1>9

\* Returning from a hook other than arm.
LEMMA PopSettled ==
    ASSUME NEW s, NEW k, NEW c, NEW p, NEW n, Base(s, s.inflight, k, c, p, n), Counted(s, k),
           k # <<>>, Head(k)[1] # "arm", NEW r, r = [s EXCEPT !.in_dispatch = @ - 1]
    PROVE  /\ Base(r, r.inflight, Tail(k), c, p, n) /\ Counted(r, Tail(k)) /\ Like(r, s)
           /\ r.inflight = s.inflight
           /\ PumpFrame(Head(k)) => ~Has("arm", Tail(k))
           /\ Head(k) = <<"release", "close_loop">> => ~s.completion_mode
<1>1. s \in LState /\ s.in_dispatch \in Int /\ s.in_start \in Int /\ k \in Seq(Frames)
  BY DEF Base, PoolInv, LState, StackInv
<1>2. /\ Like(r, s) /\ r.inflight = s.inflight /\ r.in_start = s.in_start
      /\ r.in_dispatch = s.in_dispatch - 1
  <2>1. s.in_dispatch - 1 \in Int
    BY <1>1
  <2>. QED BY <1>1, <2>1, LikeUpdates
<1>3. Base(r, r.inflight, k, c, p, n)
  BY <1>2, LikeBase
<1>4. Len(Tail(k)) = Len(k) - 1 /\ Len(k) \in Nat /\ (Has("arm", k) <=> Has("arm", Tail(k)))
  BY <1>1, TailHas
<1>5. /\ StackInv(r, Tail(k))
      /\ PumpFrame(Head(k)) => ~Has("arm", Tail(k))
      /\ Head(k) = <<"release", "close_loop">> => ~s.completion_mode
  BY <1>2, <1>3, PopStack DEF Base, Like
<1>6. Counted(r, Tail(k))
  BY <1>1, <1>2, <1>4 DEF Counted
<1>7. Base(r, r.inflight, Tail(k), c, p, n)
  BY <1>3, <1>4, <1>5 DEF Base
<1>. QED BY <1>2, <1>5, <1>6, <1>7

-----------------------------------------------------------------------------
(* The shared code. *)

LEMMA FinalizeKeeps ==
    ASSUME NEW s, NEW k, NEW c, NEW p, Settled(s, k, c, p), Finalize(s, k, c, p)
    PROVE  ListenerInv'
<1>1. CASE CanDetach(s)
  <2>. DEFINE r == [s EXCEPT !.state = "CLOSED", !.detached = TRUE]
  <2>1. /\ s \in LState /\ k \in Seq(Frames) /\ s.in_start = 0 /\ s.in_dispatch = 0
        /\ s.inflight = 0 /\ s.state = "CLOSING"
    BY <1>1 DEF Settled, Base, PoolInv, StackInv, CanDetach
  <2>2. k = <<>>
    BY <2>1 DEF Settled, Counted
  <2>3. l' = r /\ stack' = <<<<"on_close", "">>>> /\ pool' = c /\ prov' = p
    BY <1>1, <2>2, EmptyStack DEF Finalize
  <2>4. /\ r \in LState /\ r.state = "CLOSED" /\ r.detached /\ r.inflight = s.inflight
        /\ r.in_start = s.in_start /\ r.in_dispatch = s.in_dispatch /\ r.window = s.window
        /\ r.completion_mode = s.completion_mode /\ r.pumping = s.pumping
    BY <2>1 DEF LState
  <2>. HIDE DEF r
  <2>5. PoolInv(r, r.inflight, c, p, Credits)
    BY <2>1, <2>4 DEF Settled, Base, PoolInv
  <2>6. Settled(r, <<>>, c, p)
    BY <2>1, <2>2, <2>4, <2>5, EmptyStack DEF Settled, Base, Counted
  <2>. QED BY <2>3, <2>4, <2>6 DEF ListenerInv, InClose
<1>2. CASE ~CanDetach(s)
  BY <1>2 DEF Finalize, ListenerInv
<1>. QED BY <1>1, <1>2

LEMMA ReleaseKeeps ==
    ASSUME ListenerAssumption, NEW s, NEW k, NEW c, NEW p,
           Base(s, s.inflight, k, c, p, Credits - 1), Counted(s, k),
           NEW then \in Thens,
           then \in {"break", "retry", "hard"} => ~Has("arm", k),
           then = "close_loop" => ~s.completion_mode,
           Release(s, then, k, c, p)
    PROVE  ListenerInv'
<1>. DEFINE f == <<"release", then>>
            r == [s EXCEPT !.in_dispatch = @ + 1]
            d == [c EXCEPT !.credits = @ + 1]
<1>1. l' = r /\ stack' = <<f>> \o k /\ pool' = d /\ prov' = p
  BY DEF Release, Push
<1>2. /\ f \in Frames /\ f[1] = "release" /\ f[2] = then /\ (PumpFrame(f) => ~Has("arm", k))
      /\ f = <<"release", "close_loop">> => ~s.completion_mode
  BY DEF Frames, Names, Thens, PumpFrame
<1>. HIDE DEF f
<1>3. /\ Base(r, r.inflight, <<f>> \o k, c, p, Credits - 1) /\ Counted(r, <<f>> \o k)
  BY <1>2, PushSettled
<1>4. c \in Pools /\ c.credits \in Nat /\ c.leases \in Nat
  BY DEF Base, PoolInv, Pools
<1>5. d \in Pools /\ d.credits = c.credits + 1 /\ d.leases = c.leases
  BY <1>4 DEF Pools
<1>. HIDE DEF r, d
<1>6. Base(r, r.inflight, <<f>> \o k, d, p, Credits)
  BY <1>3, <1>4, <1>5 DEF Base, PoolInv, ListenerAssumption
<1>. QED BY <1>1, <1>3, <1>6 DEF ListenerInv, Settled

LEMMA DisposeKeeps ==
    ASSUME NEW s, NEW k, NEW c, NEW p, Settled(s, k, c, p), Dispose(s, k, c, p)
    PROVE  ListenerInv'
<1>. DEFINE f == <<"dispose", "">>
            r == [s EXCEPT !.in_dispatch = @ + 1]
            q == [p EXCEPT !.held = @ - 1]
<1>1. l' = r /\ stack' = <<f>> \o k /\ pool' = c /\ prov' = q
  BY DEF Dispose, Push
<1>2. f \in Frames /\ f[1] = "dispose"
  BY DEF Frames, Names, Thens
<1>. HIDE DEF f
<1>3. ~PumpFrame(f) /\ f # <<"release", "close_loop">>
  BY <1>2 DEF PumpFrame
<1>4. Base(r, r.inflight, <<f>> \o k, c, p, Credits) /\ Counted(r, <<f>> \o k)
  BY <1>2, <1>3, PushSettled DEF Settled
<1>5. q \in PState /\ q.posted = p.posted /\ q.interest = p.interest /\ q.armed = p.armed
  BY DEF Settled, Base, PoolInv, PState
<1>. HIDE DEF r, q
<1>6. Base(r, r.inflight, <<f>> \o k, c, q, Credits)
  BY <1>4, <1>5 DEF Base, PoolInv
<1>. QED BY <1>1, <1>4, <1>6 DEF ListenerInv, Settled

LEMMA CloseLoopKeeps ==
    ASSUME ListenerAssumption, NEW s, NEW k, NEW c, NEW p, Settled(s, k, c, p),
           ~s.completion_mode, CloseLoop(s, k, c, p)
    PROVE  ListenerInv'
<1>1. CASE s.inflight > 0
  <2>. DEFINE r == [s EXCEPT !.inflight = @ - 1]
  <2>1. s \in LState /\ s.inflight \in Nat /\ s.inflight - 1 \in Nat
    BY <1>1 DEF Settled, Base, PoolInv
  <2>2. /\ Like(r, s) /\ r.inflight = s.inflight - 1 /\ r.in_start = s.in_start
        /\ r.in_dispatch = s.in_dispatch
    BY <2>1, LikeUpdates
  <2>3. Release(r, "close_loop", k, c, p)
    BY <1>1 DEF CloseLoop
  <2>. HIDE DEF r
  <2>4. Base(r, s.inflight, k, c, p, Credits)
    BY <2>2, LikeBase DEF Settled
  <2>5. c.credits \in Nat /\ c.leases \in Nat /\ ~r.completion_mode
    BY <2>2 DEF Settled, Base, PoolInv, Pools, Like
  <2>6. Base(r, r.inflight, k, c, p, Credits - 1)
    BY <1>1, <2>1, <2>2, <2>4, <2>5 DEF Base, PoolInv, ListenerAssumption
  <2>7. Counted(r, k)
    BY <2>2 DEF Settled, Counted
  <2>. QED BY <2>3, <2>5, <2>6, <2>7, ReleaseKeeps DEF Thens
<1>2. CASE ~(s.inflight > 0)
  BY <1>2, FinalizeKeeps DEF CloseLoop
<1>. QED BY <1>1, <1>2

\* What a close leaves: every field but the state.
LEMMA ClosingFields ==
    ASSUME NEW s \in LState, NEW o, o = [s EXCEPT !.state = "CLOSING"]
    PROVE  /\ o \in LState /\ o.state = "CLOSING" /\ Closing(o) /\ o.inflight = s.inflight
           /\ o.completion_mode = s.completion_mode /\ o.window = s.window
           /\ o.pumping = s.pumping /\ o.detached = s.detached
           /\ o.in_start = s.in_start /\ o.in_dispatch = s.in_dispatch
BY DEF LState, Closing

LEMMA ClosingSettled ==
    ASSUME NEW s, NEW k, NEW c, NEW p, Settled(s, k, c, p), s.state # "CLOSED"
    PROVE  s \in LState /\ Settled([s EXCEPT !.state = "CLOSING"], k, c, p)
<1>. DEFINE o == [s EXCEPT !.state = "CLOSING"]
<1>1. s \in LState
  BY DEF Settled, Base, PoolInv
<1>2. /\ o \in LState /\ Closing(o) /\ o.inflight = s.inflight
      /\ o.completion_mode = s.completion_mode /\ o.window = s.window
      /\ o.pumping = s.pumping /\ o.detached = s.detached
      /\ o.in_start = s.in_start /\ o.in_dispatch = s.in_dispatch
  BY <1>1, ClosingFields
<1>. HIDE DEF o
<1>3. PoolInv(o, o.inflight, c, p, Credits)
  BY <1>2 DEF Settled, Base, PoolInv
<1>4. StackInv(o, k)
  BY <1>2 DEF Settled, Base, StackInv
<1>5. Settled(o, k, c, p)
  BY <1>2, <1>3, <1>4 DEF Settled, Base, Counted
<1>. QED BY <1>1, <1>5 DEF o

LEMMA BeginCloseKeeps ==
    ASSUME ListenerAssumption, NEW s \in LState, NEW k, NEW c, NEW p,
           s.state = "CLOSED" => Settled(s, k, c, p),
           s.state # "CLOSED" => Settled([s EXCEPT !.state = "CLOSING"], k, c, p),
           BeginClose(s, k, c, p)
    PROVE  ListenerInv'
<1>. DEFINE o == [s EXCEPT !.state = "CLOSING"]
<1>1. CASE s.state = "CLOSED"
  BY <1>1 DEF BeginClose, ListenerInv
<1>2. CASE s.state # "CLOSED"
  <2>1. Settled(o, k, c, p)
    BY <1>2
  <2>2. /\ o \in LState /\ o.state = "CLOSING" /\ o.inflight = s.inflight
        /\ o.completion_mode = s.completion_mode /\ o.window = s.window
        /\ o.pumping = s.pumping /\ o.detached = s.detached
        /\ o.in_start = s.in_start /\ o.in_dispatch = s.in_dispatch
    BY ClosingFields
  <2>3. \/ Finalize(o, k, c, p)
        \/ /\ s.inflight # 0 /\ ~s.completion_mode
           /\ CloseLoop(o, k, c, [p EXCEPT !.interest = FALSE])
        \/ /\ l' = [o EXCEPT !.accept_cancel_requested = TRUE, !.in_dispatch = @ + 1]
           /\ stack' = Push("cancel", "", k)
           /\ pool' = c /\ prov' = p
    BY <1>2 DEF BeginClose
  <2>. HIDE DEF o
  <2>4. CASE Finalize(o, k, c, p)
    BY <2>1, <2>4, FinalizeKeeps
  <2>5. CASE /\ s.inflight # 0 /\ ~s.completion_mode
             /\ CloseLoop(o, k, c, [p EXCEPT !.interest = FALSE])
    <3>. DEFINE q == [p EXCEPT !.interest = FALSE]
                r == [o EXCEPT !.inflight = @ - 1]
    <3>1. o.inflight = 1 /\ ~o.completion_mode /\ p \in PState
      BY <2>1, <2>2, <2>5 DEF Settled, Base, PoolInv, LState
    <3>2. Release(r, "close_loop", k, c, q)
      BY <2>5, <3>1 DEF CloseLoop
    <3>3. o.inflight - 1 = 0 /\ o.inflight - 1 \in Nat
      BY <3>1
    <3>4. /\ Like(r, o) /\ r.inflight = 0 /\ r.in_start = o.in_start
          /\ r.in_dispatch = o.in_dispatch
      BY <2>2, <3>3, LikeUpdates
    <3>5. q \in PState /\ q.posted = p.posted /\ q.armed = p.armed
      BY <3>1 DEF PState
    <3>. HIDE DEF q, r
    <3>6. Base(r, o.inflight, k, c, p, Credits)
      BY <2>1, <3>4, LikeBase DEF Settled
    <3>7. c.credits \in Nat /\ c.leases \in Nat /\ ~r.completion_mode
      BY <3>1, <3>4, <3>6 DEF Base, PoolInv, Pools, Like
    <3>8. Base(r, r.inflight, k, c, q, Credits - 1)
      BY <3>1, <3>4, <3>5, <3>6, <3>7 DEF Base, PoolInv, ListenerAssumption
    <3>9. Counted(r, k)
      BY <2>1, <3>4 DEF Settled, Counted
    <3>. QED BY <3>2, <3>7, <3>8, <3>9, ReleaseKeeps DEF Thens
  <2>6. CASE /\ l' = [o EXCEPT !.accept_cancel_requested = TRUE, !.in_dispatch = @ + 1]
             /\ stack' = Push("cancel", "", k)
             /\ pool' = c /\ prov' = p
    <3>. DEFINE f == <<"cancel", "">>
                t == [o EXCEPT !.accept_cancel_requested = TRUE]
                r == [t EXCEPT !.in_dispatch = @ + 1]
    <3>1. l' = r /\ stack' = <<f>> \o k /\ pool' = c /\ prov' = p
      BY <2>2, <2>6 DEF Push, LState
    <3>2. /\ Like(t, o) /\ t.inflight = o.inflight /\ t.in_start = o.in_start
          /\ t.in_dispatch = o.in_dispatch
      BY <2>2 DEF LState, Like
    <3>3. f \in Frames /\ f[1] = "cancel"
      BY DEF Frames, Names
    <3>. HIDE DEF f, t
    <3>4. ~PumpFrame(f) /\ f # <<"release", "close_loop">>
      BY <3>3 DEF PumpFrame
    <3>5. Base(t, t.inflight, k, c, p, Credits) /\ Counted(t, k)
      BY <2>1, <3>2, LikeBase DEF Settled, Counted
    <3>6. Base(r, r.inflight, <<f>> \o k, c, p, Credits) /\ Counted(r, <<f>> \o k)
      BY <3>3, <3>4, <3>5, PushSettled
    <3>. QED BY <3>1, <3>6 DEF ListenerInv, Settled
  <2>. QED BY <2>3, <2>4, <2>5, <2>6
<1>. QED BY <1>1, <1>2

-----------------------------------------------------------------------------
(* The pump. *)

LEMMA PendingSettled ==
    ASSUME NEW s, NEW k, NEW c, NEW p, Settled(s, k, c, p), NEW b \in BOOLEAN,
           NEW r, r = [s EXCEPT !.pump_pending = b]
    PROVE  Settled(r, k, c, p) /\ r.state = s.state /\ r \in LState
<1>1. s \in LState
  BY DEF Settled, Base, PoolInv
<1>2. /\ Like(r, s) /\ r.inflight = s.inflight /\ r.in_start = s.in_start
      /\ r.in_dispatch = s.in_dispatch
  BY <1>1, LikeUpdates
<1>3. Base(r, r.inflight, k, c, p, Credits)
  BY <1>2, LikeBase DEF Settled
<1>. QED BY <1>2, <1>3 DEF Settled, Counted, Like

LEMMA PumpLoopKeeps ==
    ASSUME NEW s, NEW k, NEW c, NEW p, Settled(s, k, c, p), ~Has("arm", k), PumpLoop(s, k, c, p)
    PROVE  ListenerInv'
<1>1. CASE BelowWindow(s)
  <2>. DEFINE f == <<"reserve", "">>
              r == [s EXCEPT !.in_dispatch = @ + 1]
  <2>1. l' = r /\ stack' = <<f>> \o k /\ pool' = c /\ prov' = p
    BY <1>1 DEF PumpLoop, Push
  <2>2. /\ s \in LState /\ k \in Seq(Frames) /\ s.in_dispatch \in Int /\ s.in_start \in Int
        /\ s.in_dispatch + 1 \in Int
    BY DEF Settled, Base, PoolInv, LState, StackInv
  <2>3. /\ Like(r, s) /\ r.inflight = s.inflight /\ r.in_start = s.in_start
        /\ r.in_dispatch = s.in_dispatch + 1
    BY <2>2, LikeUpdates
  <2>4. f \in Frames /\ f[1] = "reserve"
    BY DEF Frames, Names
  <2>. HIDE DEF r, f
  <2>5. Base(r, r.inflight, k, c, p, Credits)
    BY <2>3, LikeBase DEF Settled
  <2>6. /\ <<f>> \o k \in Seq(Frames) /\ <<f>> \o k # <<>> /\ Len(<<f>> \o k) = Len(k) + 1
        /\ Len(k) \in Nat /\ Head(<<f>> \o k) = f /\ Tail(<<f>> \o k) = k
    BY <2>2, <2>4, ConsShape
  <2>7. ~Has("arm", <<f>> \o k)
    BY <2>2, <2>4, ConsHas
  <2>8. Counted(r, <<f>> \o k)
    BY <2>2, <2>3, <2>6, <2>7 DEF Settled, Counted
  <2>9. r.state = "LISTENING" /\ r.inflight < r.window
    BY <1>1, <2>3 DEF BelowWindow, Like
  <2>. QED BY <2>1, <2>5, <2>6, <2>8, <2>9 DEF ListenerInv, InReserve, f
<1>2. CASE ~BelowWindow(s)
  <2>1. Settled([s EXCEPT !.pump_pending = FALSE], k, c, p)
    BY PendingSettled
  <2>. QED BY <1>2, <2>1, FinalizeKeeps DEF PumpLoop
<1>. QED BY <1>1, <1>2

LEMMA PumpBreakKeeps ==
    ASSUME NEW s, NEW k, NEW c, NEW p, Settled(s, k, c, p), ~Has("arm", k), PumpBreak(s, k, c, p)
    PROVE  ListenerInv'
<1>1. Settled([s EXCEPT !.pump_pending = FALSE], k, c, p)
  BY PendingSettled
<1>. QED BY <1>1, PumpLoopKeeps, FinalizeKeeps DEF PumpBreak

LEMMA PumpKeeps ==
    ASSUME NEW s, NEW k, NEW c, NEW p, Settled(s, k, c, p), Pump(s, k, c, p)
    PROVE  ListenerInv'
<1>1. CASE s.pumping
  <2>1. Settled([s EXCEPT !.pump_pending = TRUE], k, c, p)
    BY PendingSettled
  <2>. QED BY <1>1, <2>1 DEF Pump, ListenerInv
<1>2. CASE ~s.pumping
  <2>1. Settled([s EXCEPT !.pump_pending = FALSE], k, c, p)
    BY PendingSettled
  <2>2. ~Has("arm", k)
    BY <1>2 DEF Settled, Base, StackInv
  <2>. QED BY <1>2, <2>1, <2>2, PumpLoopKeeps DEF Pump
<1>. QED BY <1>1, <1>2

LEMMA PauseKeeps ==
    ASSUME NEW s, NEW k, NEW c, NEW p, Settled(s, k, c, p)
    PROVE  Settled(Pause(s), k, c, Paused(s, p))
<1>0. s \in LState /\ p \in PState
  BY DEF Settled, Base, PoolInv
<1>1. CASE s.inflight = 0 /\ s.state = "LISTENING"
  <2>. DEFINE r == [s EXCEPT !.state = "PAUSED"]
              q == Paused(s, p)
  <2>1. /\ r \in LState /\ r.state = "PAUSED" /\ r.inflight = 0 /\ r.window = s.window
        /\ r.completion_mode = s.completion_mode /\ r.pumping = s.pumping
        /\ r.detached = s.detached /\ r.in_start = s.in_start /\ r.in_dispatch = s.in_dispatch
    BY <1>0, <1>1 DEF LState
  <2>2. q \in PState /\ q.posted = p.posted /\ q.armed = p.armed
    BY <1>0 DEF Paused, PState
  <2>3. Pause(s) = r
    BY <1>1 DEF Pause
  <2>. HIDE DEF r, q
  <2>4. PoolInv(r, r.inflight, c, q, Credits)
    BY <1>1, <2>1, <2>2 DEF Settled, Base, PoolInv
  <2>5. StackInv(r, k)
    BY <1>1, <2>1 DEF Settled, Base, StackInv, Closing
  <2>6. Settled(r, k, c, q)
    BY <2>1, <2>2, <2>4, <2>5 DEF Settled, Base, Counted
  <2>. QED BY <2>3, <2>6 DEF q
<1>2. CASE ~(s.inflight = 0 /\ s.state = "LISTENING")
  BY <1>2 DEF Pause, Paused
<1>. QED BY <1>1, <1>2

\* The listener starts to listen again, or for the first time.
LEMMA ListeningSettled ==
    ASSUME NEW s, NEW k, NEW c, NEW p, Settled(s, k, c, p), ~Closing(s)
    PROVE  Settled([s EXCEPT !.state = "LISTENING"], k, c, p)
<1>. DEFINE r == [s EXCEPT !.state = "LISTENING"]
<1>1. /\ r \in LState /\ r.state = "LISTENING" /\ r.inflight = s.inflight /\ r.window = s.window
      /\ r.completion_mode = s.completion_mode /\ r.pumping = s.pumping
      /\ r.detached = s.detached /\ r.in_start = s.in_start /\ r.in_dispatch = s.in_dispatch
  BY DEF Settled, Base, PoolInv, LState
<1>. HIDE DEF r
<1>2. PoolInv(r, r.inflight, c, p, Credits)
  BY <1>1 DEF Settled, Base, PoolInv, Closing
<1>3. StackInv(r, k)
  BY <1>1 DEF Settled, Base, StackInv
<1>4. Settled(r, k, c, p)
  BY <1>1, <1>2, <1>3 DEF Settled, Base, Counted
<1>. QED BY <1>4 DEF r

\* The pump flag is dropped once the release of a failed post is over.
LEMMA UnpumpSettled ==
    ASSUME NEW s, NEW k, NEW c, NEW p, Settled(s, k, c, p), ~Has("arm", k)
    PROVE  Settled(AfterArmFailure(s), k, c, p)
<1>. DEFINE r == AfterArmFailure(s)
<1>1. /\ r \in LState /\ r.state = s.state /\ r.inflight = s.inflight /\ r.window = s.window
      /\ r.completion_mode = s.completion_mode
      /\ r.detached = s.detached /\ r.in_start = s.in_start /\ r.in_dispatch = s.in_dispatch
  BY DEF Settled, Base, PoolInv, LState, AfterArmFailure
<1>. HIDE DEF r
<1>2. PoolInv(r, r.inflight, c, p, Credits)
  BY <1>1 DEF Settled, Base, PoolInv
<1>3. StackInv(r, k)
  BY <1>1 DEF Settled, Base, StackInv, Closing
<1>4. Settled(r, k, c, p)
  BY <1>1, <1>2, <1>3 DEF Settled, Base, Counted
<1>. QED BY <1>4 DEF r

-----------------------------------------------------------------------------
(* Where the entry points find the listener. *)

LEMMA IdleSettled ==
    ASSUME ListenerInv, Idle
    PROVE  stack = <<>> /\ Settled(l, stack, pool, prov)
BY DEF ListenerInv, Idle, InReserve, InArm, InClose

LEMMA HeadNames ==
    /\ InReserve => Head(stack)[1] = "reserve"
    /\ InArm => Head(stack)[1] = "arm"
    /\ InClose => Head(stack)[1] = "on_close"
<1>1. \A n : <<n, "">>[1] = n
  OBVIOUS
<1>2. \A f : Head(<<f>>) = f
  OBVIOUS
<1>3. InReserve => Head(stack) = <<"reserve", "">>
  BY DEF InReserve
<1>4. InClose => Head(stack) = <<"on_close", "">>
  BY <1>2, Zenon DEF InClose
<1>. QED BY <1>1, <1>3, <1>4, Zenon DEF InArm

LEMMA TopSettled ==
    ASSUME ListenerInv, Top({"release", "on_accept", "dispose", "cancel"})
    PROVE  Settled(l, stack, pool, prov)
<1>1. Head(stack)[1] \notin {"reserve", "arm", "on_close"}
  BY SMT DEF Top
<1>2. ~InReserve /\ ~InArm /\ ~InClose
  BY <1>1, HeadNames
<1>. QED BY <1>2 DEF ListenerInv

\* An arm hook whose post is not decided.
LEMMA TopUndecided ==
    ASSUME ListenerInv, Top({"arm"}), prov.armed = "none"
    PROVE  InArm
<1>1. Head(stack)[1] = "arm" /\ stack # <<>>
  BY DEF Top
<1>2. ~InReserve /\ ~InClose
  BY <1>1, HeadNames
<1>3. ASSUME Settled(l, stack, pool, prov) PROVE FALSE
  <2>1. stack \in Seq(Frames) /\ ~Has("arm", stack)
    BY <1>3 DEF Settled, Base, StackInv
  <2>. QED BY <1>1, <2>1, TailHas
<1>. QED BY <1>2, <1>3 DEF ListenerInv

\* The open arm hook seen as one frame over the rest of the stack.
LEMMA ArmStack ==
    ASSUME InArm, NEW s, s.pumping, StackInv(s, Tail(stack))
    PROVE  StackInv(s, stack) /\ Has("arm", stack) /\ Len(stack) = Len(Tail(stack)) + 1
<1>1. /\ stack \in Seq(Frames) /\ stack # <<>> /\ Head(stack)[1] = "arm"
      /\ ~Has("arm", Tail(stack))
  BY DEF InArm
<1>2. /\ Head(stack) \in Frames /\ Len(stack) = Len(Tail(stack)) + 1 /\ Has("arm", stack)
  BY <1>1, TailHas
<1>3. stack = <<Head(stack)>> \o Tail(stack)
  BY <1>1
<1>4. Head(stack) # <<"release", "close_loop">>
  BY <1>1
<1>5. StackInv(s, <<Head(stack)>> \o Tail(stack))
  BY <1>1, <1>2, <1>4, ConsStack
<1>. QED BY <1>2, <1>3, <1>5

\* One accept fewer is posted: its credit is in the hands of the caller.
LEMMA AcceptBase ==
    ASSUME ListenerAssumption, ListenerInv, Completes, l.inflight > 0,
           NEW r, r = [l EXCEPT !.inflight = @ - 1]
    PROVE  /\ Base(r, r.inflight, stack, pool, Completed, Credits - 1) /\ Counted(r, stack)
           /\ Completed \in PState /\ r.state = l.state
<1>0. l \in LState /\ prov \in PState /\ l.inflight \in Nat /\ pool \in Pools
  BY DEF ListenerInv, Settled, InReserve, InArm, InClose, Base, PoolInv, LState
<1>1. l.inflight - 1 \in Nat /\ pool.credits \in Nat /\ pool.leases \in Nat
  BY <1>0 DEF Pools
<1>2. /\ Like(r, l) /\ r.inflight = l.inflight - 1 /\ r.in_start = l.in_start
      /\ r.in_dispatch = l.in_dispatch
  BY <1>0, <1>1, LikeUpdates
<1>3. CASE Top({"arm"}) /\ prov.armed = "none"
  <2>1. InArm
    BY <1>3, TopUndecided
  <2>. DEFINE q == [prov EXCEPT !.armed = "done"]
              b == Head(stack)[2]
  <2>2. Completed = q
    BY <1>3 DEF Completed
  <2>3. q \in PState /\ q.posted = prov.posted /\ q.interest = prov.interest /\ q.armed = "done"
    BY <1>0 DEF PState
  <2>. HIDE DEF q, b
  <2>4. Base(l, b, Tail(stack), pool, prov, Credits - 1) /\ l.inflight = b + 1 /\ b \in Nat
    BY <2>1 DEF InArm, b
  <2>5. r.inflight = b /\ r.pumping
    BY <1>2, <2>1, <2>4 DEF InArm, Like
  <2>6. Base(r, b, Tail(stack), pool, prov, Credits - 1)
    BY <1>2, <2>4, LikeBase
  <2>7. StackInv(r, stack)
    BY <2>1, <2>5, <2>6, ArmStack DEF Base
  <2>8. Base(r, b, stack, pool, q, Credits - 1)
    BY <2>3, <2>6, <2>7 DEF Base, PoolInv
  <2>9. Counted(r, stack)
    BY <1>2, <2>1 DEF InArm, Counted
  <2>. QED BY <1>2, <2>2, <2>3, <2>5, <2>8, <2>9 DEF Like
<1>4. CASE ~(Top({"arm"}) /\ prov.armed = "none")
  <2>1. Idle \/ Top({"cancel"})
    BY <1>4 DEF Completes
  <2>2. Settled(l, stack, pool, prov) /\ ~Top({"arm"})
    BY <2>1, IdleSettled, TopSettled DEF Top, Idle
  <2>. DEFINE q == Completed
  <2>3. /\ q \in PState /\ q.interest = prov.interest /\ q.armed = prov.armed
        /\ q.posted = IF l.completion_mode THEN prov.posted - 1 ELSE prov.posted
    <3>1. CASE l.completion_mode
      <4>1. prov.posted \in Nat /\ prov.posted > 0 /\ q = [prov EXCEPT !.posted = @ - 1, !.retry = FALSE]
        BY <1>0, <1>4, <2>2, <3>1 DEF Completes, Completed, PState
      <4>2. prov.posted - 1 \in Nat
        BY <4>1
      <4>. HIDE DEF q
      <4>. QED BY <1>0, <3>1, <4>1, <4>2 DEF PState
    <3>2. CASE ~l.completion_mode
      <4>1. q = [prov EXCEPT !.retry = FALSE]
        BY <2>2, <3>2 DEF Completed
      <4>. HIDE DEF q
      <4>. QED BY <1>0, <3>2, <4>1 DEF PState
    <3>. QED BY <3>1, <3>2
  <2>. HIDE DEF q
  <2>4. Base(r, l.inflight, stack, pool, prov, Credits) /\ Counted(r, stack)
    BY <1>2, <2>2, LikeBase DEF Settled, Counted
  <2>5. prov.posted \in Nat /\ r.completion_mode = l.completion_mode /\ r.window \in Nat
    BY <1>0, <1>2 DEF PState, Like, LState
  <2>6. PoolInv(r, r.inflight, pool, q, Credits - 1)
    <3>1. /\ r \in LState /\ pool.credits + pool.leases + l.inflight = Credits
          /\ l.inflight <= r.window
          /\ r.completion_mode => l.inflight = prov.posted
          /\ ~r.completion_mode => r.window = 1 /\ prov.posted = 0
          /\ ~r.completion_mode /\ l.inflight > 0 => prov.interest
          /\ ~r.detached
      BY <2>4 DEF Base, PoolInv
    <3>2. pool.credits + pool.leases + r.inflight = Credits - 1 /\ r.inflight <= r.window
      BY <1>0, <1>1, <1>2, <2>5, <3>1 DEF ListenerAssumption
    <3>. QED BY <1>0, <1>1, <1>2, <2>3, <2>5, <3>1, <3>2 DEF PoolInv
  <2>7. Base(r, r.inflight, stack, pool, q, Credits - 1)
    BY <2>3, <2>4, <2>6 DEF Base
  <2>. QED BY <1>2, <2>3, <2>4, <2>7 DEF q, Like
<1>. QED BY <1>3, <1>4

-----------------------------------------------------------------------------
(* The entry points. *)

LEMMA StartKeeps == ASSUME ListenerInv, Start PROVE ListenerInv'
<1>1. Idle /\ l.state = "IDLE" /\ Pump([l EXCEPT !.state = "LISTENING"], stack, pool, prov)
  BY DEF Start
<1>2. Settled(l, stack, pool, prov) /\ ~Closing(l)
  BY <1>1, IdleSettled DEF Closing
<1>3. Settled([l EXCEPT !.state = "LISTENING"], stack, pool, prov)
  BY <1>2, ListeningSettled
<1>. QED BY <1>1, <1>3, PumpKeeps

\* held, spurious and retry say nothing of the credits.
LEMMA HeldBase ==
    ASSUME NEW s, NEW x, NEW k, NEW c, NEW p, NEW n, Base(s, x, k, c, p, n),
           NEW q \in PState, q.posted = p.posted, q.interest = p.interest, q.armed = p.armed
    PROVE  Base(s, x, k, c, q, n)
BY DEF Base, PoolInv

LEMMA OnAcceptedKeeps == ASSUME ListenerAssumption, ListenerInv, OnAccepted PROVE ListenerInv'
<1>. DEFINE s == [l EXCEPT !.inflight = @ - 1]
            q == Completed
<1>1. /\ Base(s, s.inflight, stack, pool, q, Credits - 1) /\ Counted(s, stack) /\ q \in PState
  BY AcceptBase DEF OnAccepted
<1>2. CASE Closing(s)
  <2>. DEFINE h == [q EXCEPT !.held = @ + 1]
  <2>1. Release(s, "dispose", stack, pool, h)
    BY <1>2 DEF OnAccepted
  <2>. HIDE DEF s, q
  <2>2. h \in PState /\ h.posted = q.posted /\ h.interest = q.interest /\ h.armed = q.armed
    BY <1>1 DEF PState
  <2>. HIDE DEF h
  <2>3. Base(s, s.inflight, stack, pool, h, Credits - 1)
    BY <1>1, <2>2, HeldBase
  <2>. QED BY <1>1, <2>1, <2>3, ReleaseKeeps DEF Thens
<1>3. CASE ~Closing(s)
  <2>. DEFINE f == <<"on_accept", "">>
              r == [s EXCEPT !.in_dispatch = @ + 1]
              d == [pool EXCEPT !.leases = @ + 1]
  <2>1. l' = r /\ stack' = <<f>> \o stack /\ pool' = d /\ prov' = q
    BY <1>3 DEF OnAccepted, Push
  <2>2. f \in Frames /\ f[1] = "on_accept"
    BY DEF Frames, Names
  <2>. HIDE DEF s, q, f
  <2>3. ~PumpFrame(f) /\ f # <<"release", "close_loop">>
    BY <2>2 DEF PumpFrame
  <2>4. Base(r, r.inflight, <<f>> \o stack, pool, q, Credits - 1) /\ Counted(r, <<f>> \o stack)
    BY <1>1, <2>2, <2>3, PushSettled
  <2>5. pool \in Pools /\ pool.credits \in Nat /\ pool.leases \in Nat
    BY <1>1 DEF Base, PoolInv, Pools
  <2>6. d \in Pools /\ d.credits = pool.credits /\ d.leases = pool.leases + 1
    BY <2>5 DEF Pools
  <2>. HIDE DEF r, d
  <2>7. Base(r, r.inflight, <<f>> \o stack, d, q, Credits)
    BY <2>4, <2>5, <2>6 DEF Base, PoolInv, ListenerAssumption
  <2>. QED BY <2>1, <2>4, <2>7 DEF ListenerInv, Settled
<1>. QED BY <1>2, <1>3

LEMMA OnAcceptFailedKeeps ==
    ASSUME ListenerAssumption, ListenerInv, OnAcceptFailed PROVE ListenerInv'
<1>. DEFINE s == [l EXCEPT !.inflight = @ - 1]
<1>1. Base(s, s.inflight, stack, pool, Completed, Credits - 1) /\ Counted(s, stack)
  BY AcceptBase DEF OnAcceptFailed
<1>2. Release(s, "failed", stack, pool, Completed)
  BY DEF OnAcceptFailed
<1>. HIDE DEF s
<1>. QED BY <1>1, <1>2, ReleaseKeeps DEF Thens

LEMMA SpuriousKeeps == ASSUME ListenerInv, SpuriousAccepted PROVE ListenerInv'
<1>. DEFINE h == [prov EXCEPT !.held = @ + 1, !.spurious = @ + 1]
<1>1. Settled(l, stack, pool, prov) /\ Dispose(l, stack, pool, h)
  BY IdleSettled DEF SpuriousAccepted
<1>2. prov \in PState /\ prov.held + 1 \in Int /\ prov.spurious + 1 \in Nat
  BY <1>1 DEF Settled, Base, PoolInv, PState
<1>3. h \in PState /\ h.posted = prov.posted /\ h.interest = prov.interest /\ h.armed = prov.armed
  BY <1>2 DEF PState
<1>. HIDE DEF h
<1>4. Settled(l, stack, pool, h)
  BY <1>1, <1>3, HeldBase DEF Settled
<1>. QED BY <1>1, <1>4, DisposeKeeps

LEMMA NotifyKeeps ==
    ASSUME NEW c, Settled(l, stack, c, prov), Notify(l, c) PROVE ListenerInv'
<1>. DEFINE q == Announced
<1>0. Settled(l, stack, c, q)
  <2>1. prov \in PState
    BY DEF Settled, Base, PoolInv
  <2>2. q \in PState /\ q.posted = prov.posted /\ q.interest = prov.interest /\ q.armed = prov.armed
    BY <2>1 DEF Announced, PState
  <2>. HIDE DEF q
  <2>. QED BY <2>2, HeldBase DEF Settled
<1>1. CASE l.state = "PAUSED"
  <2>. DEFINE o == [l EXCEPT !.state = "LISTENING"]
  <2>. HIDE DEF q
  <2>1. Settled(o, stack, c, q)
    BY <1>0, <1>1, ListeningSettled DEF Closing
  <2>2. o.state = "LISTENING"
    BY DEF Settled, Base, PoolInv, LState
  <2>3. Pump(o, stack, c, q)
    BY <1>1, <2>2 DEF Notify, q
  <2>. HIDE DEF o
  <2>. QED BY <2>1, <2>3, PumpKeeps
<1>2. CASE l.state = "LISTENING"
  BY <1>0, <1>2, PumpKeeps DEF Notify
<1>3. CASE l.state \notin {"PAUSED", "LISTENING"}
  BY <1>0, <1>3 DEF Notify, ListenerInv
<1>. QED BY <1>1, <1>2, <1>3

LEMMA NotifySlotFreeKeeps == ASSUME ListenerInv, NotifySlotFree PROVE ListenerInv'
<1>1. Settled(l, stack, pool, prov)
  BY IdleSettled, TopSettled DEF NotifySlotFree, Top
<1>. QED BY <1>1, NotifyKeeps DEF NotifySlotFree

LEMMA LeaseReleaseKeeps == ASSUME ListenerInv, LeaseRelease PROVE ListenerInv'
<1>. DEFINE c == [credits |-> pool.credits + 1, leases |-> pool.leases - 1]
<1>1. Settled(l, stack, pool, prov) /\ pool.leases > 0 /\ Notify(l, c)
  BY IdleSettled, TopSettled DEF LeaseRelease, Top
<1>2. pool.credits \in Nat /\ pool.leases \in Nat
  BY <1>1 DEF Settled, Base, PoolInv, Pools
<1>3. c \in Pools /\ c.credits = pool.credits + 1 /\ c.leases = pool.leases - 1
  BY <1>1, <1>2 DEF Pools
<1>. HIDE DEF c
<1>4. l.inflight \in Nat /\ c.credits + c.leases + l.inflight = pool.credits + pool.leases + l.inflight
  BY <1>1, <1>2, <1>3 DEF Settled, Base, PoolInv
<1>5. Settled(l, stack, c, prov)
  BY <1>1, <1>3, <1>4 DEF Settled, Base, PoolInv
<1>. QED BY <1>1, <1>5, NotifyKeeps

LEMMA CloseKeeps == ASSUME ListenerAssumption, ListenerInv, Close PROVE ListenerInv'
<1>1. BeginClose(l, stack, pool, prov) /\ ~l.detached
  BY DEF Close
<1>2. CASE Settled(l, stack, pool, prov)
  <2>1. l \in LState
    BY <1>2 DEF Settled, Base, PoolInv
  <2>. QED BY <1>1, <1>2, <2>1, ClosingSettled, BeginCloseKeeps
<1>3. CASE InReserve
  <2>. DEFINE o == [l EXCEPT !.state = "CLOSING"]
              k == Tail(stack)
  <2>1. /\ stack \in Seq(Frames) /\ stack # <<>> /\ Head(stack)[1] = "reserve"
        /\ Base(l, l.inflight, k, pool, prov, Credits) /\ ~Has("arm", k)
        /\ Counted(l, stack) /\ l.state = "LISTENING"
    BY <1>3, HeadNames DEF InReserve
  <2>2. l \in LState
    BY <2>1 DEF Base, PoolInv
  <2>3. /\ o \in LState /\ o.state = "CLOSING" /\ Closing(o) /\ o.inflight = l.inflight
        /\ o.completion_mode = l.completion_mode /\ o.window = l.window
        /\ o.pumping = l.pumping /\ o.detached = l.detached
        /\ o.in_start = l.in_start /\ o.in_dispatch = l.in_dispatch
    BY <2>2, ClosingFields
  <2>4. Head(stack) \in Frames /\ (Has("arm", stack) <=> Has("arm", k))
    BY <2>1, TailHas
  <2>5. Head(stack) # <<"release", "close_loop">> /\ stack = <<Head(stack)>> \o k
    BY <2>1
  <2>. HIDE DEF o, k
  <2>6. PoolInv(o, o.inflight, pool, prov, Credits)
    BY <1>1, <2>1, <2>3 DEF Base, PoolInv
  <2>7. StackInv(o, k)
    BY <2>1, <2>3 DEF Base, StackInv
  <2>8. StackInv(o, <<Head(stack)>> \o k)
    BY <2>1, <2>3, <2>4, <2>5, <2>7, ConsStack
  <2>9. Settled(o, stack, pool, prov)
    BY <2>1, <2>3, <2>4, <2>5, <2>6, <2>8 DEF Settled, Base, Counted
  <2>. QED BY <1>1, <2>1, <2>2, <2>9, BeginCloseKeeps DEF o
<1>4. ~InArm
  BY HeadNames DEF Close, InArm, Top, Idle
<1>5. ~InClose
  BY <1>1 DEF InClose
<1>. QED BY <1>2, <1>3, <1>4, <1>5 DEF ListenerInv

LEMMA ArmPostKeeps == ASSUME ListenerAssumption, ListenerInv, ArmPost PROVE ListenerInv'
<1>. DEFINE b == Head(stack)[2]
            q == prov'
<1>1. InArm /\ l' = l /\ stack' = stack /\ pool' = pool
  BY TopUndecided DEF ArmPost
<1>2. /\ Base(l, b, Tail(stack), pool, prov, Credits - 1) /\ Counted(l, stack)
      /\ l.pumping /\ l.state = "LISTENING" /\ b \in Nat
      /\ l.inflight = b + 1 /\ l.inflight <= l.window
  BY <1>1 DEF InArm
<1>3. prov \in PState /\ prov.posted \in Nat /\ pool.credits \in Nat /\ pool.leases \in Nat
  BY <1>2 DEF Base, PoolInv, PState, Pools
<1>4. /\ q \in PState /\ q.armed = "posted"
      /\ l.completion_mode => q.posted = prov.posted + 1
      /\ ~l.completion_mode => q.posted = prov.posted /\ q.interest
  <2>1. CASE l.completion_mode
    <3>1. q = [prov EXCEPT !.armed = "posted", !.posted = @ + 1]
      BY <2>1 DEF ArmPost
    <3>2. prov.posted + 1 \in Nat
      BY <1>3
    <3>. HIDE DEF q
    <3>. QED BY <1>3, <2>1, <3>1, <3>2 DEF PState
  <2>2. CASE ~l.completion_mode
    <3>1. q = [prov EXCEPT !.armed = "posted", !.interest = TRUE]
      BY <2>2 DEF ArmPost
    <3>. QED BY <1>3, <2>2, <3>1 DEF PState
  <2>. QED BY <2>1, <2>2
<1>5. StackInv(l, stack)
  BY <1>1, <1>2, ArmStack DEF Base
<1>. HIDE DEF b, q
<1>6. PoolInv(l, l.inflight, pool, q, Credits)
  BY <1>2, <1>3, <1>4 DEF Base, PoolInv, ListenerAssumption
<1>7. Settled(l, stack, pool, q)
  BY <1>2, <1>4, <1>5, <1>6 DEF Settled, Base
<1>. QED BY <1>1, <1>7 DEF ListenerInv, q

-----------------------------------------------------------------------------
(* The hooks return. *)

\* Back from any hook that in_dispatch guards.
LEMMA GuardedSettled ==
    ASSUME ListenerInv, Top({"release", "on_accept", "dispose", "cancel"})
    PROVE  /\ Settled(Guarded, Tail(stack), pool, prov)
           /\ PumpFrame(Head(stack)) => ~Has("arm", Tail(stack))
           /\ Head(stack) = <<"release", "close_loop">> => ~Guarded.completion_mode
           /\ Head(stack) \in Frames
<1>1. /\ Base(l, l.inflight, stack, pool, prov, Credits) /\ Counted(l, stack)
      /\ stack # <<>> /\ Head(stack)[1] # "arm"
  BY TopSettled DEF Settled, Top
<1>2. Guarded = [l EXCEPT !.in_dispatch = @ - 1]
  BY DEF Guarded
<1>3. /\ Base(Guarded, Guarded.inflight, Tail(stack), pool, prov, Credits)
      /\ Counted(Guarded, Tail(stack)) /\ Like(Guarded, l)
      /\ PumpFrame(Head(stack)) => ~Has("arm", Tail(stack))
      /\ Head(stack) = <<"release", "close_loop">> => ~l.completion_mode
  BY <1>1, <1>2, PopSettled
<1>4. Head(stack) \in Frames
  BY <1>1, TailHas DEF Base, StackInv
<1>. QED BY <1>3, <1>4 DEF Settled, Like

LEMMA ReservePop ==
    ASSUME ListenerInv, Top({"reserve"})
    PROVE  /\ Settled(Guarded, Tail(stack), pool, prov) /\ ~Has("arm", Tail(stack))
           /\ Guarded.state = "LISTENING" => Guarded.inflight < Guarded.window
<1>. DEFINE g == Guarded
<1>1. stack # <<>> /\ Head(stack)[1] = "reserve" /\ PumpFrame(Head(stack))
  BY DEF Top, PumpFrame
<1>2. g = [l EXCEPT !.in_dispatch = @ - 1]
  BY DEF Guarded
<1>. HIDE DEF g
<1>3. CASE Settled(l, stack, pool, prov)
  <2>1. Base(l, l.inflight, stack, pool, prov, Credits) /\ Counted(l, stack)
    BY <1>3 DEF Settled
  <2>2. /\ Base(g, g.inflight, Tail(stack), pool, prov, Credits)
        /\ Counted(g, Tail(stack)) /\ Like(g, l) /\ ~Has("arm", Tail(stack))
    BY <1>1, <1>2, <2>1, PopSettled
  <2>3. Closing(l)
    BY <1>1, <2>1, PopStack DEF Base
  <2>4. g.state # "LISTENING"
    BY <2>2, <2>3 DEF Like, Closing
  <2>. QED BY <2>2, <2>4 DEF Settled, g
<1>4. CASE InReserve
  <2>. DEFINE k == Tail(stack)
  <2>1. /\ stack \in Seq(Frames) /\ Base(l, l.inflight, k, pool, prov, Credits)
        /\ ~Has("arm", k) /\ Counted(l, stack)
        /\ l.state = "LISTENING" /\ l.inflight < l.window
    BY <1>4 DEF InReserve
  <2>2. l \in LState /\ l.in_dispatch \in Int /\ l.in_start \in Int /\ l.in_dispatch - 1 \in Int
    BY <2>1 DEF Base, PoolInv, LState
  <2>3. /\ Like(g, l) /\ g.inflight = l.inflight /\ g.in_start = l.in_start
        /\ g.in_dispatch = l.in_dispatch - 1
    BY <1>2, <2>2, LikeUpdates
  <2>4. Base(g, g.inflight, k, pool, prov, Credits)
    BY <2>1, <2>3, LikeBase
  <2>5. /\ Len(k) = Len(stack) - 1 /\ Len(stack) \in Nat /\ ~Has("arm", stack)
    BY <1>1, <2>1, TailHas
  <2>. HIDE DEF k
  <2>6. Counted(g, k)
    <3>1. l.in_start = 0 /\ l.in_dispatch + l.in_start = Len(stack)
      BY <2>1, <2>5 DEF Counted
    <3>2. g.in_start = 0 /\ g.in_dispatch + g.in_start = Len(k)
      BY <2>2, <2>3, <2>5, <3>1
    <3>. QED BY <2>1, <3>2 DEF Counted
  <2>7. g.inflight < g.window
    BY <2>1, <2>3 DEF Like
  <2>. QED BY <2>1, <2>4, <2>6, <2>7 DEF Settled, g, k
<1>5. ~InArm /\ ~InClose
  BY <1>1, HeadNames
<1>. QED BY <1>3, <1>4, <1>5 DEF ListenerInv

\* The listener with one more accept counted, and the arm hook open.
LEMMA ArmFields ==
    ASSUME NEW s \in LState, NEW r,
           r = [s EXCEPT !.inflight = @ + 1, !.pumping = TRUE, !.in_start = @ + 1]
    PROVE  /\ r \in LState /\ r.inflight = s.inflight + 1 /\ r.pumping
           /\ r.in_start = s.in_start + 1 /\ r.state = s.state /\ r.window = s.window
           /\ r.completion_mode = s.completion_mode /\ r.detached = s.detached
           /\ r.in_dispatch = s.in_dispatch
<1>. DEFINE t == [s EXCEPT !.inflight = @ + 1]
            u == [t EXCEPT !.pumping = TRUE]
<1>1. s.inflight + 1 \in Nat /\ s.in_start + 1 \in Int
  BY DEF LState
<1>2. /\ t \in LState /\ t.inflight = s.inflight + 1
      /\ t.in_start = s.in_start /\ t.state = s.state /\ t.window = s.window
      /\ t.completion_mode = s.completion_mode /\ t.detached = s.detached
      /\ t.in_dispatch = s.in_dispatch
  BY <1>1 DEF LState
<1>3. r = [u EXCEPT !.in_start = @ + 1]
  BY DEF LState
<1>. HIDE DEF t
<1>4. /\ u \in LState /\ u.inflight = t.inflight /\ u.pumping
      /\ u.in_start = t.in_start /\ u.state = t.state /\ u.window = t.window
      /\ u.completion_mode = t.completion_mode /\ u.detached = t.detached
      /\ u.in_dispatch = t.in_dispatch
  BY <1>2 DEF LState
<1>. HIDE DEF u
<1>5. u.in_start + 1 \in Int
  BY <1>1, <1>2, <1>4
<1>. QED BY <1>2, <1>3, <1>4, <1>5 DEF LState

LEMMA CreditTaken ==
    ASSUME ListenerAssumption, NEW d \in Pools, NEW c, c.credits = d.credits - 1,
           c.leases = d.leases, NEW x \in Nat, d.credits + d.leases + x = Credits
    PROVE  c.credits + c.leases + x = Credits - 1
BY DEF ListenerAssumption, Pools

\* A credit in hand: the accept it pays for is about to be posted.
LEMMA ArmOpens ==
    ASSUME ListenerAssumption, NEW s, NEW k, NEW d, NEW p, Settled(s, k, d, p), ~Has("arm", k),
           s.state = "LISTENING", s.inflight < s.window, d.credits > 0,
           NEW r \in LState, r.inflight = s.inflight + 1, r.pumping, r.in_start = s.in_start + 1,
           r.state = s.state, r.window = s.window, r.completion_mode = s.completion_mode,
           r.detached = s.detached, r.in_dispatch = s.in_dispatch,
           NEW f \in Frames, f[1] = "arm", f[2] = s.inflight,
           NEW c \in Pools, c.credits = d.credits - 1, c.leases = d.leases,
           NEW q \in PState, q.posted = p.posted, q.interest = p.interest, q.armed = "none",
           l' = r, stack' = <<f>> \o k, pool' = c, prov' = q
    PROVE  ListenerInv'
<1>1. /\ s \in LState /\ s.inflight \in Nat /\ s.in_start \in Int /\ s.in_dispatch \in Int
      /\ s.window \in Nat /\ p \in PState /\ d \in Pools /\ d.credits \in Nat
      /\ d.leases \in Nat /\ k \in Seq(Frames) /\ d.credits - 1 \in Nat
      /\ s.in_start = 0 /\ s.in_dispatch + s.in_start = Len(k)
  BY DEF Settled, Base, PoolInv, StackInv, LState, Pools, Counted
<1>2. /\ <<f>> \o k \in Seq(Frames) /\ <<f>> \o k # <<>> /\ Len(<<f>> \o k) = Len(k) + 1
      /\ Len(k) \in Nat /\ Head(<<f>> \o k) = f /\ Tail(<<f>> \o k) = k
  BY <1>1, ConsShape
<1>3. Has("arm", <<f>> \o k)
  BY <1>1, ConsHas
<1>4. Counted(r, <<f>> \o k)
  <2>1. r.in_start = 1 /\ r.in_dispatch + r.in_start = Len(<<f>> \o k)
    BY <1>1, <1>2
  <2>. QED BY <1>3, <2>1 DEF Counted
<1>5. PoolInv(r, s.inflight, c, q, Credits - 1)
  <2>1. /\ d.credits + d.leases + s.inflight = Credits /\ s.inflight <= s.window
        /\ s.completion_mode => s.inflight = p.posted
        /\ ~s.completion_mode => s.window = 1 /\ p.posted = 0
        /\ ~s.completion_mode /\ s.inflight > 0 => p.interest
        /\ ~s.detached
    BY DEF Settled, Base, PoolInv
  <2>2. c.credits + c.leases + s.inflight = Credits - 1
    BY <1>1, <2>1, CreditTaken
  <2>. QED BY <1>1, <2>1, <2>2 DEF PoolInv
<1>6. StackInv(r, k)
  BY DEF Settled, Base, StackInv, Closing
<1>7. Base(r, s.inflight, k, c, q, Credits - 1)
  BY <1>5, <1>6 DEF Base
<1>8. r.inflight <= r.window
  BY <1>1
<1>9. Head(stack')[1] = "arm" /\ Head(stack')[2] = s.inflight
  BY <1>2
<1>10. InArm'
  BY <1>1, <1>2, <1>4, <1>7, <1>8, <1>9 DEF InArm
<1>. QED BY <1>10 DEF ListenerInv

LEMMA ReserveReturnKeeps ==
    ASSUME ListenerAssumption, ListenerInv, NEW v \in {-1, 0, 1}, ReserveReturn(v)
    PROVE  ListenerInv'
<1>. DEFINE s == Guarded
            k == Tail(stack)
            c == [pool EXCEPT !.credits = @ - 1]
<1>1. /\ Settled(s, k, pool, prov) /\ ~Has("arm", k)
      /\ s.state = "LISTENING" => s.inflight < s.window
  BY ReservePop DEF ReserveReturn
<1>2. /\ v = 1 => pool.credits > 0
      /\ v = -1 => BeginClose([s EXCEPT !.pump_pending = FALSE], k, pool, prov)
      /\ v = 1 /\ s.state # "LISTENING" => Release(s, "break", k, c, prov)
      /\ v = 0 /\ s.state # "LISTENING" => PumpBreak(s, k, pool, prov)
      /\ v = 0 /\ s.state = "LISTENING" => PumpBreak(Pause(s), k, pool, Paused(s, prov))
  BY DEF ReserveReturn
<1>2a. v = 1 /\ s.state = "LISTENING" =>
            /\ l' = [s EXCEPT !.inflight = @ + 1, !.pumping = TRUE, !.in_start = @ + 1]
            /\ stack' = Push("arm", s.inflight, k)
            /\ pool' = c
            /\ prov' = [prov EXCEPT !.armed = "none", !.retry = FALSE]
  BY DEF ReserveReturn
<1>. HIDE DEF s, k
<1>3. CASE v = -1
  <2>. DEFINE r == [s EXCEPT !.pump_pending = FALSE]
  <2>1. Settled(r, k, pool, prov) /\ r \in LState
    BY <1>1, PendingSettled
  <2>2. BeginClose(r, k, pool, prov)
    BY <1>2, <1>3
  <2>. HIDE DEF r
  <2>. QED BY <2>1, <2>2, ClosingSettled, BeginCloseKeeps
<1>4. CASE v = 0 /\ s.state # "LISTENING"
  BY <1>1, <1>2, <1>4, PumpBreakKeeps
<1>5. CASE v = 0 /\ s.state = "LISTENING"
  <2>1. Settled(Pause(s), k, pool, Paused(s, prov))
    BY <1>1, PauseKeeps
  <2>. QED BY <1>1, <1>2, <1>5, <2>1, PumpBreakKeeps
<1>6. CASE v = 1
  <2>1. /\ pool \in Pools /\ pool.credits \in Nat /\ pool.leases \in Nat /\ pool.credits > 0
        /\ s \in LState /\ s.inflight \in Nat /\ prov \in PState
    BY <1>1, <1>2, <1>6 DEF Settled, Base, PoolInv, Pools
  <2>2. pool.credits - 1 \in Nat
    BY <2>1
  <2>3. c \in Pools /\ c.credits = pool.credits - 1 /\ c.leases = pool.leases
    BY <2>1, <2>2 DEF Pools
  <2>. HIDE DEF c
  <2>4. CASE s.state # "LISTENING"
    <3>2. c.credits + c.leases + s.inflight = Credits - 1
      <4>1. pool.credits + pool.leases + s.inflight = Credits
        BY <1>1 DEF Settled, Base, PoolInv
      <4>. QED BY <2>1, <2>3, <4>1, CreditTaken
    <3>3. Base(s, s.inflight, k, c, prov, Credits - 1)
      BY <1>1, <2>3, <3>2 DEF Settled, Base, PoolInv
    <3>4. Counted(s, k) /\ Release(s, "break", k, c, prov)
      BY <1>1, <1>2, <1>6, <2>4 DEF Settled
    <3>. QED BY <1>1, <3>3, <3>4, ReleaseKeeps DEF Thens
  <2>5. CASE s.state = "LISTENING"
    <3>. DEFINE f == <<"arm", s.inflight>>
                q == [prov EXCEPT !.armed = "none", !.retry = FALSE]
    <3>0. l' = [s EXCEPT !.inflight = @ + 1, !.pumping = TRUE, !.in_start = @ + 1]
      BY <1>6, <1>2a, <2>5
    <3>1. stack' = <<f>> \o k /\ pool' = c /\ prov' = q
      BY <1>6, <1>2a, <2>5 DEF Push
    <3>2. f \in Frames /\ f[1] = "arm" /\ f[2] = s.inflight
      BY <2>1 DEF Frames
    <3>3. q \in PState /\ q.posted = prov.posted /\ q.interest = prov.interest /\ q.armed = "none"
      BY <2>1 DEF PState
    <3>. HIDE DEF f, q
    <3>4. PICK r : r = [s EXCEPT !.inflight = @ + 1, !.pumping = TRUE, !.in_start = @ + 1]
      OBVIOUS
    <3>5. /\ r \in LState /\ r.inflight = s.inflight + 1 /\ r.pumping
          /\ r.in_start = s.in_start + 1 /\ r.state = s.state /\ r.window = s.window
          /\ r.completion_mode = s.completion_mode /\ r.detached = s.detached
          /\ r.in_dispatch = s.in_dispatch
      BY <2>1, <3>4, ArmFields
    <3>6. l' = r /\ s.inflight < s.window
      BY <1>1, <2>5, <3>0, <3>4
    <3>. QED BY <1>1, <2>1, <2>3, <2>5, <3>1, <3>2, <3>3, <3>5, <3>6, ArmOpens
  <2>. QED BY <2>4, <2>5
<1>. QED BY <1>3, <1>4, <1>5, <1>6

LEMMA ArmReturnKeeps ==
    ASSUME ListenerAssumption, ListenerInv, NEW rc \in {"ok", "retry", "hard"}, ArmReturn(rc)
    PROVE  ListenerInv'
<1>. DEFINE b == Head(stack)[2]
            k == Tail(stack)
            s == [l EXCEPT !.in_start = @ - 1, !.pumping = FALSE]
<1>1. stack # <<>> /\ Head(stack)[1] = "arm" /\ PumpFrame(Head(stack))
  BY DEF ArmReturn, Top, PumpFrame
<1>2. CASE prov.armed # "none"
  <2>1. rc = "ok" /\ PumpLoop(s, k, pool, prov)
    BY <1>2 DEF ArmReturn, Posted
  <2>2. Settled(l, stack, pool, prov)
    BY <1>1, <1>2, HeadNames DEF ListenerInv, InArm
  <2>3. /\ l \in LState /\ stack \in Seq(Frames) /\ StackInv(l, stack) /\ Counted(l, stack)
        /\ l.in_start \in Int /\ l.in_dispatch \in Int /\ l.in_start - 1 \in Int
    BY <2>2 DEF Settled, Base, PoolInv, StackInv, LState
  <2>4. StackInv(l, k) /\ ~Has("arm", k)
    BY <1>1, <2>3, PopStack
  <2>5. Has("arm", stack) /\ Len(k) = Len(stack) - 1 /\ Len(stack) \in Nat
    BY <1>1, <2>3, TailHas
  <2>6. /\ s \in LState /\ s.in_start = l.in_start - 1 /\ s.in_dispatch = l.in_dispatch
        /\ s.inflight = l.inflight /\ s.state = l.state /\ s.window = l.window
        /\ s.completion_mode = l.completion_mode /\ s.detached = l.detached
    BY <2>3 DEF LState
  <2>. HIDE DEF s, k
  <2>7. StackInv(s, k)
    BY <2>4, <2>6 DEF StackInv, Closing
  <2>8. PoolInv(s, s.inflight, pool, prov, Credits)
    BY <2>2, <2>6 DEF Settled, Base, PoolInv
  <2>9. Counted(s, k)
    <3>1. l.in_start = 1 /\ l.in_dispatch + l.in_start = Len(stack)
      BY <2>3, <2>5 DEF Counted
    <3>2. s.in_start = 0 /\ s.in_dispatch + s.in_start = Len(k)
      BY <2>3, <2>5, <2>6, <3>1
    <3>. QED BY <2>4, <3>2 DEF Counted
  <2>10. Settled(s, k, pool, prov)
    BY <2>4, <2>7, <2>8, <2>9 DEF Settled, Base
  <2>. QED BY <2>1, <2>4, <2>10, PumpLoopKeeps
<1>3. CASE prov.armed = "none"
  <2>. DEFINE r == [l EXCEPT !.in_start = @ - 1, !.inflight = b]
              q == [prov EXCEPT !.retry = rc = "retry"]
  <2>1. InArm /\ rc \in {"retry", "hard"}
    BY <1>3, TopUndecided DEF ArmReturn
  <2>2. /\ stack \in Seq(Frames) /\ b \in Nat /\ Counted(l, stack)
        /\ Base(l, b, k, pool, prov, Credits - 1) /\ ~Has("arm", k)
        /\ l.pumping /\ l.inflight = b + 1
    BY <2>1 DEF InArm
  <2>3. /\ l \in LState /\ l.in_start \in Int /\ l.in_dispatch \in Int /\ l.in_start - 1 \in Int
        /\ prov \in PState
    BY <2>2 DEF Base, PoolInv, LState
  <2>4. Release([s EXCEPT !.inflight = b, !.pumping = TRUE], rc, k, pool, q)
    <3>1. s.inflight = l.inflight /\ l.inflight # b
      BY <2>2, <2>3 DEF LState
    <3>. QED BY <2>1, <3>1 DEF ArmReturn, Posted
  <2>5. [s EXCEPT !.inflight = b, !.pumping = TRUE] = r
    BY <2>2, <2>3 DEF LState
  <2>6. /\ Like(r, l) /\ r.inflight = b /\ r.in_start = l.in_start - 1
        /\ r.in_dispatch = l.in_dispatch
    BY <2>2, <2>3 DEF LState, Like
  <2>7. q \in PState /\ q.posted = prov.posted /\ q.interest = prov.interest /\ q.armed = prov.armed
    BY <2>3 DEF PState
  <2>8. Has("arm", stack) /\ Len(k) = Len(stack) - 1 /\ Len(stack) \in Nat
    BY <1>1, <2>2, TailHas
  <2>9. Release(r, rc, k, pool, q)
    BY <2>4, <2>5
  <2>. HIDE DEF r, q, s, k, b
  <2>10. Base(r, r.inflight, k, pool, q, Credits - 1)
    BY <2>2, <2>6, <2>7, LikeBase, HeldBase
  <2>11. Counted(r, k)
    <3>1. l.in_start = 1 /\ l.in_dispatch + l.in_start = Len(stack)
      BY <2>2, <2>8 DEF Counted
    <3>2. r.in_start = 0 /\ r.in_dispatch + r.in_start = Len(k)
      BY <2>3, <2>6, <2>8, <3>1
    <3>. QED BY <2>2, <3>2 DEF Counted
  <2>. QED BY <2>1, <2>2, <2>9, <2>10, <2>11, ReleaseKeeps DEF Thens
<1>. QED BY <1>2, <1>3

LEMMA ReleaseReturnKeeps ==
    ASSUME ListenerAssumption, ListenerInv, ReleaseReturn PROVE ListenerInv'
<1>. DEFINE s == Guarded
            k == Tail(stack)
            f == AfterArmFailure(s)
            then == Head(stack)[2]
<1>1. /\ Settled(s, k, pool, prov) /\ Head(stack)[1] = "release" /\ Head(stack) \in Frames
      /\ PumpFrame(Head(stack)) => ~Has("arm", k)
      /\ Head(stack) = <<"release", "close_loop">> => ~s.completion_mode
  BY GuardedSettled DEF ReleaseReturn, Top
<1>2. /\ then \in {"break", "retry", "hard"} => ~Has("arm", k)
      /\ then = "close_loop" => ~s.completion_mode
  <2>1. \A g \in Frames : g[1] = "release" => g \in {"release"} \X Thens
    BY DEF Frames, Names
  <2>2. \A g \in {"release"} \X Thens : g = <<"release", g[2]>>
    OBVIOUS
  <2>3. Head(stack) = <<"release", then>>
    BY <1>1, <2>1, <2>2, Zenon
  <2>4. Head(stack)[2] = then
    OBVIOUS
  <2>. HIDE DEF then, s, k
  <2>5. then \in {"break", "retry", "hard"} => PumpFrame(Head(stack))
    BY <1>1, <2>4, Zenon DEF PumpFrame
  <2>6. then = "close_loop" => Head(stack) = <<"release", "close_loop">>
    BY <2>3, Zenon
  <2>. QED BY <1>1, <2>5, <2>6, Zenon
<1>3. then \in Thens
  <2>1. \A g \in Frames : g[1] = "release" => g[2] \in Thens
    BY DEF Frames, Names
  <2>. QED BY <1>1, <2>1
<1>4. /\ then = "failed" =>
             IF Closing(s) THEN Finalize(s, k, pool, prov) ELSE Pump(s, k, pool, prov)
      /\ then = "dispose" => Dispose(s, k, pool, prov)
      /\ then = "close_loop" => CloseLoop(s, k, pool, prov)
      /\ then = "break" => PumpBreak(s, k, pool, prov)
      /\ then = "retry" => PumpBreak(Pause(f), k, pool, Paused(f, prov))
      /\ then = "hard" => BeginClose(f, k, pool, prov)
  BY DEF ReleaseReturn
<1>. HIDE DEF s, k, then
<1>5. CASE then = "failed"
  BY <1>1, <1>4, <1>5, FinalizeKeeps, PumpKeeps
<1>6. CASE then = "dispose"
  BY <1>1, <1>4, <1>6, DisposeKeeps
<1>7. CASE then = "close_loop"
  BY <1>1, <1>2, <1>4, <1>7, CloseLoopKeeps
<1>8. CASE then = "break"
  BY <1>1, <1>2, <1>4, <1>8, PumpBreakKeeps
<1>9. CASE then = "retry"
  <2>1. Settled(f, k, pool, prov) /\ ~Has("arm", k)
    BY <1>1, <1>2, <1>9, UnpumpSettled
  <2>. HIDE DEF f
  <2>2. Settled(Pause(f), k, pool, Paused(f, prov))
    BY <2>1, PauseKeeps
  <2>. QED BY <1>4, <1>9, <2>1, <2>2, PumpBreakKeeps
<1>10. CASE then = "hard"
  <2>1. Settled(f, k, pool, prov)
    BY <1>1, <1>2, <1>10, UnpumpSettled
  <2>. HIDE DEF f
  <2>2. f \in LState
    BY <2>1 DEF Settled, Base, PoolInv
  <2>. QED BY <1>4, <1>10, <2>1, <2>2, ClosingSettled, BeginCloseKeeps
<1>. QED BY <1>3, <1>5, <1>6, <1>7, <1>8, <1>9, <1>10 DEF Thens

LEMMA OtherReturnsKeep ==
    ASSUME ListenerInv, OnAcceptReturn \/ DisposeReturn \/ CancelReturn PROVE ListenerInv'
<1>1. Settled(Guarded, Tail(stack), pool, prov)
  BY GuardedSettled DEF OnAcceptReturn, DisposeReturn, CancelReturn, Top
<1>. QED BY <1>1, PumpKeeps, FinalizeKeeps DEF OnAcceptReturn, DisposeReturn, CancelReturn

LEMMA CloseReturnKeeps == ASSUME ListenerInv, CloseReturn PROVE ListenerInv'
<1>1. Head(stack)[1] = "on_close" /\ stack # <<>>
  BY DEF CloseReturn, Top
<1>2. ~InReserve /\ ~InArm
  BY <1>1, HeadNames
<1>3. ASSUME Settled(l, stack, pool, prov) PROVE FALSE
  <2>1. stack \in Seq(Frames) /\ ~Has("on_close", stack)
    BY <1>3 DEF Settled, Base, StackInv
  <2>. QED BY <1>1, <2>1, TailHas
<1>4. InClose
  BY <1>2, <1>3 DEF ListenerInv
<1>5. \A g : Tail(<<g>>) = <<>>
  OBVIOUS
<1>6. stack' = <<>> /\ l' = l /\ pool' = pool /\ prov' = prov
  BY <1>4, <1>5, Zenon DEF CloseReturn, InClose
<1>7. Settled(l, <<>>, pool, prov)
  BY <1>4 DEF InClose
<1>. QED BY <1>6, <1>7 DEF ListenerInv

\* A listener that kl_listener_init has just set up.
LEMMA FreshSettled ==
    ASSUME ListenerAssumption, NEW m \in Modes, NEW c \in Pools, c.credits + c.leases = Credits,
           NEW s, s = InitListener(m[1], m[2], m[3])
    PROVE  Settled(s, <<>>, c, InitProv)
<1>1. m[1] \in BOOLEAN /\ m[2] \in 1..MaxWindow /\ m[3] \in BOOLEAN /\ (m[1] \/ m[2] = 1)
  BY DEF Modes
<1>2. /\ s \in LState /\ s.state = "IDLE" /\ s.completion_mode = m[1] /\ s.window = m[2]
      /\ s.inflight = 0 /\ s.in_start = 0 /\ s.in_dispatch = 0 /\ ~s.detached
  BY <1>1 DEF InitListener, LState, ListenerAssumption
<1>3. InitProv \in PState /\ InitProv.posted = 0
  BY DEF InitProv, PState
<1>4. PoolInv(s, s.inflight, c, InitProv, Credits)
  <2>1. c.credits \in Nat /\ c.leases \in Nat
    BY DEF Pools
  <2>2. c.credits + c.leases + s.inflight = Credits
    BY <1>2, <2>1 DEF ListenerAssumption
  <2>. QED BY <1>1, <1>2, <1>3, <2>2 DEF PoolInv, ListenerAssumption
<1>5. Counted(s, <<>>)
  <2>1. ~Has("arm", <<>>) /\ Len(<<>>) = 0
    BY EmptyStack
  <2>. QED BY <1>2, <2>1 DEF Counted
<1>6. StackInv(s, <<>>) /\ ~Has("arm", <<>>)
  BY EmptyStack
<1>. QED BY <1>4, <1>5, <1>6 DEF Settled, Base

LEMMA ReuseKeeps == ASSUME ListenerAssumption, ListenerInv, Reuse PROVE ListenerInv'
<1>1. stack = <<>> /\ Settled(l, stack, pool, prov) /\ l.detached
  BY IdleSettled DEF Reuse
<1>2. pool \in Pools /\ pool.credits + pool.leases = Credits
  BY <1>1 DEF Settled, Base, PoolInv, Pools
<1>3. PICK m \in Modes : l' = InitListener(m[1], m[2], m[3])
  BY DEF Reuse
<1>4. Settled(l', <<>>, pool, InitProv)
  BY <1>2, <1>3, FreshSettled
<1>5. stack' = <<>> /\ pool' = pool /\ prov' = InitProv
  BY <1>1 DEF Reuse
<1>. QED BY <1>4, <1>5 DEF ListenerInv

-----------------------------------------------------------------------------
(* The theorems. *)

\* listener.c keeps its account between any two hooks: the invariant of every step.
THEOREM ListenerInvariant == ASSUME ListenerAssumption PROVE Spec => []ListenerInv
<1>1. Init => ListenerInv
  <2>. SUFFICES ASSUME Init PROVE ListenerInv
    OBVIOUS
  <2>1. PICK m \in Modes : l = InitListener(m[1], m[2], m[3])
    BY DEF Init
  <2>2. /\ stack = <<>> /\ prov = InitProv /\ pool = [credits |-> Credits, leases |-> 0]
    BY DEF Init
  <2>3. pool \in Pools /\ pool.credits + pool.leases = Credits
    BY <2>2 DEF Pools, ListenerAssumption
  <2>. QED BY <2>1, <2>2, <2>3, FreshSettled DEF ListenerInv
<1>2. ListenerInv /\ [Next]_vars => ListenerInv'
  <2>. SUFFICES ASSUME ListenerInv, [Next]_vars PROVE ListenerInv'
    OBVIOUS
  <2>1. CASE Start
    BY <2>1, StartKeeps
  <2>2. CASE Accepts
    BY <2>2, OnAcceptedKeeps, OnAcceptFailedKeeps DEF Accepts
  <2>3. CASE SpuriousAccepted
    BY <2>3, SpuriousKeeps
  <2>4. CASE NotifySlotFree
    BY <2>4, NotifySlotFreeKeeps
  <2>5. CASE LeaseRelease
    BY <2>5, LeaseReleaseKeeps
  <2>6. CASE Close
    BY <2>6, CloseKeeps
  <2>7. CASE ArmPost
    BY <2>7, ArmPostKeeps
  <2>8. CASE Returns
    BY <2>8, ReserveReturnKeeps, ArmReturnKeeps, ReleaseReturnKeeps, OtherReturnsKeep,
       CloseReturnKeeps DEF Returns
  <2>9. CASE Reuse
    BY <2>9, ReuseKeeps
  <2>10. CASE UNCHANGED vars
    BY <2>10 DEF vars, ListenerInv, Settled, InReserve, InArm, InClose
  <2>. QED BY <2>1, <2>2, <2>3, <2>4, <2>5, <2>6, <2>7, <2>8, <2>9, <2>10 DEF Next
<1>. QED BY <1>1, <1>2, PTL DEF Spec

\* No path of l_pump, l_on_accepted, on_accept_failed or l_begin_close loses or doubles a
\* credit, for any pool, any accept window and any nesting of the hooks.
THEOREM ListenerCreditsConserved == ASSUME ListenerAssumption PROVE Spec => []CreditsConserved
<1>1. ListenerInv => CreditsConserved
  <2>. SUFFICES ASSUME ListenerInv PROVE CreditsConserved
    OBVIOUS
  <2>1. CASE Settled(l, stack, pool, prov)
    BY <2>1 DEF Settled, Base, PoolInv, CreditsConserved
  <2>2. CASE InReserve
    BY <2>2 DEF InReserve, Base, PoolInv, CreditsConserved, Idle
  <2>3. CASE InArm
    <3>1. /\ l.inflight = Head(stack)[2] + 1 /\ Head(stack)[2] \in Nat /\ stack # <<>>
          /\ pool.credits + pool.leases + Head(stack)[2] = Credits - 1
          /\ pool.credits \in Nat /\ pool.leases \in Nat
      BY <2>3 DEF InArm, Base, PoolInv, Pools
    <3>2. \A w, x, y, z \in Int : x + y + z = w - 1 => x + y + (z + 1) = w
      OBVIOUS
    <3>3. pool.credits + pool.leases + l.inflight = Credits
      BY <3>1, <3>2 DEF ListenerAssumption
    <3>. QED BY <3>1, <3>3 DEF CreditsConserved, Idle
  <2>4. CASE InClose
    BY <2>4 DEF InClose, Settled, Base, PoolInv, CreditsConserved, Idle
  <2>. QED BY <2>1, <2>2, <2>3, <2>4 DEF ListenerInv
<1>. QED BY <1>1, ListenerInvariant, PTL

\* l_finalize reports the close only after every posted accept has retired.
THEOREM ListenerDetachedIsRetired == ASSUME ListenerAssumption PROVE Spec => []DetachedIsRetired
<1>1. ListenerInv => DetachedIsRetired
  BY DEF ListenerInv, Settled, InReserve, InArm, InClose, Base, PoolInv, DetachedIsRetired
<1>. QED BY <1>1, ListenerInvariant, PTL

\* in_start and in_dispatch keep l_finalize from running on_close on top of another hook.
THEOREM ListenerDetachNotMidCallback ==
    ASSUME ListenerAssumption PROVE Spec => []DetachNotMidCallback
<1>1. ListenerInv => DetachNotMidCallback
  <2>. SUFFICES ASSUME ListenerInv PROVE DetachNotMidCallback
    OBVIOUS
  <2>1. CASE Settled(l, stack, pool, prov)
    BY <2>1 DEF Settled, Base, StackInv, Has, DetachNotMidCallback
  <2>2. CASE InReserve \/ InArm
    <3>1. /\ stack \in Seq(Frames) /\ stack # <<>> /\ ~Has("on_close", Tail(stack))
          /\ Head(stack)[1] # "on_close"
      BY <2>2, HeadNames DEF InReserve, InArm, Base, StackInv
    <3>2. ~Has("on_close", stack)
      BY <3>1, TailHas
    <3>. QED BY <3>2 DEF Has, DetachNotMidCallback
  <2>3. CASE InClose
    <3>1. \A g : Len(<<g>>) = 1
      OBVIOUS
    <3>2. Len(stack) = 1
      BY <2>3, <3>1, Zenon DEF InClose
    <3>. QED BY <3>2 DEF DetachNotMidCallback
  <2>. QED BY <2>1, <2>2, <2>3 DEF ListenerInv
<1>. QED BY <1>1, ListenerInvariant, PTL
=============================================================================
