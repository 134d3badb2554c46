---------------------------- MODULE DrainProofs -----------------------------
(***************************************************************************)
(* Proofs about the drain for every limit, capacity and write size: bytes  *)
(* leave in order and without a gap, and what is held fits the buffer.     *)
(*                                                                         *)
(* The argument: `wire' counts up from 1 and `buf' goes on where it ends,  *)
(* even after a failure; only the bytes of the failed write are missing at *)
(* the end.                                                                *)
(***************************************************************************)
EXTENDS Drain, SequenceTheorems, TLAPS

\* The numbers that follow k.
Run(s, k) == s \in Seq(Nat) /\ \A i \in 1..Len(s) : s[i] = k + i

\* Two parts of one run from 1.
Cut(w, f) == Run(w, 0) /\ Run(f, Len(w))

States == [buf : Seq(Nat), cap : Nat, error : BOOLEAN, wire : Seq(Nat)]

\* A drain that has been offered t bytes.
Good(d, t) ==
    /\ d \in States
    /\ Cut(d.wire, d.buf)
    /\ ~d.error => Len(d.wire) + Len(d.buf) = t
    /\ Len(d.buf) <= d.cap /\ d.cap <= SizeMax
    /\ MaxSize > 0 => d.cap <= MaxSize

DrainInv == Good(Self, taken) /\ taken \in Nat

-----------------------------------------------------------------------------
(* Sequences of consecutive numbers. *)

LEMMA RunCat ==
    ASSUME NEW k \in Nat, NEW s, NEW t, Run(s, k), Run(t, k + Len(s))
    PROVE  Run(s \o t, k) /\ Len(s \o t) = Len(s) + Len(t)
<1>1. /\ s \in Seq(Nat) /\ t \in Seq(Nat) /\ Len(s) \in Nat /\ Len(t) \in Nat
      /\ s \o t \in Seq(Nat) /\ Len(s \o t) = Len(s) + Len(t)
  BY DEF Run
<1>2. ASSUME NEW i \in 1..Len(s \o t) PROVE (s \o t)[i] = k + i
  <2>1. CASE i <= Len(s)
    BY <1>1, <2>1 DEF Run
  <2>2. CASE i > Len(s)
    <3>1. i - Len(s) \in 1..Len(t) /\ (s \o t)[i] = t[i - Len(s)]
      BY <1>1, <2>2
    <3>2. t[i - Len(s)] = k + Len(s) + (i - Len(s))
      BY <3>1 DEF Run
    <3>. QED BY <1>1, <3>1, <3>2
  <2>. QED BY <1>1, <2>1, <2>2
<1>. QED BY <1>1, <1>2 DEF Run

LEMMA RunSplit ==
    ASSUME NEW k \in Nat, NEW s, Run(s, k), NEW n \in 0..Len(s)
    PROVE  /\ Run(SubSeq(s, 1, n), k) /\ Len(SubSeq(s, 1, n)) = n
           /\ Run(SubSeq(s, n + 1, Len(s)), k + n) /\ Len(SubSeq(s, n + 1, Len(s))) = Len(s) - n
<1>. DEFINE a == SubSeq(s, 1, n)
            b == SubSeq(s, n + 1, Len(s))
<1>1. s \in Seq(Nat) /\ Len(s) \in Nat /\ n \in Nat /\ n <= Len(s)
  BY DEF Run
<1>2. a \in Seq(Nat) /\ Len(a) = n /\ \A i \in 1..n : a[i] = s[i]
  BY <1>1
<1>3. b \in Seq(Nat) /\ Len(b) = Len(s) - n /\ \A i \in 1..(Len(s) - n) : b[i] = s[n + i]
  BY <1>1
<1>. HIDE DEF a, b
<1>4. Run(a, k)
  <2>1. ASSUME NEW i \in 1..Len(a) PROVE a[i] = k + i
    <3>1. i \in 1..Len(s) /\ a[i] = s[i]
      BY <1>1, <1>2
    <3>. QED BY <3>1 DEF Run
  <2>. QED BY <1>2, <2>1 DEF Run
<1>5. ASSUME NEW i \in 1..Len(b) PROVE b[i] = (k + n) + i
  <2>1. n + i \in 1..Len(s) /\ b[i] = s[n + i]
    BY <1>1, <1>3
  <2>2. s[n + i] = k + (n + i)
    BY <2>1 DEF Run
  <2>. QED BY <1>1, <2>1, <2>2
<1>6. Run(b, k + n)
  BY <1>3, <1>5 DEF Run
<1>. QED BY <1>2, <1>3, <1>4, <1>6 DEF a, b

\* The first n elements of f move to the end of w.
Move(w, f, n, v, g) ==
    n \in 0..Len(f) /\ v = w \o SubSeq(f, 1, n) /\ g = SubSeq(f, n + 1, Len(f))

LEMMA RunMove ==
    ASSUME NEW w, NEW f, NEW n, NEW v, NEW g, Cut(w, f), Move(w, f, n, v, g)
    PROVE  Cut(v, g) /\ Len(v) + Len(g) = Len(w) + Len(f) /\ Len(g) <= Len(f)
<1>. USE DEF Move, Cut
<1>1. Len(w) \in Nat /\ Len(f) \in Nat /\ n \in Nat /\ 0 + Len(w) = Len(w)
  BY DEF Run
<1>2. /\ Run(SubSeq(f, 1, n), Len(w)) /\ Len(SubSeq(f, 1, n)) = n
      /\ Run(g, Len(w) + n) /\ Len(g) = Len(f) - n
  BY <1>1, RunSplit
<1>3. Run(v, 0) /\ Len(v) = Len(w) + n
  BY <1>1, <1>2, RunCat
<1>4. Run(g, Len(v)) /\ Len(g) = Len(f) - n
  BY <1>2, <1>3
<1>. HIDE DEF Move, Cut
<1>5. \A x, y, z \in Nat : (x + z) + (y - z) = x + y /\ y - z <= y
  OBVIOUS
<1>. QED BY <1>1, <1>3, <1>4, <1>5 DEF Cut

LEMMA RunBytes ==
    ASSUME taken \in Nat, NEW n \in Nat
    PROVE  Run(Bytes(n), taken) /\ Len(Bytes(n)) = n
<1>1. Bytes(n) \in Seq(Nat) /\ Len(Bytes(n)) = n /\ \A i \in 1..n : Bytes(n)[i] = taken + i
  BY DEF Bytes
<1>. QED BY <1>1 DEF Run

-----------------------------------------------------------------------------
(* The operations on one drain. *)

LEMMA Updated ==
    ASSUME NEW d \in States, NEW f \in Seq(Nat), NEW w \in Seq(Nat), NEW c \in Nat
    PROVE  /\ [d EXCEPT !.buf = f] \in States /\ [d EXCEPT !.wire = w] \in States
           /\ [d EXCEPT !.cap = c] \in States
BY DEF States

LEMMA FailedGood ==
    ASSUME NEW d, NEW t, NEW u, Good(d, t) PROVE Good(Failed(d), u)
<1>1. /\ Failed(d) \in States /\ Failed(d).error /\ Failed(d).buf = d.buf
      /\ Failed(d).wire = d.wire /\ Failed(d).cap = d.cap
  BY DEF Failed, Good, States
<1>. QED BY <1>1 DEF Good

\* n bytes move from the front of the buffer to the wire.
Moved(d, n) == [d EXCEPT !.wire = @ \o SubSeq(d.buf, 1, n), !.buf = SubSeq(@, n + 1, Len(@))]

LEMMA MovedGood ==
    ASSUME NEW d, NEW t, Good(d, t), NEW n \in 0..Len(d.buf), NEW e, e = Moved(d, n)
    PROVE  Good(e, t) /\ e.cap = d.cap
<1>. DEFINE w == d.wire
            f == d.buf
            v == e.wire
            g == e.buf
<1>1. d \in States /\ Cut(w, f) /\ Len(f) \in Nat /\ Len(f) <= d.cap /\ d.cap \in Nat
  BY DEF Good, States
<1>2. Move(w, f, n, v, g) /\ e.cap = d.cap /\ e.error = d.error
  BY <1>1 DEF Moved, States, Move
<1>3. ASSUME v \in Seq(Nat), g \in Seq(Nat) PROVE e \in States
  BY <1>1, <1>3 DEF Moved, States
<1>4. ~e.error => Len(w) + Len(f) = t
  BY <1>2 DEF Good
<1>. HIDE DEF w, f, v, g
<1>5. Cut(v, g) /\ Len(v) + Len(g) = Len(w) + Len(f) /\ Len(g) <= Len(f)
  BY <1>1, <1>2, RunMove
<1>6. e \in States /\ Len(g) \in Nat
  BY <1>3, <1>5 DEF Cut, Run
<1>7. Len(g) <= d.cap
  BY <1>1, <1>5, <1>6
<1>8. ~e.error => Len(v) + Len(g) = t
  BY <1>4, <1>5
<1>. USE DEF v, g
<1>. QED BY <1>2, <1>5, <1>6, <1>7, <1>8 DEF Good

LEMMA PushedGood ==
    ASSUME NEW d, NEW t, Good(d, t), NEW e \in Pushed(d)
    PROVE  Good(e, t) /\ e.cap = d.cap
<1>1. PICK n \in 0..Len(d.buf) : e = Moved(d, n) \/ e = Failed(Moved(d, n))
  BY DEF Pushed, Moved
<1>2. Good(Moved(d, n), t) /\ Moved(d, n).cap = d.cap
  BY MovedGood
<1>3. Good(Failed(Moved(d, n)), t)
  BY <1>2, FailedGood
<1>4. Failed(Moved(d, n)).cap = Moved(d, n).cap
  BY <1>2 DEF Failed, Good, States
<1>. QED BY <1>1, <1>2, <1>3, <1>4

\* drain_ensure's capacity holds what it was asked to hold.
LEMMA EnsuredFits ==
    ASSUME DrainAssumption, NEW c \in Nat, NEW len \in Nat, NEW need \in Nat,
           c <= SizeMax, MaxSize > 0 => c <= MaxSize, NEW r \in Ensured(c, len, need), r # 0
    PROVE  r \in Nat /\ len + need <= r /\ r <= SizeMax /\ (MaxSize > 0 => r <= MaxSize)
<1>1. MaxSize \in Nat /\ SizeMax \in Nat /\ MaxSize <= SizeMax
  BY DEF DrainAssumption
<1>2. MaxSize > 0 => len + need <= MaxSize
  BY <1>1 DEF Ensured
<1>3. CASE r = c /\ len + need <= c
  BY <1>3
<1>4. CASE \E d \in Doubled(c, len + need) : r = Clamped(d)
  <2>1. PICK d \in Doubled(c, len + need) : r = Clamped(d)
    BY <1>4
  <2>2. d \in (len + need)..SizeMax
    BY <2>1 DEF Doubled
  <2>3. d \in Nat /\ len + need <= d /\ d <= SizeMax
    BY <1>1, <2>2
  <2>. QED BY <1>1, <1>2, <2>1, <2>3 DEF Clamped
<1>5. (r = c /\ len + need <= c) \/ (\E d \in Doubled(c, len + need) : r = Clamped(d))
  BY DEF Ensured
<1>. QED BY <1>3, <1>4, <1>5

LEMMA CutJoin ==
    ASSUME NEW w, NEW f, NEW x, Cut(w, f), Run(x, Len(w) + Len(f))
    PROVE  Cut(w, f \o x) /\ Len(f \o x) = Len(f) + Len(x)
<1>1. Run(w, 0) /\ Run(f, Len(w)) /\ Len(w) \in Nat
  BY DEF Cut, Run
<1>. QED BY <1>1, RunCat DEF Cut

\* x goes to the end of a buffer of capacity c.
Filled(d, c, x) == [d EXCEPT !.cap = c, !.buf = @ \o x]

LEMMA FilledGood ==
    ASSUME NEW d, NEW t \in Nat, Good(d, t), ~d.error, NEW x, Run(x, t), NEW c \in Nat,
           Len(d.buf) + Len(x) <= c, c <= SizeMax, MaxSize > 0 => c <= MaxSize,
           NEW e, e = Filled(d, c, x)
    PROVE  Good(e, t + Len(x))
<1>. DEFINE w == d.wire
            f == d.buf
            g == f \o x
<1>1. /\ d \in States /\ Cut(w, f) /\ Len(w) + Len(f) = t
      /\ Len(w) \in Nat /\ Len(f) \in Nat /\ Len(x) \in Nat
  BY DEF Good, States, Run
<1>2. e.wire = w /\ e.buf = g /\ e.cap = c /\ e.error = d.error
  BY <1>1 DEF Filled, States
<1>3. ASSUME g \in Seq(Nat) PROVE e \in States
  BY <1>1, <1>3 DEF Filled, States
<1>4. Len(f) + Len(x) <= c
  OBVIOUS
<1>. HIDE DEF w, f
<1>5. Cut(w, g) /\ Len(g) = Len(f) + Len(x)
  BY <1>1, CutJoin
<1>. HIDE DEF g
<1>6. e \in States
  BY <1>3, <1>5 DEF Cut, Run
<1>7. Len(w) + Len(g) = t + Len(x)
  <2>1. \A i, j, k \in Nat : i + (j + k) = (i + j) + k
    OBVIOUS
  <2>. QED BY <1>1, <1>5, <2>1
<1>. QED BY <1>2, <1>4, <1>5, <1>6, <1>7 DEF Good

LEMMA AppendedGood ==
    ASSUME DrainAssumption, NEW d, NEW t \in Nat, Good(d, t), ~d.error, NEW x, Run(x, t),
           NEW e \in Appended(d, x)
    PROVE  Good(e, t + Len(x))
<1>1. /\ Len(d.buf) \in Nat /\ d.cap \in Nat /\ Len(x) \in Nat /\ d.cap <= SizeMax
      /\ MaxSize > 0 => d.cap <= MaxSize
  BY DEF Good, States, Run
<1>2. PICK c \in Ensured(d.cap, Len(d.buf), Len(x)) :
        e = IF c = 0 THEN Failed(d) ELSE Filled(d, c, x)
  BY DEF Appended, Filled
<1>3. CASE c = 0
  BY <1>2, <1>3, FailedGood
<1>4. CASE c # 0
  <2>1. c \in Nat /\ Len(d.buf) + Len(x) <= c /\ c <= SizeMax /\ (MaxSize > 0 => c <= MaxSize)
    BY <1>1, <1>4, EnsuredFits
  <2>. QED BY <1>2, <1>4, <2>1, FilledGood
<1>. QED BY <1>3, <1>4

\* The first n bytes of x go straight to the wire.
Sent(d, x, n) == [d EXCEPT !.wire = @ \o SubSeq(x, 1, n)]

LEMMA SentGood ==
    ASSUME NEW d, NEW t \in Nat, Good(d, t), ~d.error, Len(d.buf) = 0, NEW x, Run(x, t),
           NEW n \in 0..Len(x), NEW e, e = Sent(d, x, n)
    PROVE  Good(e, t + n) /\ ~e.error
<1>. DEFINE w == d.wire
            f == d.buf
            a == SubSeq(x, 1, n)
            v == w \o a
<1>1. d \in States /\ Cut(w, f) /\ Len(w) + Len(f) = t /\ Len(f) = 0 /\ Len(w) \in Nat
  BY DEF Good, States
<1>2. e.wire = v /\ e.buf = f /\ e.cap = d.cap /\ e.error = d.error
  BY <1>1 DEF Sent, States
<1>3. ASSUME v \in Seq(Nat) PROVE e \in States
  BY <1>1, <1>3 DEF Sent, States
<1>. HIDE DEF w, f
<1>4. Run(w, 0) /\ Run(x, 0 + Len(w)) /\ 0 + Len(w) \in Nat /\ Len(w) = t
  BY <1>1 DEF Cut
<1>5. Run(a, 0 + Len(w)) /\ Len(a) = n
  BY <1>4, RunSplit
<1>. HIDE DEF a
<1>6. Run(v, 0) /\ Len(v) = t + n
  BY <1>4, <1>5, RunCat
<1>. HIDE DEF v
<1>7. Cut(v, f) /\ Len(v) + Len(f) = t + n
  <2>1. f \in Seq(Nat) /\ Len(v) \in Nat
    BY <1>1, <1>6 DEF Cut, Run
  <2>. QED BY <1>1, <1>6, <2>1 DEF Cut, Run
<1>8. e \in States
  BY <1>3, <1>6 DEF Run
<1>9. Good(e, t + n)
  <2>1. Len(f) <= d.cap /\ d.cap <= SizeMax /\ (MaxSize > 0 => d.cap <= MaxSize)
    BY DEF Good, f
  <2>. QED BY <1>2, <1>7, <1>8, <2>1 DEF Good
<1>. QED BY <1>2, <1>9

LEMMA WrittenGood ==
    ASSUME DrainAssumption, NEW d, NEW t \in Nat, Good(d, t), NEW x, Run(x, t),
           NEW r \in Written(d, x)
    PROVE  Good(r, t + Len(x))
<1>. DEFINE rest(n) == SubSeq(x, n + 1, Len(x))
            offered(e) == {Failed(e)} \cup
                UNION {IF n = Len(x) THEN {Sent(e, x, n)} ELSE Appended(Sent(e, x, n), rest(n))
                         : n \in 0..Len(x)}
            overflows(e) == Len(e.buf) + Len(x) > SizeMax
<1>1. PICK e \in Pushed(d) :
        r \in (IF e.error THEN {e} ELSE IF Len(e.buf) = 0 THEN offered(e)
               ELSE IF overflows(e) THEN {} ELSE Appended(e, x))
  BY DEF Written, Sent
<1>2. Good(e, t) /\ Len(x) \in Nat /\ Len(e.buf) \in Nat
  <2>1. Good(e, t)
    BY PushedGood
  <2>. QED BY <2>1 DEF Good, States, Run
<1>3. CASE e.error
  BY <1>1, <1>2, <1>3 DEF Good
<1>4. CASE ~e.error /\ Len(e.buf) > 0
  <2>1. r \in Appended(e, x)
    BY <1>1, <1>2, <1>4
  <2>. QED BY <1>2, <1>4, <2>1, AppendedGood
<1>5. CASE ~e.error /\ ~(Len(e.buf) > 0)
  <2>1. Len(e.buf) = 0 /\ r \in offered(e)
    BY <1>1, <1>2, <1>5
  <2>2. CASE r = Failed(e)
    BY <1>2, <2>2, FailedGood
  <2>3. CASE r # Failed(e)
    <3>1. PICK n \in 0..Len(x) :
            r \in (IF n = Len(x) THEN {Sent(e, x, n)} ELSE Appended(Sent(e, x, n), rest(n)))
      BY <2>1, <2>3
    <3>2. Good(Sent(e, x, n), t + n) /\ ~Sent(e, x, n).error
      BY <1>2, <1>5, <2>1, SentGood
    <3>3. Run(rest(n), t + n) /\ Len(rest(n)) = Len(x) - n
      BY RunSplit
    <3>4. CASE n = Len(x)
      BY <3>1, <3>2, <3>4
    <3>5. CASE n # Len(x)
      <4>1. t + n \in Nat /\ (t + n) + (Len(x) - n) = t + Len(x)
        BY <1>2
      <4>2. r \in Appended(Sent(e, x, n), rest(n))
        BY <3>1, <3>5
      <4>. HIDE DEF rest
      <4>3. Good(r, (t + n) + Len(rest(n)))
        BY <3>2, <3>3, <4>1, <4>2, AppendedGood
      <4>. QED BY <3>3, <4>1, <4>3
    <3>. QED BY <3>4, <3>5
  <2>. QED BY <2>2, <2>3
<1>. QED BY <1>3, <1>4, <1>5

LEMMA ReservedGood ==
    ASSUME NEW d, NEW t \in Nat, Good(d, t), ~d.error, NEW x, Run(x, t),
           Len(d.buf) + Len(x) <= d.cap, NEW r \in Reserved(d, x) \cup Buffered(d, x)
    PROVE  Good(r, t + Len(x))
<1>. DEFINE e == [d EXCEPT !.buf = @ \o x]
            out(n) == [d EXCEPT !.wire = @ \o SubSeq(x, 1, n), !.buf = SubSeq(x, n + 1, Len(x))]
<1>1. /\ d \in States /\ d.cap \in Nat /\ d.cap <= SizeMax /\ (MaxSize > 0 => d.cap <= MaxSize)
      /\ Len(d.buf) \in Nat /\ Len(x) \in Nat /\ x \in Seq(Nat)
  BY DEF Good, States, Run
<1>2. e = Filled(d, d.cap, x)
  BY <1>1 DEF Filled, States
<1>3. Good(e, t + Len(x))
  BY <1>1, <1>2, FilledGood
<1>4. CASE r = e
  BY <1>3, <1>4
<1>5. CASE r = Failed(d)
  BY <1>5, FailedGood
<1>6. CASE Len(d.buf) = 0 /\ \E n \in 0..Len(x) : r = out(n)
  <2>1. PICK n \in 0..Len(x) : r = out(n)
    BY <1>6
  <2>2. e.buf = x /\ e.wire = d.wire
    <3>1. d.buf = <<>>
      BY <1>1, <1>6 DEF States
    <3>. QED BY <1>1, <3>1 DEF States
  <2>3. r = Moved(e, n)
    BY <1>1, <2>1, <2>2 DEF Moved, States
  <2>. HIDE DEF e
  <2>. QED BY <1>3, <2>2, <2>3, MovedGood
<1>7. /\ Reserved(d, x) = IF Len(d.buf) > 0 THEN {e}
                           ELSE {Failed(d)} \cup {out(n) : n \in 0..Len(x)}
      /\ Buffered(d, x) = {e}
  BY Zenon DEF Reserved, Buffered
<1>. HIDE DEF e, out
<1>8. r = e \/ r = Failed(d) \/ (Len(d.buf) = 0 /\ \E n \in 0..Len(x) : r = out(n))
  BY <1>1, <1>7
<1>. QED BY <1>4, <1>5, <1>6, <1>8

-----------------------------------------------------------------------------
(* The actions. *)

LEMMA BecomesKeeps ==
    ASSUME NEW d, Becomes(d), taken' \in Nat, Good(d, taken') PROVE DrainInv'
<1>1. Self' = d
  BY DEF Becomes, Self, Good, States
<1>. QED BY <1>1 DEF DrainInv, Good

\* kl_drain_write, from the producer or from on_writable.
LEMMA WroteKeeps ==
    ASSUME DrainAssumption, NEW d, NEW n \in Nat, taken \in Nat, Good(d, taken), Wrote(d, n)
    PROVE  DrainInv'
<1>1. Run(Bytes(n), taken) /\ Len(Bytes(n)) = n /\ taken + n \in Nat
  BY RunBytes
<1>2. CASE Takes(Written(d, Bytes(n)), n)
  <2>1. PICK e \in Written(d, Bytes(n)) : Becomes(e) /\ taken' = taken + n
    BY <1>2 DEF Takes
  <2>2. Good(e, taken + n)
    BY <1>1, WrittenGood
  <2>. QED BY <1>1, <2>1, <2>2, BecomesKeeps
<1>3. CASE Refuses(Overflowed(d, n))
  <2>1. PICK e \in Pushed(d) : Becomes(e) /\ taken' = taken
    BY <1>3 DEF Refuses, Overflowed
  <2>2. Good(e, taken)
    BY PushedGood
  <2>. QED BY <2>1, <2>2, BecomesKeeps
<1>. QED BY <1>2, <1>3 DEF Wrote

LEMMA WriteKeeps ==
    ASSUME DrainAssumption, DrainInv, NEW n \in Nat, Write(n) PROVE DrainInv'
BY WroteKeeps DEF DrainInv, Write

LEMMA ReserveKeeps ==
    ASSUME DrainInv, NEW n \in Nat, Reserve(n) PROVE DrainInv'
<1>1. taken \in Nat /\ Run(Bytes(n), taken) /\ Len(Bytes(n)) = n /\ taken + n \in Nat
  BY RunBytes DEF DrainInv
<1>2. PICK d \in Reserved(Self, Bytes(n)) \cup Buffered(Self, Bytes(n)) :
        Becomes(d) /\ taken' = taken + n
  BY DEF Reserve, Takes
<1>3. ~Self.error /\ Len(Self.buf) + Len(Bytes(n)) <= Self.cap
  BY <1>1 DEF Reserve, HasRoom, Self
<1>4. Good(d, taken + n)
  BY <1>1, <1>3, ReservedGood DEF DrainInv
<1>. QED BY <1>1, <1>2, <1>4, BecomesKeeps

LEMMA FlushKeeps ==
    ASSUME DrainAssumption, DrainInv, NEW n \in Nat, Flush(n) PROVE DrainInv'
<1>1. taken \in Nat /\ Run(Bytes(n), taken) /\ Len(Bytes(n)) = n /\ taken + n \in Nat
  BY RunBytes DEF DrainInv
<1>2. PICK d \in Pushed(Self) :
        IF d.error \/ ~Crossed(d, n) THEN Becomes(d) /\ UNCHANGED taken ELSE Notified(d, n)
  BY DEF Flush
<1>3. Good(d, taken)
  BY PushedGood DEF DrainInv
<1>4. CASE d.error \/ ~Crossed(d, n)
  BY <1>1, <1>2, <1>3, <1>4, BecomesKeeps
<1>5. CASE ~d.error /\ Crossed(d, n)
  <2>1. Notified(d, n)
    BY <1>2, <1>5
  <2>2. CASE Fixed
    <3>1. PICK e \in Reserved(d, Bytes(n)) : Becomes(e) /\ taken' = taken + n
      BY <2>1, <2>2 DEF Notified, Takes
    <3>2. Len(d.buf) + Len(Bytes(n)) <= d.cap
      BY <1>1, <1>5, <2>2 DEF Crossed
    <3>3. Good(e, taken + n)
      BY <1>1, <1>3, <1>5, <3>1, <3>2, ReservedGood
    <3>. QED BY <1>1, <3>1, <3>3, BecomesKeeps
  <2>3. CASE ~Fixed
    BY <1>1, <1>3, <2>1, <2>3, WroteKeeps DEF Notified
  <2>. QED BY <2>2, <2>3
<1>. QED BY <1>4, <1>5

LEMMA ConsumeKeeps == ASSUME DrainInv, NEW k, Consume(k) PROVE DrainInv'
<1>1. k \in 0..Len(Self.buf) /\ Good(Self, taken) /\ taken \in Nat /\ taken' = taken
  BY DEF Consume, DrainInv, Self, Good, States
<1>2. Becomes(Moved(Self, k))
  BY DEF Consume, Becomes, Moved, Self
<1>3. Good(Moved(Self, k), taken)
  BY <1>1, MovedGood
<1>. QED BY <1>1, <1>2, <1>3, BecomesKeeps

-----------------------------------------------------------------------------
(* Theorems. *)

\* What left the drain counts up from the first byte, and what it holds goes on from there,
\* through every partial write, growth, failure and on_writable (drain.c).
THEOREM DrainInvariant == ASSUME DrainAssumption PROVE Spec => []DrainInv
<1>1. Init => DrainInv
  <2>. SUFFICES ASSUME Init PROVE DrainInv
    OBVIOUS
  <2>1. Run(<<>>, 0) /\ Len(<<>>) = 0 /\ <<>> \in Seq(Nat)
    BY DEF Run
  <2>2. cap \in Nat /\ cap <= SizeMax /\ (MaxSize > 0 => cap <= MaxSize)
    BY DEF Init, DrainAssumption
  <2>3. Self \in States /\ Cut(Self.wire, Self.buf) /\ Len(Self.wire) + Len(Self.buf) = taken
    <3>1. /\ Self = [buf |-> <<>>, cap |-> cap, error |-> FALSE, wire |-> <<>>] /\ taken = 0
      BY DEF Init, Self
    <3>2. Cut(<<>>, <<>>) /\ Len(<<>>) + Len(<<>>) = 0
      BY <2>1 DEF Cut
    <3>. QED BY <2>1, <2>2, <3>1, <3>2 DEF States
  <2>. QED BY <2>1, <2>2, <2>3 DEF Init, Self, DrainInv, Good
<1>2. DrainInv /\ [Next]_vars => DrainInv'
  <2>. SUFFICES ASSUME DrainInv, [Next]_vars PROVE DrainInv'
    OBVIOUS
  <2>1. ASSUME NEW n \in 0..MaxWrite, Write(n) \/ Reserve(n) \/ Flush(n) PROVE DrainInv'
    BY <2>1, WriteKeeps, ReserveKeeps, FlushKeeps DEF DrainAssumption
  <2>2. ASSUME NEW k, Consume(k) PROVE DrainInv'
    BY <2>2, ConsumeKeeps
  <2>3. CASE UNCHANGED vars
    BY <2>3 DEF vars, DrainInv, Self
  <2>. QED BY <2>1, <2>2, <2>3 DEF Next
<1>. QED BY <1>1, <1>2, PTL DEF Spec

\* kl_drain_write, _flush and _consume: no byte is lost, doubled or overtaken, and a failed
\* drain has put out a prefix.
THEOREM DrainNoGap == ASSUME DrainAssumption PROVE Spec => []NoGap
<1>1. DrainInv => NoGap
  <2>. SUFFICES ASSUME DrainInv PROVE NoGap
    OBVIOUS
  <2>1. /\ Cut(wire, buf) /\ (~error => Len(wire) + Len(buf) = taken) /\ taken \in Nat
    BY DEF DrainInv, Good, Self
  <2>2. Run(wire \o buf, 0) /\ Len(wire \o buf) = Len(wire) + Len(buf)
    <3>1. Run(wire, 0) /\ Run(buf, 0 + Len(wire))
      BY <2>1 DEF Cut, Run
    <3>. QED BY <3>1, RunCat
  <2>3. ASSUME ~error PROVE wire \o buf = [i \in 1..taken |-> i]
    <3>. DEFINE q == wire \o buf
    <3>1. q \in Seq(Nat) /\ Len(q) = taken /\ \A i \in 1..Len(q) : q[i] = i
      BY <2>1, <2>2, <2>3 DEF Run
    <3>. HIDE DEF q
    <3>2. q = [i \in 1..taken |-> i]
      BY <3>1
    <3>. QED BY <3>2 DEF q
  <2>4. \A i \in 1..Len(wire) : wire[i] = i
    BY <2>1 DEF Cut, Run
  <2>. QED BY <2>3, <2>4 DEF NoGap
<1>. QED BY <1>1, DrainInvariant, PTL

\* drain_ensure and kl_drain_prealloc: the bytes held fit the buffer, the buffer the limit.
THEOREM DrainFitsBuffer == ASSUME DrainAssumption PROVE Spec => []FitsBuffer
<1>1. DrainInv => FitsBuffer
  BY DEF DrainInv, Good, Self, FitsBuffer
<1>. QED BY <1>1, DrainInvariant, PTL
=============================================================================
