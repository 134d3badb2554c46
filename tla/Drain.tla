------------------------------- MODULE Drain --------------------------------
(***************************************************************************)
(* KlDrain (src/drain.c): bytes a writer did not take, kept in order.  The *)
(* growable drain takes a write with kl_drain_write; the preallocated one  *)
(* (drain_reserve.h) with kl_drain_reserve_write or _reserve_buffer, and   *)
(* its owner may take bytes out with kl_drain_consume.                     *)
(*                                                                         *)
(* A byte is its number: `taken' numbers the bytes the drain has taken     *)
(* over, `wire' holds what left it, `buf' what it still holds.  The writer *)
(* behind it takes any prefix of what it is offered, or fails.             *)
(***************************************************************************)
EXTENDS Integers, Sequences

CONSTANTS Fixed,        \* kl_drain_prealloc has run (capacity MaxSize)
          InitCap,      \* DRAIN_INIT_CAP
          MaxSize,      \* max_size; for a growable drain 0 means no limit
          SizeMax,      \* SIZE_MAX
          LowWater,     \* low_water; 0 means no on_writable
          MaxWrite,     \* bytes in one write (bound)
          MaxBytes      \* bytes written in all (bound)

DrainAssumption ==
    /\ Fixed \in BOOLEAN /\ InitCap \in Nat /\ SizeMax \in Nat /\ MaxSize \in 0..SizeMax
    /\ LowWater \in Nat /\ MaxWrite \in Nat /\ MaxBytes \in Nat

VARIABLES buf, cap, error, wire, taken

vars == <<buf, cap, error, wire, taken>>

\* The next n bytes of the producer
Bytes(n) == [i \in 1..n |-> taken + i]

\* drain_ensure's doubling of the capacity there is until it suffices: a set
\* of one capacity, or empty when it would pass SIZE_MAX
Doubled(c, need) ==
    LET from == IF c = 0 THEN InitCap ELSE c
        fits == {d \in need..SizeMax : \E k \in 0..d : d = from * 2^k}
    IN {d \in fits : \A e \in fits : d <= e}

Clamped(c) == IF MaxSize > 0 /\ c > MaxSize THEN MaxSize ELSE c

MutEnsured(c, len, need) ==
    IF len + need <= c THEN {c}
    ELSE {0} \cup {Clamped(d) : d \in Doubled(c, len + need)}

\* drain_ensure: the capacity after it, 0 when it failed
Ensured(c, len, need) ==
    IF MaxSize > 0 /\ len + need > MaxSize THEN {0}
    ELSE IF len + need <= c THEN {c}
    ELSE {0} \cup {Clamped(d) : d \in Doubled(c, len + need)}

\* d: [buf, cap, error, wire]
Self == [buf |-> buf, cap |-> cap, error |-> error, wire |-> wire]

Failed(d) == [d EXCEPT !.error = TRUE]

\* drain_push: write until the writer blocks or nothing is left, or it fails
Pushed(d) ==
    LET after(n) == [d EXCEPT !.wire = @ \o SubSeq(d.buf, 1, n),
                              !.buf = SubSeq(@, n + 1, Len(@))]
    IN UNION {{after(n)} \cup IF n < Len(d.buf) THEN {Failed(after(n))} ELSE {}
                : n \in 0..Len(d.buf)}

Appended(d, data) ==
    {IF c = 0 THEN Failed(d) ELSE [d EXCEPT !.cap = c, !.buf = @ \o data]
       : c \in Ensured(d.cap, Len(d.buf), Len(data))}

MutWritten(d, data) ==
    LET direct(n) == [d EXCEPT !.wire = @ \o SubSeq(data, 1, n)]
        rest(n) == SubSeq(data, n + 1, Len(data))
    IN {Failed(d)} \cup
       UNION {IF n = Len(data) THEN {direct(n)} ELSE Appended(direct(n), rest(n))
                : n \in 0..Len(data)}

\* kl_drain_write: what is pending goes first.  A write that would make the
\* length overflow behind it is not among these: see Overflowed
Written(d, data) ==
    LET direct(e, n) == [e EXCEPT !.wire = @ \o SubSeq(data, 1, n)]
        rest(n) == SubSeq(data, n + 1, Len(data))
        offered(e) == {Failed(e)} \cup
            UNION {IF n = Len(data) THEN {direct(e, n)} ELSE Appended(direct(e, n), rest(n))
                     : n \in 0..Len(data)}
        overflows(e) == Len(e.buf) + Len(data) > SizeMax
    IN UNION {IF e.error THEN {e}
              ELSE IF Len(e.buf) = 0 THEN offered(e)
              ELSE IF overflows(e) THEN {} ELSE Appended(e, data) : e \in Pushed(d)}

\* drain_ensure's overflow: n bytes are refused, the drain has not failed
Overflowed(d, n) ==
    {e \in Pushed(d) : ~e.error /\ Len(e.buf) > 0 /\ Len(e.buf) + n > SizeMax}

\* kl_drain_reserve_write: room for all of it, or nothing is taken
Reserved(d, data) ==
    LET direct(n) == [d EXCEPT !.wire = @ \o SubSeq(data, 1, n),
                               !.buf = SubSeq(data, n + 1, Len(data))]
    IN IF Len(d.buf) > 0 THEN {[d EXCEPT !.buf = @ \o data]}
       ELSE {Failed(d)} \cup {direct(n) : n \in 0..Len(data)}

\* kl_drain_reserve_buffer: queued, never sent from here
Buffered(d, data) == {[d EXCEPT !.buf = @ \o data]}

HasRoom(n) == Len(buf) + n <= cap

Becomes(d) == buf' = d.buf /\ cap' = d.cap /\ error' = d.error /\ wire' = d.wire

Takes(D, n) == (\E d \in D : Becomes(d)) /\ taken' = taken + n

Refuses(D) == (\E d \in D : Becomes(d)) /\ UNCHANGED taken

Wrote(d, n) == Takes(Written(d, Bytes(n)), n) \/ Refuses(Overflowed(d, n))

Write(n) == ~error /\ ~Fixed /\ Wrote(Self, n)

Reserve(n) == /\ ~error /\ Fixed /\ HasRoom(n)
              /\ Takes(Reserved(Self, Bytes(n)) \cup Buffered(Self, Bytes(n)), n)

\* drain_crossed_low_water, and the n bytes its on_writable writes at once
Crossed(d, n) == /\ LowWater > 0 /\ Len(buf) > LowWater /\ Len(d.buf) <= LowWater
                 /\ n > 0 /\ (Fixed => Len(d.buf) + n <= d.cap)

\* drain_notify
Notified(d, n) == IF Fixed THEN Takes(Reserved(d, Bytes(n)), n) ELSE Wrote(d, n)

\* kl_drain_flush
Flush(n) == /\ ~error /\ Len(buf) > 0
            /\ \E d \in Pushed(Self) :
                 IF d.error \/ ~Crossed(d, n) THEN Becomes(d) /\ UNCHANGED taken ELSE Notified(d, n)

\* kl_drain_consume: an asynchronous send of the first k bytes has retired
Consume(k) == /\ Fixed /\ k \in 1..Len(buf)
              /\ Becomes([Self EXCEPT !.wire = @ \o SubSeq(buf, 1, k),
                                      !.buf = SubSeq(buf, k + 1, Len(buf))])
              /\ UNCHANGED taken

Init == /\ buf = <<>> /\ wire = <<>> /\ taken = 0 /\ error = FALSE
        /\ cap = IF Fixed THEN MaxSize ELSE 0

Next == \/ \E n \in 0..MaxWrite :
             /\ taken + n <= MaxBytes
             /\ \/ n > 0 /\ (Write(n) \/ Reserve(n))
                \/ Flush(n)
        \/ \E k \in 1..Len(buf) : Consume(k)

Spec == Init /\ [][Next]_vars
-----------------------------------------------------------------------------
\* What left the drain, followed by what it holds, is what it took over: no
\* byte is lost, doubled or overtaken.  Once it has failed, what left it is
\* still a prefix: a failed drain never skips bytes (kl_drain_write, _flush).
NoGap ==
    /\ ~error => wire \o buf = [i \in 1..taken |-> i]
    /\ \A i \in 1..Len(wire) : wire[i] = i

\* The bytes held fit the buffer there is, which never passes the limit
\* (drain_ensure, kl_drain_prealloc).
FitsBuffer == /\ Len(buf) <= cap
              /\ MaxSize > 0 => cap <= MaxSize
              /\ cap <= SizeMax
=============================================================================
