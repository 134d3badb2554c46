----------------------------- MODULE CompQueue -----------------------------
(***************************************************************************)
(* The per-connection output queue of the completion HTTP server           *)
(* (src/protocols/http/completion_http_server.c, "TLS output queue").      *)
(* Everything a completion-driven connection writes (TLS ciphertext,       *)
(* HTTP/2 and WebSocket frames, large plaintext responses) leaves through  *)
(* one growable buffer, at most one send at a time.  A backend may read a  *)
(* posted region in place until the send completes, so a buffer with a     *)
(* send in flight may neither move nor be reused.                          *)
(*                                                                         *)
(* Bytes are numbered 1, 2, ... in the order they are appended; a buffer   *)
(* is a function from its positions to byte numbers.  The wire is modelled *)
(* by what the backend finds, when the send completes, at the place it was *)
(* told to read: buffer identity, offset and length.  A step of the code   *)
(* that may fail maps a queue to its results, [x, ok]; a handler maps it   *)
(* to outcomes, [x, resp, closing].                                        *)
(***************************************************************************)
EXTENDS Integers

CONSTANTS
    Chunk,       \* KL_TLS_FLUSH_CHUNK: first allocation, absorb step
    PostMax,     \* the smaller of KL_COMP_QUEUE_POST_MAX and the backend's send_max
    QueueMax,    \* KL_COMP_STREAM_QUEUE_MAX: allowance of a WebSocket producer
    MaxWrite,    \* bound: bytes of one write, or in the engine's ring at once
    MaxBytes,    \* bound: bytes appended in a behaviour
    Doublings    \* bound: doublings of the buffer in a behaviour

VARIABLES
    q,        \* the connection: tls, whether it has a TLS engine, and the comp_tlsq_* fields: buf and
              \* old (each [id, cap, at], id 0 for none), len, head, appended, sent, and op, the
              \* send in flight as the backend holds it
    resp,     \* [pending, mark] of comp_tlsq_resp_*
    wire,     \* bytes the peer has been sent
    closing   \* comp_closing / released

vars == <<q, resp, wire, closing>>

NoBuf == [id |-> 0, cap |-> 0, at |-> [i \in 0..-1 |-> 0]]
NoOp == [id |-> 0, off |-> 0, n |-> 0]

Empty(tls) ==
    [tls |-> tls, buf |-> NoBuf, old |-> NoBuf, len |-> 0, head |-> 0, appended |-> 0,
     sent |-> 0, op |-> NoOp]
NoResp == [pending |-> FALSE, mark |-> 0]

Ok(S) == {[x |-> y, ok |-> TRUE] : y \in S}
Fails(x) == {[x |-> x, ok |-> FALSE]}

(* The next step on each result that is not a failure.                     *)
AndThen(S, F(_)) == UNION {IF r.ok THEN F(r.x) ELSE {r} : r \in S}

(* Buffer identities: a fresh one differs from both buffers alive.         *)
FreshId(x) == CHOOSE i \in 1..3 : i # x.buf.id /\ i # x.old.id

InFlight(x) == x.op # NoOp

MutPinned(x) == FALSE

Pinned(x) == InFlight(x) /\ x.old.id = 0

Unposted(x) == (x.len - x.head) - (IF Pinned(x) THEN x.op.n ELSE 0)

Idle(x) == ~InFlight(x) /\ Unposted(x) = 0

(* comp_tlsq_grow_cap: double the capacity until the need fits.            *)
GrowCap(cur, need) ==
    LET first == IF cur = 0 THEN Chunk ELSE cur
    IN  {c \in {first * 2^k : k \in 0..Doublings} :
            c >= need /\ (c = first \/ c < 2 * need)}

Room(x, add) == x.len + add <= x.buf.cap

(* The n bytes of the buffer from a position on, at the front of cap.      *)
Moved(x, from, n, cap) ==
    [i \in 0..(cap - 1) |-> IF i < n THEN x.buf.at[from + i] ELSE 0]

NewBuf(x, from, n, cap) == [id |-> FreshId(x), cap |-> cap, at |-> Moved(x, from, n, cap)]

(* A new buffer takes the bytes not yet posted; the posted ones stay.      *)
MoveUnposted(x, add) ==
    LET from == x.head + x.op.n
        keep == x.len - from
    IN  {[x EXCEPT !.buf = NewBuf(x, from, keep, c), !.old = x.buf, !.head = 0, !.len = keep] :
           c \in GrowCap(x.buf.cap, keep + add)}

(* Nothing of the buffer is in flight: drop the sent front, then realloc.  *)
Compacted(x) ==
    LET n == x.len - x.head
    IN  [x EXCEPT !.buf.at = Moved(x, x.head, n, x.buf.cap), !.head = 0, !.len = n]

Grown(x, add) ==
    {[x EXCEPT !.buf = NewBuf(x, 0, x.len, c)] : c \in GrowCap(x.buf.cap, x.len + add)}

(* comp_tlsq_reserve.  An allocation that fails keeps what was compacted.  *)
Reserve(x, add) ==
    IF Room(x, add) THEN Ok({x})
    ELSE IF Pinned(x) THEN Ok(MoveUnposted(x, add)) \cup Fails(x)
    ELSE LET y == Compacted(x)
         IN  IF Room(y, add) THEN Ok({y}) ELSE Ok(Grown(y, add)) \cup Fails(y)

(* memcpy of the next n bytes behind what is queued.                       *)
Append(x, n) ==
    [x EXCEPT !.buf.at = [i \in 0..(x.buf.cap - 1) |->
                            IF x.len <= i /\ i < x.len + n
                            THEN x.appended + 1 + (i - x.len) ELSE x.buf.at[i]],
              !.len = @ + n, !.appended = @ + n]

Undone(x, n) == [x EXCEPT !.len = @ - n, !.appended = @ - n]

Least(a, b) == IF a < b THEN a ELSE b

(* comp_tlsq_kick: post the next part of the queue, unless a send is in    *)
(* flight or there is none.  A post that fails changes nothing.            *)
Kick(x) ==
    IF InFlight(x) \/ Unposted(x) = 0 THEN Ok({x})
    ELSE Ok({[x EXCEPT !.op = [id |-> x.buf.id, off |-> x.head,
                               n |-> Least(Unposted(x), PostMax)]]})
         \cup Fails(x)

(* kl_comp_queue_write: append and kick; the append is undone when the     *)
(* post fails, the reservation is not.                                     *)
Write(x, n) ==
    LET kicked(y) == {IF k.ok THEN k ELSE [k EXCEPT !.x = Undone(@, n)] : k \in Kick(Append(y, n))}
    IN  AndThen(Reserve(x, n), kicked)

(* comp_tlsq_absorb_ring: chunk by chunk until the engine's ring (n bytes) *)
(* is found empty, with a chunk reserved once more; or the engine fails.   *)
RECURSIVE Absorb(_, _)
Absorb(x, n) ==
    LET drained(y) ==
            LET d == Least(n, y.buf.cap - y.len)
            IN  Fails(y) \cup (IF d = 0 THEN Ok({y}) ELSE Absorb(Append(y, d), n - d))
    IN  AndThen(Reserve(x, Chunk), drained)

(* kl_comp_tls_flush.                                                      *)
Flush(x, n) == AndThen(IF x.tls THEN Absorb(x, n) ELSE Ok({x}), Kick)

-----------------------------------------------------------------------------
(* Outcomes of a handler.                                                  *)
Outcome(x, r, shut) == [x |-> x, resp |-> r, closing |-> shut]

(* kl_comp_close on failure.                                               *)
OrClose(S, r) == {Outcome(k.x, r, ~k.ok) : k \in S}

Marked(x) == [pending |-> TRUE, mark |-> x.appended]

(* comp_queue_response (plaintext, on an idle queue) and                   *)
(* comp_tls_post_encrypted: a response or a part of one, its end marked.   *)
Respond(x, n) ==
    LET plain(y) == Ok({Append(y, n)})
        put == IF x.tls THEN Absorb(x, n) ELSE AndThen(Reserve(x, n), plain)
    IN  UNION {IF r.ok THEN OrClose(Kick(r.x), Marked(r.x))
               ELSE {Outcome(r.x, resp, TRUE)} : r \in put}

(* comp_tlsq_shrink_idle.                                                  *)
Shrunk(x) ==
    IF Idle(x) /\ x.old.id = 0 /\ x.buf.cap > 2 * Chunk
    THEN [x EXCEPT !.buf = NoBuf, !.len = 0, !.head = 0] ELSE x

Sizes(x) == 0 .. Least(MaxWrite, MaxBytes - x.appended)

(* comp_tlsq_retire: the region of the finished send is free again.        *)
Retired(x) ==
    LET h == x.head + x.op.n
        y == [x EXCEPT !.sent = @ + x.op.n, !.old = NoBuf, !.op = NoOp]
    IN  IF x.old.id # 0 THEN y
        ELSE IF h = x.len THEN [y EXCEPT !.head = 0, !.len = 0] ELSE [y EXCEPT !.head = h]

(* What waited for room: the drain of a streamed response or of a          *)
(* WebSocket, in plaintext a write of its own, with TLS the engine's ring. *)
Backlog(x) ==
    UNION {IF x.tls THEN Absorb(x, n) ELSE IF n = 0 THEN Ok({x}) ELSE Write(x, n) : n \in Sizes(x)}

(* A response out to its mark completes, or (a file over TLS) goes on with *)
(* its next chunk.                                                         *)
Continue(x) ==
    IF ~(resp.pending /\ x.sent >= resp.mark) THEN {Outcome(x, resp, FALSE)}
    ELSE {Outcome(Shrunk(x), NoResp, FALSE)}
         \cup (IF x.tls THEN UNION {Respond(x, n) : n \in Sizes(x) \ {0}} ELSE {})

(* The rest of comp_tls_on_write, on a queue whose backlog has moved.      *)
Posted(S) ==
    UNION {IF k.ok THEN Continue(k.x) ELSE {Outcome(k.x, resp, TRUE)} : k \in AndThen(S, Kick)}

(* A WebSocket whose drain fails or has sent its Close frame closes after  *)
(* what is queued (kl_comp_close_after_output); what is not posted is not  *)
(* kicked in plaintext.                                                    *)
Leaves(S) ==
    UNION {IF r.x.tls THEN {Outcome(k.x, resp, ~k.ok \/ Idle(k.x)) : k \in AndThen({r}, Kick)}
           ELSE {Outcome(r.x, resp, Idle(r.x))} : r \in S}

Settles(S) == \E o \in S : q' = o.x /\ resp' = o.resp /\ closing' = o.closing

-----------------------------------------------------------------------------
Init ==
    /\ q \in {Empty(tls) : tls \in BOOLEAN}
    /\ resp = NoResp
    /\ wire = 0
    /\ closing = FALSE

(* kl_comp_queue_write of a producer; a WebSocket's is refused past its    *)
(* allowance.                                                              *)
QueueWrite(n, ws) ==
    /\ ~closing
    /\ ~q.tls
    /\ n \in Sizes(q)
    /\ ~(ws /\ (Unposted(q) >= QueueMax \/ n > QueueMax - Unposted(q)))
    /\ \E r \in Write(q, n) : q' = r.x
    /\ UNCHANGED <<resp, wire, closing>>

(* kl_comp_tls_flush.  A failure closes the connection, or (a frame or a   *)
(* chunk written by a producer) is reported to the writer.                 *)
FlushRing(n) ==
    /\ ~closing
    /\ q.tls
    /\ n \in Sizes(q)
    /\ \E r \in Flush(q, n) :
          /\ q' = r.x
          /\ closing' \in IF r.ok THEN {FALSE} ELSE IF resp.pending THEN {TRUE} ELSE BOOLEAN
    /\ UNCHANGED <<resp, wire>>

QueueResponse(n) ==
    /\ ~closing
    /\ ~resp.pending
    /\ n \in Sizes(q)
    /\ q.tls \/ Idle(q)
    /\ Settles(Respond(q, n))
    /\ UNCHANGED wire

(* comp_tls_send_stream: the rest of a streamed response, then its mark;   *)
(* complete at once when nothing is left to send.                          *)
SendStream ==
    /\ ~closing
    /\ ~resp.pending
    /\ Settles({IF ~r.ok THEN Outcome(r.x, resp, TRUE)
                ELSE Outcome(r.x, IF Idle(r.x) THEN resp ELSE Marked(r.x), FALSE) :
                  r \in AndThen(Backlog(q), Kick)})
    /\ UNCHANGED wire

(* What the backend reads when it puts byte i of the send on the wire.     *)
OpByte(i) ==
    IF q.op.id = q.buf.id THEN q.buf.at[q.op.off + i]
    ELSE IF q.op.id = q.old.id THEN q.old.at[q.op.off + i] ELSE 0

(* comp_tls_on_write: the send in flight is out, its region is released,   *)
(* the backlog moves up, the rest is posted.                               *)
OnWrite ==
    /\ InFlight(q)
    /\ ~closing
    /\ wire' = IF \A i \in 0..(q.op.n - 1) : OpByte(i) = wire + 1 + i
               THEN wire + q.op.n ELSE -1
    /\ LET out == Retired(q)
       IN  \/ Settles(Posted(Ok({out})))
           \/ Settles(Posted(Backlog(out)))
           \/ ~resp.pending /\ Settles(Leaves(Backlog(out)))

(* kl_http_server_conn_release: with an op posted, closing until it is     *)
(* back in comp_on_write; then, or at once, conn_comp_tlsq_reset.          *)
Close ==
    /\ ~closing
    /\ q.appended > 0
    /\ closing' = TRUE
    /\ UNCHANGED <<q, resp, wire>>

Reset ==
    /\ closing
    /\ q' \in {Empty(tls) : tls \in BOOLEAN}
    /\ resp' = NoResp
    /\ wire' = 0
    /\ closing' = FALSE

Next ==
    \/ \E n \in 1..MaxWrite : QueueResponse(n) \/ \E ws \in BOOLEAN : QueueWrite(n, ws)
    \/ \E n \in 0..MaxWrite : FlushRing(n)
    \/ SendStream
    \/ OnWrite
    \/ Close
    \/ Reset

Spec == Init /\ [][Next]_vars

-----------------------------------------------------------------------------
(* The bytes a posted send will read are the next bytes of the stream, at  *)
(* the place it was told to read, whatever was queued, compacted or grown  *)
(* since (comp_tlsq_reserve keeps a pinned buffer).                        *)
InFlightIntact ==
    InFlight(q) => \A i \in 0..(q.op.n - 1) : OpByte(i) = q.sent + 1 + i

(* What is queued and not posted follows the posted bytes without a gap, a *)
(* repetition or a stranger, and the counters agree with it.               *)
QueueInOrder ==
    LET from == IF Pinned(q) THEN q.head + q.op.n ELSE q.head
        next == q.sent + q.op.n
    IN  /\ q.appended = next + Unposted(q)
        /\ \A i \in 0..(Unposted(q) - 1) : q.buf.at[from + i] = next + 1 + i

(* The peer receives the bytes in the order they were written, each once.  *)
WireInOrder == wire = q.sent

(* While a response is pending its mark is ahead of what is out and a send *)
(* is in flight: the completion that reaches the mark has work to run (no  *)
(* response waits forever).                                                *)
MarkAhead ==
    resp.pending /\ ~closing => /\ q.sent < resp.mark
                                /\ resp.mark <= q.appended
                                /\ InFlight(q)

=============================================================================
