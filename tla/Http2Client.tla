------------------------------ MODULE Http2Client ------------------------------
(***************************************************************************)
(* The asynchronous HTTP/2 client: http2_client.c, its nghttp2 adapter,    *)
(* and the session below it as the adapter uses it (external).             *)
(*                                                                         *)
(* Every callback to the user runs inside the session: on_resp from the    *)
(* session's recv, or from a send that closed a stream.  From it the user  *)
(* may issue a request, close, or free the client.  A handler is a map     *)
(* from a client to the set of clients it may leave.                       *)
(***************************************************************************)
EXTENDS Integers, FiniteSets

CONSTANTS Ids,          \* stream identifiers, numbers from 1
          MaxStreams,   \* max_concurrent_streams
          Tls           \* TRUE: the connection is configured with TLS

VARIABLE c

\* What a stream's response holds: head, the latest header block; failed, its error; lost (history),
\* something of it that arrived and was not kept; ended (history), the server sent its end.
NoResp == [head |-> "none", failed |-> FALSE, lost |-> FALSE, ended |-> FALSE]

Init == c = [st |-> "none", fd |-> FALSE, watch |-> {}, sess |-> FALSE,
             streams |-> {}, ng |-> [i \in Ids |-> "idle"], live |-> {}, rst |-> {},
             resp |-> [i \in Ids |-> NoResp], told |-> [i \in Ids |-> 0], out |-> FALSE,
             blocked |-> FALSE, pend |-> FALSE, in_event |-> FALSE, free |-> FALSE,
             freed |-> FALSE, insess |-> FALSE, errs |-> 0, wrong |-> FALSE,
             partial |-> FALSE, cut |-> FALSE]

CloseConnection(x) == [x EXCEPT !.fd = FALSE, !.watch = {}]

CloseCall(x) == IF x.st = "CLOSED" THEN x ELSE CloseConnection([x EXCEPT !.st = "CLOSED"])

\* wrong: the session was destroyed below a call of its own
FreeNow(x) == [CloseCall(x) EXCEPT !.streams = {}, !.live = {}, !.sess = FALSE, !.freed = TRUE,
                                   !.wrong = @ \/ x.insess]

MutFreeCall(x) == FreeNow(x)

\* From a callback, free only closes and marks: on_event frees on unwind.
FreeCall(x) == IF x.in_event THEN CloseCall([x EXCEPT !.free = TRUE]) ELSE FreeNow(x)

Unwound(x) == LET y == [x EXCEPT !.in_event = FALSE] IN
              IF x.free THEN FreeNow(y) ELSE y

NextId(x) == CHOOSE i \in Ids : x.ng[i] = "idle" /\ \A j \in Ids : j < i => x.ng[j] # "idle"

CanRequest(x) == /\ x.st = "ACTIVE" /\ Cardinality(x.streams) < MaxStreams
                 /\ \E i \in Ids : x.ng[i] = "idle"

\* The record first, then the session's stream: a refused request is never sent.
Submitted(x) == LET i == NextId(x) IN
                [x EXCEPT !.streams = @ \cup {i}, !.live = @ \cup {i}, !.ng[i] = "open", !.out = TRUE]

\* What the user may do from a callback; a request there only marks the flush.
Callback(x) == {x, CloseCall(x), FreeCall(x)}
               \cup (IF CanRequest(x) THEN {[Submitted(x) EXCEPT !.pend = TRUE]} ELSE {})

Error(x) == Callback([CloseConnection([x EXCEPT !.st = "CLOSED"]) EXCEPT !.errs = @ + 1,
                      !.wrong = @ \/ x.free])

----------------------------------------------------------------------------
(* The session's callbacks.                                                *)

StreamRemove(x, i) == [x EXCEPT !.streams = @ \ {i}]

\* Only a close with an error code fails the response.  Of the responses handed over as complete
\* that are not (history): partial, one that arrived to its end and was not all kept; cut, one that
\* never reached its end.
OnStreamClose(x, i, err) ==
    LET ok   == ~err /\ ~x.resp[i].failed
        kept == x.resp[i].head = "final" /\ ~x.resp[i].lost
    IN IF i \notin x.streams THEN {x}
       ELSE IF x.free THEN {StreamRemove(x, i)}
       ELSE {StreamRemove(y, i) :
             y \in Callback([x EXCEPT !.told[i] = @ + 1,
                                      !.partial = @ \/ (ok /\ x.resp[i].ended /\ ~kept),
                                      !.cut = @ \/ (ok /\ ~x.resp[i].ended)])}

\* The adapter passes the error code of a close on, then frees its own record of the stream.
StreamClosed(x, i, err) ==
    {[y EXCEPT !.live = @ \ {i}, !.resp[i] = NoResp] :
     y \in OnStreamClose([x EXCEPT !.ng[i] = "gone", !.rst = @ \ {i}], i, err)}

\* Each send: refused once the client is closed or being freed, taken, or kept for later.
RECURSIVE Sent(_)
Sent(x) ==
    IF ~x.out /\ x.rst = {} THEN {[x |-> x, rc |-> 0]}
    ELSE {[x |-> x, rc |-> -1]}
         \cup (IF x.st = "CLOSED" \/ x.free THEN {}
               ELSE {[x |-> [x EXCEPT !.blocked = TRUE], rc |-> 0]}
                    \cup (IF x.out THEN Sent([x EXCEPT !.out = FALSE]) ELSE {})
                    \cup UNION {UNION {Sent(y) : y \in StreamClosed(x, i, TRUE)} : i \in x.rst})

InSession(x, set) == {[r EXCEPT !.x.insess = FALSE] : r \in set}

\* A request issued while the flush runs is flushed again, once the session's send has returned.
RECURSIVE Flush(_)
Flush(x) ==
    UNION {IF r.rc = 0 /\ r.x.pend /\ ~r.x.free /\ r.x.st # "CLOSED" THEN Flush(r.x) ELSE {r} :
           r \in InSession(x, Sent([x EXCEPT !.pend = FALSE, !.blocked = FALSE, !.insess = TRUE]))}

----------------------------------------------------------------------------
(* State handlers.                                                         *)

Over(x) == x.free \/ x.st = "CLOSED"

MutArm(x) == [x EXCEPT !.watch = {"R"}]

Arm(x) == [x EXCEPT !.watch = IF x.blocked THEN {"R", "W"} ELSE {"R"}]

\* A session factory that fails, or a session made: reading starts.
H2Init(x) == Error(x) \cup {[x EXCEPT !.sess = TRUE, !.st = "ACTIVE", !.watch = {"R"}]}

TlsHandshake(x) == H2Init(x) \cup Error(x)
                   \cup {[x EXCEPT !.st = "TLS_HANDSHAKE", !.watch = w] : w \in {{"R"}, {"W"}}}

HandleConnecting(x) == Error(x) \cup (IF Tls THEN TlsHandshake(x) ELSE H2Init(x))

\* The flush of an event: an error is reported, unless a callback ended the client.
Flushed(x) == UNION {IF r.rc < 0 /\ ~Over(r.x) THEN Error(r.x) ELSE {r.x} : r \in Flush(x)}

----------------------------------------------------------------------------
(* Actions.                                                                *)

Quiet == ~c.freed /\ ~c.in_event

\* Connected at once (no TLS: the session starts here) or in progress.
Connect ==
    /\ c.st = "none"
    /\ c' \in {[c EXCEPT !.st = "CONNECTING", !.fd = TRUE, !.watch = {"R", "W"}]}
              \cup (IF Tls THEN {} ELSE {[c EXCEPT !.st = "ACTIVE", !.fd = TRUE, !.sess = TRUE,
                                                   !.watch = {"R"}]})

OnConnecting == /\ Quiet /\ c.st = "CONNECTING"
                /\ c' \in {Unwound(y) : y \in HandleConnecting([c EXCEPT !.in_event = TRUE])}

OnTlsHandshake == /\ Quiet /\ c.st = "TLS_HANDSHAKE"
                  /\ c' \in {Unwound(y) : y \in TlsHandshake([c EXCEPT !.in_event = TRUE])}

\* Writable only.
OnWritable ==
    /\ Quiet /\ c.st = "ACTIVE" /\ "W" \in c.watch
    /\ c' \in {Unwound(IF Over(y) THEN y ELSE Arm(y)) : y \in Flushed([c EXCEPT !.in_event = TRUE])}

\* Readable, writable first when both: the read fails, would block, or feeds the session.
OnReadable ==
    /\ Quiet /\ c.st = "ACTIVE"
    /\ LET e == [c EXCEPT !.in_event = TRUE]
           Read(y) == IF Over(y) THEN {Unwound(y)}
                      ELSE {Unwound(Arm(y))} \cup {Unwound(z) : z \in Error(y)}
                           \cup {[y EXCEPT !.insess = TRUE]}
       IN c' \in UNION {Read(y) : y \in {e} \cup (IF "W" \in c.watch THEN Flushed(e) ELSE {})}

\* Frames inside recv.  The session passes them for a stream it has not reset, in the order HTTP/2
\* allows: header blocks, then data once the final one is in, then the end.
Heard(i) == c.insess /\ c.ng[i] = "open" /\ i \notin c.rst

\* A header block over the limits, or without memory for it: the session resets the stream.
RecvHeaderRefused(i) ==
    /\ Heard(i) /\ c.resp[i].head # "final"
    /\ c' = [c EXCEPT !.rst = @ \cup {i}, !.resp[i].lost = TRUE]

\* An interim block is not reported: the next one replaces it.
RecvInterim(i) == /\ Heard(i) /\ c.resp[i].head = "none"
                  /\ c' = [c EXCEPT !.resp[i].head = "interim"]

\* The final response is copied, or fails for want of memory.
MutOnResponse(x, i, copied) == [x EXCEPT !.resp[i].head = "final", !.resp[i].lost = ~copied]

OnResponse(x, i, copied) ==
    [x EXCEPT !.resp[i].head = "final", !.resp[i].lost = ~copied, !.resp[i].failed = ~copied]

RecvFinal(i) == /\ Heard(i) /\ c.resp[i].head # "final"
                /\ \E copied \in BOOLEAN : c' = OnResponse(c, i, copied)

\* Data past the cap or without memory fails the response, which then keeps nothing more.
OnData(x, i, fits) ==
    IF x.resp[i].failed \/ ~fits THEN [x EXCEPT !.resp[i].failed = TRUE, !.resp[i].lost = TRUE] ELSE x

RecvData(i) == /\ Heard(i) /\ c.resp[i].head = "final"
               /\ \E fits \in BOOLEAN : c' = OnData(c, i, fits)

RecvEnd(i) == /\ Heard(i) /\ c.resp[i].head = "final"
              /\ c' \in StreamClosed([c EXCEPT !.resp[i].ended = TRUE], i, FALSE)

\* The server resets the stream, with an error or with NO_ERROR, whose code is 0.
RecvRst(i) == /\ c.insess /\ c.ng[i] = "open"
              /\ \E err \in BOOLEAN : c' \in StreamClosed(c, i, err)

RecvPing == c.insess /\ ~c.out /\ c' = [c EXCEPT !.out = TRUE]

RecvFails == /\ c.insess
             /\ LET y == [c EXCEPT !.insess = FALSE] IN
                c' \in {Unwound(z) : z \in IF Over(y) THEN {y} ELSE Error(y)}

RecvDone ==
    /\ c.insess
    /\ LET y == [c EXCEPT !.insess = FALSE] IN
       c' \in IF Over(y) THEN {Unwound(y)}
              ELSE UNION {IF Over(z) THEN {Unwound(z)}
                          ELSE {Unwound(Arm(z))}
                               \cup (IF Tls THEN {[z EXCEPT !.insess = TRUE]} ELSE {}) : z \in Flushed(y)}

\* A request outside any callback flushes, under the same guard as an event.
MutRequest ==
    /\ Quiet /\ CanRequest(c)
    /\ c' \in {r.x : r \in Flush(Submitted(c))}

Request ==
    /\ Quiet /\ CanRequest(c)
    /\ c' \in {Unwound(IF r.rc = 0 /\ ~Over(r.x) /\ r.x.blocked THEN Arm(r.x) ELSE r.x) :
               r \in Flush([Submitted(c) EXCEPT !.in_event = TRUE])}

Close == Quiet /\ c.st \notin {"none", "CLOSED"} /\ c' = CloseCall(c)

Free == Quiet /\ c.st # "none" /\ c' = FreeCall(c)

Next == \/ Connect \/ OnConnecting \/ OnTlsHandshake \/ OnWritable \/ OnReadable
        \/ \E i \in Ids : \/ RecvHeaderRefused(i) \/ RecvInterim(i) \/ RecvFinal(i) \/ RecvData(i)
                        \/ RecvEnd(i) \/ RecvRst(i)
        \/ RecvPing \/ RecvFails \/ RecvDone \/ Request \/ Close \/ Free

Spec == Init /\ [][Next]_c

----------------------------------------------------------------------------
(* Properties                                                              *)

\* A request is answered at most once, and while the connection lives each one accepted is answered
\* or still known to both the client and its session: none is dropped by a callback that issued or
\* freed others.
EachRequestAnswered ==
    /\ \A i \in Ids : c.told[i] <= 1
    /\ c.st = "ACTIVE" /\ ~c.insess =>
        \A i \in Ids : c.ng[i] # "idle" => (c.told[i] = 1) # (i \in c.streams /\ i \in c.live /\ c.ng[i] = "open")

\* A response that reached its end and is handed over without an error is the final one and whole:
\* header block and body (http2_client.c: "never a \"complete\" response missing headers").
WholeOrFailed == ~c.partial

\* http2_client.h of a response's error: "KL_ERR_NONE (0) = the stream completed", KL_ERR_IO when
\* "the peer reset the stream".  Not so of a stream reset with NO_ERROR.
ResetFails == ~c.cut

\* Free from any callback is safe: the session is not destroyed below a call of its own, nothing is
\* called back once free was asked for, and everything is released in the end.
FreeIsLast ==
    /\ ~c.wrong
    /\ c.errs <= 1
    /\ c.freed => c.streams = {} /\ c.live = {} /\ ~c.fd /\ ~c.sess

\* Output the socket would not take is watched for WRITE, so a request issued anywhere goes out.
OutputWatched == ~c.in_event /\ c.st = "ACTIVE" /\ c.blocked => "W" \in c.watch
=============================================================================
