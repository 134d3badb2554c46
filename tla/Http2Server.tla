------------------------------ MODULE Http2Server ------------------------------
(***************************************************************************)
(* One HTTP/2 server connection: the stream table of http2_server.c, the   *)
(* nghttp2 adapter that calls it, and the session below the adapter as the *)
(* adapter uses it (external).                                             *)
(*                                                                         *)
(* A read hands the session a batch of frames (pc = "recv", one action a   *)
(* frame), which calls back into the stream table; the flush that ends it  *)
(* sends what was queued.  A send can close a stream, and the session says *)
(* so from inside the flush, to the same table.  A handler is a map from a *)
(* connection to the set of connections it may leave: what the application *)
(* and the allocator decide is the choice.                                 *)
(***************************************************************************)
EXTENDS Naturals, Sequences, FiniteSets, SequencesExt

CONSTANTS Streams,      \* the identifiers the peer opens, numbers, 1 included
          MaxStreams,   \* entries of the stream table
          MaxBody       \* DATA frames of a body before the 413

VARIABLE h

Init == h = [st |-> "H1", pc |-> "poll", tab |-> <<>>, live |-> {}, rst |-> {},
             ng |-> [s \in Streams |-> "idle"], ans |-> [s \in Streams |-> "none"],
             got |-> [s \in Streams |-> 0], lazy |-> {}, reader |-> {},
             goaway |-> FALSE, ga |-> "none", term |-> FALSE, assert |-> FALSE,
             mute |-> {}]

----------------------------------------------------------------------------
(* The stream table: an array with swap-remove.                            *)

Find(x, s) == SelectInSeq(x.tab, LAMBDA t : t = s)

Full(x) == Len(x.tab) >= MaxStreams

Destroy(x, i) ==
    IF i \notin 1 .. Len(x.tab) THEN [x EXCEPT !.assert = TRUE]
    ELSE LET s == x.tab[i] IN
         [x EXCEPT !.tab = Front([@ EXCEPT ![i] = Last(x.tab)]),
                   !.reader = @ \ {s}, !.lazy = @ \ {s}, !.got[s] = 0]

OnStreamReset(x, s) == IF Find(x, s) = 0 THEN x ELSE Destroy(x, Find(x, s))

----------------------------------------------------------------------------
(* The session: which streams it has, what it has queued, what a send does.*)

Exists(x, s) == x.ng[s] \in {"open", "ended"}

\* on_stream_close: report it, then free the adapter's record
StreamClose(x, s) ==
    [OnStreamReset([x EXCEPT !.ng[s] = "gone", !.rst = @ \ {s}, !.mute = @ \ {s}], s)
     EXCEPT !.live = @ \ {s}]

WantWrite(x) == /\ ~(x.term /\ x.ga = "sent")
                /\ \/ x.rst # {} \/ x.ga = "queued"
                   \/ \E s \in Streams : Exists(x, s) /\ x.ans[s] = "queued"

WantRead(x) == /\ ~(x.term /\ x.ga = "sent")
               /\ x.ga # "sent" \/ \E s \in Streams : Exists(x, s)

SessionDone(x) == ~WantRead(x) /\ ~WantWrite(x)

\* The response that ends a stream whose request has not ended is followed by a reset.
OnFrameSend(x, s) ==
    IF x.ng[s] = "ended" THEN StreamClose([x EXCEPT !.ans[s] = "sent"], s)
    ELSE [x EXCEPT !.ans[s] = "sent", !.rst = @ \cup {s}]

Sends(x) ==
    {OnFrameSend(x, s) : s \in {t \in Streams : /\ Exists(x, t) /\ t \notin x.rst
                                                /\ x.ans[t] = "queued"}}
    \cup {StreamClose(x, s) : s \in x.rst}
    \cup (IF x.ga = "queued" THEN {[x EXCEPT !.ga = "sent"]} ELSE {})

\* Any number of sends; the socket stops taking them anywhere, or fails.
RECURSIVE Sent(_)
Sent(x) ==
    IF ~WantWrite(x) THEN {x}
    ELSE {x} \cup UNION {Sent(y) : y \in Sends(x)}

\* deferred inside recv: the flush after it sends everything in order
Flush(x) == IF x.pc = "recv" THEN {x} ELSE Sent(x)

FlushWanted(x) == IF WantWrite(x) THEN Flush(x) ELSE {x}

\* The answers the session takes, and the one it may refuse (rc).
Submit(x, s) == {[x |-> [x EXCEPT !.ans[s] = "queued"], rc |-> 0], [x |-> x, rc |-> -1]}

----------------------------------------------------------------------------
(* Callbacks: each yields the connections it may leave and its result.     *)

Result(set, rc) == {[x |-> y, rc |-> rc] : y \in set}

\* A response of the application (app) may be one HTTP/2 cannot send: a 500 takes its place, and
\* a session that refuses the 500 too is not heard: nothing is queued and the result is 0 (mute,
\* history: the streams this happened to).  An error response is sent as it is.
SubmitResponse(x, s, app) ==
    Submit(x, s) \cup (IF app THEN {[x |-> [x EXCEPT !.mute = @ \cup {s}], rc |-> 0]} ELSE {})

\* Submit, release, and only then flush: the flush may close the stream it answers.
AnswerAndRelease(x, i, app) ==
    UNION {Result(FlushWanted(Destroy(a.x, i)), a.rc) : a \in SubmitResponse(x, x.tab[i], app)}

RefuseStream(x, s) == Submit(x, s)

\* The route matched: no memory, answered by the middleware or for want of a reader, or waiting
\* for its body with no reader, one to be made at the first DATA, or one made now.
Routed(c, i, upgrading) ==
    LET s == c.tab[i] IN
    UNION {Result({Destroy(c, i)}, -1),
           IF upgrading THEN {} ELSE AnswerAndRelease(c, i, TRUE),                 \* middleware, 415
           Result({c, [c EXCEPT !.lazy = @ \cup {s}],
                   [c EXCEPT !.reader = @ \cup {s}]}, 0)}

\* Refused for want of a slot or for too long a header list, malformed, or routed.
OnRequest(x, s, upgrading) ==
    IF Full(x) THEN RefuseStream(x, s)                                       \* 503
    ELSE LET c == [x EXCEPT !.tab = Append(@, s)]
             i == Len(c.tab)
         IN UNION {RefuseStream(x, s),                                       \* 431
                   Result({Destroy(c, i)}, -1),                              \* malformed, memory
                   Routed(c, i, upgrading)}

OnData(x, s) ==
    LET i == Find(x, s)
        Read(y) == IF y.got[s] = MaxBody THEN AnswerAndRelease(y, i, FALSE)  \* 413
                   ELSE Result({[y EXCEPT !.got[s] = @ + 1]}, 0)
                        \cup (IF s \in y.reader THEN AnswerAndRelease(y, i, FALSE) ELSE {})
    IN IF i = 0 THEN Result({x}, 0)
       ELSE IF s \in x.lazy
       THEN Read([x EXCEPT !.lazy = @ \ {s}, !.reader = @ \cup {s}])
            \cup AnswerAndRelease(x, i, FALSE)
       ELSE Read(x)

\* Post middleware, the handler, a 404 or a 405: each answers.
OnStreamEnd(x, s) ==
    IF Find(x, s) = 0 THEN Result({x}, 0) ELSE AnswerAndRelease(x, Find(x, s), TRUE)

----------------------------------------------------------------------------
(* The adapter: frames of a read.                                          *)

Closed(x) == [x EXCEPT !.st = "CLOSED", !.pc = "poll", !.tab = <<>>, !.live = {},
                       !.reader = {}, !.lazy = {}, !.rst = {}, !.ga = "none", !.mute = {},
                       !.got = [s \in Streams |-> 0],
                       !.ng = [s \in Streams |-> "gone"], !.ans = [s \in Streams |-> "none"]]

Reset(x, s) == [x EXCEPT !.rst = @ \cup {s}]

\* A callback that could not make a response: the stream is reset, the session goes on.
ResetOnError(set, s) == {IF r.rc < 0 THEN Reset(r.x, s) ELSE r.x : r \in set}

End(x, s) == ResetOnError(OnStreamEnd([x EXCEPT !.ng[s] = "ended"], s), s)

\* What follows on a stream that is being reset is ignored.
Heard(s) == h.pc = "recv" /\ h.ng[s] = "open" /\ s \notin h.rst /\ ~h.term

Headers(s, end) ==
    /\ h.pc = "recv" /\ h.ng[s] = "idle" /\ h.ga # "sent" /\ ~h.term
    /\ \A t \in Streams : t < s => h.ng[t] # "idle"
    /\ LET x == [h EXCEPT !.ng[s] = "open", !.live = @ \cup {s}] IN
       h' \in (UNION {IF end THEN End(y, s) ELSE {y} : y \in ResetOnError(OnRequest(x, s, FALSE), s)})
              \cup {[Reset(x, s) EXCEPT !.ng[s] = IF end THEN "ended" ELSE "open"],  \* over the header list
                    Closed(h)}                                                       \* no record: fatal

Data(s, end) ==
    /\ Heard(s)
    /\ h' \in UNION {IF r.rc < 0 THEN {Closed(r.x)} ELSE IF end THEN End(r.x, s) ELSE {r.x} :
                     r \in OnData(h, s)}

Trailers(s) == Heard(s) /\ h' \in End(h, s)

RstStream(s) == h.pc = "recv" /\ Exists(h, s) /\ ~h.term /\ h' = StreamClose(h, s)

\* A violation the session answers with a GOAWAY; whatever else the read held is ignored.
Violation == h.pc = "recv" /\ ~h.term /\ h' = [h EXCEPT !.term = TRUE, !.ga = "queued"]

RecvFails == h.pc = "recv" /\ h' = Closed(h)

----------------------------------------------------------------------------
(* The connection: upgrade, readable, writable, shutdown, sweep.           *)

\* With or without a flush error, and closed when the session is done.
AfterFlush(x) == {IF SessionDone(y) THEN Closed(y) ELSE y : y \in FlushWanted(x)}
                 \cup (IF WantWrite(x) THEN {Closed(x)} ELSE {})

Readable == h.st = "HTTP2" /\ h.pc = "poll" /\ h' = [h EXCEPT !.pc = "recv"]

Eof == h.st = "HTTP2" /\ h.pc = "poll" /\ h' = Closed(h)

RecvDone == h.pc = "recv" /\ h' \in AfterFlush([h EXCEPT !.pc = "poll"])

Writable == h.st = "HTTP2" /\ h.pc = "poll" /\ WantWrite(h) /\ h' \in AfterFlush(h)

\* A session opened on a connection that speaks HTTP/2 from its first byte.
Upgrade ==
    /\ h.st = "H1"
    /\ h' \in {Closed(h), [h EXCEPT !.st = "HTTP2", !.pc = "recv"]}

\* The h2c upgrade: declined while HTTP/1.1 can still answer (the settings, the request, memory);
\* then the 101, and the request on stream 1, answered before anything else is read.
UpgradeFromH1 ==
    /\ h.st = "H1"
    /\ LET up == [h EXCEPT !.st = "HTTP2", !.ng[1] = "ended", !.live = {1}]
           End1(r) == IF r.rc = 0 /\ Find(r.x, 1) # 0 THEN OnStreamEnd(r.x, 1) ELSE {r}
       IN h' \in {h, Closed(h)}
                 \cup {IF r.rc < 0 THEN Closed(r.x) ELSE [r.x EXCEPT !.pc = "recv"] :
                       r \in UNION {End1(q) : q \in OnRequest(up, 1, TRUE)}}

DrainShutdown ==
    /\ h.st = "HTTP2" /\ h.pc = "poll" /\ ~h.goaway
    /\ h' \in {[y EXCEPT !.goaway = TRUE] :
               y \in FlushWanted(h) \cup FlushWanted([h EXCEPT !.ga = IF @ = "sent" THEN @ ELSE "queued"])}

Idle(x) == x.tab = <<>> /\ ~WantWrite(x)

\* The sweep: a session that is done at once, an idle one after the read timeout.
Sweep == /\ h.st = "HTTP2" /\ h.pc = "poll" /\ (SessionDone(h) \/ Idle(h))
         /\ h' = Closed(h)

Next == \/ \E s \in Streams : \/ \E end \in BOOLEAN : Headers(s, end) \/ Data(s, end)
                              \/ Trailers(s) \/ RstStream(s)
        \/ Violation \/ RecvFails \/ Readable \/ Eof \/ RecvDone \/ Writable
        \/ Upgrade \/ UpgradeFromH1 \/ DrainShutdown \/ Sweep

Spec == Init /\ [][Next]_h

----------------------------------------------------------------------------
(* Properties                                                              *)

\* The stream table and the adapter's records follow the session: every entry of the table is one
\* stream, still open and not yet answered; a record lives exactly as long as its stream; and no
\* release reaches a slot that is not live, whatever a flush closed in between (the assert of
\* h2_stream_destroy).
TableFollowsSession ==
    /\ ~h.assert
    /\ \A i, j \in 1 .. Len(h.tab) : h.tab[i] = h.tab[j] => i = j
    /\ \A i \in 1 .. Len(h.tab) : Exists(h, h.tab[i]) /\ h.ans[h.tab[i]] = "none"
    /\ h.live = {s \in Streams : Exists(h, s)}

\* Between events no stream is forgotten: one the peer has finished sending has a response or a
\* reset on its way, one still open is in the table, answered or being reset, and one answered
\* before its upload ended is being reset, so the upload stops.  Excepted are the streams whose
\* 500 the session refused (h2_submit_500 drops its result): they have left the table without an
\* answer or a reset, and these are the only ones.
NoStreamForgotten ==
    h.st = "HTTP2" /\ h.pc = "poll" =>
        /\ \A s \in h.mute : Find(h, s) = 0 /\ h.ans[s] = "none"
        /\ \A s \in Streams \ h.mute :
            /\ h.ng[s] = "ended" => h.ans[s] # "none" \/ s \in h.rst
            /\ h.ng[s] = "open" => \/ Find(h, s) # 0 \/ s \in h.rst \/ h.ans[s] = "queued"

\* h2_answer_and_release returns "0, or -1 if the session refused the response": every stream it
\* releases has an answer or is reset.  Not so where the refused response is the 500.
RefusalReported == h.mute = {}
=============================================================================
