------------------------------ MODULE HttpServer ------------------------------
(***************************************************************************)
(* The HTTP/1 server on a readiness loop: the connection pool, the loop of *)
(* src/protocols/http/http_server.c (batch, timeout sweep, async deadlines,*)
(* timers, graceful drain), the connection state machine of                *)
(* http_connection.c, and the suspended handlers of async.c.               *)
(*                                                                         *)
(* One thread runs everything, but handlers, body readers, resumes, timers *)
(* and watchers call back into the server, so the open C frames are kept in*)
(* `stack`.  A frame is <<where the code is, slot, flag>>; the flag says   *)
(* that the dispatch has body bytes in hand, or that the send was tried.   *)
(* Bytes on the wire are abstracted to what the framing says of them; every*)
(* clock comparison may go either way.  WebSocket and HTTP/2 appear as the *)
(* states a connection leaves HTTP/1 for, with the events the loop handles.*)
(***************************************************************************)
EXTENDS Integers, Sequences, FiniteSets

CONSTANTS
    Slots,          \* the connection slots of the pool
    Requests,       \* slot -> the requests its clients send: route, body, keep-alive
    Listen,         \* the listen socket's event
    Watch,          \* the event of an application watcher
    TlsModes,       \* whether the server is configured with TLS
    MaxSuspends,    \* bound: suspensions of one request
    MaxBatch,       \* bound: events of one wait
    MaxFrames       \* bound: open frames while application code ends operations

ASSUME HttpServerAssumption ==
    /\ IsFiniteSet(Slots) /\ Slots # {} /\ Listen # Watch /\ {Listen, Watch} \cap Slots = {}
    /\ \A c \in Slots : Requests[c] \subseteq [route : {"plain", "reader", "legacy", "async"},
                                             body : {"none", "length", "chunked"}, keep : BOOLEAN]
    /\ TlsModes \subseteq BOOLEAN /\ TlsModes # {}
    /\ MaxSuspends \in Nat /\ MaxBatch \in Nat \ {0} /\ MaxFrames \in Nat

\* The requests of the runs: every kind of route, with the bodies that make a difference.
RichRequests ==
    [route : {"plain", "legacy"}, body : {"none", "length"}, keep : {TRUE}]
      \cup [route : {"reader", "async"}, body : {"chunked"}, keep : {TRUE}]

OneClient == [c \in Slots |-> RichRequests]

VARIABLES
    conn,     \* slot -> its KlHttpConn
    reg,      \* slot -> interest the fd is registered with, or Unreg
    pool,     \* the free list and active_count
    ops,      \* KlHttpServer.async_ops, newest first: the slots whose op is pending
    armed,    \* slots whose pending op has a deadline that has not fired
    stack,    \* open frames, innermost first
    loop,     \* where the loop is: phase, slots left to sweep, next op of the deadline walk
    batch,    \* events of the last wait not handled yet: <<slot or source, ready>>
    server    \* tls, and how far kl_http_server_stop has come

vars == <<conn, reg, pool, ops, armed, stack, loop, batch, server>>

Unreg == {"unregistered"}
Nil == "nil"

\* A connection between requests: kl_http_conn_acquire, conn_keepalive_reset.
Idle ==
    [st |-> "READING", route |-> "none", chunked |-> FALSE, left |-> "none", done |-> FALSE,
     kept |-> FALSE, keep |-> FALSE, mode |-> "none", pend |-> FALSE, ended |-> FALSE,
     paused |-> FALSE, reader |-> "none", dl |-> FALSE, answer |-> "idle", sus |-> 0]

Closed == [Idle EXCEPT !.st = "CLOSED"]

Init ==
    /\ conn = [c \in Slots |-> Closed]
    /\ reg = [c \in Slots |-> Unreg]
    /\ \E s \in [1..Cardinality(Slots) -> Slots] :
          /\ \A i, j \in DOMAIN s : i # j => s[i] # s[j]
          /\ pool = [free |-> s, active |-> 0]
    /\ ops = <<>> /\ armed = {} /\ stack = <<>> /\ batch = <<>>
    /\ loop = [phase |-> "wait", todo |-> {}, next |-> Nil]
    /\ server \in [tls : TlsModes, run : {"running"}]

-----------------------------------------------------------------------------
(* Requests and responses: operators on one connection. *)

Streaming(r) == r.route \in {"legacy", "async"}
Without(s, c) == SelectSeq(s, LAMBDA d : d # c)
Listed(c) == \E i \in DOMAIN ops : ops[i] = c

\* The server commits to a final response.  The ghost `answer` remembers whether this
\* request already had one, and whether there is a request to answer.
Answered(r) == [r EXCEPT !.answer = IF @ = "open" THEN "answered" ELSE "twice"]

\* A 408 or 431 may go out before any request was parsed.
Refused(r) == [r EXCEPT !.answer = IF @ \in {"idle", "open"} THEN "answered" ELSE "twice"]

\* The reader hears how its body ended; it must hear it once.
Told(r, how) == [r EXCEPT !.reader = IF @ = "live" THEN how ELSE "both"]

\* conn_body_framing_complete
FramingComplete(r) == r.done \/ (~r.chunked /\ r.left # "part")

\* kl_http_conn_begin_drain: kept chunks are decoded first and may end the body (k).
BeginDrain(r, k) ==
    LET s == [r EXCEPT !.keep = FALSE, !.kept = FALSE, !.done = @ \/ (r.chunked /\ r.kept /\ k)]
    IN  [s EXCEPT !.st = IF FramingComplete(s) /\ s.left # "over" THEN "CLOSED" ELSE "DRAINING"]

\* kl_http_conn_reject_final
Rejected(r) == BeginDrain(Refused(r), FALSE)

\* conn_keepalive_reset
KeepaliveReset == Idle

\* conn_send_complete: a streamed body with no terminating chunk ends with the connection.
SendComplete(r, k) ==
    IF r.keep /\ ~(r.mode = "stream" /\ ~r.ended) THEN KeepaliveReset ELSE BeginDrain(r, k)

\* kl_http_conn_on_writable: error, some of it sent, or all of it (a stream that was given up
\* is over once its buffer is empty).
Written(r, k) ==
    {[r EXCEPT !.st = "CLOSED"], SendComplete([r EXCEPT !.pend = FALSE], k)}
        \cup (IF r.mode # "stream" \/ r.pend THEN {r} ELSE {})

\* The state a connection is left in by a handler that returned: conn_process,
\* conn_invoke_streaming_handler.
HandlerDone(r) ==
    IF r.st \in {"SUSPENDED", "CLOSED"} \/ (r.st = "READING_BODY" /\ Streaming(r)) THEN r
    ELSE IF r.mode = "stream" THEN [r EXCEPT !.st = IF r.pend THEN "SENDING" ELSE "CLOSED"]
    ELSE IF r.st = "SENDING" THEN r
    ELSE [Answered(r) EXCEPT !.st = "SENDING"]

MutHonourChosen(r) == Rejected(r)

\* After on_error: a streaming handler that chose its state keeps it, else the rejection.
HonourChosen(r) ==
    IF Streaming(r) /\ r.st \in {"SENDING", "CLOSED", "SUSPENDED"}
    THEN [r EXCEPT !.keep = FALSE] ELSE Rejected(r)

\* kl_http_conn_drain_step and kl_http_conn_drain_ingest: would-block, bytes (b: what the
\* framing has now), or the end (deadline, budget, EOF, error).
DrainStep(r) ==
    {[r EXCEPT !.st = "CLOSED"]}
      \cup (IF r.done THEN {} ELSE {r})
      \cup {[r EXCEPT !.left = b, !.done = r.done \/ b # "part"] :
               b \in IF r.chunked THEN {} ELSE IF r.left = "part" THEN {"part", "all", "over"} ELSE {"over"}}
      \cup {[r EXCEPT !.done = d] : d \in IF r.chunked THEN {r.done, TRUE} ELSE {}}

\* What the decoder or parser makes of body bytes.
Verdicts(r) ==
    {"error"} \cup (IF r.chunked \/ r.left = "part" THEN {"more"} ELSE {})
              \cup (IF r.chunked \/ r.left # "part" THEN {"end"} ELSE {})

-----------------------------------------------------------------------------
(* Frames. *)

Frame(at, c) == <<at, c, FALSE>>
Handlers == {"handler", "async0", "legacy", "invoke", "resume"}
Readers == {"data0", "data", "err0", "err", "errHead", "errEof", "end0", "end"}
Settles == {"event", "async"}
Top(names) == stack # <<>> /\ Head(stack)[1] \in names
TopSlot == Head(stack)[2]

\* dispatch_depth > 0: some frame is driving c.
Driven(c, k) == \E i \in DOMAIN k : k[i][1] \in Handlers \cup Readers /\ k[i][2] = c

\* c becomes r and execution goes on with k.
Go(c, r, k) ==
    /\ conn' = [conn EXCEPT ![c] = r]
    /\ stack' = k
    /\ UNCHANGED <<reg, pool, ops, armed, loop, server>>


-----------------------------------------------------------------------------
(* The body of a request, after the headers ("0") and in later reads. *)

\* conn_run_post_middleware_and_handle, conn_process: the middleware (or a 404) answers, it
\* streams its answer, or the handler runs.
RunHandler(c, r, k) ==
    \/ Go(c, [Answered(r) EXCEPT !.st = "SENDING"], k)
    \/ Go(c, [Answered(r) EXCEPT !.st = "CLOSED", !.mode = "stream"], k)
    \/ Go(c, [r EXCEPT !.st = "PROCESSING"], <<Frame("handler", c)>> \o k)

\* conn_preserve_head, then the body phase; without memory the reader is told and 500 sent.
ReadBodyNext(c, r, k) ==
    \/ Go(c, [r EXCEPT !.dl = TRUE, !.st = "READING_BODY"], k)
    \/ IF r.reader = "none" THEN Go(c, Rejected(r), k)
       ELSE Go(c, Told(r, "error"), <<Frame("errHead", c)>> \o k)

\* A streaming handler resumed by on_data in the middle of the body chose its own state.
MidBody(r) == IF r.st \in {"SENDING", "CLOSED"} THEN [r EXCEPT !.keep = FALSE] ELSE r

\* The leftover did not finish the body.
LeftoverDone(c, r, k) ==
    CASE r.route = "legacy" -> Go(c, [r EXCEPT !.st = "PROCESSING"], <<Frame("legacy", c)>> \o k)
      [] r.route = "async" /\ r.st \in {"SUSPENDED", "SENDING", "CLOSED"} -> Go(c, MidBody(r), k)
      [] OTHER -> ReadBodyNext(c, r, k)

\* The rest of the parse after on_data: malformed or too large, the body's end, or neither.
Parsed(c, r, at, k) ==
    \E v \in Verdicts(r) :
       \/ v = "error" /\ IF r.reader = "none" THEN Go(c, Rejected(r), k)
                         ELSE Go(c, Told(r, "error"), <<Frame(at.err, c)>> \o k)
       \/ v = "end" /\ LET s == [r EXCEPT !.done = TRUE]
                       IN IF r.reader = "none" THEN RunHandler(c, s, k)
                          ELSE Go(c, Told(s, "complete"), <<Frame(at.end, c)>> \o k)
       \/ v = "more" /\ IF at.end = "end0" THEN LeftoverDone(c, r, k) ELSE Go(c, MidBody(r), k)

AtDispatch == [data |-> "data0", err |-> "err0", end |-> "end0"]
AtIngest == [data |-> "data", err |-> "err", end |-> "end"]

\* Body bytes reach the decoder or the parser, which hand them to the reader's on_data.
Feed(c, r, at, k) ==
    IF r.reader = "none" THEN Parsed(c, r, at, k) ELSE Go(c, r, <<Frame(at.data, c)>> \o k)

\* conn_dispatch_request_body from the leftover on.
FeedLeftover(c, r, lo, k) == IF lo THEN Feed(c, r, AtDispatch, k) ELSE LeftoverDone(c, r, k)

\* How much of the body came with the headers: what is outstanding, bytes in hand.
Leftovers(q) ==
    CASE q.body = "none"    -> {<<"none", FALSE>>}
      [] q.body = "chunked" -> {<<"part", FALSE>>, <<"part", TRUE>>}
      [] q.body = "length"  -> {<<"part", FALSE>>, <<"part", TRUE>>, <<"all", TRUE>>, <<"over", TRUE>>}

\* conn_dispatch_request: k is what follows the dispatch.
Dispatch(c, idle, k) ==
    \E q \in Requests[c] : \E l \in Leftovers(q) :
       LET r == [idle EXCEPT !.route = q.route, !.chunked = (q.body = "chunked"), !.left = l[1],
                             !.keep = q.keep, !.answer = "open"]
           read == [r EXCEPT !.reader = "live"]
           hasReader == q.body # "none" /\ q.route # "plain"
       IN  \/ Go(c, [r EXCEPT !.st = "CLOSED"], k)
           \/ Go(c, [Answered(r) EXCEPT !.keep = FALSE, !.st = "SENDING"], k)
           \/ Go(c, [Answered(r) EXCEPT !.keep = FALSE, !.st = "CLOSED", !.mode = "stream"], k)
           \/ \E up \in {"WEBSOCKET", "HTTP2"} : Go(c, [r EXCEPT !.st = up], k)
           \/ (hasReader \/ q.body = "length") /\ Go(c, Rejected(r), k)
           \/ hasReader /\ Go(c, [Told(read, "error") EXCEPT !.keep = FALSE, !.st = "CLOSED"], k)
           \/ hasReader /\ q.route = "async" /\ Go(c, Rejected(Told(read, "error")), k)
           \/ hasReader /\ q.route = "async"
                /\ Go(c, [read EXCEPT !.dl = TRUE, !.st = "PROCESSING"], <<<<"async0", c, l[2]>>>> \o k)
           \/ hasReader /\ q.route # "async" /\ FeedLeftover(c, read, l[2], k)
           \/ q.body = "none" /\ Streaming(r)
                /\ Go(c, [r EXCEPT !.st = "PROCESSING"], <<Frame("invoke", c)>> \o k)
           \/ q.body = "none" /\ ~Streaming(r) /\ RunHandler(c, r, k)
           \/ q.body # "none" /\ q.route = "plain" /\ FeedLeftover(c, r, l[2], k)

\* The body arm of kl_http_conn_on_readable: nothing there, EOF or error, or bytes.
ReadBody(c, k) ==
    LET r == conn[c] IN
    \/ Go(c, r, k)
    \/ IF r.reader = "none" THEN Go(c, [r EXCEPT !.st = "CLOSED"], k)
       ELSE Go(c, Told(r, "error"), <<Frame("errEof", c)>> \o k)
    \/ \E b \in IF r.chunked THEN {"part"} ELSE IF r.left = "part" THEN {"part", "all", "over"} ELSE {"over"} :
          Feed(c, [r EXCEPT !.left = b], AtIngest, k)

\* The header arm: incomplete, EOF or malformed, too large, the HTTP/2 preface, a request.
ReadHeaders(c, r, k) ==
    \/ Go(c, r, k)
    \/ Go(c, [r EXCEPT !.st = "CLOSED"], k)
    \/ Go(c, Rejected(r), k)
    \/ Go(c, [r EXCEPT !.st = "HTTP2"], k)
    \/ Dispatch(c, r, k)

-----------------------------------------------------------------------------
(* What application code does inside a callback. *)

AppRuns == Top(Handlers \cup Readers \cup {"app"})

\* The request's own code is running: its handler or resume, or a parked streaming handler
\* that the body reader re-enters.
Acting(c) ==
    /\ Top(Handlers \cup Readers) /\ TopSlot = c
    /\ \/ Top(Handlers) /\ conn[c].st = "PROCESSING"
       \/ Top(Readers) /\ Streaming(conn[c]) /\ conn[c].st = "READING_BODY"

\* kl_async_suspend
Suspend(c) ==
    /\ Acting(c) /\ conn[c].sus < MaxSuspends
    /\ conn' = [conn EXCEPT ![c].st = "SUSPENDED", ![c].sus = @ + 1]
    /\ reg' = [reg EXCEPT ![c] = Unreg]
    /\ ops' = <<c>> \o ops
    /\ armed' \in {armed, armed \cup {c}}
    /\ UNCHANGED <<pool, stack, loop, batch, server>>

\* kl_http_request_await_body: a handler that has not begun to answer wants (more) body.
AwaitBody(c) ==
    /\ Acting(c) /\ Top(Handlers) /\ Streaming(conn[c])
    /\ conn[c].reader = "live" /\ conn[c].mode = "none"
    /\ Go(c, [conn[c] EXCEPT !.st = "READING_BODY"], stack)
    /\ UNCHANGED batch

\* kl_http_request_send_response from a handler the body reader re-entered.
SendResponse(c) ==
    /\ Acting(c) /\ Top(Readers)
    /\ Go(c, [Answered(conn[c]) EXCEPT !.st = "SENDING"], stack)
    /\ UNCHANGED batch

\* The handler begins, goes on with or ends a streamed response.
StreamResponse(c) ==
    /\ Acting(c) /\ Top(Handlers) /\ conn[c].mode # "buffer"
    /\ \E p \in BOOLEAN, e \in {conn[c].ended, TRUE} :
          LET r == IF conn[c].mode = "stream" THEN conn[c] ELSE Answered(conn[c])
          IN Go(c, [r EXCEPT !.mode = "stream", !.pend = p, !.ended = e], stack)
    /\ UNCHANGED batch

\* Application code touches a request's body flow only while the body is being read.
MayPause(c) == AppRuns /\ conn[c].reader # "none" /\ conn[c].st = "READING_BODY"

\* kl_event_mod: refused for an fd that is not registered.
Modified(c, mask) == [reg EXCEPT ![c] = IF @ = Unreg THEN @ ELSE mask]

\* kl_http_request_pause_body
PauseBody(c) ==
    /\ MayPause(c) /\ ~conn[c].paused
    /\ conn' = [conn EXCEPT ![c].paused = TRUE]
    /\ reg' = Modified(c, {})
    /\ UNCHANGED <<pool, ops, armed, stack, loop, batch, server>>

\* kl_http_request_resume_body
ResumeBody(c) ==
    /\ MayPause(c) /\ conn[c].paused
    /\ conn' = [conn EXCEPT ![c].paused = FALSE]
    /\ reg' = Modified(c, {"R"})
    /\ UNCHANGED <<pool, ops, armed, stack, loop, batch, server>>

\* kl_http_conn_release
Release(p, c) == [free |-> <<c>> \o p.free, active |-> p.active - 1]

\* kl_http_server_conn_release after kl_event_del: an op still attached is cancelled.
ConnRelease(c) ==
    /\ pool' = Release(pool, c)
    /\ conn' = [conn EXCEPT ![c] = Closed]
    /\ reg' = [reg EXCEPT ![c] = Unreg]
    /\ ops' = Without(ops, c) /\ armed' = armed \ {c}

\* kl_async_complete up to on_resume.
Complete(c) ==
    /\ AppRuns /\ Listed(c) /\ Len(stack) < MaxFrames
    /\ conn' = [conn EXCEPT ![c].st = "PROCESSING"]
    /\ ops' = Without(ops, c) /\ armed' = armed \ {c}
    /\ stack' = <<Frame("resume", c)>> \o stack
    /\ UNCHANGED <<reg, pool, loop, batch, server>>

MutCancel(c) ==
    /\ AppRuns /\ Listed(c)
    /\ ConnRelease(c)
    /\ UNCHANGED <<stack, loop, batch, server>>

\* kl_async_cancel: a frame that drives the connection closes it when it returns.
Cancel(c) ==
    /\ AppRuns /\ Listed(c)
    /\ IF Driven(c, stack)
       THEN /\ conn' = [conn EXCEPT ![c].st = "CLOSED"]
            /\ ops' = Without(ops, c) /\ armed' = armed \ {c}
            /\ UNCHANGED <<reg, pool>>
       ELSE ConnRelease(c)
    /\ UNCHANGED <<stack, loop, batch, server>>

-----------------------------------------------------------------------------
(* Returns from callbacks. *)

\* conn_process and conn_invoke_streaming_handler return.
HandlerReturns ==
    /\ Top({"handler", "invoke"})
    /\ Go(TopSlot, HandlerDone(conn[TopSlot]), Tail(stack)) /\ UNCHANGED batch

\* The legacy streaming handler, called before the whole body was there.
LegacyReturns ==
    /\ Top({"legacy"})
    /\ LET r == HandlerDone(conn[TopSlot])
       IN IF r.st = "READING_BODY" THEN ReadBodyNext(TopSlot, r, Tail(stack))
          ELSE Go(TopSlot, r, Tail(stack))
    /\ UNCHANGED batch

\* The streaming-async handler, called before any body byte was fed.
AsyncReturns ==
    /\ Top({"async0"})
    /\ LET r == HandlerDone(conn[TopSlot])
           lo == Head(stack)[3]
       IN IF r.st = "READING_BODY" THEN FeedLeftover(TopSlot, r, lo, Tail(stack))
          ELSE Go(TopSlot, [r EXCEPT !.keep = FALSE, !.kept = lo /\ r.st = "SUSPENDED"], Tail(stack))
    /\ UNCHANGED batch

\* on_data returns into the decoder or the parser.
DataReturns ==
    /\ Top({"data0", "data"})
    /\ Parsed(TopSlot, conn[TopSlot], IF Top({"data0"}) THEN AtDispatch ELSE AtIngest, Tail(stack))
    /\ UNCHANGED batch

\* on_error returns; after an EOF the connection closes whatever the handler chose.
ErrorReturns ==
    /\ Top({"err0", "err", "errHead", "errEof"})
    /\ Go(TopSlot, IF Top({"errEof"}) THEN [conn[TopSlot] EXCEPT !.st = "CLOSED"]
                   ELSE HonourChosen(conn[TopSlot]), Tail(stack))
    /\ UNCHANGED batch

\* on_complete returns.  A streaming handler it re-entered does not park again: the body is
\* all there.
EndReturns ==
    /\ Top({"end0", "end"})
    /\ LET r == conn[TopSlot] IN
       IF Streaming(r)
       THEN /\ r.st # "READING_BODY"
            /\ IF Top({"end0"}) /\ r.route = "legacy"
               THEN Go(TopSlot, [r EXCEPT !.st = "PROCESSING"], <<Frame("invoke", TopSlot)>> \o Tail(stack))
               ELSE Go(TopSlot, r, Tail(stack))
       ELSE RunHandler(TopSlot, r, Tail(stack))
    /\ UNCHANGED batch

\* A timer, watcher or deadline callback returns.
AppReturns ==
    /\ Top({"app"})
    /\ stack' = Tail(stack)
    /\ UNCHANGED <<conn, reg, pool, ops, armed, loop, batch, server>>

\* kl_async_complete after on_resume: suspended again; left to the frame that drives the
\* connection; or driven from here, bytes kept across the suspension first.
ResumeReturns ==
    /\ Top({"resume"})
    /\ LET c == TopSlot
           k == Tail(stack)
           r == HandlerDone(conn[c])
       IN IF r.st = "SUSPENDED" THEN Go(c, r, k)
          ELSE IF Driven(c, k)
          THEN /\ conn' = [conn EXCEPT ![c] = r]
               /\ reg' = [reg EXCEPT ![c] = IF r.st # "CLOSED" /\ @ = Unreg THEN {"R"} ELSE @]
               /\ stack' = k
               /\ UNCHANGED <<pool, ops, armed, loop, server>>
          ELSE IF r.kept /\ r.st = "READING_BODY"
          THEN Feed(c, [r EXCEPT !.kept = FALSE], AtIngest, <<Frame("async", c)>> \o k)
          ELSE Go(c, r, <<Frame("async", c)>> \o k)
    /\ UNCHANGED batch

-----------------------------------------------------------------------------
(* The end of an event or of a resume: send at once, then re-arm or release. *)

\* With TLS, the rest of a record the engine holds decrypted is read on at once.
TlsBodyPending ==
    /\ Top(Settles) /\ server.tls /\ conn[TopSlot].st = "READING_BODY"
    /\ ReadBody(TopSlot, stack) /\ UNCHANGED batch

\* kl_http_conn_on_writable before the transition.
Flush ==
    /\ Top(Settles) /\ conn[TopSlot].st = "SENDING" /\ ~Head(stack)[3]
    /\ \E k \in BOOLEAN : \E r \in Written(conn[TopSlot], k) :
          Go(TopSlot, r, <<<<Head(stack)[1], TopSlot, TRUE>>>> \o Tail(stack))
    /\ UNCHANGED batch

MutInterests(r) == IF r.st = "SENDING" THEN {{"W"}} ELSE {{"R"}}

\* The interest each state is re-armed with.
Interests(r) ==
    CASE r.st = "SENDING" -> {{"W"}}
      [] r.st = "READING_BODY" -> {IF r.paused THEN {} ELSE {"R"}}
      [] r.st = "TLS_HANDSHAKE" -> {{"R"}, {"W"}}
      [] r.st \in {"WEBSOCKET", "HTTP2"} -> {{"R"}, {"R", "W"}}
      [] OTHER -> {{"R"}}

\* The switch of the event transition (mod) and of kl_async_complete (add or mod).  Either may
\* fail, and the connection is then released; kl_event_mod of an fd not registered does.
Transition ==
    /\ Top(Settles) /\ (conn[TopSlot].st = "SENDING" => Head(stack)[3])
    /\ LET c == TopSlot IN
       \/ /\ conn[c].st = "CLOSED" /\ ConnRelease(c)
       \/ /\ conn[c].st \in {"SUSPENDED", "PROCESSING"}
          /\ UNCHANGED <<conn, reg, pool, ops, armed>>
       \/ /\ conn[c].st \notin {"CLOSED", "SUSPENDED", "PROCESSING"}
          /\ \/ /\ \E m \in Interests(conn[c]) : reg' = [reg EXCEPT ![c] = m]
                /\ ~(Top({"event"}) /\ reg[c] = Unreg)
                /\ UNCHANGED <<conn, pool, ops, armed>>
             \/ ConnRelease(c)
    /\ stack' = Tail(stack)
    /\ UNCHANGED <<loop, batch, server>>

-----------------------------------------------------------------------------
(* The loop. *)

Phase(p) == loop.phase = p /\ stack = <<>>
Enter(p) == loop' = [loop EXCEPT !.phase = p]
Active(c) == conn[c].st # "CLOSED"

\* What the poller may report of c: one event for the fd (epoll, poll, WSAPoll).
Ready(c) == IF reg[c] = Unreg THEN {} ELSE {<<c, f>> : f \in SUBSET reg[c] \ {{}}}

Events ==
    UNION {Ready(c) : c \in Slots} \cup {<<Watch, {}>>}
        \cup (IF pool.free # <<>> THEN {<<Listen, {}>>} ELSE {})

\* kl_event_wait returns a batch, in any order, one event for each fd.
Wait ==
    /\ Phase("wait") /\ server.run # "stopped"
    /\ \E n \in 0..MaxBatch : \E b \in [1..n -> Events] :
          /\ \A i, j \in 1..n : i # j => b[i][1] # b[j][1]
          /\ batch' = b
    /\ Enter("batch")
    /\ UNCHANGED <<conn, reg, pool, ops, armed, stack, server>>

Event(src) == Phase("batch") /\ batch # <<>> /\ batch[1][1] = src

\* The listen socket, once per accepted descriptor: server_accept_on_accept.
Accept ==
    /\ Event(Listen) /\ server.run = "running" /\ pool.free # <<>>
    /\ LET c == Head(pool.free) IN
       \/ /\ pool' = [free |-> Tail(pool.free), active |-> pool.active + 1]
          /\ \E st \in {"PROXY_HEADER", IF server.tls THEN "TLS_HANDSHAKE" ELSE "READING"} :
                conn' = [conn EXCEPT ![c] = [Idle EXCEPT !.st = st]]
          /\ reg' = [reg EXCEPT ![c] = {"R"}]
       \/ UNCHANGED <<pool, conn, reg>>       \* kl_event_add failed: released again
    /\ UNCHANGED <<ops, armed, stack, loop, batch, server>>

\* accept would block, or the server is draining.
AcceptDone ==
    /\ Event(Listen) /\ batch' = Tail(batch)
    /\ UNCHANGED <<conn, reg, pool, ops, armed, stack, loop, server>>

\* kl_event_dispatch: a watcher's callback, or kl_timer_fire: a timer's.
AppEvent ==
    /\ \/ Event(Watch) /\ batch' = Tail(batch) /\ UNCHANGED loop
       \/ Phase("timers") /\ Enter("drain") /\ UNCHANGED batch
    /\ stack' = <<Frame("app", Nil)>>
    /\ UNCHANGED <<conn, reg, pool, ops, armed, server>>

\* An event of a connection: by state, what is read, and then the transition.
OnEvent(c) ==
    /\ Event(c)
    /\ batch' = Tail(batch)
    /\ LET st == conn[c].st
           k == <<Frame("event", c)>>
           ready == batch[1][2]
       IN \/ st = "PROXY_HEADER"
               /\ \E s \in {"CLOSED", "PROXY_HEADER", IF server.tls THEN "TLS_HANDSHAKE" ELSE "READING"} :
                     Go(c, [conn[c] EXCEPT !.st = s], k)
          \/ (st = "TLS_HANDSHAKE" \/ (st = "PROXY_HEADER" /\ server.tls))
               /\ \E s \in {"CLOSED", "TLS_HANDSHAKE", "READING", "HTTP2"} :
                     Go(c, [conn[c] EXCEPT !.st = s], k)
          \/ st \in {"WEBSOCKET", "HTTP2"} /\ \E s \in {st, "CLOSED"} : Go(c, [conn[c] EXCEPT !.st = s], k)
          \/ st = "DRAINING" /\ \E r \in DrainStep(conn[c]) : Go(c, r, k)
          \/ st = "READING" /\ "R" \in ready /\ ReadHeaders(c, conn[c], k)
          \/ st = "PROXY_HEADER" /\ ~server.tls /\ "R" \in ready
               /\ ReadHeaders(c, [conn[c] EXCEPT !.st = "READING"], k)
          \/ st = "READING_BODY" /\ "R" \in ready /\ ReadBody(c, k)
          \/ (st \in {"SENDING", "SUSPENDED", "CLOSED"} \/ (st \in {"READING", "READING_BODY"} /\ "R" \notin ready))
               /\ Go(c, conn[c], k)

BatchDone ==
    /\ Phase("batch") /\ batch = <<>>
    /\ loop' = [loop EXCEPT !.phase = "sweep", !.todo = Slots]
    /\ UNCHANGED <<conn, reg, pool, ops, armed, stack, batch, server>>

Sweeping(c) == Phase("sweep") /\ c \in loop.todo
Swept(c) == loop' = [loop EXCEPT !.todo = @ \ {c}]

\* kl_http_server_sweep_conn_timeouts: not timed out, or a state the idle sweep leaves alone.
SweepSkips(c) ==
    /\ Sweeping(c) /\ conn[c].st # "DRAINING"
    /\ Swept(c) /\ UNCHANGED <<conn, reg, pool, ops, armed, stack, batch, server>>

\* A drain's deadline is checked and one more chunk discarded.
SweepDrains(c) ==
    /\ Sweeping(c) /\ conn[c].st = "DRAINING"
    /\ \E r \in DrainStep(conn[c]) :
          IF r.st = "CLOSED" THEN ConnRelease(c)
          ELSE conn' = [conn EXCEPT ![c] = r] /\ UNCHANGED <<reg, pool, ops, armed>>
    /\ Swept(c) /\ UNCHANGED <<stack, batch, server>>

MutSweepTimesOut(c) ==
    /\ Sweeping(c) /\ conn[c].st \in {"READING", "READING_BODY"}
    /\ LET r == Rejected(conn[c])
       IN IF r.st = "DRAINING"
          THEN conn' = [conn EXCEPT ![c] = r] /\ UNCHANGED <<reg, pool, ops, armed>>
          ELSE ConnRelease(c)
    /\ Swept(c) /\ UNCHANGED <<stack, batch, server>>

\* The idle timeout or the absolute body deadline: 408 and its drain, or an outright close.
SweepTimesOut(c) ==
    /\ Sweeping(c) /\ conn[c].st \notin {"CLOSED", "PROCESSING", "SUSPENDED", "DRAINING"}
    /\ LET r == IF conn[c].st \in {"READING", "READING_BODY"} THEN Rejected(conn[c]) ELSE Closed
       IN IF r.st = "DRAINING"
          THEN conn' = [conn EXCEPT ![c] = r] /\ UNCHANGED <<reg, pool, ops, armed>>
          ELSE ConnRelease(c)
    /\ Swept(c) /\ UNCHANGED <<stack, batch, server>>

SweepDone ==
    /\ Phase("sweep") /\ loop.todo = {}
    /\ loop' = [loop EXCEPT !.phase = "deadlines", !.next = IF ops = <<>> THEN Nil ELSE Head(ops)]
    /\ UNCHANGED <<conn, reg, pool, ops, armed, stack, batch, server>>

\* The op after c's on the list; the callback before may have ended c's op, and what its next
\* field then reads as is anything.
NextOps(c) ==
    IF Listed(c)
    THEN LET i == CHOOSE j \in DOMAIN ops : ops[j] = c IN {IF i = Len(ops) THEN Nil ELSE ops[i + 1]}
    ELSE {Nil} \cup {ops[i] : i \in DOMAIN ops}

\* The deadline walk: the next op is saved, then this one's on_deadline fires, once.
WalkOp ==
    /\ Phase("deadlines") /\ loop.next # Nil
    /\ \E n \in NextOps(loop.next) : loop' = [loop EXCEPT !.next = n]
    /\ \/ UNCHANGED <<armed, stack>>
       \/ /\ Listed(loop.next) /\ loop.next \in armed
          /\ armed' = armed \ {loop.next}
          /\ stack' = <<Frame("app", Nil)>>
    /\ UNCHANGED <<conn, reg, pool, ops, batch, server>>

WalkDone ==
    /\ Phase("deadlines") /\ loop.next = Nil /\ Enter("timers")
    /\ UNCHANGED <<conn, reg, pool, ops, armed, stack, batch, server>>

\* No timer is due.
NoTimer ==
    /\ Phase("timers") /\ Enter("drain")
    /\ UNCHANGED <<conn, reg, pool, ops, armed, stack, batch, server>>

\* kl_http_server_drain_progress: stop when no connection is left, or the deadline passed.
DrainProgress ==
    /\ Phase("drain") /\ Enter("wait")
    /\ \/ UNCHANGED server
             /\ ~(server.run = "draining" /\ \A c \in Slots : ~Active(c))
       \/ server.run = "draining" /\ server' = [server EXCEPT !.run = "stopped"]
    /\ UNCHANGED <<conn, reg, pool, ops, armed, stack, batch>>

\* kl_http_server_stop from a signal or another thread: drain first, then stop.
Stop ==
    /\ Phase("wait") /\ server.run # "stopped"
    /\ \E to \in {"draining", "stopped"} : server.run # to /\ server' = [server EXCEPT !.run = to]
    /\ UNCHANGED <<conn, reg, pool, ops, armed, stack, loop, batch>>

\* kl_http_server_free after the loop: pending ops are cancelled, connections closed.
Free ==
    /\ Phase("wait") /\ server.run = "stopped" /\ Enter("freed")
    /\ conn' = [c \in Slots |-> Closed] /\ reg' = [c \in Slots |-> Unreg]
    /\ ops' = <<>> /\ armed' = {}
    /\ UNCHANGED <<pool, stack, batch, server>>

Freed == loop.phase = "freed" /\ UNCHANGED vars

-----------------------------------------------------------------------------

AppCalls(c) ==
    \/ Suspend(c) \/ AwaitBody(c) \/ SendResponse(c) \/ StreamResponse(c)
    \/ PauseBody(c) \/ ResumeBody(c) \/ Complete(c) \/ Cancel(c)

Returns ==
    \/ HandlerReturns \/ LegacyReturns \/ AsyncReturns \/ DataReturns \/ ErrorReturns
    \/ EndReturns \/ AppReturns \/ ResumeReturns

Settle == TlsBodyPending \/ Flush \/ Transition

Sweep(c) == SweepSkips(c) \/ SweepDrains(c) \/ SweepTimesOut(c)

Loop ==
    \/ Wait \/ Accept \/ AcceptDone \/ AppEvent \/ BatchDone \/ SweepDone \/ WalkOp \/ WalkDone
    \/ NoTimer \/ DrainProgress
    \/ \E c \in Slots : OnEvent(c) \/ Sweep(c)

Next == Loop \/ Settle \/ Returns \/ (\E c \in Slots : AppCalls(c)) \/ Stop \/ Free \/ Freed

\* The sweep finds the body deadline, the idle timeout of a send or a drain's deadline passed.
DeadlinePasses(c) ==
    \/ (conn[c].dl \/ conn[c].st = "SENDING") /\ SweepTimesOut(c)
    \/ SweepDrains(c) /\ ~Active(c)'

\* The loop keeps running and callbacks return; a handler re-entered at the end of its body
\* answers; deadlines pass in the end; timers fire; an op is ended in the end.
Fairness ==
    /\ WF_vars(Loop \/ Settle \/ Returns)
    /\ WF_vars(Free) /\ SF_vars(Transition)
    /\ SF_vars(AppEvent)
    /\ \A c \in Slots :
          /\ WF_vars(SendResponse(c))
          /\ SF_vars(DeadlinePasses(c))
          /\ SF_vars(Complete(c) \/ Cancel(c))

Spec == Init /\ [][Next]_vars
FairSpec == Spec /\ Fairness

-----------------------------------------------------------------------------
(* Properties. *)

\* The pool: a slot is on the free list once or in use, never both, and active_count counts
\* the slots in use (kl_http_conn_acquire, kl_http_conn_release): no slot is released twice,
\* whatever callback ended it.  A closed slot may still be on its way back, in a frame.
PoolConsistent ==
    loop.phase # "freed" =>
    /\ \A i, j \in DOMAIN pool.free : i # j => pool.free[i] # pool.free[j]
    /\ pool.active = Cardinality(Slots) - Len(pool.free)
    /\ \A i \in DOMAIN pool.free : ~Active(pool.free[i]) /\ reg[pool.free[i]] = Unreg
    /\ stack = <<>> => \A c \in Slots : Active(c) \/ \E i \in DOMAIN pool.free : pool.free[i] = c

\* What each connection waits for when no callback is open: an event it is registered for, an
\* op on the server's list, a paused consumer, or (DRAINING) the sweep.
Waiting(c) ==
    CASE conn[c].st = "SENDING" -> reg[c] = {"W"}
      [] conn[c].st = "SUSPENDED" -> reg[c] = Unreg /\ Listed(c)
      [] conn[c].st = "READING_BODY" -> reg[c] = IF conn[c].paused THEN {} ELSE {"R"}
      [] conn[c].st \in {"READING", "PROXY_HEADER"} -> reg[c] = {"R"}
      [] conn[c].st = "TLS_HANDSHAKE" -> reg[c] \in {{"R"}, {"W"}}
      [] conn[c].st \in {"WEBSOCKET", "HTTP2"} -> "R" \in reg[c]
      [] conn[c].st = "DRAINING" -> reg[c] # Unreg
      [] conn[c].st = "PROCESSING" -> FALSE
      [] conn[c].st = "CLOSED" -> reg[c] = Unreg

\* No connection is stranded and no op is orphaned: between callbacks every connection in use
\* is armed for what its state waits for, and the ops on the list are the suspended ones.
NoneStranded ==
    stack = <<>> => \A c \in Slots : Waiting(c) /\ (Listed(c) => conn[c].st = "SUSPENDED")

\* Each request gets at most one final response, from the handler or from a rejection and
\* never both, and its body reader hears on_complete or on_error once.
OneOutcome == \A c \in Slots : conn[c].answer # "twice" /\ conn[c].reader # "both"

\* A connection that is reading a body under its deadline, sending, draining or suspended
\* (with the deadline set) is at rest again or closed in the end.
RequestEnds ==
    \A c \in Slots :
       (conn[c].st \in {"SENDING", "DRAINING"} \/ (conn[c].st \in {"READING_BODY", "SUSPENDED"} /\ conn[c].dl))
          ~> conn[c].st \in {"READING", "CLOSED"}

\* A connection is reused for another request only when the whole body of the last one has
\* been read (http_connection.c: unread bytes would be taken for the next request).
ReusedOnlyWhenRead ==
    [][\A c \in Slots : conn[c].st = "SENDING" /\ conn'[c].st = "READING" => FramingComplete(conn[c])]_vars

=============================================================================
