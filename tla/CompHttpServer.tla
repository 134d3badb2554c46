--------------------------- MODULE CompHttpServer ---------------------------
(***************************************************************************)
(* The completion driver of the HTTP server, for one pool slot             *)
(* (src/protocols/http/completion_http_server.c, with completion_ws.c,     *)
(* completion_http2.c, async.c and the sweep and release of                *)
(* http_server_core.c).  The loop thread runs a handler to its end before  *)
(* the next completion, so a handler is one action; only the TLS drive,    *)
(* which loops over the records the engine holds, takes one action per     *)
(* record (nothing else runs meanwhile).                                   *)
(*                                                                         *)
(* A handler maps the connection to the set of connections it may leave:   *)
(* every post may fail, every callback may answer in any way it is allowed *)
(* to.  The bytes of the output queue are lumps (module CompQueue has the  *)
(* bytes), the engine's input is a number of records.                      *)
(***************************************************************************)
EXTENDS Naturals

CONSTANTS
    QMax,     \* bound: lumps waiting on the output queue
    RecMax,   \* bound: records held by the TLS engine
    Tls,      \* the transports accepted: a subset of BOOLEAN
    Upgrades  \* the protocols a request may upgrade to: a subset of {"WS", "H2"}

VARIABLE c

Slot == [st |-> "FREE", tls |-> FALSE,
         recvs |-> 0, sends |-> 0,          \* ops the backend holds
         ops |-> 0, recvPosted |-> FALSE,   \* what the connection believes
         closing |-> FALSE, cancelled |-> FALSE,
         paused |-> FALSE, since |-> 0, kept |-> FALSE, inBody |-> FALSE,
         qn |-> 0, qin |-> FALSE, then |-> {},
         pend |-> FALSE, mark |-> 0, mode |-> "buf", back |-> FALSE, chunks |-> 0,
         eng |-> 0, driving |-> FALSE, redrive |-> FALSE]

Init == c = Slot

Least(a, b) == IF a < b THEN a ELSE b

Idle(x) == ~x.qin /\ x.qn = 0

(* Released, or waiting for its last completion: the caller must stop.     *)
Dead(x) == x.closing \/ x.st = "FREE"

Then(S, F(_)) == UNION {IF Dead(x) THEN {x} ELSE F(x) : x \in S}

MutClose(x) == IF x.closing THEN x ELSE [Slot EXCEPT !.recvs = x.recvs, !.sends = x.sends]

(* kl_http_server_conn_release: with ops posted they are cancelled and the *)
(* last completion releases; otherwise the slot goes back to the pool.     *)
Close(x) ==
    IF x.closing THEN x
    ELSE IF x.ops > 0 THEN [x EXCEPT !.closing = TRUE, !.cancelled = TRUE]
    ELSE [Slot EXCEPT !.recvs = x.recvs, !.sends = x.sends]

(* kl_comp_post_recv; every caller closes the connection if it fails.      *)
PostRecv(x) ==
    IF x.closing THEN {x}
    ELSE {[x EXCEPT !.ops = @ + 1, !.recvs = @ + 1, !.recvPosted = TRUE], Close(x)}

Add(x) == [x EXCEPT !.qn = Least(@ + 1, QMax)]

(* comp_tlsq_kick, closing the connection when the post fails.             *)
Kicked(x) == [x EXCEPT !.qin = TRUE, !.qn = @ - 1, !.ops = @ + 1, !.sends = @ + 1]

Kick(x) ==
    IF x.qin \/ x.qn = 0 \/ x.closing THEN {x} ELSE {Kicked(x), Close(x)}

(* conn_write through kl_comp_queue_write or the engine: taken, or not.    *)
Write(x) ==
    IF x.closing THEN {x}
    ELSE {x, IF x.qin THEN Add(x) ELSE Kicked(Add(x))}

(* kl_comp_tls_flush: what the engine produced, if anything, then a kick.  *)
(* Absorbing it may fail with a send in flight too; every caller closes.   *)
Flush(x) == Kick(x) \union (IF x.tls THEN Kick(Add(x)) \union {Close(x)} ELSE {})

(* comp_send_response: posted directly, or as marked lumps when it is      *)
(* larger than the backend takes.                                          *)
SendResponse(x) ==
    {[x EXCEPT !.ops = @ + 1, !.sends = @ + 1], Close(x)}
        \union (IF x.mode = "buf"
                THEN {[y EXCEPT !.pend = TRUE, !.mark = 1 + (IF y.qin /\ y.qn > 0 THEN 1 ELSE 0)] :
                        y \in {Kicked(Add(x))}}
                ELSE {})

MutSettleRecv(x) == {[x EXCEPT !.then = @ \ {"recv"}]}

(* comp_tlsq_settle: what waits for an empty queue.                        *)
SettleRecv(x) ==
    IF "recv" \in x.then THEN PostRecv([x EXCEPT !.then = @ \ {"recv"}]) ELSE {x}

Settle(x) ==
    IF ~Idle(x) THEN {x}
    ELSE IF "close" \in x.then THEN {Close(x)}
    ELSE IF "send" \in x.then THEN SendResponse([x EXCEPT !.then = @ \ {"send"}])
    ELSE SettleRecv([x EXCEPT !.then = @ \ {"shutwr"}])

CloseAfterOutput(x) ==
    IF Idle(x) THEN {Close(x)}
    ELSE {[x EXCEPT !.st = "CLOSED", !.then = @ \union {"close"}]}

RecvAfterOutput(x) ==
    IF Idle(x) THEN PostRecv(x) ELSE {[x EXCEPT !.then = @ \union {"recv"}]}

(* comp_tls_drive: never re-entrantly.                                     *)
TlsDrive(x) ==
    IF x.driving THEN {[x EXCEPT !.redrive = TRUE]} ELSE {[x EXCEPT !.driving = TRUE]}

(* comp_start_body_read.                                                   *)
StartBodyRead(x) ==
    LET read(y) == IF y.recvPosted \/ y.paused THEN {y}
                   ELSE IF y.tls THEN TlsDrive(y) ELSE PostRecv(y)
    IN  Then(Flush(x), read)

(* kl_http_conn_begin_drain: read what is left of the request first, or    *)
(* close.  The half-close waits for the output queue.                      *)
BeginDrain(x) ==
    {[x EXCEPT !.st = "CLOSED", !.kept = FALSE],
     [x EXCEPT !.st = "DRAINING", !.kept = FALSE, !.then = @ \union {"shutwr"}]}

(* kl_http_conn_send_complete: keep the connection, drain it, or close it. *)
SendComplete(x) ==
    BeginDrain(x) \union
    (IF x.back THEN {}
     ELSE {[x EXCEPT !.st = "READING", !.paused = FALSE, !.since = 0, !.kept = FALSE,
                     !.mode = "buf", !.chunks = 0]})

(* comp_after_send_complete.                                               *)
AfterSendComplete(x) ==
    CASE x.st = "READING"  -> IF x.tls THEN TlsDrive(x) ELSE PostRecv(x)
      [] x.st = "DRAINING" -> Then(Settle(x), PostRecv)
      [] OTHER             -> {Close(x)}

Complete(x) == UNION {AfterSendComplete(y) : y \in SendComplete([x EXCEPT !.pend = FALSE])}

(* The lumps ahead of a mark set now.                                      *)
Marked(x) == [x EXCEPT !.pend = TRUE, !.mark = x.qn + (IF x.qin THEN 1 ELSE 0)]

(* comp_tls_send_stream: the outbound buffer goes onto the queue whole.    *)
SendStream(x) ==
    LET done(y) == IF Idle(y) THEN Complete(y) ELSE {Marked(y)}
        moved   == IF x.back THEN Add([x EXCEPT !.back = FALSE]) ELSE x
    IN  Then(Flush(moved), done)

(* comp_after_state: act on the state a request left.                      *)
AfterSending(x) ==
    IF x.mode = "stream" THEN SendStream(x)
    ELSE IF x.tls THEN LET mark(y) == {Marked(y)} IN Then(Kick(Add(x)), mark)
    ELSE IF ~Idle(x) THEN {[x EXCEPT !.then = @ \union {"send"}]}
    ELSE SendResponse(x)

AfterState(x) ==
    LET settled(y) == Then(Settle(y), PostRecv)
    IN  CASE x.st = "SENDING"       -> AfterSending(x)
          [] x.st = "DRAINING"      -> Then(Flush(x), settled)
          [] x.st = "BODY"          -> StartBodyRead(x)
          [] x.st \in {"WS", "H2"}  -> Then(Flush(x), RecvAfterOutput)
          [] x.st = "SUSPENDED"     -> {x}
          [] OTHER                  -> Then(Flush(x), CloseAfterOutput)

(* A final answer to a request that is refused.                            *)
Rejected(x) == UNION {BeginDrain(y) : y \in Write(x)}

(* A response the handler (or the end of an async op) leaves to the driver.*)
Answered(x) ==
    LET y == [x EXCEPT !.st = "SENDING"]
    IN  {[y EXCEPT !.mode = "buf"], [y EXCEPT !.mode = "file", !.chunks = 1]}
          \union {[z EXCEPT !.mode = "stream", !.back = b] : z \in Write(y), b \in BOOLEAN}

MutPostRead(x) ==
    IF x.st # "BODY" \/ x.recvPosted \/ x.kept THEN {x}
    ELSE IF x.tls THEN TlsDrive(x) ELSE PostRecv(x)

(* kl_http_comp_post_read, from kl_http_request_resume_body.               *)
PostRead(x) ==
    IF x.st # "BODY" \/ x.recvPosted \/ x.inBody \/ x.kept THEN {x}
    ELSE IF x.tls THEN TlsDrive(x) ELSE PostRecv(x)

PauseBody(x)  == [x EXCEPT !.paused = TRUE, !.since = IF x.paused THEN @ ELSE 0]
ResumeBody(x) == IF x.paused THEN PostRead([x EXCEPT !.paused = FALSE, !.since = 0]) ELSE {x}

(* kl_http_conn_dispatch_request on complete headers.                      *)
Dispatched(x) ==
    Answered(x) \union Rejected(x)
      \union {[y EXCEPT !.st = "BODY", !.paused = p] : y \in Write(x), p \in BOOLEAN}
      \union {[x EXCEPT !.st = "SUSPENDED", !.kept = k, !.mode = m, !.paused = p] :
                k \in BOOLEAN, m \in {"buf", "stream"}, p \in BOOLEAN}
      \union {[y EXCEPT !.st = u] : y \in Write(x), u \in Upgrades}

(* kl_http_conn_ingest_body: one chunk of the body goes to on_data, which  *)
(* may pause, resume (also what it just paused), answer or suspend.        *)
Ingested(x) ==
    LET given == [x EXCEPT !.inBody = TRUE, !.since = IF x.paused THEN @ + 1 ELSE 0]
        after == {given, PauseBody(given)} \union ResumeBody(PauseBody(given))
        back  == {[y EXCEPT !.inBody = FALSE] : y \in after}
    IN  UNION {{y} \union Answered(y) \union Rejected(y)
                 \union {[y EXCEPT !.st = "SUSPENDED"]} : y \in back}

(* comp_try_reading and comp_grow_headers_or_431 on newly read bytes; need *)
(* says the header is not complete yet.                                    *)
TryReading(x) ==
    {Close(x)} \union UNION {AfterState(y) : y \in Dispatched(x)}
               \union UNION {AfterState(y) : y \in Rejected(x)}

DriveReading(x) == PostRecv(x) \union TryReading(x)

DriveBody(x) == UNION {AfterState(y) : y \in Ingested(x)}

-----------------------------------------------------------------------------
(* comp_tls_drive_once, one record at a time.  A result that leaves the    *)
(* drive is passed to Returned; one that loops is not.                     *)
Returned(x) ==
    IF x.st = "FREE" THEN x
    ELSE IF x.redrive /\ ~x.closing THEN [x EXCEPT !.redrive = FALSE]
    ELSE [x EXCEPT !.driving = FALSE, !.redrive = FALSE]

Read(x) == [x EXCEPT !.eng = @ - 1]

(* kl_comp_ws_drive / kl_comp_http2_drive with TLS: feed one record.       *)
FramesFed(x) == {Close(x)} \union UNION {CloseAfterOutput(y) : y \in Flush(x)}

DriveUpgraded(x) ==
    IF x.eng = 0
    THEN {Returned(y) : y \in {Close(x)} \union Then(Flush(x), RecvAfterOutput)}
    ELSE Write(Read(x)) \union {Returned(y) : y \in FramesFed(Read(x))}

DriveHandshake(x) ==
    LET more(y)  == PostRecv(y)
        up(y)    == {[y EXCEPT !.st = "READING"]} \union
                    {[y EXCEPT !.st = u] : u \in Upgrades \ {"WS"}}
        taken    == [x EXCEPT !.eng = IF @ > 0 THEN @ - 1 ELSE 0]
    IN  {Returned(y) : y \in Then(Flush(taken), more) \union Then(Flush(taken), CloseAfterOutput)}
          \union UNION {IF Dead(y) THEN {Returned(y)} ELSE up(y) :
                          y \in IF x.eng > 0 THEN Flush(taken) ELSE {}}

MutDriveTlsBody(x) ==
    IF x.recvPosted THEN {Returned(x)}
    ELSE IF x.eng = 0 THEN {Returned(y) : y \in PostRecv(x)}
    ELSE {Returned(Close(x))} \union
         UNION {IF y.st = "BODY" THEN {y}
                ELSE {Returned(z) : z \in AfterState(y)} : y \in Ingested(Read(x))}

DriveTlsBody(x) ==
    IF x.paused \/ x.recvPosted THEN {Returned(x)}
    ELSE IF x.eng = 0 THEN {Returned(y) : y \in PostRecv(x)}
    ELSE {Returned(Close(x))} \union
         UNION {IF y.st = "BODY"
                THEN IF y.paused THEN {Returned(y)} ELSE {y}
                ELSE {Returned(z) : z \in AfterState(y)} : y \in Ingested(Read(x))}

DriveTlsReading(x) ==
    IF x.eng = 0
    THEN IF x.recvPosted THEN {Returned(x)} ELSE {Returned(y) : y \in PostRecv(x)}
    ELSE {Read(x)} \union {Returned(y) : y \in TryReading(Read(x))}

TlsDriveStep ==
    /\ c.driving
    /\ c' \in CASE c.st \in {"WS", "H2"} -> DriveUpgraded(c)
                [] c.st = "HANDSHAKE"    -> DriveHandshake(c)
                [] c.st = "BODY"         -> DriveTlsBody(c)
                [] c.st = "READING"      -> DriveTlsReading(c)
                [] OTHER                 -> {Returned(c)}

-----------------------------------------------------------------------------
Running == ~c.driving

(* comp_setup_accepted: the slot is taken from the free list.              *)
Accept(tls, proxy) ==
    /\ Running
    /\ c.st = "FREE"
    /\ c' \in {[y EXCEPT !.recvs = @ + c.recvs, !.sends = @ + c.sends] :
                 y \in PostRecv([Slot EXCEPT !.tls = tls,
                           !.st = IF proxy THEN "PROXY" ELSE IF tls THEN "HANDSHAKE" ELSE "READING"])}

MutLastCompletion(x) == x

(* comp_on_read / comp_on_write on a closing connection.                   *)
LastCompletion(x) ==
    IF x.ops = 0 THEN Close([x EXCEPT !.closing = FALSE]) ELSE x

Received == [c EXCEPT !.recvs = @ - 1, !.recvPosted = FALSE, !.ops = @ - 1]

OnReadClosing ==
    /\ Running
    /\ c.recvs > 0
    /\ c.closing
    /\ c' = LastCompletion(Received)

(* EOF, an error, or a cancelled receive.                                  *)
OnReadEnds(eof) ==
    /\ Running
    /\ c.recvs > 0
    /\ ~c.closing
    /\ c' \in IF eof /\ ~Idle(Received) THEN CloseAfterOutput(Received) ELSE {Close(Received)}

OnReadUnwanted ==
    /\ Running
    /\ c.recvs > 0
    /\ ~c.closing
    /\ c.st = "CLOSED"
    /\ c' = IF "close" \in c.then THEN Received ELSE Close(Received)

(* The post-rejection drain: discard, and read on within the bounds.       *)
OnReadDraining ==
    /\ Running
    /\ c.recvs > 0
    /\ ~c.closing
    /\ c.st = "DRAINING"
    /\ LET on(y) == PostRecv(y) \union CloseAfterOutput(y)
           settled(y) == Then(Settle(y), on)
       IN  c' \in {Close(Received)} \union
                  (IF c.tls THEN CloseAfterOutput(Received) \union Then(Flush(Received), settled)
                   ELSE PostRecv(Received))

(* comp_drive_proxy: more header, the end of it, or an error.              *)
OnReadProxy ==
    /\ Running
    /\ c.recvs > 0
    /\ ~c.closing
    /\ c.st = "PROXY"
    /\ c' \in {Close(Received)} \union PostRecv(Received) \union
              (IF c.tls
               THEN UNION {TlsDrive([Received EXCEPT !.st = "HANDSHAKE", !.eng = e]) : e \in 0..1}
               ELSE LET r == [Received EXCEPT !.st = "READING"]
                    IN  DriveReading(r) \union PostRecv(r))

(* TLS: feed the engine, then drive it.                                    *)
OnReadTls(n) ==
    /\ Running
    /\ c.recvs > 0
    /\ ~c.closing
    /\ c.tls
    /\ c.st \notin {"CLOSED", "DRAINING", "PROXY"}
    /\ c' \in {Close(Received)} \union TlsDrive([Received EXCEPT !.eng = Least(@ + n, RecMax)])

(* Plaintext: HTTP/2 and WebSocket frames, body bytes, header bytes.       *)
OnReadPlain ==
    /\ Running
    /\ c.recvs > 0
    /\ ~c.closing
    /\ ~c.tls
    /\ c.st \notin {"CLOSED", "DRAINING", "PROXY"}
    /\ c' \in CASE c.st \in {"WS", "H2"} ->
                     UNION {RecvAfterOutput(y) \union CloseAfterOutput(y) : y \in Write(Received)}
                [] c.st = "BODY" -> DriveBody(Received)
                [] OTHER         -> DriveReading(Received)

-----------------------------------------------------------------------------
Sent == [c EXCEPT !.sends = @ - 1, !.ops = @ - 1]

OnWriteClosing ==
    /\ Running
    /\ c.sends > 0
    /\ c.closing
    /\ c' = LastCompletion(Sent)

OnWriteFails ==
    /\ Running
    /\ c.sends > 0
    /\ ~c.closing
    /\ c' = Close(Sent)

(* A directly posted response is out.                                      *)
OnWriteDirect ==
    /\ Running
    /\ c.sends > 0
    /\ ~c.closing
    /\ ~c.tls
    /\ ~c.qin
    /\ c' \in Complete(Sent)

(* comp_tls_on_write: the queue's send is out.  The backlog of a stream or *)
(* of a WebSocket moves on (or fails: close), the rest is posted, a        *)
(* response out to its mark goes on or completes, and what waits for an    *)
(* empty queue runs.  A WebSocket whose own backlog fails or ends with its *)
(* Close frame closes after the output.                                    *)
Backlog(x) ==
    (IF x.mode = "stream" /\ x.back THEN {Add([x EXCEPT !.back = FALSE])}
     ELSE IF x.st = "WS" THEN {x, Add(x)} ELSE {x})
      \union (IF x.tls /\ x.mode = "stream" THEN {Add(x)} ELSE {})

BacklogFails(x) ==
    IF (x.mode = "stream" /\ (x.back \/ x.tls)) \/ (x.st = "WS" /\ x.tls) THEN {Close(x)} ELSE {}

OnWriteQueue ==
    /\ Running
    /\ c.sends > 0
    /\ ~c.closing
    /\ c.tls \/ c.qin
    /\ LET out   == [Sent EXCEPT !.qin = FALSE, !.mark = IF @ > 0 THEN @ - 1 ELSE 0]
           next(y) ==
              IF ~(y.pend /\ y.mark = 0) THEN Settle(y)
              ELSE IF y.tls /\ y.mode = "file" /\ y.chunks > 0
              THEN LET mark(z) == {Marked([z EXCEPT !.chunks = @ - 1])}
                   IN  {Close(y)} \union Then(Kick(Add([y EXCEPT !.pend = FALSE])), mark)
              ELSE Complete(y)
       IN  c' \in UNION {Then(Kick(y), next) : y \in Backlog(out)}
                  \union BacklogFails(out)
                  \union (IF c.st # "WS" THEN {}
                          ELSE IF c.tls THEN Then(Flush(out), CloseAfterOutput)
                          ELSE UNION {CloseAfterOutput(y) : y \in Write(out)})

-----------------------------------------------------------------------------
(* Calls of the application between completions.                           *)
Pause ==
    /\ Running
    /\ c.st \in {"BODY", "SUSPENDED"}
    /\ ~c.closing
    /\ ~c.paused
    /\ c' = PauseBody(c)

Resume ==
    /\ Running
    /\ c.st \in {"BODY", "SUSPENDED"}
    /\ ~c.closing
    /\ c.paused
    /\ c' \in ResumeBody(c)

(* A frame sent from elsewhere (another connection's event, a timer), or a *)
(* chunk written by an async stream producer.                              *)
Produce ==
    /\ Running
    /\ ~c.closing
    /\ c.st = "WS" \/ (c.st = "SUSPENDED" /\ c.mode = "stream")
    /\ c' \in Write(c) \union (IF c.st = "SUSPENDED" THEN {[c EXCEPT !.back = TRUE]} ELSE {})
    /\ c' # c

(* kl_async_complete then kl_http_comp_resume: on_resume answers, suspends *)
(* again, or waits for (more of) the body, un-pausing it perhaps.          *)
AsyncComplete ==
    /\ Running
    /\ c.st = "SUSPENDED"
    /\ ~c.closing
    /\ LET awaits == [c EXCEPT !.st = "BODY"]
           fed(y) == IF y.kept THEN DriveBody([y EXCEPT !.kept = FALSE]) ELSE AfterState(y)
       IN  c' \in UNION {AfterState(y) : y \in Answered(c) \union {[c EXCEPT !.st = "CLOSED"]}}
                  \union Then({awaits} \union ResumeBody(awaits), fed)

(* kl_async_cancel: nothing else would end the connection.                 *)
AsyncCancel ==
    /\ Running
    /\ c.st = "SUSPENDED"
    /\ ~c.closing
    /\ c' = Close([c EXCEPT !.st = "CLOSED"])

(* kl_http_server_sweep_conn_timeouts on the completion loop.              *)
Finish(x, draining) ==
    IF draining THEN Then(Flush(x), Settle) ELSE Then(Flush(x), CloseAfterOutput)

SweepReleases ==
    /\ Running
    /\ ~c.closing
    /\ \/ c.st = "CLOSED" /\ "close" \in c.then
       \/ c.st = "DRAINING"
       \/ c.st = "BODY" /\ ~c.recvPosted
    /\ c' = Close(c)

SweepFinishes ==
    /\ Running
    /\ ~c.closing
    /\ c.st \in {"WS", "H2"}
    /\ c' \in UNION {Finish(y, FALSE) : y \in Write(c)}

SweepRejects ==
    /\ Running
    /\ ~c.closing
    /\ c.st = "READING" \/ (c.st = "BODY" /\ c.recvPosted)
    /\ c' \in UNION {Finish(y, y.st = "DRAINING") : y \in Rejected(c)}

SweepCancels ==
    /\ Running
    /\ ~c.closing
    /\ c.st \in {"PROXY", "HANDSHAKE", "SENDING"}
    /\ ~c.cancelled
    /\ c' = [c EXCEPT !.cancelled = TRUE]

Next ==
    \/ TlsDriveStep
    \/ \E t \in Tls, p \in BOOLEAN : Accept(t, p)
    \/ OnReadClosing
    \/ \E e \in BOOLEAN : OnReadEnds(e)
    \/ OnReadUnwanted
    \/ OnReadDraining
    \/ OnReadProxy
    \/ \E n \in 1..RecMax : OnReadTls(n)
    \/ OnReadPlain
    \/ OnWriteClosing
    \/ OnWriteFails
    \/ OnWriteDirect
    \/ OnWriteQueue
    \/ Pause
    \/ Resume
    \/ Produce
    \/ AsyncComplete
    \/ AsyncCancel
    \/ SweepReleases
    \/ SweepFinishes
    \/ SweepRejects
    \/ SweepCancels

vars == <<c>>

(* A backend completes every op it was given, a cancelled one included;    *)
(* the loop sweeps on every tick; a drive runs to its end.                 *)
Fairness ==
    /\ WF_vars(OnReadClosing)
    /\ WF_vars(OnWriteClosing)
    /\ WF_vars(SweepReleases)
    /\ WF_vars(TlsDriveStep)

Spec == Init /\ [][Next]_vars /\ Fairness

-----------------------------------------------------------------------------
(* comp_ops counts exactly the ops the backend holds, so a slot is back in *)
(* the pool only when no completion can still arrive for it                *)
(* (kl_http_server_conn_release, comp_on_read, comp_on_write).             *)
OpsCounted ==
    /\ c.ops = c.recvs + c.sends
    /\ c.st = "FREE" => c.recvs + c.sends = 0

(* One receive and one send at a time: two sends could reorder and two     *)
(* receives share a window; and nothing is received while a response is    *)
(* going out or a handler is suspended, where it would be parsed as the    *)
(* next request.                                                           *)
OneOpEachWay ==
    /\ c.recvs <= 1
    /\ c.sends <= 1
    /\ c.recvPosted <=> c.recvs = 1
    /\ c.st \in {"SENDING", "SUSPENDED"} => c.recvs = 0

(* A live connection always has something that will move it on: a posted   *)
(* op, an async op, the application's resume, or (a close waiting for      *)
(* output) the sweep.  A close is never forgotten.                         *)
NotStranded ==
    (~c.driving /\ ~c.closing /\ c.st # "FREE") =>
        /\ \/ c.ops > 0
           \/ c.st = "SUSPENDED"
           \/ c.st = "BODY" /\ c.paused
           \/ c.st = "CLOSED" /\ "close" \in c.then
        /\ c.st = "CLOSED" => "close" \in c.then

(* "the in-flight recv may deliver <=1 more chunk before the pause takes   *)
(* hold" (kl_http_request_pause_body), also with TLS, where the engine may *)
(* hold more, and across a suspend.                                        *)
PauseBound == c.since <= 1

(* A connection being closed gives its slot back, whether or not its peer  *)
(* ever reads the output it waits for.                                     *)
Leaving == c.closing \/ c.st = "CLOSED"

SlotReturns == Leaving ~> (c.st = "FREE")
=============================================================================
