------------------------------ MODULE WsServer ------------------------------
(***************************************************************************)
(* A server-side WebSocket from its upgrade on (http_server_ws.c): frames  *)
(* it sends, directly or through the opt-in drain, the closing handshake   *)
(* and its deadline, the keep-alive ping, and the teardown.  What arrives  *)
(* is taken a frame at a time (its parsing is WsFrames).                   *)
(*                                                                         *)
(* On a readiness loop a write goes to the socket.  On a completion loop   *)
(* (completion_ws.c) it goes onto the connection's output queue, one send  *)
(* is in flight at a time, the next receive waits for the queue, and a     *)
(* close lets it out first.  The queue's memory is CompQueue's, the wait   *)
(* of a released connection for its last completions CompHttpServer's.     *)
(*                                                                         *)
(* A frame is two bytes on the wire, a header and a payload, so a frame    *)
(* can be cut in the middle.  Deadlines are kept as the time left, so time *)
(* has no bound: the sweep compares `now` with them only.                  *)
(***************************************************************************)
EXTENDS Integers, Sequences

CONSTANTS
    DrainOn,       \* does on_open call kl_ws_server_enable_drain
    MaxDrain,      \* its max_size, in bytes
    OutMax,        \* KL_COMP_STREAM_QUEUE_MAX, in bytes; 0 on a readiness loop
    Interval,      \* ping_interval_ms
    Stall,         \* stall_ms: the server's read timeout
    CloseTimeout,  \* ws_close_timeout
    Pings          \* identities of the pings a peer sends

VARIABLE w         \* KlWsServerConn and what became of it

vars == <<w>>

NoPing == "none"

Completion == OutMax > 0      \* comp_driven

Open ==
    [st       |-> "WS",       \* "HTTP", then "REFUSED" or "WS"; "CLOSING" while a close waits
                              \* for the output queue; "GONE" in the end
     cs       |-> FALSE,      \* close_sent
     cr       |-> FALSE,      \* close_received
     left     |-> 0,          \* time until close_deadline_ms
     next     |-> Interval,   \* time until next_ping_ms
     unans    |-> FALSE,      \* ping_unanswered
     behind   |-> FALSE,      \* ping_behind
     age      |-> 0,          \* behind: time since ping_sent_ms; CLOSING: since last_active_ms
     moved    |-> FALSE,      \* behind a backlog: send_progress + drain_moved is not ping_progress
     q        |-> <<>>,       \* the drain's buffer
     err      |-> FALSE,      \* the drain's sticky error
     armed    |-> FALSE,      \* WRITE interest
     out      |-> <<>>,       \* the output queue, not yet posted
     sending  |-> FALSE,      \* comp_tlsq_inflight
     fly      |-> <<>>,       \* what the posted send has not moved yet
     recv     |-> "posted",   \* the receive: "posted", "deferred" (comp_tlsq_then_recv) or "none"
     owed     |-> NoPing,     \* pong_owed, and for which ping
     onclose  |-> 0,          \* times on_close was called
     mid      |-> "none",     \* history: the frame the wire stopped inside
     aligned  |-> TRUE,       \* history: every frame began between frames
     backed   |-> FALSE,      \* history: the interval began behind output
     quiet    |-> 0,          \* history: time since a sign of life
     alive    |-> FALSE,      \* history: given up on, though it showed life
     rc       |-> TRUE]       \* did the call just made succeed

Init == w = [Open EXCEPT !.st = "HTTP"]

Header(k)  == [part |-> "h", frame |-> k]
Payload(k) == [part |-> "p", frame |-> k]

(* A byte reaches the wire.                                                *)
Wired(x, t) ==
    [x EXCEPT !.aligned = @ /\ (IF t.part = "h" THEN x.mid = "none" ELSE x.mid = t.frame),
              !.mid = IF t.part = "h" THEN t.frame ELSE "none"]

RECURSIVE WiredAll(_, _)
WiredAll(x, s) == IF s = <<>> THEN x ELSE WiredAll(Wired(x, Head(s)), Tail(s))

MutBroken(x) == [x EXCEPT !.rc = FALSE]

(***************************************************************************)
(* A frame that could not be sent whole: nothing more goes out and the     *)
(* close deadline has already passed, so the next sweep closes.            *)
(***************************************************************************)
Broken(x) == [x EXCEPT !.cs = TRUE, !.left = 0, !.rc = FALSE]

(* comp_tlsq_kick: everything unposted becomes the one send in flight.     *)
Kick(x) ==
    IF x.sending \/ x.out = <<>> THEN x
    ELSE [x EXCEPT !.sending = TRUE, !.fly = x.out, !.out = <<>>]

QueueFull(x) == x.st = "WS" /\ Len(x.out) >= OutMax

(***************************************************************************)
(* conn_write of one byte: taken, by the socket or by the output queue,    *)
(* which starts sending it; refused for now; or failed.  A queue at its    *)
(* bound refuses without trying.  A queue write that failed is undone, and *)
(* ws_drain_writer may take it for a refusal.                              *)
(***************************************************************************)
ConnWrite(x, t) ==
    {[is |-> "refused", x |-> x]} \cup
    (IF Completion /\ QueueFull(x) THEN {}
     ELSE {[is |-> "failed", x |-> x],
           [is |-> "taken",
            x |-> IF Completion THEN Kick([x EXCEPT !.out = Append(@, t)]) ELSE Wired(x, t)]})

(* drain_push: the backlog leaves, as far as the writer takes it.          *)
RECURSIVE Push(_)
Push(x) ==
    IF x.q = <<>> THEN {[x EXCEPT !.rc = TRUE]}
    ELSE UNION {CASE y.is = "taken"   -> Push([y.x EXCEPT !.q = Tail(@)])
                  [] y.is = "refused" -> {[y.x EXCEPT !.rc = TRUE]}
                  [] y.is = "failed"  -> {[y.x EXCEPT !.err = TRUE, !.rc = FALSE]} :
                  y \in ConnWrite(x, Head(x.q))}

(* kl_drain_write of one byte.                                             *)
DrainByte(x, t) ==
    LET append(y) == IF Len(y.q) < MaxDrain
                     THEN [y EXCEPT !.q = Append(@, t), !.rc = TRUE]
                     ELSE [y EXCEPT !.err = TRUE, !.rc = FALSE]
        direct(y) == {CASE z.is = "taken"   -> [z.x EXCEPT !.rc = TRUE]
                        [] z.is = "refused" -> append(z.x)
                        [] z.is = "failed"  -> [z.x EXCEPT !.err = TRUE, !.rc = FALSE] :
                        z \in ConnWrite(y, t)}
    IN  IF x.err THEN {[x EXCEPT !.rc = FALSE]}
        ELSE UNION {IF ~y.rc THEN {y} ELSE IF y.q # <<>> THEN {append(y)} ELSE direct(y) :
                      y \in Push(x)}

(* The drain path of ws_send_frame behind its backlog step: header, then   *)
(* payload; a refusal breaks the connection, and bytes the socket did not  *)
(* take ask for write readiness (a completion loop flushes the drain from  *)
(* its send completions).                                                  *)
DrainFrame(x, k) ==
    LET sent == UNION {IF y.rc THEN DrainByte(y, Payload(k)) ELSE {y} :
                         y \in DrainByte(x, Header(k))}
    IN  {IF ~y.rc THEN Broken(y)
         ELSE IF x.q = <<>> /\ y.q # <<>> THEN [y EXCEPT !.armed = @ \/ ~Completion] ELSE y :
           y \in sent}

(***************************************************************************)
(* ws_drain_backlog: flush, count what moved as the peer's progress, and   *)
(* answer the latest ping once the backlog is out.                         *)
(***************************************************************************)
DrainBacklog(x) ==
    IF x.err THEN {[x EXCEPT !.rc = FALSE]}
    ELSE UNION {LET z == IF Len(y.q) < Len(x.q)
                         THEN [y EXCEPT !.moved = x.behind,
                                        !.quiet = IF x.backed /\ ~Completion THEN 0 ELSE @]
                         ELSE y
                IN  IF ~z.rc \/ z.q # <<>> \/ z.owed = NoPing THEN {z}
                    ELSE IF z.cs THEN {[z EXCEPT !.owed = NoPing]}
                    ELSE {[v EXCEPT !.rc = TRUE] :
                            v \in DrainFrame([z EXCEPT !.owed = NoPing], z.owed)} :
                  y \in Push(x)}

(* conn_write_all without a drain: the socket or the queue may stop taking *)
(* the frame before it, or in the middle of it.                            *)
DirectFrame(x, k) ==
    LET all(y, t) == {IF z.is = "taken" THEN [z.x EXCEPT !.rc = TRUE] ELSE Broken(z.x) :
                        z \in ConnWrite(y, t)}
    IN  UNION {IF y.rc THEN all(y, Payload(k)) ELSE {y} : y \in all(x, Header(k))}

(***************************************************************************)
(* ws_send_frame: with the drain on, the backlog moves first, and a frame  *)
(* other than a Close does not go behind a connection that just broke.     *)
(***************************************************************************)
SendFrame(x, k) ==
    IF ~DrainOn THEN DirectFrame(x, k)
    ELSE UNION {IF ~y.rc THEN {Broken(y)}
                ELSE IF y.cs /\ k # "close" THEN {[y EXCEPT !.rc = FALSE]}
                ELSE DrainFrame(y, k) :
                  y \in IF x.q # <<>> THEN DrainBacklog(x) ELSE {[x EXCEPT !.rc = TRUE]}}

(* kl_ws_server_close.                                                     *)
ServerClose(x) ==
    IF x.cs THEN {x}
    ELSE SendFrame([x EXCEPT !.cs = TRUE, !.left = CloseTimeout], "close")

MutCleanup(x) ==
    [Open EXCEPT !.st = "GONE", !.cs = TRUE, !.cr = x.cr, !.aligned = x.aligned, !.alive = x.alive,
                 !.onclose = x.onclose + 1]

(***************************************************************************)
(* kl_ws_server_cleanup, when the connection goes away: on_close says 1006 *)
(* unless a Close frame was received, and nothing more can be sent.        *)
(***************************************************************************)
Cleanup(x) ==
    [Open EXCEPT !.st = "GONE", !.cs = TRUE, !.cr = x.cr, !.aligned = x.aligned, !.alive = x.alive,
                 !.onclose = IF x.cr THEN x.onclose ELSE x.onclose + 1]

-----------------------------------------------------------------------------
(* What waits for the output queue (completion_http_server.c).             *)

Idle(x) == ~x.sending /\ x.out = <<>>

(* kl_comp_close_after_output, or the close of a readiness loop.           *)
CloseAfterOutput(x) ==
    IF Idle(x) THEN Cleanup(x)
    ELSE [x EXCEPT !.st = "CLOSING", !.age = 0, !.recv = IF @ = "posted" THEN @ ELSE "none"]

(* kl_comp_recv_after_output: a receive that cannot be posted closes.      *)
RecvAfterOutput(x) ==
    IF Idle(x) THEN {[x EXCEPT !.recv = "posted"], Cleanup(x)} ELSE {[x EXCEPT !.recv = "deferred"]}

(* comp_tlsq_settle.                                                       *)
Settle(x) ==
    IF Idle(x) /\ x.st = "CLOSING" THEN {Cleanup(x)}
    ELSE IF Idle(x) /\ x.recv = "deferred" THEN RecvAfterOutput(x)
    ELSE {x}

(* kl_ws_server_on_writable, where the drain has bytes.                    *)
FlushDrain(x) == IF DrainOn /\ x.q # <<>> THEN DrainBacklog(x) ELSE {[x EXCEPT !.rc = TRUE]}

(***************************************************************************)
(* After the connection's own event.  Readiness: WRITE interest while the  *)
(* drain has bytes, and not otherwise (http_server.c).  Completion         *)
(* (kl_comp_ws_drive): the drain moves, and the next receive is asked for. *)
(***************************************************************************)
Rearmed(x) == [x EXCEPT !.armed = x.q # <<>>]

Handled(x) ==
    IF ~Completion THEN {Rearmed(x)}
    ELSE UNION {IF y.rc THEN RecvAfterOutput(y) ELSE {CloseAfterOutput(y)} : y \in FlushDrain(x)}

-----------------------------------------------------------------------------
Live == w.st = "WS"
Attached == w.st \in {"WS", "CLOSING"}      \* the application still has the WebSocket

(* Bytes arrived: any of them answer the auto-ping.  On a completion loop  *)
(* only a posted receive brings them.                                      *)
Arrives == Live /\ w.recv = "posted"
Heard == [w EXCEPT !.unans = FALSE, !.quiet = 0, !.recv = IF Completion THEN "none" ELSE @]

(* A connection that is closing takes frames without a bound; QueueBound   *)
(* stands for one.                                                         *)
QueueBound == Live \/ Len(w.out) < OutMax

(* kl_ws_server_send_text / _binary / _ping, from a callback or from       *)
(* outside the connection's own events.                                    *)
Send ==
    /\ Attached /\ ~w.cs /\ QueueBound
    /\ w' \in SendFrame(w, "data")

Close ==
    /\ Attached /\ ~w.cs /\ QueueBound
    /\ w' \in ServerClose(w)

(* kl_ws_server_upgrade: refused (a bad request, a 101 that could not be   *)
(* written, no memory), or open; on_open may send or close.  Frames that   *)
(* came with the request are the first to arrive.                          *)
Upgrade ==
    /\ w.st = "HTTP"
    /\ \/ w' = [w EXCEPT !.st = "REFUSED"]
       \/ \E up \in DirectFrame(w, "data") :
            LET open == [up EXCEPT !.st = "WS"] IN
            /\ up.rc
            /\ \E x \in {open} \cup SendFrame(open, "data") \cup ServerClose(open) :
                 w' \in IF Completion THEN RecvAfterOutput(x) ELSE {Rearmed(x)}

(* A message or a pong arrived, and on_message may send.                   *)
OnMessage ==
    /\ Arrives
    /\ \E x \in {Heard} \cup (IF w.cs THEN {} ELSE SendFrame(Heard, "data")) : w' \in Handled(x)

(***************************************************************************)
(* ws_handle_ping without an on_ping callback: no pong once the server has *)
(* stopped sending; behind a backlog only the latest ping is kept, to be   *)
(* answered when the drain empties; else answered now.                     *)
(***************************************************************************)
OnPing(p) ==
    /\ Arrives
    /\ \E x \in IF w.cs THEN {Heard}
                 ELSE IF DrainOn /\ w.q # <<>> THEN {[Heard EXCEPT !.owed = p]}
                 ELSE SendFrame(Heard, p) : w' \in Handled(x)

(* ws_handle_close: echo it unless one was sent, tell the application, and *)
(* the connection is closed.                                               *)
OnClose ==
    /\ Arrives
    /\ w' \in {CloseAfterOutput([x EXCEPT !.onclose = @ + 1]) :
                 x \in ServerClose([Heard EXCEPT !.cr = TRUE])}

(* A frame that breaks the protocol or is too big: Close with a status,    *)
(* and the connection is closed.                                           *)
OnViolation == Arrives /\ w' \in {CloseAfterOutput(x) : x \in ServerClose(Heard)}

(* End of stream or a read error (kl_ws_server_on_readable); comp_on_read  *)
(* lets queued output go first at an end of stream, and drops what arrives *)
(* on a connection that is closing.                                        *)
OnEof ==
    /\ Attached /\ w.recv = "posted"
    /\ w' \in {Cleanup(w), CloseAfterOutput([w EXCEPT !.recv = "none"])}
OnReadClosing == w.st = "CLOSING" /\ w.recv = "posted" /\ w' = [w EXCEPT !.recv = "none"]

(* kl_ws_server_on_writable: with the drain on, move the backlog; WRITE    *)
(* interest stays while it is pending (http_connection.c).                 *)
OnWritable ==
    /\ Live /\ w.armed
    /\ w' \in {IF x.rc THEN Rearmed(x) ELSE Cleanup(x) :
                 x \in IF DrainOn THEN DrainBacklog(w) ELSE {[w EXCEPT !.rc = TRUE]}}

(* The engine moves some of the posted send (send_progress).               *)
SendMoves ==
    /\ Attached
    /\ \E k \in 1..Len(w.fly) :
         w' = [WiredAll(w, SubSeq(w.fly, 1, k)) EXCEPT
                 !.fly = SubSeq(@, k + 1, Len(@)), !.moved = w.behind,
                 !.age = IF Live THEN @ ELSE 0, !.quiet = IF w.backed \/ ~Live THEN 0 ELSE @]

(***************************************************************************)
(* comp_on_write: the send failed, or it is out: the drain moves onto the  *)
(* queue, the queue is posted, and what waited for it to empty happens.  A *)
(* drain that failed closes after the output; only with TLS is that posted *)
(* here, in plaintext it is left to the sweep.                             *)
(***************************************************************************)
OnWrite ==
    /\ Attached /\ w.sending
    /\ \/ w' = Cleanup(w)
       \/ LET done == [w EXCEPT !.sending = FALSE, !.age = IF Live THEN @ ELSE 0] IN
          /\ w.fly = <<>>
          /\ \E x \in IF Live THEN FlushDrain(done) ELSE {[done EXCEPT !.rc = TRUE]} :
               \/ x.rc /\ w' \in Settle(Kick(x))
               \/ ~x.rc /\ w' \in {CloseAfterOutput(x), CloseAfterOutput(Kick(x))}
               \/ Kick(x) # x /\ w' = Cleanup(x)          \* the queue could not be posted

(* kl_ws_server_drain_close, when the server shuts down.                   *)
DrainClose ==
    /\ Live /\ ~w.cs
    /\ w' \in ServerClose(w)

MutOutPending == DrainOn /\ w.q # <<>>

(* ws_out_pending: on the output queue, posted or not, or in the drain.    *)
OutPending == ~Idle(w) \/ (DrainOn /\ w.q # <<>>)

(* An interval begins: with a ping when nothing waits ahead of it, else    *)
(* the backlog's movement stands in for one.                               *)
BeginInterval(x) ==
    {[y EXCEPT !.behind = OutPending, !.backed = w.q # <<>> \/ ~Idle(w), !.moved = FALSE, !.age = 0,
               !.unans = TRUE, !.next = Interval] :
       y \in IF OutPending THEN {x} ELSE SendFrame(x, "data")}

(* The peer is gone: a Close as a courtesy, with its deadline passed.      *)
GiveUp ==
    {[x EXCEPT !.left = 0, !.alive = w.quiet < IF w.backed THEN Stall ELSE Interval] :
       x \in ServerClose(w)}

(* kl_ws_server_auto_ping.                                                 *)
AutoPing ==
    IF w.cs \/ w.cr \/ w.next > 0 THEN {w}
    ELSE IF ~w.unans \/ (w.behind /\ w.moved) THEN BeginInterval([w EXCEPT !.unans = FALSE])
    ELSE IF w.behind /\ w.age < Stall THEN {[w EXCEPT !.next = Interval]}
    ELSE GiveUp

MutCloseTimeout(x) == x.cs /\ ~x.cr /\ x.left = 0 /\ x.owed = NoPing /\ x.q = <<>>

(* kl_ws_server_check_close_timeout.                                       *)
CloseTimedOut(x) == x.cs /\ ~x.cr /\ x.left = 0

(***************************************************************************)
(* The sweep: the keep-alive, then the close deadline, which on a          *)
(* completion loop posts what is queued and closes after it; a client that *)
(* takes none of it for the read timeout is released.                      *)
(***************************************************************************)
Sweep ==
    \/ /\ Live
       /\ \E x \in AutoPing :
            w' \in IF ~CloseTimedOut(x) THEN {x}
                  ELSE {CloseAfterOutput(Kick(x))} \cup (IF Kick(x) # x THEN {Cleanup(x)} ELSE {})
    \/ w.st = "CLOSING" /\ w.age > Stall /\ w' = Cleanup(w)

Saturate(v, top) == IF v < top THEN v + 1 ELSE v

Tick ==
    /\ Attached
    /\ w' = [w EXCEPT !.left = IF @ > 0 THEN @ - 1 ELSE 0,
                      !.next = IF @ > 0 THEN @ - 1 ELSE 0,
                      !.age = IF w.behind \/ ~Live THEN Saturate(@, Stall + 1) ELSE 0,
                      !.quiet = Saturate(@, Interval + Stall)]

Next ==
    \/ Upgrade \/ Send \/ Close \/ OnMessage \/ (\E p \in Pings : OnPing(p)) \/ OnClose
    \/ OnViolation \/ OnEof \/ OnReadClosing \/ OnWritable \/ SendMoves \/ OnWrite \/ DrainClose
    \/ Sweep \/ Tick

Spec == Init /\ [][Next]_vars

Fairness == WF_vars(Tick) /\ WF_vars(Sweep)

FairSpec == Spec /\ Fairness

-----------------------------------------------------------------------------
(***************************************************************************)
(* Nothing is written into the middle of a frame the socket cut short:     *)
(* every frame on the wire begins where the one before it ended, whatever  *)
(* failed in between (ws_send_frame's close_sent, the drain's sticky       *)
(* error).                                                                 *)
(***************************************************************************)
FrameAligned == w.aligned

(* on_close is called exactly once: with the peer's Close frame, or when   *)
(* the WebSocket goes without one, however long its close waits for the    *)
(* output.                                                                 *)
OnCloseOnce == w.onclose = IF w.st = "GONE" \/ w.cr THEN 1 ELSE 0

(***************************************************************************)
(* websocket_server_internal.h: "a PONG for pong_buf goes out once the     *)
(* drain empties".  A pong still owed has bytes of the drain in front of   *)
(* it, or the write event that will answer it is asked for.                *)
(***************************************************************************)
PongGoesOut ==
    (Live /\ ~w.cs /\ w.owed # NoPing) => (w.q # <<>> \/ w.armed)

(***************************************************************************)
(* The keep-alive gives up only on a peer that showed no life for the      *)
(* whole interval: no byte arrived and, when the interval began behind     *)
(* output in the drain or on the completion queue, none of that moved for  *)
(* the stall allowance.                                                    *)
(***************************************************************************)
OnlyTheDeadDropped == ~w.alive

(* A silent peer is not kept for ever, nor is one that never answers the   *)
(* server's Close.                                                         *)
SilentPeerDropped == []<>(w.st = "GONE" \/ w.quiet = 0)
CloseEnds == w.cs ~> w.st = "GONE"
=============================================================================
