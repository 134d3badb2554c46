------------------------------ MODULE WsClient ------------------------------
(***************************************************************************)
(* The asynchronous WebSocket client (websocket_client.c): connect, TLS    *)
(* handshake, upgrade, open, closing handshake, and the two ways out of    *)
(* it: on_close or on_error.  Every callback may send, close or free the   *)
(* connection, so each handler is written as the set of its outcomes over  *)
(* what the socket does and what the callbacks do.                         *)
(*                                                                         *)
(* The frame loop itself is WsFrames; here a read brings one frame.  The   *)
(* upgrade request takes UpLen writes, the response UpLen reads.           *)
(***************************************************************************)
EXTENDS Integers

CONSTANTS
    Tls,         \* wss:// or ws://
    UpLen,       \* parts the upgrade request and its response come in
    HsMax,       \* reads the response buffer holds (KL_WS_CLIENT_HANDSHAKE_MAX)
    MaxDrain,    \* KL_WS_CLIENT_MAX_DRAIN, in frames
    Interval     \* is ping_interval_ms set

VARIABLE c       \* struct KlWsClientConn

vars == <<c>>

None ==
    [st     |-> "NONE",     \* before connect; WscState; or "FREED"
     fd     |-> FALSE,      \* the socket is open and watched
     tls    |-> FALSE,      \* a TLS session exists
     mask   |-> {},         \* the watcher's interest
     up     |-> 0,          \* upgrade_sent
     upbuf  |-> FALSE,      \* upgrade_buf is allocated
     hs     |-> 0,          \* handshake_len
     hsbuf  |-> FALSE,      \* handshake_buf is allocated
     q      |-> 0,          \* frames held by out_drain
     err    |-> FALSE,      \* out_drain's sticky error
     cs     |-> FALSE,      \* close_sent
     cr     |-> FALSE,      \* close_received
     ping   |-> FALSE,      \* the ping timer is set
     report |-> FALSE,      \* the deferred error report is set
     event  |-> FALSE,      \* in_event
     free   |-> FALSE,      \* free_requested
     ended  |-> 0,          \* history: terminal callbacks made
     untold |-> FALSE,      \* history: no timer could be had for the report
     late   |-> FALSE,      \* history: a callback after the last, or after free
     dropped |-> FALSE]     \* history: bytes that came with the 101 were lost

Init == c = None

Dead(x) == x.st \in {"CLOSED", "FREED"}

-----------------------------------------------------------------------------
MutCloseConnection(x) ==
    [x EXCEPT !.report = FALSE, !.fd = FALSE, !.tls = FALSE, !.mask = {}]

(* wsc_close_connection: timers off, then the watcher, TLS and the socket. *)
CloseConnection(x) ==
    [x EXCEPT !.ping = FALSE, !.report = FALSE, !.fd = FALSE, !.tls = FALSE, !.mask = {}]

(* wsc_free_now.                                                           *)
FreeNow(x) ==
    [CloseConnection(x) EXCEPT !.st = "FREED", !.upbuf = FALSE, !.hsbuf = FALSE,
                               !.q = 0, !.err = FALSE, !.hs = 0, !.up = 0]

(* kl_ws_client_free: from a callback, closed now and freed when the       *)
(* event handler unwinds.                                                  *)
FreeCall(x) ==
    IF x.event THEN [CloseConnection([x EXCEPT !.st = "CLOSED"]) EXCEPT !.free = TRUE]
    ELSE FreeNow(x)

MutInterest(x) == IF x.fd THEN [x EXCEPT !.mask = {"R"}] ELSE x

(* wsc_update_write_interest.                                              *)
Interest(x) ==
    IF x.fd THEN [x EXCEPT !.mask = IF x.q > 0 THEN {"R", "W"} ELSE {"R"}] ELSE x

(***************************************************************************)
(* wsc_send_frame: no entropy and nothing is written; else the drain moves *)
(* its backlog and takes the frame whole, in part or not at all (its cap,  *)
(* a write error: sticky).  ok says whether the frame was accepted.        *)
(***************************************************************************)
SendFrame(x) ==
    {[x |-> x, ok |-> FALSE]}
    \cup IF x.err THEN {[x |-> Interest(x), ok |-> FALSE]}
         ELSE {[x |-> Interest([x EXCEPT !.q = 0]), ok |-> TRUE],
               [x |-> Interest([x EXCEPT !.err = TRUE]), ok |-> FALSE]}
              \cup (IF x.q < MaxDrain
                    THEN {[x |-> Interest([x EXCEPT !.q = @ + 1]), ok |-> TRUE]} ELSE {})

(* wsc_error_later: closed now, reported by a 0 ms timer (if there is one  *)
(* to be had).                                                             *)
ErrorLater(x) ==
    LET y == CloseConnection([x EXCEPT !.st = "CLOSED"])
    IN  {[y EXCEPT !.report = TRUE], [y EXCEPT !.untold = TRUE]}

(* kl_ws_client_close: CLOSING once the Close is on its way, and failed    *)
(* later when it could not be sent.                                        *)
CloseCall(x) ==
    IF x.st # "OPEN" \/ x.cs THEN {x}
    ELSE UNION {IF r.ok THEN {r.x} ELSE ErrorLater(r.x) :
                  r \in SendFrame([x EXCEPT !.cs = TRUE, !.st = "CLOSING"])}

(* kl_ws_client_send_text / _binary / _ping.                               *)
SendCall(x) ==
    IF x.st # "OPEN" \/ x.cs THEN {x} ELSE {r.x : r \in SendFrame(x)}

(* A callback: the application does nothing, sends, closes or frees.       *)
Callback(x) ==
    LET y == [x EXCEPT !.late = @ \/ x.free \/ x.ended > 0]
    IN  {y, FreeCall(y)} \cup CloseCall(y) \cup SendCall(y)

(* on_close or on_error, the last word on the connection.                  *)
Last(x) == {[y EXCEPT !.ended = @ + 1] : y \in Callback(x)}

(* wsc_error, wsc_finish_close: close first, then tell.                    *)
Error(x) == Last(CloseConnection([x EXCEPT !.st = "CLOSED"]))
FinishClose(x) == Last(CloseConnection([x EXCEPT !.st = "CLOSED"]))

(* wsc_fail: a Close with a status if none was sent, then the error.       *)
Fail(x) ==
    IF x.cs THEN Error(x)
    ELSE UNION {Error(r.x) : r \in SendFrame([x EXCEPT !.cs = TRUE])}

-----------------------------------------------------------------------------
(***************************************************************************)
(* wsc_process_frames for one frame: a message to on_message, a ping       *)
(* answered, a Close answered and reported, or a frame that fails.         *)
(***************************************************************************)
OneFrame(x) ==
    Callback(x)
    \cup {r.x : r \in SendFrame(x)}
    \cup UNION {FinishClose(r.x) :
                  r \in IF x.cs THEN {[x |-> [x EXCEPT !.cr = TRUE], ok |-> TRUE]}
                        ELSE SendFrame([x EXCEPT !.cr = TRUE, !.cs = TRUE])}
    \cup Fail(x) \cup Error(x)

(* wsc_handle_open: nothing yet, a frame, the end of the stream, an error. *)
HandleOpen(x) ==
    {x} \cup OneFrame(x) \cup Error(x)
    \cup IF x.cr THEN {CloseConnection([x EXCEPT !.st = "CLOSED"])} ELSE FinishClose(x)

(* wsc_handle_writable: flush the drain; its error ends the connection.    *)
HandleWritable(x) ==
    IF x.err THEN Error(x)
    ELSE {Interest([x EXCEPT !.q = k]) : k \in 0..x.q}
         \cup (IF x.q > 0 THEN Error([x EXCEPT !.err = TRUE]) ELSE {})

(* The TLS handshake wants to read, wants to write, is done, or failed.    *)
Handshake(x) ==
    {[x EXCEPT !.st = "TLS", !.mask = {"R"}], [x EXCEPT !.st = "TLS", !.mask = {"W"}],
     [x EXCEPT !.st = "WSH", !.mask = {"W"}]} \cup Error([x EXCEPT !.st = "TLS"])

(* wsc_handle_connecting: SO_ERROR, then the TLS session or the upgrade.   *)
HandleConnecting(x) ==
    Error(x)
    \cup IF Tls THEN Error([x EXCEPT !.tls = TRUE]) \cup Handshake([x EXCEPT !.tls = TRUE])
         ELSE {[x EXCEPT !.st = "WSH", !.mask = {"W"}]}

(* The upgrade request, a part at a time.                                  *)
SendUpgrade(x) ==
    {x, [x EXCEPT !.up = @ + 1, !.mask = IF x.up + 1 = UpLen THEN {"R"} ELSE @]}
    \cup Error(x)

MutOpened(x, leftover) ==
    LET y == [x EXCEPT !.st = "OPEN", !.upbuf = FALSE, !.hsbuf = FALSE, !.mask = {"R"},
                       !.ping = Interval, !.up = 0, !.hs = 0]
    IN  UNION {IF leftover THEN OneFrame(z) ELSE {z} : z \in Callback(y)}

(***************************************************************************)
(* The response is complete and valid: buffers freed, the ping timer set,  *)
(* on_open, and then the frames that came with it, unless on_open freed or *)
(* closed the connection; last, what the TLS engine already holds.         *)
(***************************************************************************)
Opened(x, leftover) ==
    LET y == [x EXCEPT !.st = "OPEN", !.upbuf = FALSE, !.hsbuf = FALSE, !.mask = {"R"},
                       !.ping = Interval, !.up = 0, !.hs = 0]
        fed == UNION {IF leftover /\ z.st = "OPEN" /\ ~z.free THEN OneFrame(z)
                      ELSE {[z EXCEPT !.dropped = leftover /\ ~Dead(z)]} : z \in Callback(y)}
        held == {z \in fed : z.tls /\ z.st = "OPEN" /\ ~z.free}
    IN  fed \cup UNION {HandleOpen(z) : z \in held}

(* wsc_parse_handshake_response, of a response read so far in n parts.     *)
ParseResponse(n) ==
    {"incomplete"} \cup IF n >= UpLen THEN {"refused", "accepted"} ELSE {}

(* Reading the response: nothing yet, an end of stream, no memory, a       *)
(* buffer at its cap, or another part of it and what the parser says.      *)
ReadUpgrade(x) ==
    LET y == [x EXCEPT !.hsbuf = TRUE]
        z == [y EXCEPT !.hs = @ + 1]
    IN  Error(x) \cup Error(y) \cup {y}
        \cup UNION {CASE v = "incomplete" -> {z}
                      [] v = "refused"    -> Error(z)
                      [] v = "accepted"   -> Opened(z, TRUE) \cup Opened(z, FALSE)
                    : v \in IF y.hs < HsMax THEN ParseResponse(z.hs) ELSE {}}

(* wsc_handle_ws_handshake.                                                *)
HandleUpgrade(x, ready) ==
    IF x.up < UpLen
    THEN IF "W" \in ready THEN SendUpgrade(x) ELSE {x}
    ELSE IF "R" \in ready THEN ReadUpgrade(x) ELSE {x}

(* wsc_on_event_body.                                                      *)
OnEventBody(x, ready) ==
    CASE x.st = "CONNECTING" -> HandleConnecting(x)
      [] x.st = "TLS"        -> Handshake(x)
      [] x.st = "WSH"        -> HandleUpgrade(x, ready)
      [] x.st \in {"OPEN", "CLOSING"} ->
            UNION {IF y.st # "CLOSED" /\ "R" \in ready THEN HandleOpen(y) ELSE {y} :
                     y \in IF "W" \in ready THEN HandleWritable(x) ELSE {x}}
      [] OTHER               -> {x}

(* The end of wsc_on_event: a free asked for meanwhile happens now.        *)
Unwound(x) ==
    IF x.free THEN FreeNow([x EXCEPT !.event = FALSE]) ELSE [x EXCEPT !.event = FALSE]

-----------------------------------------------------------------------------
(* wsc_build_upgrade: the request is kept until the response is accepted.  *)
BuildUpgrade(x) == [x EXCEPT !.upbuf = TRUE, !.up = 0]

(***************************************************************************)
(* kl_ws_client_connect, when it returns a connection (a failure before    *)
(* that closes the socket and leaves nothing): a connect that completed at *)
(* once goes to the upgrade only without TLS.                              *)
(***************************************************************************)
Connect ==
    /\ c.st \in {"NONE", "FREED"}
    /\ \E s \in {"CONNECTING"} \cup (IF Tls THEN {} ELSE {"WSH"}) :
         c' = BuildUpgrade([None EXCEPT !.st = s, !.fd = TRUE, !.mask = {"W"}])

(* wsc_on_event for what the watcher asked for and the socket has.         *)
OnEvent ==
    /\ c.fd
    /\ \E ready \in SUBSET c.mask \ {{}} :
         c' \in {Unwound(x) : x \in OnEventBody([c EXCEPT !.event = TRUE], ready)}

(* wsc_ping_timer: a ping and the next interval, while open.               *)
PingTimer ==
    /\ c.ping
    /\ IF c.st # "OPEN" \/ c.cs THEN c' = [c EXCEPT !.ping = FALSE]
       ELSE c' \in {r.x : r \in SendFrame(c)}

(* wsc_error_timer: the deferred report.                                   *)
ErrorTimer ==
    /\ c.report
    /\ c' \in Last([c EXCEPT !.report = FALSE])

(* Calls from outside the connection's events.                             *)
SendOutside  == c.st = "OPEN" /\ c' \in SendCall(c)
CloseOutside == c.st = "OPEN" /\ c' \in CloseCall(c)
FreeOutside  == c.st \notin {"NONE", "FREED"} /\ c' = FreeCall(c)

Next ==
    Connect \/ OnEvent \/ PingTimer \/ ErrorTimer \/ SendOutside \/ CloseOutside \/ FreeOutside

Spec == Init /\ [][Next]_vars

-----------------------------------------------------------------------------
(***************************************************************************)
(* on_close or on_error is the last callback: it is made once, nothing is  *)
(* called after it, and nothing after kl_ws_client_free, from whichever    *)
(* callback or call the end came (wsc_error, wsc_finish_close,             *)
(* wsc_error_later).                                                       *)
(***************************************************************************)
LastWord == ~c.late /\ c.ended <= 1

(***************************************************************************)
(* A closed connection holds no socket, watcher, TLS session or ping       *)
(* timer, its owner has been told or is about to be unless it asked for    *)
(* the free itself, and a freed one has no buffer and no pending report:   *)
(* no timer or event can reach freed memory.                               *)
(***************************************************************************)
ClosedIsOver ==
    /\ c.st = "CLOSED" => /\ ~c.fd /\ ~c.tls /\ ~c.ping /\ c.mask = {}
                          /\ c.ended > 0 \/ c.report \/ c.untold
    /\ c.st = "FREED" => ~c.fd /\ ~c.tls /\ ~c.ping /\ ~c.report /\ ~c.upbuf /\ ~c.hsbuf

(* Bytes the drain holds have WRITE interest behind them, and an idle      *)
(* connection always waits for something.                                  *)
WriteInterestKept ==
    /\ (c.st \in {"OPEN", "CLOSING"} /\ c.q > 0) => "W" \in c.mask
    /\ c.fd => c.mask # {}

(***************************************************************************)
(* websocket_client.c: "Frames that arrived with the 101 would be lost and *)
(* the parser would start mid-stream: fail instead."  Bytes that came with *)
(* the response are parsed, or the connection is over.                     *)
(***************************************************************************)
LeftoverParsed == ~c.dropped \/ Dead(c)
=============================================================================
