----------------------------- MODULE HttpClientSync -----------------------------
(***************************************************************************)
(* The blocking HTTP/1.1 client (http_client_sync.c) with the buffered and *)
(* the streaming decompression of http_client_common.c: one call that      *)
(* connects to each address in turn, tunnels, shakes hands, sends,         *)
(* receives and inflates under one deadline, and cleans up.                *)
(*                                                                         *)
(* Time is the clock's value, 0 when the request starts and Deadline when  *)
(* its time is up; a wait, a resolution or a transfer may take any part of *)
(* what is left.  A transfer is what the socket or the TLS engine makes of *)
(* it.  Sizes of response bodies are kept: a body is freed by its length.  *)
(***************************************************************************)
EXTENDS Integers

CONSTANTS Deadline,    \* timeout_ms, in ticks
          NAddr,       \* addresses the name resolves to
          MaxResp,     \* max_response_size, in bytes of inflated body
          FirstCap     \* first allocation of the inflated body

VARIABLES pc,      \* where kl_http_client_request_s / _pooled is
          now,     \* the clock
          r,       \* the request: [to, https, onBody, bodyRead, auth, decomp]
          conn,    \* [fd, tls, reused, reusable]; fd: "none", "open", "closed", "pooled"
          addr,    \* the address being tried, and the ones tried before it
          held,    \* heap objects the call owns: "hdrs", "ds"
          body,    \* resp->body and what it was allocated at: [len, size]
          out,     \* the inflated body while it grows: [len, cap]
          err, ret \* resp->error; the value returned

vars == <<pc, now, r, conn, addr, held, body, out, err, ret>>

NoConn == [fd |-> "none", tls |-> "none", reused |-> FALSE, reusable |-> FALSE]
NoBody == [len |-> 0, size |-> 0]
Min2(a, b) == IF a < b THEN a ELSE b

\* The requests kl_http_client_request_s() and _pooled() take past their checks: a proxied or
\* AF_UNIX target is never pooled, and credentials for a proxy need one.
Requests ==
    {q \in [to : {"direct", "proxy", "unix", "pool"}, https : BOOLEAN, onBody : BOOLEAN,
            bodyRead : BOOLEAN, auth : BOOLEAN, decomp : BOOLEAN] :
        /\ q.to = "pool" => ~q.onBody /\ ~q.bodyRead
        /\ q.auth => q.to = "proxy"
        /\ q.to = "unix" => ~q.https}

Init ==
    /\ pc = "idle" /\ now = 0 /\ r \in Requests /\ conn = NoConn /\ addr = 1 /\ held = {}
    /\ body = NoBody /\ out = [len |-> 0, cap |-> 0] /\ err = "none" /\ ret = 0

-----------------------------------------------------------------------------
(* Time. *)

Passed == now >= Deadline
Later == now' \in now..Deadline          \* time passes, however much
StepError(e) == IF now' >= Deadline THEN "timeout" ELSE e

\* wait_ready(): ready before the limit, or the limit came, or the poll failed.
Ready(limit) == now < limit /\ now' \in now..(limit - 1)
TimedOut(limit) == now' = IF now > limit THEN now ELSE limit
PollFailed(limit) == Ready(limit)

-----------------------------------------------------------------------------
(* The call. *)

Goto(p) == pc' = p
Fail(e) == Goto("cleanup") /\ err' = StepError(e) /\ ret' = -1
FailWith(e) == Goto("cleanup") /\ err' = e /\ ret' = -1
Return(e) == Goto("returned") /\ err' = e /\ ret' = -1

\* A missing argument or a bad header count: refused before the response is cleared, so its error
\* is whatever the caller left there.
Refuse == Goto("refused") /\ ret' = -1 /\ UNCHANGED err

\* The argument checks, and the pool: a hit hands over a connection, ready to send.
EnterPooled ==
    /\ pc = "idle" /\ r.to = "pool"
    /\ \/ (Refuse \/ Return("arg")) /\ UNCHANGED conn
       \/ /\ Goto("send") /\ UNCHANGED <<err, ret>>       \* a pool hit
          /\ conn' = [NoConn EXCEPT !.fd = "open", !.reused = TRUE,
                                    !.tls = IF r.https THEN "live" ELSE "none"]
       \/ Goto("resolve") /\ UNCHANGED <<conn, err, ret>>  \* a miss
    /\ UNCHANGED <<now, r, addr, held, body, out>>

Enter ==
    /\ pc = "idle" /\ r.to # "pool"
    /\ \/ (Refuse \/ Return("arg")) /\ UNCHANGED conn    \* a refused argument or URL
       \/ r.to = "unix" /\ Goto("connect") /\ UNCHANGED <<conn, err, ret>>
       \/ r.to # "unix" /\ Goto("resolve") /\ UNCHANGED <<conn, err, ret>>
    /\ UNCHANGED <<now, r, addr, held, body, out>>

\* kl_resolve_sync() blocks, with no deadline of its own.
Resolve ==
    /\ pc = "resolve" /\ Later
    /\ \/ Goto("connect") /\ UNCHANGED <<err, ret>>
       \/ Return("dns")
    /\ UNCHANGED <<r, conn, addr, held, body, out>>

Addresses == IF r.to = "unix" THEN 1 ELSE NAddr

\* The bug: the first address may use all the time there is.
MutAttemptDeadline(i) == Deadline

\* An equal share of the time left for every address still to try.
AttemptDeadline(i) == now + (Deadline - now) \div (Addresses - i + 1)

Connected == conn' = [conn EXCEPT !.fd = "open"]

\* connect_one() for address addr, and the loop around it.
ConnectOne ==
    /\ pc = "connect" /\ addr <= Addresses /\ (r.to = "unix" \/ ~Passed)
    /\ LET limit == AttemptDeadline(addr)
           next == IF r.https THEN IF r.to = "proxy" THEN "tunnel" ELSE "handshake" ELSE "build" IN
       \/ (UNCHANGED now \/ Ready(limit)) /\ Connected /\ Goto(next) /\ UNCHANGED <<addr, err, ret>>
       \/ /\ \/ (UNCHANGED now \/ PollFailed(limit)) /\ err' = "connect"
             \/ TimedOut(limit) /\ err' = "timeout"
          /\ addr' = addr + 1 /\ UNCHANGED <<pc, conn, ret>>
    /\ UNCHANGED <<r, held, body, out>>

ConnectFails ==
    /\ pc = "connect"
    /\ \/ addr > Addresses /\ Return(err)
       \/ addr <= Addresses /\ r.to # "unix" /\ Passed /\ Return("timeout")
    /\ UNCHANGED <<now, r, conn, addr, held, body, out>>

\* proxy_connect_sync(): the CONNECT goes out, the proxy's answer is read until its headers end.
Tunnel ==
    /\ pc = "tunnel" /\ Later
    /\ \/ Goto("handshake") /\ UNCHANGED <<err, ret>>
       \/ Fail("proxy")
    /\ UNCHANGED <<r, conn, addr, held, body, out>>

\* do_tls_handshake(): a session that fails is destroyed there.  On the pooled path the socket is
\* closed and the call returns.
Handshake ==
    /\ pc = "handshake" /\ Later
    /\ \/ Goto("build") /\ conn' = [conn EXCEPT !.tls = "live"] /\ UNCHANGED <<err, ret>>
       \/ r.to # "pool" /\ Fail("tls") /\ UNCHANGED conn
       \/ r.to = "pool" /\ Return(StepError("tls")) /\ conn' = [conn EXCEPT !.fd = "closed"]
    /\ UNCHANGED <<r, addr, held, body, out>>

\* The absolute-form URL, the streaming decompressor and the proxy's credentials.
Build ==
    /\ pc = "build"
    /\ LET ds == IF r.decomp /\ r.onBody THEN {"ds"} ELSE {}
           hdrs == IF r.auth /\ ~r.https THEN {"hdrs"} ELSE {} IN
       \/ Goto("send") /\ held' = ds \cup hdrs /\ UNCHANGED <<err, ret>>
       \/ r.to = "proxy" /\ ~r.https /\ FailWith("overflow") /\ UNCHANGED held
       \/ hdrs # {} /\ FailWith("alloc") /\ held' = ds
    /\ UNCHANGED <<now, r, conn, addr, body, out>>

\* send_request_sync(), or send_headers_sync() and send_body_chunked_sync().
SendRequest ==
    /\ pc = "send" /\ Later
    /\ \/ Goto("recv") /\ UNCHANGED <<err, ret>>
       \/ Fail("io")
    /\ UNCHANGED <<r, conn, addr, held, body, out>>

\* recv_response_sync(): complete exactly at the end of a read, complete with bytes behind it or at
\* end of stream, or not complete.  A streamed body is handed on, and a decompressor that fails in
\* it, at the final flush included, fails the request; a buffered one is kept, NUL-terminated.
Receive ==
    /\ pc = "recv" /\ Later
    /\ \/ \E whole \in BOOLEAN, len \in 0..2 :
            /\ conn' = [conn EXCEPT !.reusable = whole]
            /\ body' = IF r.onBody \/ len = 0 THEN NoBody ELSE [len |-> len, size |-> len + 1]
            /\ IF r.onBody THEN Goto("finish") ELSE Goto("inflate")
            /\ UNCHANGED <<err, ret>>
       \/ r.onBody /\ "ds" \in held /\ FailWith("compress") /\ UNCHANGED <<conn, body>>
       \/ \E len \in 0..1 :
            /\ body' = IF len = 0 \/ r.onBody THEN NoBody ELSE [len |-> len, size |-> len + 1]
            /\ Fail("parse") \/ FailWith("toolarge")
            /\ UNCHANGED conn
    /\ UNCHANGED <<r, addr, held, out>>

-----------------------------------------------------------------------------
(* Inflating a buffered body. *)

\* Nothing to inflate: no decompressor, no body, or an encoding that is not its own.
NoInflation ==
    /\ pc = "inflate" /\ out.cap = 0
    /\ Goto("finish") /\ UNCHANGED <<now, r, conn, addr, held, body, out, err, ret>>

\* The bug: the buffer is not grown for the terminator.
MutGrown(want) == IF want <= out.cap THEN out.cap ELSE want - 1

\* The size the buffer must have for want bytes: doubled from the first one, never past MaxResp + 1.
Grown(want) ==
    LET start == IF out.cap = 0 THEN FirstCap ELSE out.cap
        fits == CHOOSE c \in {start * 2 ^ k : k \in 0..4} :
                    c >= want /\ \A d \in {start * 2 ^ k : k \in 0..4} : d >= want => c <= d
    IN IF want <= out.cap THEN out.cap ELSE Min2(fits, MaxResp + 1)

\* bounded_body_emit(): n more bytes, refused as soon as they pass the limit.
BoundedBodyEmit(n) ==
    /\ pc = "inflate" /\ r.decomp /\ body.len > 0
    /\ \/ /\ out.len + n > MaxResp
          /\ FailWith("toolarge") /\ out' = [len |-> 0, cap |-> 0]
       \/ /\ out.len + n <= MaxResp
          /\ out' = [len |-> out.len + n, cap |-> Grown(out.len + n + 1)]
          /\ UNCHANGED <<pc, err, ret>>
    /\ UNCHANGED <<now, r, conn, addr, held, body>>

\* kl_http_client_decompress_response_body() after the final flush: the buffer is cut to its
\* length and terminator and replaces the body.
Inflated ==
    /\ pc = "inflate" /\ r.decomp /\ body.len > 0
    /\ \/ /\ body' = [len |-> out.len, size |-> out.len + 1]
          /\ Goto("finish") /\ UNCHANGED <<err, ret>>
       \/ FailWith("compress") /\ UNCHANGED body          \* a corrupt or truncated body, or no memory
    /\ out' = [len |-> 0, cap |-> 0]
    /\ UNCHANGED <<now, r, conn, addr, held>>

\* The request succeeded.
Finish ==
    /\ pc = "finish" /\ Goto("cleanup") /\ ret' = 0
    /\ UNCHANGED <<now, r, conn, addr, held, body, out, err>>

\* cleanup: the headers, the decompressor, the session and the socket; the pooled path gives a
\* connection that may be reused back (or drops it when the pool has no room).
ReleasePooled == IF ret = 0 /\ conn.reusable
                 THEN [conn EXCEPT !.fd = "pooled"]
                 ELSE [conn EXCEPT !.fd = "closed", !.tls = "none"]

Cleanup ==
    /\ pc = "cleanup" /\ Goto("returned")
    /\ held' = {}
    /\ conn' = IF r.to = "pool" THEN ReleasePooled ELSE [conn EXCEPT !.fd = "closed", !.tls = "none"]
    /\ body' = IF ret # 0 THEN NoBody ELSE body
    /\ UNCHANGED <<now, r, addr, out, err, ret>>

\* The caller frees the response (kl_http_client_response_free()) and asks again.
Again ==
    /\ pc \in {"returned", "refused"}
    /\ pc' = "idle" /\ now' = 0 /\ UNCHANGED r /\ conn' = NoConn /\ addr' = 1 /\ held' = {}
    /\ body' = NoBody /\ out' = [len |-> 0, cap |-> 0] /\ err' = "none" /\ ret' = 0

Step ==
    \/ EnterPooled \/ Enter \/ Resolve \/ ConnectOne \/ ConnectFails \/ Tunnel \/ Handshake \/ Build
    \/ SendRequest \/ Receive \/ NoInflation \/ Inflated \/ Finish \/ Cleanup
Next == Step \/ (\E n \in 1..2 : BoundedBodyEmit(n)) \/ Again

Spec == Init /\ [][Next]_vars /\ WF_vars(Step)

-----------------------------------------------------------------------------
(* Properties. *)

\* When the call returns nothing it opened is left: the socket is closed or in the pool, with its
\* session, and every heap object is freed; a connection goes to the pool only after a whole
\* response with nothing behind it; and a failure leaves no body and names its error, unless the
\* arguments were refused before the response was cleared.
LeavesNothing ==
    pc \in {"returned", "refused"} =>
        /\ held = {}
        /\ conn.fd \in {"none", "closed", "pooled"}
        /\ conn.fd # "pooled" => conn.tls = "none"
        /\ conn.fd = "pooled" => ret = 0 /\ conn.reusable
        /\ ret # 0 => body = NoBody /\ (err # "none" \/ pc = "refused")

\* The body is freed at body_len + 1, the size it was allocated with, inflated or not, and never
\* holds more than the limit; while it grows the buffer has room for the terminator.
FreedAtItsSize ==
    /\ body.size = IF body = NoBody THEN 0 ELSE body.len + 1
    /\ out.cap > 0 => out.len + 1 <= out.cap /\ out.cap <= MaxResp + 1

\* An address that never answers leaves time for the next one: the call gives up connecting with
\* a timeout only when every address had its turn, unless resolving took the time.
AddressStep ==
    pc = "connect" /\ pc' = "returned" /\ err' = "timeout" => addr > Addresses \/ addr = 1
EveryAddressTried == [][AddressStep]_vars
=============================================================================
