------------------------------- MODULE HttpClient -------------------------------
(***************************************************************************)
(* The asynchronous HTTP/1.1 client (http_client_async.c) and the idle     *)
(* connection pool it shares (http_client_pool.c).                         *)
(*                                                                         *)
(* A request runs the connect op (module ConnectOp), then the proxy        *)
(* tunnel, the TLS handshake, the send and the receive, each a handler of  *)
(* the one watcher on its socket, under one deadline for all of it.  The   *)
(* end of the request calls on_done(), where the user may free this client *)
(* and cancel, free or start others.  What the peer sends is what a        *)
(* handler can make of it; a would-block only re-arms the watcher.         *)
(***************************************************************************)
EXTENDS Naturals, Sequences, FiniteSets

CONSTANTS
    Clients, Fds,   \* client objects, socket handles
    Kinds,          \* requests: "plain", "tls", "proxied", "tunnel", "unix"
    Streamed,       \* may a request stream its body: a subset of BOOLEAN
    PoolCap,        \* slots of the pool
    MaxPerHost,     \* idle connections of one key
    NAddr           \* addresses a name resolves to

VARIABLES
    cl,       \* client -> KlHttpClient
    tmr,      \* pending timers: <<"deadline"|"delay"|"error", client>>, <<"idle", slot, fd>>
    open,     \* open sockets
    dirty,    \* open sockets with bytes, or an end, nobody asked for
    pool,     \* slot -> [fd, key, rest]; rest: unread bytes a peek does not see
    order,    \* occupied slots, longest idle first
    frames    \* open on_done() calls, innermost first: <<client, under the connect op>>

vars == <<cl, tmr, open, dirty, pool, order, frames>>

NoFd == "none"
Slots == 1..PoolCap
Empty == [fd |-> NoFd, key |-> NoFd, rest |-> FALSE]

\* A client no request has been started on; told, a history, counts its on_done() calls.
NoClient == [st |-> "none", kind |-> NoFd, stream |-> FALSE, pooled |-> FALSE, op |-> "idle",
             fd |-> NoFd, att |-> {}, left |-> 0, tls |-> FALSE, watch |-> NoFd, rest |-> FALSE,
             told |-> 0]

Init ==
    /\ cl = [c \in Clients |-> NoClient] /\ tmr = {} /\ open = {} /\ dirty = {}
    /\ pool = [i \in Slots |-> Empty] /\ order = <<>> /\ frames = <<>>

Active(c) == cl[c].st \notin {"none", "done"}
LoopRuns == frames = <<>>
KeyOf(kind) == IF kind = "tls" THEN "tls" ELSE "plain"
ClientTimers(c) == {<<"deadline", c>>, <<"delay", c>>, <<"error", c>>}

\* The open sockets, the pool and the timers after closing F.
Close(F) == open' = open \ F /\ dirty' = dirty \ F

-----------------------------------------------------------------------------
(* The end of a request. *)

\* What is left of a client whose request is over.
Over(r) == [NoClient EXCEPT !.st = "done", !.kind = r.kind, !.pooled = r.pooled, !.told = r.told]

\* on_done() is called; a call for a request that is not in flight counts as a second one.
Told(r) == [Over(r) EXCEPT !.told = IF r.st \in {"none", "done"} THEN 2 ELSE @ + 1]

MutHeCancelTimers(c) == {<<"deadline", c>>}

\* he_cancel_timers and cli_cancel_done_timer
HeCancelTimers(c) == {<<"deadline", c>>, <<"delay", c>>}
CancelDoneTimer(c) == {<<"error", c>>}

MutCompleteError(c, r, F, T, terminal) ==
    /\ cl' = [cl EXCEPT ![c] = Told(r)]
    /\ tmr' = T \ ClientTimers(c)
    /\ Close(F \cup ({r.fd} \ {NoFd}))
    /\ frames' = <<<<c, terminal>>>> \o frames

\* async_complete_error, of client c updated to r with the sockets F to close and the timers T
\* pending.  Inside the connect op's terminal dispatch it is put off to the next loop tick.
CompleteError(c, r, F, T, terminal) ==
    IF terminal
    THEN /\ cl' = [cl EXCEPT ![c] = [r EXCEPT !.op = "detached"]]
         /\ tmr' = (T \ HeCancelTimers(c)) \cup {<<"error", c>>}
         /\ open' = (open \ F) \cup ({r.fd} \ {NoFd}) /\ dirty' = dirty \ F /\ UNCHANGED frames
    ELSE /\ cl' = [cl EXCEPT ![c] = Told(r)]
         /\ tmr' = T \ (HeCancelTimers(c) \cup CancelDoneTimer(c))
         /\ Close(F \cup ({r.fd} \ {NoFd}))
         /\ frames' = <<<<c, terminal>>>> \o frames

Without(s, i) == SelectSeq(s, LAMBDA x : x # i)
OldestOf(S) == order[CHOOSE k \in DOMAIN order : order[k] \in S /\ \A j \in DOMAIN order : order[j] \in S => k <= j]

\* The entry pool_release evicts first: the oldest of a key at its limit; and, the pool being
\* full all the same, the oldest of all.
MatchesKey(i, key) == pool[i].fd # NoFd /\ pool[i].key = key
EvictFor(key) ==
    LET same == {i \in Slots : MatchesKey(i, key)}
        used == {i \in Slots : pool[i].fd # NoFd}
    IN IF Cardinality(same) >= MaxPerHost THEN {OldestOf(same)}
       ELSE IF used = Slots THEN {OldestOf(used)} ELSE {}

MutPoolRelease(c, f, key, rest) ==
    LET ev == EvictFor(key)
        i == CHOOSE k \in Slots : (pool[k].fd = NoFd \/ k \in ev) /\ \A j \in Slots : (pool[j].fd = NoFd \/ j \in ev) => k <= j
    IN /\ pool' = [k \in Slots |-> IF k = i THEN [fd |-> f, key |-> key, rest |-> rest] ELSE IF k \in ev THEN Empty ELSE pool[k]]
       /\ order' = Append(SelectSeq(order, LAMBDA x : x \notin ev /\ x # i), i)
       /\ tmr' = (tmr \ ClientTimers(c)) \cup {<<"idle", i, f>>}
       /\ Close({pool[k].fd : k \in ev})

\* pool_release: evict, take the lowest free slot, start its idle timer.
PoolRelease(c, f, key, rest) ==
    LET ev == EvictFor(key)
        i == CHOOSE k \in Slots : (pool[k].fd = NoFd \/ k \in ev) /\ \A j \in Slots : (pool[j].fd = NoFd \/ j \in ev) => k <= j
    IN /\ pool' = [k \in Slots |-> IF k = i THEN [fd |-> f, key |-> key, rest |-> rest] ELSE IF k \in ev THEN Empty ELSE pool[k]]
       /\ order' = Append(SelectSeq(order, LAMBDA x : x \notin ev /\ x # i), i)
       /\ tmr' = (tmr \ (ClientTimers(c) \cup {<<"idle", k, pool[k].fd>> : k \in ev})) \cup {<<"idle", i, f>>}
       /\ Close({pool[k].fd : k \in ev})

\* async_complete_success: the connection goes back to the pool only when the response ended
\* at a message boundary with nothing behind it and the server keeps it open.
CompleteSuccess(c, reusable, rest) ==
    /\ cl' = [cl EXCEPT ![c] = Told(cl[c])]
    /\ frames' = <<<<c, FALSE>>>> \o frames
    /\ IF cl[c].pooled /\ reusable THEN PoolRelease(c, cl[c].fd, KeyOf(cl[c].kind), rest)
       ELSE Close({cl[c].fd}) /\ tmr' = tmr \ ClientTimers(c) /\ UNCHANGED <<pool, order>>

\* on_done() returns.
DoneReturns == frames # <<>> /\ frames' = Tail(frames) /\ UNCHANGED <<cl, tmr, open, dirty, pool, order>>

-----------------------------------------------------------------------------
(* Connecting. *)

\* A step of client c that changes nothing but the client, its timers and the sockets.
Becomes(c, r, T, O) ==
    /\ cl' = [cl EXCEPT ![c] = r] /\ tmr' = T /\ open' = O /\ dirty' = dirty \cap O
    /\ UNCHANGED frames

KeepPool == UNCHANGED <<pool, order>>

\* cli_co_arm_delay and cli_co_cancel_delay: the stagger runs while an address is left to try.
ArmDelay(c, more, T) == IF more THEN T \cup {<<"delay", c>>} ELSE T \ {<<"delay", c>>}

\* he_proceed_after_connect, with r.fd connected; F: the losers of the race.
Proceed(c, r, F, T, terminal) ==
    LET U == ArmDelay(c, FALSE, T)
        q == [r EXCEPT !.op = IF terminal THEN "detached" ELSE @, !.att = {}, !.left = 0]
        O == (open \ F) \cup {r.fd}
    IN CASE r.kind = "tunnel" ->
              \/ Becomes(c, [q EXCEPT !.st = "proxy_connecting", !.watch = "W"], U, O)
              \/ CompleteError(c, q, F, U, terminal)
         [] r.kind = "tls" ->
              \/ \E w \in {"R", "W"} : Becomes(c, [q EXCEPT !.st = "tls_handshake", !.tls = TRUE, !.watch = w], U, O)
              \/ Becomes(c, [q EXCEPT !.st = "sending", !.tls = TRUE, !.watch = "W"], U, O)
              \/ CompleteError(c, q, F, U, terminal)
         [] OTHER -> Becomes(c, [q EXCEPT !.st = "sending", !.watch = "W"], U, O)

\* The next addresses of the race are tried until one is in flight (cli_co_start_attempt);
\* when none is and none is left the op fails (cli_co_on_done).  F: sockets to close.
StartAttempts(c, r, F, T) ==
    \/ \E k \in 1..r.left, f \in Fds \ open :
          Becomes(c, [r EXCEPT !.st = "connecting", !.att = @ \cup {f}, !.left = @ - k],
                  ArmDelay(c, r.left > k, T), (open \ F) \cup {f})
    \/ \E k \in 1..r.left, f \in Fds \ open :      \* connected at once: it wins the race
          Proceed(c, [r EXCEPT !.fd = f], F \cup r.att, T, TRUE)
    \/ IF r.att = {} THEN CompleteError(c, [r EXCEPT !.left = 0], F, T, TRUE)
       ELSE Becomes(c, [r EXCEPT !.left = 0], ArmDelay(c, FALSE, T), open \ F)

\* dns_resolved: a failure, or addresses to race for.
Resolved(c, r, F, T) ==
    \/ CompleteError(c, r, F, T, TRUE)
    \/ \E n \in 1..NAddr : StartAttempts(c, [r EXCEPT !.left = n], F, T)

DnsResolved(c) ==
    /\ LoopRuns /\ cl[c].st = "resolving" /\ <<"error", c>> \notin tmr
    /\ Resolved(c, cl[c], {}, tmr) /\ KeepPool

\* he_on_delay
OnDelay(c) ==
    /\ LoopRuns /\ <<"delay", c>> \in tmr /\ StartAttempts(c, cl[c], {}, tmr) /\ KeepPool

\* he_on_writable, he_on_connect_result: one racing socket's connect ended.
OnAttempt(c, f) ==
    /\ LoopRuns /\ Active(c) /\ f \in cl[c].att /\ <<"error", c>> \notin tmr
    /\ LET r == [cl[c] EXCEPT !.att = @ \ {f}] IN
       \/ Proceed(c, [r EXCEPT !.fd = f], r.att, tmr, TRUE)
       \/ IF r.left > 0 THEN StartAttempts(c, r, {f}, tmr)
          ELSE IF r.att = {} THEN CompleteError(c, r, {f}, tmr, TRUE)
          ELSE Becomes(c, r, tmr, open \ {f})
    /\ KeepPool

-----------------------------------------------------------------------------
(* The handlers of async_on_event; an error that waits to be reported stops them all. *)

Event(c, st) == LoopRuns /\ cl[c].st = st /\ cl[c].watch # NoFd /\ <<"error", c>> \notin tmr

Goes(c, r) == Becomes(c, r, tmr, open) /\ KeepPool
Fails(c) == CompleteError(c, cl[c], {}, tmr, FALSE) /\ KeepPool

\* async_handle_connecting: the single socket of a UNIX target.
HandleConnecting(c) ==
    /\ Event(c, "connecting") /\ cl[c].att = {}
    /\ (Proceed(c, cl[c], {}, tmr, FALSE) /\ KeepPool) \/ Fails(c)

\* async_handle_proxy_connecting: the CONNECT request is out.
HandleProxyConnecting(c) ==
    /\ Event(c, "proxy_connecting")
    /\ Goes(c, [cl[c] EXCEPT !.st = "proxy_handshake", !.watch = "R"]) \/ Fails(c)

\* async_handle_proxy_handshake: the tunnel is up, TLS starts inside it.
HandleProxyHandshake(c) ==
    /\ Event(c, "proxy_handshake")
    /\ \/ \E w \in {"R", "W"} : Goes(c, [cl[c] EXCEPT !.st = "tls_handshake", !.tls = TRUE, !.watch = w])
       \/ Goes(c, [cl[c] EXCEPT !.st = "sending", !.tls = TRUE, !.watch = "W"])
       \/ Fails(c)

\* async_handle_tls_handshake
HandleTlsHandshake(c) ==
    /\ Event(c, "tls_handshake")
    /\ \/ \E w \in {"R", "W"} : Goes(c, [cl[c] EXCEPT !.watch = w])
       \/ Goes(c, [cl[c] EXCEPT !.st = "sending", !.watch = "W"])
       \/ Fails(c)

\* async_handle_sending: the whole request, then its streamed body if it has one.
HandleSending(c) ==
    /\ Event(c, "sending")
    /\ \/ ~cl[c].stream /\ Goes(c, [cl[c] EXCEPT !.st = "receiving", !.watch = "R"])
       \/ cl[c].stream /\ Goes(c, [cl[c] EXCEPT !.st = "sending_stream"])
       \/ cl[c].stream /\ Goes(c, [cl[c] EXCEPT !.st = "receiving", !.watch = "R"])
       \/ Fails(c)

\* async_handle_sending_stream: up to the final chunk.
HandleSendingStream(c) ==
    /\ Event(c, "sending_stream")
    /\ Goes(c, [cl[c] EXCEPT !.st = "receiving", !.watch = "R"]) \/ Fails(c)

MutReusable(c, boundary, behind) == boundary

\* conn_reusable, and no "Connection: close": `behind` is bytes after the response.
Reusable(c, boundary, behind) == boundary /\ ~behind

\* async_handle_receiving: a complete response, one ended by the end of stream, or an error.
\* Bytes after the response were read with it or wait in the TLS session.
HandleReceiving(c) ==
    /\ Event(c, "receiving")
    /\ \/ \E boundary, behind \in BOOLEAN :
             CompleteSuccess(c, Reusable(c, boundary, behind), behind)
       \/ Fails(c)

-----------------------------------------------------------------------------
(* Timers of a request. *)

\* he_on_deadline: the connect op is cancelled, its sockets dropped, and the request fails.
OnDeadline(c) ==
    /\ LoopRuns /\ <<"deadline", c>> \in tmr
    /\ IF Active(c) THEN CompleteError(c, [cl[c] EXCEPT !.op = "detached"], cl[c].att, tmr, FALSE) /\ KeepPool
       ELSE tmr' = tmr \ {<<"deadline", c>>} /\ UNCHANGED <<cl, open, dirty, pool, order, frames>>

\* async_deferred_error
DeferredError(c) ==
    /\ LoopRuns /\ <<"error", c>> \in tmr
    /\ IF Active(c) THEN Fails(c)
       ELSE tmr' = tmr \ CancelDoneTimer(c) /\ UNCHANGED <<cl, open, dirty, pool, order, frames>>

-----------------------------------------------------------------------------
(* Calls of the user. *)

\* The client a start allocates: nothing open, no timer, a parser for its response.
NewClient(kind, stream, pooled) ==
    [NoClient EXCEPT !.kind = kind, !.stream = stream, !.pooled = pooled]

\* he_arm_deadline: before anything that can wait.
Armed(c, T) == T \cup {<<"deadline", c>>}

\* start_connect: the single socket of a UNIX target, watched even when it connected at once.
StartConnect(c, r) ==
    \E f \in Fds \ open :
        Becomes(c, [r EXCEPT !.st = "connecting", !.fd = f, !.watch = "W"], Armed(c, tmr), open \cup {f})

\* The name is resolved later, or inside this call (a literal, a cached answer, the blocking
\* resolution): the race then starts, and may end, before the start returns.
StartResolve(c, r, F, T) ==
    LET q == [r EXCEPT !.st = "resolving", !.op = "running"] IN
    Becomes(c, q, Armed(c, T), open \ F) \/ Resolved(c, q, F, Armed(c, T))

\* kl_http_client_start_s; one that returns NULL leaves nothing.
Start(c, kind, stream) ==
    LET r == NewClient(kind, stream, FALSE) IN
    /\ cl[c].st = "none" /\ KeepPool
    /\ IF kind = "unix" THEN StartConnect(c, r) ELSE StartResolve(c, r, {}, tmr)

\* The first usable entry of the key: the ones before it that are stale are closed (pool_acquire).
Candidates(key) == {i \in Slots : MatchesKey(i, key)}
MutStale(i) == FALSE
Stale(i) == pool[i].fd \in dirty

\* A hit sends at once on the descriptor it took; one that cannot be watched closes it.
PoolHit(c, r, i, F, T) ==
    \/ Becomes(c, [r EXCEPT !.st = "sending", !.fd = pool[i].fd, !.tls = (r.kind = "tls"), !.watch = "W",
                            !.rest = pool[i].rest], Armed(c, T), open \ F)
    \/ Becomes(c, NoClient, T, open \ (F \cup {pool[i].fd}))

\* A miss resolves and connects, or returns NULL.
PoolMiss(c, r, F, T) == StartResolve(c, r, F, T) \/ Becomes(c, NoClient, T, open \ F)

\* kl_http_client_start_pooled: the lookup drops the stale connections it meets before a hit.
StartPooled(c, kind) ==
    LET key == KeyOf(kind)
        fresh == {i \in Candidates(key) : ~Stale(i)}
        r == NewClient(kind, FALSE, TRUE)
        hit == CHOOSE i \in fresh : \A j \in fresh : i <= j
        gone == {i \in Candidates(key) : Stale(i) /\ (fresh # {} => i < hit)}
        taken == IF fresh = {} THEN gone ELSE gone \cup {hit}
        T == tmr \ {<<"idle", i, pool[i].fd>> : i \in taken}
        F == {pool[i].fd : i \in gone}
    IN /\ cl[c].st = "none" /\ kind \in {"plain", "tls"}
       /\ pool' = [i \in Slots |-> IF i \in taken THEN Empty ELSE pool[i]]
       /\ order' = SelectSeq(order, LAMBDA x : x \notin taken)
       /\ IF fresh = {} THEN PoolMiss(c, r, F, T) ELSE PoolHit(c, r, hit, F, T)

\* kl_http_client_cancel: no on_done() follows.
Cancel(c) ==
    /\ Active(c)
    /\ cl' = [cl EXCEPT ![c] = Over(cl[c])]
    /\ tmr' = tmr \ (HeCancelTimers(c) \cup CancelDoneTimer(c))
    /\ Close(cl[c].att \cup ({cl[c].fd} \ {NoFd}))
    /\ UNCHANGED <<pool, order, frames>>

\* kl_http_client_free, which cancels a request in flight.
FreeClient(c) ==
    /\ cl[c].st # "none"
    /\ cl' = [cl EXCEPT ![c] = NoClient]
    /\ tmr' = IF Active(c) THEN tmr \ (HeCancelTimers(c) \cup CancelDoneTimer(c)) ELSE tmr \ CancelDoneTimer(c)
    /\ Close(cl[c].att \cup ({cl[c].fd} \ {NoFd}))
    /\ UNCHANGED <<pool, order, frames>>

-----------------------------------------------------------------------------
(* The pool on its own, and the servers behind it. *)

\* idle_timer_cb
IdleTimer(i, f) ==
    /\ LoopRuns /\ <<"idle", i, f>> \in tmr
    /\ tmr' = tmr \ {<<"idle", i, f>>}
    /\ pool' = [pool EXCEPT ![i] = Empty] /\ order' = Without(order, i)
    /\ Close({pool[i].fd} \ {NoFd})
    /\ UNCHANGED <<cl, frames>>

\* kl_http_client_pool_evict_expired: the k longest idle ones are past the limit.
EvictExpired ==
    /\ \E k \in 1..Len(order) :
          LET gone == {order[j] : j \in 1..k} IN
          /\ pool' = [i \in Slots |-> IF i \in gone THEN Empty ELSE pool[i]]
          /\ order' = SubSeq(order, k + 1, Len(order))
          /\ tmr' = tmr \ {<<"idle", i, pool[i].fd>> : i \in gone}
          /\ Close({pool[i].fd : i \in gone})
    /\ UNCHANGED <<cl, frames>>

\* The server behind an idle connection closes it or sends something unasked.
ServerSpeaks(f) ==
    /\ \E i \in Slots : pool[i].fd = f
    /\ dirty' = dirty \cup {f} /\ UNCHANGED <<cl, tmr, open, pool, order, frames>>

-----------------------------------------------------------------------------

Handles(c) ==
    \/ HandleConnecting(c) \/ HandleProxyConnecting(c) \/ HandleProxyHandshake(c) \/ HandleTlsHandshake(c)
    \/ HandleSending(c) \/ HandleSendingStream(c) \/ HandleReceiving(c)

Next ==
    \/ DoneReturns \/ EvictExpired
    \/ \E c \in Clients : \/ DnsResolved(c) \/ OnDelay(c) \/ Handles(c) \/ OnDeadline(c) \/ DeferredError(c)
                          \/ Cancel(c) \/ FreeClient(c)
                          \/ \E k \in Kinds : StartPooled(c, k) \/ \E s \in Streamed : Start(c, k, s)
                          \/ \E f \in Fds : OnAttempt(c, f)
    \/ \E f \in Fds : ServerSpeaks(f) \/ \E i \in Slots : IdleTimer(i, f)

\* Due timers fire and on_done() returns; nothing is assumed of the network.
Fairness ==
    /\ WF_vars(DoneReturns)
    /\ \A c \in Clients : SF_vars(OnDeadline(c)) /\ SF_vars(DeferredError(c))

Spec == Init /\ [][Next]_vars /\ Fairness

-----------------------------------------------------------------------------
(* Properties. *)

\* on_done() is called once for a request, while it is in flight and never after it was cancelled or
\* freed, whichever of its deadline, its put-off error and its socket ends it; and a connect op
\* whose terminal dispatch is under it still has its client, which on_done() may free.
DoneIsSafe ==
    /\ \A c \in Clients : cl[c].told <= 1 /\ (Active(c) => cl[c].told = 0)
    /\ \A i \in DOMAIN frames : frames[i][2] => cl[frames[i][1]].st # "none"

\* Every open socket has exactly one owner (a racing attempt, a client, a pool slot), and no
\* owner holds a closed one, however requests are cancelled, freed, pooled and evicted.
SocketsOwned ==
    \A f \in Fds :
        LET n == Cardinality({c \in Clients : f \in cl[c].att}) + Cardinality({c \in Clients : cl[c].fd = f})
                 + Cardinality({i \in Slots : pool[i].fd = f})
        IN n = IF f \in open THEN 1 ELSE 0

\* Every pending timer belongs to a request in flight or to the connection it was armed for, and
\* every request in flight has a timer that ends it: nothing fires into freed memory or closes
\* a slot's next connection, and nothing waits for ever.
TimersOwned ==
    /\ \A t \in tmr : IF t[1] = "idle" THEN pool[t[2]].fd = t[3] ELSE Active(t[2])
    /\ \A c \in Clients : Active(c) => <<"deadline", c>> \in tmr \/ <<"error", c>> \in tmr

\* A pooled connection is handed out only when nothing is left on it to be read as the start of
\* the next response, and the slots are within the limits.
PoolClean ==
    /\ \A c \in Clients : ~cl[c].rest /\ cl[c].fd \notin dirty
    /\ \A k \in {"plain", "tls"} : Cardinality({i \in Slots : MatchesKey(i, k)}) <= MaxPerHost
    /\ {order[j] : j \in DOMAIN order} = {i \in Slots : pool[i].fd # NoFd} /\ Len(order) = Cardinality({i \in Slots : pool[i].fd # NoFd})

\* Every request ends, whatever the network does.
RequestEnds == \A c \in Clients : Active(c) ~> ~Active(c)
=============================================================================
