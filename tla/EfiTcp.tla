------------------------------- MODULE EfiTcp -------------------------------
(***************************************************************************)
(* The UEFI backend's TCP half: the static connection slots over EFI_TCP4  *)
(* (socket_efi_tcp4.c) and the completion loop that polls them             *)
(* (event_efi.c), under a server driver and readiness-style clients.       *)
(*                                                                         *)
(* The firmware owns a token, its event and its buffer from the moment it  *)
(* is submitted until the event is signaled.  Cancel may or may not bring  *)
(* that about: a token of a kind in Hangs may stay the firmware's for      *)
(* ever, and the slot must then be quarantined instead of reclaimed.       *)
(* Poll is where the firmware makes progress, so every Poll is a choice of *)
(* what it completes.                                                      *)
(***************************************************************************)
EXTENDS Naturals, FiniteSets, Sequences

CONSTANTS
    NSlots,      \* KL_EFI_MAX_CONNS
    GenMax,      \* bound on a slot's generation (two per tenant)
    Backlog,     \* Accept tokens of the one listener (KL_EFI_ACCEPT_BACKLOG)
    PoolCap,     \* connections of the HTTP server's pool
    NIo,         \* KL_EFI_MAX_IO_OPS
    Total,       \* fragments of a response (KL_EFI_TXBUF bytes each)
    MaxEvents,   \* completions one drain may report
    Serving,     \* whether a server runs on the loop
    Clients,     \* the clients of the loop
    Hangs        \* kinds of token the firmware may fail to cancel

VARIABLES
    net,    \* [slot, acc, lst]: g_conns, the Accept tokens, g_listener.fd
    ev,     \* [cop, watch, io, primed]: connect ops, watches, server ops
    batch,  \* completions drained and not dispatched yet
    conn,   \* the server's pool of KlHttpConn
    cli,    \* each client's descriptor
    wire,   \* fragments of the current response each conn has sent (ghost)
    ebs     \* ExitBootServices has been called

vars == <<net, ev, batch, conn, cli, wire, ebs>>

Slots == 1..NSlots
Tokens == {"conn", "rx", "tx", "close"}
Signals == {"ok", "fin", "bad"}
Idle == [t \in Tokens |-> "idle"]

\* A slot with magic == 0.
FreeSlot(gen) ==
    [st |-> "free", gen |-> gen, quar |-> FALSE, listener |-> FALSE,
     configured |-> FALSE, connected |-> FALSE, rx |-> "none",
     posted |-> {}, fw |-> Idle]

NoTok == [made |-> FALSE, posted |-> FALSE, quar |-> FALSE, fw |-> "idle"]
NoIo == [kind |-> "free", conn |-> 0, fd |-> 0, gen |-> 0,
         cancelled |-> FALSE, done |-> 0]
NoConn == [fd |-> 0, ops |-> {}, closing |-> FALSE]

Live(n, s) == s # 0 /\ n.slot[s].st = "open"                       \* conn_of

----------------------------------------------------------------------------
(* Slots and tokens: socket_efi_tcp4.c                                     *)

\* kl_uefi_conn_generation_h: an open slot's generation, dead or not; else 0.
Generation(n, s) ==
    IF n.slot[s].st # "free" /\ n.slot[s].gen % 2 = 1 THEN n.slot[s].gen ELSE 0

\* kl_uefi_conn_valid_h and kl_uefi_conn_same_gen_h: the stale guards.
Valid(n, s, gen) == n.slot[s].st = "open" /\ n.slot[s].gen = gen
SameGen(n, s, gen) == gen # 0 /\ n.slot[s].st # "free" /\ n.slot[s].gen = gen

Submitted(n, s, t) == [n EXCEPT !.slot[s].posted = @ \cup {t},
                                !.slot[s].fw[t] = "held"]
Retired(n, s, t) == [n EXCEPT !.slot[s].posted = @ \ {t},
                              !.slot[s].fw[t] = "idle"]

Outcomes(t) == IF t = "rx" THEN Signals ELSE {"ok", "bad"}

\* One tcp->Poll: an outstanding token may have been signaled by its end.
Polled(n, s, t) ==
    {n} \cup IF n.slot[s].fw[t] = "held"
             THEN {[n EXCEPT !.slot[s].fw[t] = r] : r \in Outcomes(t)}
             ELSE {}

\* efi_sock_socket and adopt_child claim the first slot whose magic is 0.
Claimable(n) == {s \in Slots : n.slot[s].st = "free" /\ n.slot[s].gen < GenMax}
FirstFree(n) == CHOOSE s \in Claimable(n) : \A r \in Claimable(n) : s <= r

\* efi_sock_socket: CreateChild, OpenProtocol or create_events may fail, and
\* the slot is then free again under the next even generation.
Claimed(n, s, connected) ==
    [n EXCEPT !.slot[s] = [FreeSlot(n.slot[s].gen + 1) EXCEPT
        !.st = "open", !.configured = connected, !.connected = connected]]
Unclaimed(n, s) == [n EXCEPT !.slot[s] = FreeSlot(n.slot[s].gen + 2)]

\* The first free slot, claimed or given back; nothing when there is none.
SocketOpened(n, connected) ==
    IF Claimable(n) = {} THEN {[net |-> n, fd |-> 0]}
    ELSE LET s == FirstFree(n) IN
         {[net |-> Claimed(n, s, connected), fd |-> s],
          [net |-> Unclaimed(n, s), fd |-> 0]}

\* kl_uefi_socket_configure then kl_uefi_socket_connect_post: the address may
\* be refused, DHCP may not settle, Connect may fail at once.
ConnectPosted(n, s) ==
    {[net |-> n, ok |-> FALSE],
     [net |-> [n EXCEPT !.slot[s].configured = TRUE], ok |-> FALSE],
     [net |-> Submitted([n EXCEPT !.slot[s].configured = TRUE], s, "conn"),
      ok |-> TRUE]}

MutConnectPolled(n, s) ==
    {IF m.slot[s].fw["conn"] = "held" THEN [net |-> m, res |-> "pending"]
     ELSE LET ok == m.slot[s].fw["conn"] = "ok" IN
          [net |-> [m EXCEPT !.slot[s].connected = ok, !.slot[s].fw["conn"] = "idle"],
           res |-> IF ok THEN "ok" ELSE "bad"] : m \in Polled(n, s, "conn")}

\* kl_uefi_socket_connect_poll: pump once and test the Connect token.
ConnectPolled(n, s) ==
    {IF m.slot[s].fw["conn"] = "held" THEN [net |-> m, res |-> "pending"]
     ELSE LET ok == m.slot[s].fw["conn"] = "ok" IN
          [net |-> [Retired(m, s, "conn") EXCEPT !.slot[s].connected = ok],
           res |-> IF ok THEN "ok" ELSE "bad"] : m \in Polled(n, s, "conn")}

\* What a signaled Receive token leaves in the slot; an impossible length is
\* latched as an error as well.
Latch(signal) == CASE signal = "ok" -> {"data", "err"}
                   [] signal = "fin" -> {"eof"}
                   [] signal = "bad" -> {"err"}

\* kl_uefi_socket_recv_ready: something to hand back now, else post a Receive
\* if none is out, poll once and test it.  Never pumps.
RecvReady(n, s) ==
    LET c == n.slot[s]
        refused == {[net |-> [n EXCEPT !.slot[s].rx = r], ready |-> TRUE]
                       : r \in {"eof", "err"}}
        tested(m) == IF m.slot[s].fw["rx"] = "held"
                     THEN {[net |-> m, ready |-> FALSE]}
                     ELSE {[net |-> [Retired(m, s, "rx") EXCEPT !.slot[s].rx = r],
                            ready |-> TRUE] : r \in Latch(m.slot[s].fw["rx"])}
        polled(m) == UNION {tested(p) : p \in Polled(m, s, "rx")}
    IN IF ~Live(n, s) THEN {[net |-> n, ready |-> FALSE]}
       ELSE IF c.rx # "none" THEN {[net |-> n, ready |-> TRUE]}
       ELSE IF ~c.connected THEN {[net |-> n, ready |-> FALSE]}
       ELSE IF "rx" \in c.posted THEN polled(n)
       ELSE refused \cup polled(Submitted(n, s, "rx"))

\* efi_sock_recv once the probe said ready: data (the buffer drained or not),
\* a sticky EOF, or the error latch, consumed.
Received(n, s) ==
    LET rx == n.slot[s].rx IN
    CASE rx = "data" -> {[net |-> [n EXCEPT !.slot[s].rx = r], ok |-> TRUE]
                            : r \in {"none", "data"}}
      [] rx = "eof"  -> {[net |-> n, ok |-> FALSE]}
      [] rx = "err"  -> {[net |-> [n EXCEPT !.slot[s].rx = "none"], ok |-> FALSE]}

MutSendStep(n, s) ==
    LET submit == IF "tx" \in n.slot[s].posted THEN {} ELSE
                  {[net |-> n, res |-> r] : r \in {"pending", "bad"}}
        start == IF "tx" \in n.slot[s].posted THEN n ELSE Submitted(n, s, "tx")
        tested(m) == LET sig == m.slot[s].fw["tx"] IN
                     [net |-> IF sig = "held" THEN m ELSE Retired(m, s, "tx"),
                      res |-> IF sig = "bad" THEN "bad" ELSE "ok"]
    IN submit \cup {tested(m) : m \in Polled(start, s, "tx")}

\* kl_uefi_socket_send_step: submit at most one fragment, poll once, test the
\* Transmit token; the token stays outstanding across drains.
SendStep(n, s) ==
    LET submit == IF "tx" \in n.slot[s].posted THEN {} ELSE
                  {[net |-> n, res |-> r] : r \in {"pending", "bad"}}
        start == IF "tx" \in n.slot[s].posted THEN n ELSE Submitted(n, s, "tx")
        tested(m) == LET sig == m.slot[s].fw["tx"] IN
                     IF sig = "held" THEN [net |-> m, res |-> "pending"]
                     ELSE [net |-> Retired(m, s, "tx"), res |-> sig]
    IN submit \cup {tested(m) : m \in Polled(start, s, "tx")}

\* pump_or_cancel on token t: signaled in time or after Cancel, or never.
Pumped(n, s, t) ==
    {[net |-> Retired(n, s, t), res |-> r] : r \in {"ok", "bad"}}
    \cup IF t \in Hangs THEN {[net |-> n, res |-> "hung"]} ELSE {}

\* efi_sock_send, the clients' synchronous send: a Transmit that cannot be
\* confirmed retired quarantines the slot and marks it dead.
Sent(n, s) ==
    IF ~n.slot[s].connected \/ "tx" \in n.slot[s].posted
    THEN {[net |-> n, res |-> "block"]}
    ELSE {[net |-> n, res |-> r] : r \in {"block", "bad"}}
         \cup {IF p.res = "hung"
               THEN [net |-> [p.net EXCEPT !.slot[s].quar = TRUE,
                                           !.slot[s].st = "dead"],
                     res |-> "bad"]
               ELSE p : p \in Pumped(Submitted(n, s, "tx"), s, "tx")}

\* listener_teardown: Cancel(NULL), drain every posted Accept token, close its
\* event; a token that stays the firmware's is quarantined with its event.
ListenerTorn(n) ==
    LET heldNow == {i \in 1..Backlog : n.acc[i].posted /\ n.acc[i].fw = "held"}
        torn(hung) ==
            [n EXCEPT !.lst = 0, !.acc = [i \in 1..Backlog |->
                IF i \in hung THEN [n.acc[i] EXCEPT !.quar = TRUE]
                ELSE IF n.acc[i].quar THEN n.acc[i] ELSE NoTok]]
    IN {[net |-> torn(hung),
         drained |-> hung = {} /\ \A i \in 1..Backlog : ~n.acc[i].quar]
           : hung \in IF "accept" \in Hangs THEN SUBSET heldNow ELSE {{}}}

MutReclaimed(n, s, hung) ==
    [n EXCEPT !.slot[s] = [FreeSlot(n.slot[s].gen) EXCEPT
        !.fw = [t \in Tokens |-> IF t \in hung THEN "held" ELSE "idle"]]]

\* The end of efi_sock_close: a token not confirmed retired quarantines the
\* slot, whose storage stays as it is; otherwise it is free to be reused.
Reclaimed(n, s, hung) ==
    IF hung = {} THEN [n EXCEPT !.slot[s] = FreeSlot(n.slot[s].gen)]
    ELSE [n EXCEPT !.slot[s].quar = TRUE, !.slot[s].posted = {},
             !.slot[s].fw = [t \in Tokens |-> IF t \in hung THEN "held" ELSE "idle"]]

\* The tokens a Cancel(NULL) and the drains leave with the firmware, with the
\* Close token itself when Close accepted it.  A Transmit found complete by
\* the one Poll before the Cancel is not among them.
Hung(n, s) ==
    LET held == {t \in n.slot[s].posted : n.slot[s].fw[t] = "held"}
    IN SUBSET ((held \cup {"close"}) \cap Hangs)

\* efi_sock_close on a live slot.
SocketClosed(n, s) ==
    LET dead == [n EXCEPT !.slot[s].st = "dead", !.slot[s].gen = @ + 1] IN
    IF ~Live(n, s) THEN {n}
    ELSE IF ebs THEN {[dead EXCEPT !.slot[s] = FreeSlot(dead.slot[s].gen)]}
    ELSE IF n.slot[s].quar THEN {dead}
    ELSE UNION {IF l.drained
                THEN {Reclaimed(l.net, s, h) : h \in Hung(l.net, s)}
                ELSE {[l.net EXCEPT !.slot[s].quar = TRUE]}
                : l \in IF n.slot[s].listener /\ n.lst = s THEN ListenerTorn(dead)
                        ELSE {[net |-> dead, drained |-> TRUE]}}

\* efi_sock_bind and efi_sock_listen: g_listener is zeroed and its events
\* created; nothing is armed here.
Listening(n, s) ==
    [n EXCEPT !.slot[s].listener = TRUE, !.slot[s].configured = TRUE, !.lst = s,
              !.acc = [i \in 1..Backlog |->
                  [made |-> TRUE, posted |-> FALSE, quar |-> FALSE,
                   fw |-> IF n.acc[i].fw = "held" THEN "held" ELSE "idle"]]]

Posted(n) == {i \in 1..Backlog : n.acc[i].posted}

MutArmed(n, want) ==
    LET unposted == {i \in 1..Backlog : n.acc[i].made /\ ~n.acc[i].posted}
    IN {[n EXCEPT !.acc = [i \in 1..Backlog |->
            IF i \in a THEN [n.acc[i] EXCEPT !.posted = TRUE, !.fw = "held"]
            ELSE n.acc[i]]]
          : a \in {b \in SUBSET unposted : Cardinality(b) <= want}}

\* kl_uefi_socket_accept_arm: arm unposted tokens until as many are posted as
\* there are free connections.  Accept may refuse one.
Armed(n, want) ==
    LET unposted == {i \in 1..Backlog :
                        n.acc[i].made /\ ~n.acc[i].posted /\ ~n.acc[i].quar}
        room == IF want > Cardinality(Posted(n)) THEN want - Cardinality(Posted(n)) ELSE 0
    IN {[n EXCEPT !.acc = [i \in 1..Backlog |->
            IF i \in a THEN [n.acc[i] EXCEPT !.posted = TRUE, !.fw = "held"]
            ELSE n.acc[i]]]
          : a \in {b \in SUBSET unposted : Cardinality(b) <= room}}

\* The Poll of efi_sock_accept: any posted Accept token may be signaled by it.
AcceptsPolled(n) ==
    LET heldNow == {i \in Posted(n) : n.acc[i].fw = "held"} IN
    {[n EXCEPT !.acc = [i \in 1..Backlog |->
        IF i \in heldNow THEN [n.acc[i] EXCEPT !.fw = sig[i]] ELSE n.acc[i]]]
       : sig \in [heldNow -> {"held", "ok", "bad"}]}

\* efi_sock_accept: harvest signaled tokens in order up to the first child and
\* adopt it; a child that cannot be adopted is destroyed.
AcceptHarvested(n) ==
    LET good == {i \in Posted(n) : n.acc[i].fw = "ok"}
        first == IF good = {} THEN Backlog + 1
                 ELSE CHOOSE i \in good : \A j \in good : i <= j
        harvested == [n EXCEPT !.acc = [i \in 1..Backlog |->
            IF n.acc[i].posted /\ n.acc[i].fw \in Signals /\ i <= first
            THEN [n.acc[i] EXCEPT !.posted = FALSE, !.fw = "idle"] ELSE n.acc[i]]]
    IN IF good = {} THEN {[net |-> harvested, fd |-> 0]}
       ELSE SocketOpened(harvested, TRUE)

Accepted(n) == UNION {AcceptHarvested(m) : m \in AcceptsPolled(n)}

----------------------------------------------------------------------------
(* The completion loop: event_efi.c                                        *)

FreeConns == {k \in 1..PoolCap : conn[k].fd = 0}

MutCancelled(e, n, fd) ==
    [e EXCEPT !.cop = {o \in @ : o.fd # fd},
              !.watch = {w \in @ : w.fd # fd},
              !.io = [i \in 1..NIo |-> IF e.io[i].fd = fd THEN NoIo ELSE e.io[i]]]

\* el_cancel: connect ops and watches of the fd go; a server op is marked
\* cancelled if it is this tenant's, freed if it is an earlier one's.
Cancelled(e, n, fd) ==
    [e EXCEPT !.cop = {o \in @ : o.fd # fd},
              !.watch = {w \in @ : w.fd # fd},
              !.io = [i \in 1..NIo |->
                  IF e.io[i].kind = "free" \/ e.io[i].fd # fd \/ e.io[i].cancelled
                  THEN e.io[i]
                  ELSE IF SameGen(n, fd, e.io[i].gen)
                  THEN [e.io[i] EXCEPT !.cancelled = TRUE] ELSE NoIo]]

\* el_post_recv and el_post_send: the first free record, or a refusal.
FreeIo(e) == {i \in 1..NIo : e.io[i].kind = "free"}
OpPosted(e, n, kind, k, fd) ==
    [e EXCEPT !.io[CHOOSE i \in FreeIo(e) : \A j \in FreeIo(e) : i <= j] =
        [kind |-> kind, conn |-> k, fd |-> fd, gen |-> Generation(n, fd),
         cancelled |-> FALSE, done |-> 0]]

\* A drain in progress: the slots, the loop's tables, what it has reported.
Run(n, e, out) == [net |-> n, ev |-> e, out |-> out, wire |-> wire]
Full(r) == Len(r.out) >= MaxEvents
Report(r, kind, who, fd, ok) ==
    [r EXCEPT !.out = Append(@, [kind |-> kind, who |-> who, fd |-> fd, ok |-> ok])]

\* The Connect completions: one terminal edge each; a stale op is dropped.
DrainConnect(r, o) ==
    LET gone == [r EXCEPT !.ev.cop = @ \ {o}] IN
    IF Full(r) THEN {r}
    ELSE IF o.failed THEN {Report(gone, "CONNECT", o.who, o.fd, FALSE)}
    ELSE IF ~Valid(r.net, o.fd, o.gen) THEN {gone}
    ELSE {IF p.res = "pending" THEN [r EXCEPT !.net = p.net]
          ELSE Report([gone EXCEPT !.net = p.net], "CONNECT", o.who, o.fd, p.res = "ok")
            : p \in ConnectPolled(r.net, o.fd)}

\* The readiness relay: WRITE always, READ when the probe says so.
DrainWatch(r, w) ==
    IF Full(r) THEN {r}
    ELSE {IF w.write \/ p.ready
          THEN Report([r EXCEPT !.net = p.net],
                      IF p.ready THEN "READABLE" ELSE "WRITABLE", w.who, w.fd, TRUE)
          ELSE [r EXCEPT !.net = p.net] : p \in RecvReady(r.net, w.fd)}

\* The accept relay: while the pool has a free connection and a child is ready.
DrainAccept(r) ==
    IF Full(r) \/ ~r.ev.primed \/ r.net.lst = 0 \/ FreeConns = {} THEN {r}
    ELSE {IF a.fd = 0 THEN [r EXCEPT !.net = a.net]
          ELSE Report([r EXCEPT !.net = a.net], "ACCEPT", 0, a.fd, TRUE)
            : a \in Accepted(r.net)}

\* A send op: fragments go out until one stays queued, fails, or all are sent.
Sending(r, i) ==
    LET op == r.ev.io[i]
        step(x) ==
            IF x.res # "more" THEN {x}
            ELSE IF x.done = Total THEN {[x EXCEPT !.res = "all"]}
            ELSE {IF p.res = "ok"
                  THEN [net |-> p.net, done |-> x.done + 1, res |-> "more",
                        out |-> x.out + IF p.net.slot[op.fd].fw["tx"] = "idle" THEN 1 ELSE 0]
                  ELSE [x EXCEPT !.net = p.net, !.res = p.res]
                    : p \in SendStep(x.net, op.fd)}
        upTo[k \in 0..Total + 1] ==
            IF k = 0 THEN {[net |-> r.net, done |-> op.done, res |-> "more",
                            out |-> r.wire[op.conn]]}
            ELSE UNION {step(x) : x \in upTo[k - 1]}
    IN upTo[Total + 1]

\* The server ops: a cancelled one, or one of a dead tenant, fails; one of an
\* earlier tenant is dropped; the others are served without blocking.
DrainIo(r, i) ==
    LET op == r.ev.io[i]
        freed == [r EXCEPT !.ev.io[i] = NoIo]
        kind == IF op.kind = "recv" THEN "READ" ELSE "WRITE"
    IN IF op.kind = "free" \/ Full(r) THEN {r}
       ELSE IF ~op.cancelled /\ ~SameGen(r.net, op.fd, op.gen) THEN {freed}
       ELSE IF op.cancelled \/ ~Valid(r.net, op.fd, op.gen)
       THEN {Report(freed, kind, op.conn, op.fd, FALSE)}
       ELSE IF op.kind = "recv"
       THEN UNION {IF ~p.ready THEN {[r EXCEPT !.net = p.net]}
                   ELSE {Report([freed EXCEPT !.net = q.net], kind, op.conn, op.fd, q.ok)
                           : q \in Received(p.net, op.fd)}
                   : p \in RecvReady(r.net, op.fd)}
       ELSE {LET moved == [r EXCEPT !.net = x.net, !.ev.io[i].done = x.done,
                                    !.wire[op.conn] = x.out]
             IN IF x.res = "pending" THEN moved
                ELSE Report([moved EXCEPT !.ev.io[i] = NoIo],
                            kind, op.conn, op.fd, x.res = "all")
               : x \in Sending(r, i)}

\* Folding a set-valued step over a set (in some order) and over 1..n.
OverSet(start, S, Step(_, _)) ==
    LET over[T \in SUBSET S] ==
            IF T = {} THEN start
            ELSE LET x == CHOOSE y \in T : TRUE
                 IN UNION {Step(r, x) : r \in over[T \ {x}]}
    IN over[S]
OverRange(start, n, Step(_, _)) ==
    LET over[k \in 0..n] == IF k = 0 THEN start
                            ELSE UNION {Step(r, k) : r \in over[k - 1]}
    IN over[n]

\* el_drain: connects, watches, accepts, server ops, at most MaxEvents.
Drained(n, e) ==
    LET connects == OverSet({Run(n, e, <<>>)}, e.cop, DrainConnect)
        watches == OverSet(connects, e.watch, DrainWatch)
        accepts == OverRange(watches, Backlog, LAMBDA r, k : DrainAccept(r))
    IN OverRange(accepts, NIo, DrainIo)

\* A tick of the completion loop: el_prime_accepts tops up the Accept tokens
\* to the free connections, then el_drain.
Tick ==
    /\ batch = <<>> /\ ~ebs
    /\ \E n \in IF ev.primed /\ net.lst # 0
                THEN Armed(net, Cardinality(FreeConns)) ELSE {net} :
       \E r \in Drained(n, ev) :
          /\ net' = r.net /\ ev' = r.ev /\ batch' = r.out /\ wire' = r.wire
    /\ UNCHANGED <<conn, cli, ebs>>

----------------------------------------------------------------------------
(* The server driver and the clients, as they use the backend               *)

\* The server lets go of conn k: with ops outstanding it cancels them and
\* waits for the last completion; with none the socket closes.
ConnReleased(n, e, c, k) ==
    IF c[k].ops # {}
    THEN {[net |-> n, ev |-> Cancelled(e, n, c[k].fd),
           conn |-> [c EXCEPT ![k].closing = TRUE]]}
    ELSE {[net |-> m, ev |-> e, conn |-> [c EXCEPT ![k] = NoConn]]
             : m \in SocketClosed(n, c[k].fd)}

\* Post an op of this kind on conn k; a refusal releases the connection.
ConnPosts(n, e, c, k, kind) ==
    IF FreeIo(e) = {} THEN ConnReleased(n, e, c, k)
    ELSE {[net |-> n, ev |-> OpPosted(e, n, kind, k, c[k].fd),
           conn |-> [c EXCEPT ![k].ops = @ \cup {kind}]]}

\* The dispatch of one completion to the server: ACCEPT takes a connection
\* from the pool, READ and WRITE carry the request forward or end it.
OnAccept(e) ==
    IF FreeConns = {}
    THEN {[net |-> m, ev |-> ev, conn |-> conn] : m \in SocketClosed(net, e.fd)}
    ELSE LET k == CHOOSE j \in FreeConns : TRUE IN
         ConnPosts(net, ev, [conn EXCEPT ![k].fd = e.fd], k, "recv")

OnIo(e) ==
    LET k == e.who
        kind == IF e.kind = "READ" THEN "recv" ELSE "send"
        c == [conn EXCEPT ![k].ops = @ \ {kind}]
    IN IF c[k].closing
       THEN IF c[k].ops = {} THEN ConnReleased(net, ev, c, k)
            ELSE {[net |-> net, ev |-> ev, conn |-> c]}
       ELSE IF ~e.ok THEN ConnReleased(net, ev, c, k)
       ELSE ConnPosts(net, ev, c, k, "recv")
            \cup IF kind = "recv" THEN ConnPosts(net, ev, c, k, "send") ELSE {}

DispatchServer ==
    /\ batch # <<>> /\ Head(batch).kind \in {"ACCEPT", "READ", "WRITE"}
    /\ \E r \in IF Head(batch).kind = "ACCEPT" THEN OnAccept(Head(batch))
                ELSE OnIo(Head(batch)) :
          /\ net' = r.net /\ ev' = r.ev /\ conn' = r.conn
    /\ wire' = IF Head(batch).kind = "ACCEPT" THEN wire
               ELSE [wire EXCEPT ![Head(batch).who] = 0]
    /\ batch' = Tail(batch)
    /\ UNCHANGED <<cli, ebs>>

\* The idle sweep gives up on a connection.
Sweep ==
    /\ batch = <<>>
    /\ \E k \in 1..PoolCap :
          /\ conn[k].fd # 0 /\ ~conn[k].closing
          /\ \E r \in ConnReleased(net, ev, conn, k) :
                net' = r.net /\ ev' = r.ev /\ conn' = r.conn
    /\ UNCHANGED <<batch, cli, wire, ebs>>

\* The server starts: socket, bind, listen, and the first prime latches it.
Start ==
    /\ Serving /\ net.lst = 0 /\ ~ev.primed /\ ~ebs
    /\ \E o \in SocketOpened(net, FALSE) :
          /\ net' = IF o.fd = 0 THEN o.net ELSE Listening(o.net, o.fd)
          /\ ev' = [ev EXCEPT !.primed = o.fd # 0]
    /\ UNCHANGED <<batch, conn, cli, wire, ebs>>

\* The server is freed: its listener closes, el_close drops the loop's
\* records, then the pool closes the connections still open.
Stop ==
    /\ ev.primed /\ batch = <<>>
    /\ LET fds == {conn[k].fd : k \in 1..PoolCap} \ {0} IN
       net' \in OverSet(IF net.lst = 0 THEN {net} ELSE SocketClosed(net, net.lst),
                        fds, SocketClosed)
    /\ ev' = [cop |-> {}, watch |-> {}, io |-> [i \in 1..NIo |-> NoIo], primed |-> FALSE]
    /\ conn' = [k \in 1..PoolCap |-> NoConn]
    /\ wire' = [k \in 1..PoolCap |-> 0]
    /\ cli = [c \in Clients |-> 0]
    /\ UNCHANGED <<batch, cli, ebs>>

\* el_post_connect on a fresh socket; a failure is reported by the next drain.
CliConnect(c) ==
    /\ cli[c] = 0 /\ ~ebs /\ batch = <<>>
    /\ \E o \in SocketOpened(net, FALSE) :
          IF o.fd = 0 THEN net' = o.net /\ UNCHANGED <<cli, ev>>
          ELSE /\ cli' = [cli EXCEPT ![c] = o.fd]
               /\ \E p \in ConnectPosted(o.net, o.fd) :
                    /\ net' = p.net
                    /\ ev' = [ev EXCEPT !.cop = @ \cup
                         {[fd |-> o.fd, gen |-> Generation(o.net, o.fd),
                           who |-> c, failed |-> ~p.ok]}]
    /\ UNCHANGED <<batch, conn, wire, ebs>>

\* The client is done: its watcher goes (the loop drops what it has queued for
\* it), el_cancel, close.
CliCloses(c, n, e, out) ==
    /\ net' \in SocketClosed(n, cli[c])
    /\ ev' = Cancelled(e, n, cli[c])
    /\ cli' = [cli EXCEPT ![c] = 0]
    /\ batch' = SelectSeq(out, LAMBDA x : x.who # c)

CliClose(c) ==
    /\ cli[c] # 0 /\ CliCloses(c, net, ev, batch)
    /\ UNCHANGED <<conn, wire, ebs>>

\* el_add and el_mod: the watch of a client, its mask replaced.
Watching(e, c, fd, write) ==
    [e EXCEPT !.watch = {w \in @ : w.who # c} \cup {[fd |-> fd, who |-> c, write |-> write]}]

\* A client's callback: connected, it watches to write; writable, it sends
\* and then waits to read; readable, it reads until the end.
OnClient(c, e) ==
    LET rest == Tail(batch)
        fd == cli[c]
        stay(n, v) == net' = n /\ ev' = v /\ batch' = rest /\ UNCHANGED cli
    IN \/ e.kind = "CONNECT" /\ e.ok /\ stay(net, Watching(ev, c, fd, TRUE))
       \/ e.kind = "CONNECT" /\ ~e.ok /\ CliCloses(c, net, ev, rest)
       \/ /\ e.kind = "WRITABLE"
          /\ \E p \in IF Live(net, fd) THEN Sent(net, fd) ELSE {[net |-> net, res |-> "bad"]} :
                \/ p.res = "ok" /\ stay(p.net, Watching(ev, c, fd, FALSE))
                \/ p.res = "block" /\ stay(p.net, ev)
                \/ p.res = "bad" /\ CliCloses(c, p.net, ev, rest)
       \/ /\ e.kind = "READABLE"
          /\ \E q \in IF Live(net, fd) /\ net.slot[fd].rx # "none" THEN Received(net, fd)
                       ELSE {[net |-> net, ok |-> TRUE]} :
                IF q.ok THEN stay(q.net, ev) ELSE CliCloses(c, q.net, ev, rest)

DispatchClient ==
    /\ batch # <<>> /\ Head(batch).kind \in {"CONNECT", "WRITABLE", "READABLE"}
    /\ OnClient(Head(batch).who, Head(batch))
    /\ UNCHANGED <<conn, wire, ebs>>

\* ExitBootServices: the firmware and all it held are gone.
ExitBootServices ==
    /\ ~ebs /\ batch = <<>> /\ ebs' = TRUE
    /\ net' = [net EXCEPT
         !.slot = [s \in Slots |-> [net.slot[s] EXCEPT !.fw = Idle]],
         !.acc = [i \in 1..Backlog |-> [net.acc[i] EXCEPT !.fw = "idle"]]]
    /\ UNCHANGED <<ev, batch, conn, cli, wire>>

Init ==
    /\ net = [slot |-> [s \in Slots |-> FreeSlot(0)],
              acc |-> [i \in 1..Backlog |-> NoTok], lst |-> 0]
    /\ ev = [cop |-> {}, watch |-> {}, io |-> [i \in 1..NIo |-> NoIo], primed |-> FALSE]
    /\ batch = <<>>
    /\ conn = [k \in 1..PoolCap |-> NoConn]
    /\ cli = [c \in Clients |-> 0]
    /\ wire = [k \in 1..PoolCap |-> 0]
    /\ ebs = FALSE

Next == \/ Tick \/ DispatchServer \/ DispatchClient \/ Sweep \/ Start \/ Stop
        \/ ExitBootServices
        \/ \E c \in Clients : CliConnect(c) \/ CliClose(c)

Spec == Init /\ [][Next]_vars

----------------------------------------------------------------------------
(* Properties                                                              *)

(* Every token the firmware still owns is one the code remembers: posted on  *)
(* an open slot, or in a quarantined slot that is never reclaimed; and no    *)
(* token counts as posted once its one signal has been consumed, for a drain *)
(* would wait on it for ever.                                                *)
TokensReconciled ==
    ~ebs => \A s \in Slots, t \in Tokens :
        LET c == net.slot[s] IN
        /\ c.fw[t] = "held" => c.st # "free" /\ (t \in c.posted \/ c.quar)
        /\ t \in c.posted => c.fw[t] # "idle"

(* The storage of an Accept token the firmware may still write is not handed *)
(* to a new listener: it is posted by this one or quarantined.               *)
AcceptStorageKept ==
    ~ebs => \A i \in 1..Backlog :
        net.acc[i].fw = "held" => net.acc[i].posted \/ net.acc[i].quar

(* Every recv or send a connection has outstanding is in the loop's table or *)
(* among the drained completions, once: a connection that closes is freed by *)
(* its last completion, so none is lost and none comes twice.                *)
Answered ==
    ~ebs => \A k \in 1..PoolCap, kind \in {"recv", "send"} :
        LET held == {i \in 1..NIo : ev.io[i].kind = kind /\ ev.io[i].conn = k
                                    /\ (ev.io[i].cancelled
                                        \/ SameGen(net, ev.io[i].fd, ev.io[i].gen))}
            done == {j \in 1..Len(batch) :
                        batch[j].who = k
                        /\ batch[j].kind = IF kind = "recv" THEN "READ" ELSE "WRITE"}
        IN Cardinality(held) + Cardinality(done)
              = IF kind \in conn[k].ops THEN 1 ELSE 0

(* A drained ACCEPT always finds a free connection: the Accept tokens posted *)
(* and the children drained never exceed the connections the pool has free.  *)
AcceptsFit ==
    Cardinality(Posted(net)) + Cardinality({j \in 1..Len(batch) : batch[j].kind = "ACCEPT"})
        <= Cardinality(FreeConns)

(* A WRITE completion that reports success has sent the whole response.      *)
WholeWrites ==
    \A j \in 1..Len(batch) :
        batch[j].kind = "WRITE" /\ batch[j].ok => wire[batch[j].who] = Total
=============================================================================
