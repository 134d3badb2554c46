------------------------------ MODULE DnsResolver ------------------------------
(***************************************************************************)
(* The stub resolver of src/protocols/dns/dns_resolver.c: a request is two *)
(* concurrent legs (A and AAAA) for one candidate name after the other,    *)
(* each leg a query that is retransmitted over the nameservers, may wait   *)
(* for room in the send queue, and may fall back to a TCP connection that  *)
(* all legs of its nameserver share.  Every completion runs the user's     *)
(* done(), which may resolve, cancel and destroy.                          *)
(*                                                                         *)
(* A datagram is what dns_on_recv makes of it; transaction ids are         *)
(* abstracted to the leg dns_find_leg returns, so a late, duplicated or    *)
(* foreign datagram is one that leg has to judge or nobody sees.           *)
(***************************************************************************)
EXTENDS Naturals, Sequences, FiniteSets

CONSTANTS
    Reqs,        \* requests (memory of one KlDnsReq each; reused once freed)
    NNS,         \* nameservers, 0 .. NNS-1
    Attempts,    \* config: tries of each nameserver
    MaxSearch    \* search domains of resolv.conf

VARIABLES
    req,         \* request -> KlDnsReq
    timers,      \* timers pending in the event context: <<kind, request, leg>>
    tcp,         \* nameserver -> KlDnsTcp
    calls,       \* open frames, innermost first
    life         \* "up", "closing" (destroy_requested), "gone"

vars == <<req, timers, tcp, calls, life>>

NS == 0..(NNS - 1)
NoNs == NNS
Legs == {1, 2}

Leg0 == [st |-> "wait", tries |-> Attempts * NNS, ns |-> 0, sent |-> NoNs, n |-> FALSE, ck |-> 0]
\* A settled leg: of what it was only whether it has addresses is still read.
LegDone(n) == [Leg0 EXCEPT !.st = "done", !.tries = 0, !.n = n]
Free == [st |-> "free", cands |-> <<>>, legs |-> [i \in Legs |-> Leg0], rd |-> FALSE, noent |-> FALSE]
\* idle: "no" timer, "armed", or "refused" (no timer either, though one was asked for).
TcpClosed == [st |-> "closed", unsent |-> FALSE, w |-> FALSE, idle |-> "no"]

\* dns_resolver_create
Init ==
    /\ req = [q \in Reqs |-> Free] /\ timers = {}
    /\ tcp = [s \in NS |-> TcpClosed]
    /\ calls = <<>> /\ life = "up"

Live(q) == req[q].st = "live"
Undone(R, q) == {i \in Legs : R[q].st = "live" /\ R[q].legs[i].st # "done"}
OnTcp(R, s) == {p \in Reqs \X Legs : p[2] \in Undone(R, p[1]) /\ R[p[1]].legs[p[2]].st = "tcp"
                                       /\ R[p[1]].legs[p[2]].sent = s}
TimersOf(q) == {"leg"} \X {q} \X Legs \cup {<<"rd", q, 0>>, <<"lit", q, 0>>}

Top == IF calls = <<>> THEN "none" ELSE Head(calls)[1]

\* Frames that keep a teardown waiting: r->in_done > 0.
InDone(k) == \E i \in DOMAIN k : k[i][1] \in {"done", "read", "end"}

-----------------------------------------------------------------------------
(* Sending one leg's query. *)

\* Search domains and ndots: the names a host expands to, in order.
Candidates(absolute, dotted, nsearch) ==
    LET searched == [i \in 1..nsearch |-> i]
    IN IF absolute \/ nsearch = 0 THEN <<0>>
       ELSE IF dotted THEN <<0>> \o searched ELSE searched \o <<0>>

\* A query is refused: the name does not encode, or there is no entropy for it.
BuildFailures == {"failed", "entropy"}

\* dns_transmit_leg: j sends fail, each spending a try and rotating; then accepted,
\* would-block (nothing spent), refused, or no try is left.
Transmit(l) ==
    UNION {LET e == [l EXCEPT !.ns = (@ + j) % NNS, !.tries = @ - j] IN
           IF e.tries = 0 THEN {<<"failed", e>>}
           ELSE {<<"sent", [e EXCEPT !.st = "wait", !.sent = e.ns, !.ns = (@ + 1) % NNS, !.tries = @ - 1]>>,
                 <<"wouldblock", e>>} \cup (BuildFailures \X {e})
           : j \in 0..l.tries}

\* Transmit, or wait for the writable edge under the admission guard: <<leg, outcome>>.
\* Either timer may be refused.
TransmitOrPend(l) ==
    {<<x[2], "ok">> : x \in {y \in Transmit(l) : y[1] = "sent"}}
      \cup {<<[x[2] EXCEPT !.st = "pend"], "ok">> : x \in {y \in Transmit(l) : y[1] = "wouldblock"}}
      \cup {<<LegDone(FALSE), x[1]>> : x \in {y \in Transmit(l) : y[1] \in BuildFailures}}

\* dns_start_candidate: both legs are sent; one that cannot be is done, and empty.
StartCandidate(r) ==
    {[r EXCEPT !.legs = <<a[1], b[1]>>, !.rd = FALSE, !.noent = ("entropy" \in {a[2], b[2]})] :
        a, b \in TransmitOrPend(Leg0)}

LegTimers(q, r) == {<<"leg", q, i>> : i \in {j \in Legs : r.legs[j].st # "done"}}

\* dns_start_from: the first candidate of cs that can be queried (none is always possible).
StartFrom(r, cs) ==
    {x \in UNION {StartCandidate([r EXCEPT !.cands = SubSeq(cs, k, Len(cs))]) : k \in 1..Len(cs)} :
        \E i \in Legs : x.legs[i].st # "done"}

-----------------------------------------------------------------------------
(* Completion. *)

\* dns_tcp_arm_idle, for the requests R: off while the connection is busy, else armed unless it is
\* already; the timer may be refused, and is asked for again only the next time round.
ArmIdle(t, R, s) ==
    IF t.st = "closed" THEN {t}
    ELSE IF OnTcp(R, s) # {} \/ t.unsent THEN {[t EXCEPT !.idle = "no"]}
    ELSE IF t.idle = "armed" THEN {t}
    ELSE {[t EXCEPT !.idle = i] : i \in {"armed", "refused"}}
TouchIdleAll(T, R) == {U \in [NS -> UNION {ArmIdle(T[s], R, s) : s \in NS}] : \A s \in NS : U[s] \in ArmIdle(T[s], R, s)}

\* dns_complete up to the call of done().
Complete(q, r, k) ==
    /\ req' = [req EXCEPT ![q] = [Free EXCEPT !.st = "indone"]]
    /\ timers' = timers \ TimersOf(q)
    /\ calls' = <<<<"done", q>>>> \o k
    /\ UNCHANGED life

\* dns_advance_candidate
AdvanceCandidate(q, r, k) ==
    \/ /\ ~r.noent
       /\ \E x \in StartFrom(r, Tail(r.cands)) :
             /\ req' = [req EXCEPT ![q] = x]
             /\ timers' = (timers \ TimersOf(q)) \cup LegTimers(q, x)
       /\ calls' = k /\ UNCHANGED life
    \/ Complete(q, r, k)

\* dns_check_complete; the merge of dns_finalize is the pair of legs.
CheckComplete(q, i, r, k) ==
    LET both == \A j \in Legs : r.legs[j].st = "done"
        addr == \E j \in Legs : r.legs[j].n
    IN IF both THEN IF addr THEN Complete(q, r, k) ELSE AdvanceCandidate(q, r, k)
       ELSE /\ req' = [req EXCEPT ![q] = [r EXCEPT !.rd = @ \/ addr]]
            /\ \E armed \in SUBSET (IF addr /\ ~r.rd THEN {<<"rd", q, 0>>} ELSE {}) :
                  timers' = (timers \ {<<"leg", q, i>>}) \cup armed
            /\ calls' = k /\ UNCHANGED life

MutLegSettle(q, i, n, e, k) ==
    /\ req' = [req EXCEPT ![q].legs[i] = LegDone(n)]
    /\ timers' = timers \ {<<"leg", q, i>>} /\ calls' = k /\ UNCHANGED life

\* dns_leg_settle: leg i of q is done with (n) or without addresses; e: for want of entropy.
LegSettle(q, i, n, e, k) ==
    CheckComplete(q, i, [req[q] EXCEPT !.legs[i] = LegDone(n), !.noent = @ \/ e], k)

\* dns_teardown
Teardown(R) ==
    /\ req' = [q \in Reqs |-> IF R[q].st = "live" THEN Free ELSE R[q]]
    /\ timers' = {} /\ tcp' = [s \in NS |-> TcpClosed] /\ life' = "gone"

\* The rest of dns_complete after done() returned.
DoneReturns ==
    /\ Top = "done"
    /\ calls' = Tail(calls)
    /\ LET R == [req EXCEPT ![Head(calls)[2]] = Free] IN
       IF life = "closing" /\ ~InDone(Tail(calls)) THEN Teardown(R)
       ELSE req' = R /\ tcp' \in TouchIdleAll(tcp, R) /\ UNCHANGED <<timers, life>>

-----------------------------------------------------------------------------
(* Calls of the user: outside any callback, or inside done(). *)

UserRuns == life # "gone" /\ Top \in {"none", "done"}

\* dns_resolve; a NULL result leaves no trace.
Resolve(q) ==
    /\ UserRuns /\ life = "up" /\ req[q].st = "free"
    /\ \/ /\ req' = [req EXCEPT ![q] = [Free EXCEPT !.st = "live", !.legs = [i \in Legs |-> LegDone(FALSE)]]]
          /\ timers' = timers \cup {<<"lit", q, 0>>}
       \/ \E absolute, dotted \in BOOLEAN, n \in 0..MaxSearch :
          \E x \in StartFrom([Free EXCEPT !.st = "live"], Candidates(absolute, dotted, n)) :
             /\ req' = [req EXCEPT ![q] = x]
             /\ timers' = timers \cup LegTimers(q, x)
    /\ UNCHANGED <<tcp, calls, life>>

MutCancel(q) ==
    /\ UserRuns /\ Live(q)
    /\ req' = [req EXCEPT ![q] = Free]
    /\ timers' = timers \ ({"leg"} \X {q} \X Legs)
    /\ tcp' \in TouchIdleAll(tcp, req')
    /\ UNCHANGED <<calls, life>>

\* dns_cancel; of a request inside its own done() it only sets a flag.
Cancel(q) ==
    /\ UserRuns /\ Live(q)
    /\ req' = [req EXCEPT ![q] = Free]
    /\ timers' = timers \ TimersOf(q)
    /\ tcp' \in TouchIdleAll(tcp, req')
    /\ UNCHANGED <<calls, life>>

\* dns_destroy
Destroy ==
    /\ UserRuns /\ life = "up"
    /\ IF InDone(calls) THEN life' = "closing" /\ UNCHANGED <<req, timers, tcp>> ELSE Teardown(req)
    /\ UNCHANGED calls

\* kl_dns_resolver_create after the old one is gone.
Create ==
    /\ life = "gone" /\ calls = <<>> /\ life' = "up"
    /\ UNCHANGED <<req, timers, tcp, calls>>

-----------------------------------------------------------------------------
(* Timers. *)

\* The loop runs when no callback is open; a timer that fires is gone.
Fires(t) == calls = <<>> /\ life # "gone" /\ t \in timers

\* dns_on_leg_timer: the admission guard, the TCP exchange, or the response timeout.
OnLegTimer(q, i) ==
    /\ Fires(<<"leg", q, i>>)
    /\ LET l == req[q].legs[i] IN
       IF l.st \in {"pend", "tcp"} \/ l.tries = 0 THEN LegSettle(q, i, FALSE, FALSE, <<>>)
       ELSE \E x \in TransmitOrPend(l) :
               IF x[2] = "ok"
               THEN req' = [req EXCEPT ![q].legs[i] = x[1]] /\ UNCHANGED <<timers, calls, life>>
               ELSE LegSettle(q, i, FALSE, x[2] = "entropy", <<>>)
    /\ UNCHANGED tcp

\* dns_on_rdelay: the other family took too long.
OnRdelay(q) ==
    /\ Fires(<<"rd", q, 0>>) /\ Complete(q, req[q], <<>>) /\ UNCHANGED tcp

\* dns_on_literal
OnLiteral(q) ==
    /\ Fires(<<"lit", q, 0>>) /\ Complete(q, req[q], <<>>) /\ UNCHANGED tcp

\* dns_tcp_on_idle
TcpOnIdle(s) ==
    /\ calls = <<>> /\ life # "gone" /\ tcp[s].idle = "armed"
    /\ tcp' = [tcp EXCEPT ![s] = IF OnTcp(req, s) = {} /\ ~@.unsent THEN TcpClosed ELSE [@ EXCEPT !.idle = "no"]]
    /\ UNCHANGED <<req, timers, calls, life>>

-----------------------------------------------------------------------------
(* The datagram socket. *)

\* The full-to-room edge of the send queue: dns_on_writable.
OnWritable ==
    /\ calls = <<>> /\ life # "gone" /\ \E q \in Reqs : \E i \in Undone(req, q) : req[q].legs[i].st = "pend"
    /\ calls' = <<<<"writable">>>> /\ UNCHANGED <<req, timers, tcp, life>>

\* Its scan: each pending leg is sent, settled (the scan starts again), or the queue is full.
WritableScan ==
    /\ Top = "writable"
    /\ LET pend == {p \in Reqs \X Legs : p[2] \in Undone(req, p[1]) /\ req[p[1]].legs[p[2]].st = "pend"} IN
       IF pend = {} THEN calls' = Tail(calls) /\ UNCHANGED <<req, timers, life>>
       ELSE \E p \in pend : \E x \in Transmit(req[p[1]].legs[p[2]]) :
            CASE x[1] = "wouldblock" -> /\ req' = [req EXCEPT ![p[1]].legs[p[2]] = x[2]]
                                        /\ calls' = Tail(calls) /\ UNCHANGED <<timers, life>>
              [] x[1] = "sent" -> /\ req' = [req EXCEPT ![p[1]].legs[p[2]] = x[2]]
                                  /\ UNCHANGED <<timers, calls, life>>
              [] OTHER -> LegSettle(p[1], p[2], FALSE, x[1] = "entropy", calls)
    /\ UNCHANGED tcp

\* dns_tcp_update_interest; a change the watcher refuses leaves the interest as it is.
UpdateInterest(t) == {t, [t EXCEPT !.w = t.st = "connecting" \/ t.unsent]}

\* dns_tcp_flush that does not fail: all of it goes, or the socket would block, and then the
\* interest stays what it was.
Flushed(t) == UpdateInterest([t EXCEPT !.unsent = FALSE]) \cup (IF t.unsent THEN {t} ELSE {})

\* Queued for TCP: the idle timer stops; flushed at once on a connection that is up.
TcpQueued(t) ==
    LET u == [t EXCEPT !.idle = "no", !.unsent = TRUE]
    IN IF t.st = "ready" THEN Flushed(u) ELSE UpdateInterest(u)

\* dns_tcp_send_leg: connect, build, queue, flush; any of them may fail.
TcpSendLeg(q, i, s) ==
    LET l == req[q].legs[i]
        open == IF tcp[s].st # "closed" THEN {tcp[s]}
                ELSE {[TcpClosed EXCEPT !.st = c, !.w = TRUE] : c \in {"connecting", "ready"}}
    IN \/ /\ tcp[s].st = "closed" /\ LegSettle(q, i, FALSE, FALSE, calls) /\ UNCHANGED tcp
       \/ \E t \in open, e \in BOOLEAN :
             /\ tcp' = [tcp EXCEPT ![s] = t]
             /\ LegSettle(q, i, FALSE, e, calls)
       \/ \E t \in open : \E u \in TcpQueued(t), timed \in BOOLEAN :
             /\ tcp' = [tcp EXCEPT ![s] = u]
             /\ req' = [req EXCEPT ![q].legs[i] = [l EXCEPT !.st = "tcp", !.sent = s]]
             /\ timers' = IF timed THEN timers \cup {<<"leg", q, i>>} ELSE timers \ {<<"leg", q, i>>}
             /\ UNCHANGED <<calls, life>>
       \/ \E t \in open :
             /\ t.st = "ready" /\ tcp' = [tcp EXCEPT ![s] = TcpClosed]
             /\ req' = [req EXCEPT ![q].legs[i] = [l EXCEPT !.st = "tcp", !.sent = s]]
             /\ timers' = timers \cup {<<"leg", q, i>>}
             /\ calls' = <<<<"fail", s>>>> \o calls /\ UNCHANGED life

\* What the cookie checks (dns_extract_opt), dns_question_matches and kl_dns_parse_response
\* make of a datagram they do not ignore.
Verdicts == {"badcookie", "addresses", "truncated", "servfail", "empty"}

MutIgnoresUdp(l) == FALSE

\* Once a leg recovers over TCP its answer comes from TCP.
IgnoresUdp(l) == l.st = "tcp"

\* dns_on_recv: a datagram for leg i from the nameserver its query went to.
OnRecv(q, i) ==
    /\ calls = <<>> /\ life # "gone" /\ i \in Undone(req, q)
    /\ LET l == req[q].legs[i]
           s == l.sent
           Retry(v) == \E x \in TransmitOrPend(v) :
                          IF x[2] = "ok"
                          THEN /\ req' = [req EXCEPT ![q].legs[i] = x[1]]
                               /\ timers' = timers \cup {<<"leg", q, i>>} /\ UNCHANGED <<tcp, calls, life>>
                          ELSE /\ LegSettle(q, i, FALSE, x[2] = "entropy", calls)
                               /\ UNCHANGED tcp
       IN /\ s # NoNs /\ ~IgnoresUdp(l) /\ l.st # "pend"
          /\ \E v \in Verdicts :
             CASE v = "badcookie" /\ l.ck < 1 /\ l.tries > 0 -> Retry([l EXCEPT !.ck = 1, !.ns = s])
               [] v = "servfail" /\ l.tries > 0 -> Retry(l)
               [] v = "truncated" -> TcpSendLeg(q, i, s)
               [] OTHER -> LegSettle(q, i, v = "addresses", FALSE, calls) /\ UNCHANGED tcp

-----------------------------------------------------------------------------
(* The TCP connections. *)

\* dns_tcp_on_event up to the reads: the connect's result, then the flush.
TcpOnEvent(s) ==
    /\ calls = <<>> /\ life # "gone" /\ tcp[s].st # "closed"
    /\ \E m \in SUBSET {"R", "W"} \ {{}} :
       /\ "W" \in m => tcp[s].w
       /\ LET up == IF tcp[s].st = "ready" THEN {tcp[s]} ELSE UpdateInterest([tcp[s] EXCEPT !.st = "ready"])
              next == IF "R" \in m THEN "read" ELSE "end"
          IN \/ /\ tcp' = [tcp EXCEPT ![s] = TcpClosed]
                /\ tcp[s].st = "connecting" \/ ("W" \in m /\ tcp[s].unsent)
                /\ calls' = <<<<"fail", s>>, <<"end", s>>>>
             \/ \E t \in IF "W" \in m THEN UNION {Flushed(u) : u \in up} ELSE up :
                   tcp' = [tcp EXCEPT ![s] = t] /\ calls' = <<<<next, s>>>>
    /\ UNCHANGED <<req, timers, life>>

\* The read loop and dns_tcp_deliver: an answer for a leg, the end of the connection, or
\* nothing more for now; done() may have asked for the teardown.
TcpRead ==
    /\ Top = "read"
    /\ LET s == Head(calls)[2]
           k == <<<<"end", s>>>> \o Tail(calls)
       IN IF life = "closing" \/ tcp[s].st = "closed"
          THEN calls' = k /\ UNCHANGED <<req, timers, tcp, life>>
          ELSE \/ \E p \in OnTcp(req, s), n \in BOOLEAN :
                     LegSettle(p[1], p[2], n, FALSE, calls) /\ UNCHANGED tcp
               \/ /\ tcp' = [tcp EXCEPT ![s] = TcpClosed]
                  /\ calls' = <<<<"fail", s>>>> \o k /\ UNCHANGED <<req, timers, life>>
               \/ calls' = k /\ UNCHANGED <<req, timers, tcp, life>>

MutTcpFail ==
    /\ Top = "fail"
    /\ calls' = Tail(calls) /\ UNCHANGED <<req, timers, tcp, life>>

\* dns_tcp_fail after the close: every leg on the connection is settled empty.
TcpFail ==
    /\ Top = "fail"
    /\ LET waiting == OnTcp(req, Head(calls)[2]) IN
       IF waiting = {} \/ life # "up" THEN calls' = Tail(calls) /\ UNCHANGED <<req, timers, life>>
       ELSE \E p \in waiting : LegSettle(p[1], p[2], FALSE, FALSE, calls)
    /\ UNCHANGED tcp

\* The end of dns_tcp_on_event: idle timer, then a teardown that was asked for.
TcpEventEnd ==
    /\ Top = "end"
    /\ calls' = Tail(calls)
    /\ IF life = "closing" /\ ~InDone(Tail(calls)) THEN Teardown(req)
       ELSE /\ \E t \in ArmIdle(tcp[Head(calls)[2]], req, Head(calls)[2]) :
                  tcp' = [tcp EXCEPT ![Head(calls)[2]] = t]
            /\ UNCHANGED <<req, timers, life>>

-----------------------------------------------------------------------------

Returns == DoneReturns \/ WritableScan \/ TcpRead \/ TcpFail \/ TcpEventEnd

Next ==
    \/ Returns \/ Destroy \/ Create \/ OnWritable
    \/ \E q \in Reqs : Resolve(q) \/ Cancel(q) \/ OnRdelay(q) \/ OnLiteral(q)
    \/ \E q \in Reqs, i \in Legs : OnLegTimer(q, i) \/ OnRecv(q, i)
    \/ \E s \in NS : TcpOnIdle(s) \/ TcpOnEvent(s)

\* Timers that are due fire and callbacks return; nothing is assumed of the network.
TimerFires(q) == OnRdelay(q) \/ OnLiteral(q) \/ \E i \in Legs : OnLegTimer(q, i)

Fairness ==
    /\ WF_vars(Returns)
    /\ \A q \in Reqs : SF_vars(OnRdelay(q)) /\ SF_vars(OnLiteral(q))
    /\ \A q \in Reqs, i \in Legs : SF_vars(OnLegTimer(q, i))

Spec == Init /\ [][Next]_vars /\ Fairness

-----------------------------------------------------------------------------
(* Properties. *)

Between == calls = <<>> /\ life # "gone"

\* No timer outlives its request: done(), cancel, a new candidate and the teardown, however
\* they nest, leave no callback for freed memory; a request that is still live has a settled
\* pair of legs only while its literal's timer is pending (dns_cancel_timers, dns_complete).
TimersMatch ==
    /\ \A t \in timers : req[t[2]].st = "live" /\ (t[1] = "leg" => t[3] \in Undone(req, t[2]))
    /\ Between => \A q \in Reqs : Live(q) => <<"lit", q, 0>> \in timers \/ Undone(req, q) # {}

\* Every leg that waits can end: its own timer is pending or its TCP connection is open,
\* and no connection is left open without a timer, a leg or unsent bytes to close it, unless the
\* last idle timer asked for was refused.
NothingStranded ==
    Between =>
        /\ \A q \in Reqs : \A i \in Undone(req, q) :
              \/ <<"leg", q, i>> \in timers
              \/ req[q].legs[i].st = "tcp" /\ tcp[req[q].legs[i].sent].st # "closed"
        /\ \A p \in Reqs \X Legs, s \in NS : p \in OnTcp(req, s) => tcp[s].st # "closed"
        /\ (\A q \in Reqs : ~Live(q)) => \A s \in NS : tcp[s].st # "closed" => tcp[s].idle # "no" \/ tcp[s].unsent

\* A resolver is torn down only when no done() and no TCP event is open on it.
TeardownLast == life = "gone" => ~InDone(calls) /\ \A q \in Reqs : req[q].st = "free"

\* "Reconcile watcher interest: READ always; WRITE while connecting or unsent."
UnsentIsWatched == Between => \A s \in NS : tcp[s].unsent => tcp[s].w

\* Every resolution ends (done, cancelled or torn down) whatever the network does, once its
\* timers could be armed.
Over(q) == ~Live(q) \/ \E i \in Undone(req, q) : <<"leg", q, i>> \notin timers

RequestsEnd == \A q \in Reqs : Live(q) ~> Over(q)
=============================================================================
