----------------------------- MODULE PipeStream -----------------------------
(***************************************************************************)
(* KlPipeStream (src/pipe_stream.c): a KlStream over a pipe end, owned by  *)
(* one KlCompLife token, and KlPipeListener, which hands out such streams. *)
(*                                                                         *)
(* A stream is a record of pipe[s].  Every C function on one stream is an  *)
(* operator from that record to the SET of records it can leave, one for   *)
(* each answer of the platform and each thing a consumer callback may do   *)
(* (on_data: pause, close, cancel, free; on_writable: write, close, free;  *)
(* on_close: free).  A completion stream posts read, write and accept ops, *)
(* each holding one reference until its completion is dispatched; a        *)
(* readiness stream keeps one watcher whose mask follows its two wants.    *)
(*                                                                         *)
(* `touched' records that a C frame used the stream after the final        *)
(* release had freed it.                                                   *)
(***************************************************************************)
EXTENDS Integers, FiniteSets

CONSTANTS Streams,      \* identities of the streams that may be built
          Models,       \* how streams may be built: subset of Shapes
          WCap,         \* capacity of the bounded write queue
          Window,       \* accepts the listener keeps posted (0: no listener)
          HeldFree      \* the pipe may be freed while kl_stream_resume delivers

VARIABLES pipe, lst

vars == <<pipe, lst>>

\* kl_pipe_connect, kl_anon_pipe_create on IOCP and on a readiness loop
Shapes == {"duplex", "reads", "writes", "rdreads", "rdwrites"}
Readiness(shape) == shape \in {"rdreads", "rdwrites"}
CanRead(p) == p.shape \in {"duplex", "reads", "rdreads"}
CanWrite(p) == p.shape \in {"duplex", "writes", "rdwrites"}
Kinds == {"read", "write", "accept"}

NoStream == [mem |-> "none", refs |-> 0, shape |-> "duplex", owner |-> "none",
             freed |-> FALSE, ends |-> 0, touched |-> FALSE, told |-> FALSE,
             inflight |-> FALSE, held |-> "none", paused |-> FALSE, rclosed |-> FALSE,
             q |-> 0, sent |-> 0, werr |-> FALSE, blocked |-> FALSE, inw |-> FALSE,
             st |-> "open", abort |-> FALSE,
             wants |-> {}, watched |-> {}, op |-> [k \in Kinds |-> "none"]]

Ready(p) == Readiness(p.shape)

Touch(p) == IF p.mem = "final" THEN [p EXCEPT !.touched = TRUE] ELSE p

Retain(p) == [p EXCEPT !.refs = @ + 1]

MutRelease(p) == [p EXCEPT !.refs = @ - 1, !.mem = IF p.freed THEN "final" ELSE @]

\* kl_comp_life_release; the last reference runs pipe_final
Release(p) == [p EXCEPT !.refs = @ - 1, !.mem = IF p.refs = 1 THEN "final" ELSE @]

\* pipe_post: the op takes a reference, or the post takes nothing
Post(p, k) == {[p |-> [Retain(p) EXCEPT !.op[k] = "posted"], ok |-> TRUE],
               [p |-> p, ok |-> FALSE]}

\* kl_comp_pipe_cancel: the op still completes
CancelOp(p, k) == IF p.op[k] = "posted" THEN [p EXCEPT !.op[k] = "cancelled"] ELSE p

\* pipe_watch: dropping interest cannot be refused, adding some can
Watch(p) ==
    {[p |-> [p EXCEPT !.watched = p.wants], ok |-> TRUE]}
    \cup IF p.wants \subseteq p.watched THEN {} ELSE {[p |-> p, ok |-> FALSE]}

ArmHook(p) ==                                            \* pipe_arm, rd_arm
    IF ~Ready(p) THEN Post(p, "read")
    ELSE {IF w.ok THEN w ELSE [w EXCEPT !.p.wants = @ \ {"r"}]
            : w \in Watch([p EXCEPT !.wants = @ \cup {"r"}])}

DisarmHook(p) == {w.p : w \in Watch([p EXCEPT !.wants = @ \ {"r"}])} \* rd_disarm

Arm(p) ==                                                       \* stream_arm
    IF p.rclosed \/ p.paused \/ p.inflight \/ p.held # "none" THEN {[p |-> p, ok |-> TRUE]}
    ELSE {IF a.ok THEN [a EXCEPT !.p.inflight = TRUE]
          ELSE [a EXCEPT !.p.rclosed = TRUE] : a \in ArmHook(p)}

ReadClosed(p) ==                                       \* kl_stream_read_close
    LET closed == [p EXCEPT !.rclosed = TRUE, !.held = "none"] IN
    IF p.rclosed \/ ~CanRead(p) THEN {p}
    ELSE IF ~Ready(p) THEN {closed}
    ELSE {[d EXCEPT !.inflight = FALSE]
            : d \in IF p.inflight THEN DisarmHook(closed) ELSE {closed}}

FullyRetired(p) == /\ ~p.inflight /\ p.sent = 0
                   /\ (p.abort \/ p.werr \/ p.q = 0)

Detaches(p) == p.st = "closing" /\ ~p.inw /\ FullyRetired(p)

\* stream_close_common up to the point where it finalizes
Closing(p, abort) ==
    LET began == [p EXCEPT !.st = "closing", !.abort = abort \/ @]
        cancelled(r) == IF r.abort THEN CancelOp(CancelOp(r, "read"), "write") ELSE r
    IN IF p.st = "closed" THEN {p}
       ELSE {cancelled(r) : r \in IF p.st = "open" THEN ReadClosed(began) ELSE {began}}

\* kl_pipe_free: cancel whatever is outstanding, stop watching, let go.  The
\* on_close of that cancel does not reach the consumer any more.
Free(p) ==
    LET unwatched(r) == IF Ready(r) THEN {w.p : w \in Watch([r EXCEPT !.wants = {}])} ELSE {r}
        detached(r) == IF Detaches(r) THEN [r EXCEPT !.st = "closed"] ELSE r
    IN IF p.freed THEN {p}
       ELSE {Release(u) : u \in UNION {unwatched(detached(r)) :
                r \in Closing([p EXCEPT !.freed = TRUE], TRUE)}}

OnClose(p) == {p} \cup IF p.owner = "user" THEN Free(p) ELSE {}   \* pipe_on_close

Finalize(p) ==                        \* stream_close_finalize, stream_detach
    IF Detaches(p) THEN OnClose([p EXCEPT !.st = "closed"]) ELSE {p}

Close(p, abort) == UNION {Finalize(r) : r \in Closing(p, abort)}

Pause(p) ==                                                  \* kl_stream_pause
    IF p.paused THEN {p}
    ELSE IF Ready(p) /\ p.inflight
    THEN {[d EXCEPT !.inflight = FALSE] : d \in DisarmHook([p EXCEPT !.paused = TRUE])}
    ELSE {[p EXCEPT !.paused = TRUE]}

\* The consumer's on_data; frees: it may let go of the pipe, there or in the
\* on_close of a close it begins there
OnData(p, frees) ==
    {c \in {p} \cup Pause(p) \cup Close(p, FALSE) \cup Close(p, TRUE) \cup Free(p)
        : frees \/ ~c.freed}

Deliver(p, ok, frees) ==                                        \* pipe_deliver
    LET d == IF ok THEN p ELSE [p EXCEPT !.ends = @ + 1] IN
    IF ~ok /\ p.ends > 0 THEN {p}
    ELSE IF p.freed \/ p.owner # "user" THEN {d} ELSE OnData(d, frees)

DeliverAndContinue(p, ok, frees) ==              \* stream_deliver_and_continue
    UNION {IF ~ok THEN {[p |-> d, ok |-> TRUE]}
           ELSE LET t == Touch(d) IN
                IF t.rclosed \/ t.paused \/ t.inflight THEN {[p |-> t, ok |-> TRUE]}
                ELSE Arm(t)
           : d \in Deliver(IF ok THEN p ELSE [p EXCEPT !.rclosed = TRUE], ok, frees)}

MutOnRecv(p, ok) ==
    LET r == [p EXCEPT !.inflight = FALSE] IN
    IF ~p.inflight THEN {p}
    ELSE IF p.rclosed THEN Finalize(r)
    ELSE IF p.paused THEN Finalize([r EXCEPT !.held = IF ok THEN "data" ELSE "end"])
    ELSE UNION {IF d.p.inflight THEN {d.p} ELSE Finalize(d.p)
                : d \in DeliverAndContinue(r, ok, TRUE)}

\* kl_stream_on_recv, and what pipe_dispatch and pipe_ready do with its -1
OnRecv(p, ok) ==
    LET r == [p EXCEPT !.inflight = FALSE] IN
    IF ~p.inflight THEN {p}
    ELSE IF p.rclosed THEN Finalize(r)
    ELSE IF p.paused THEN Finalize([r EXCEPT !.held = IF ok THEN "data" ELSE "end"])
    ELSE UNION {UNION {IF d.ok THEN {f} ELSE Deliver(f, FALSE, TRUE)
                         : f \in IF d.p.inflight THEN {d.p} ELSE Finalize(d.p)}
                : d \in DeliverAndContinue(r, ok, TRUE)}

Resume(p) ==                                                \* kl_stream_resume
    LET r == [p EXCEPT !.paused = FALSE] IN
    IF ~p.paused THEN {[p |-> p, ok |-> TRUE]}
    ELSE IF p.rclosed THEN {[p |-> r, ok |-> TRUE]}
    ELSE IF p.held # "none"
    THEN DeliverAndContinue([r EXCEPT !.held = "none"], p.held = "data", HeldFree)
    ELSE Arm(r)

ReadStart(p) == IF CanRead(p) THEN Arm(p) ELSE {[p |-> p, ok |-> FALSE]}

Pump(p) ==                                            \* stream_pump_completion
    IF p.werr \/ p.abort \/ p.sent > 0 \/ p.q = 0 THEN {p}
    ELSE {IF w.ok THEN [w.p EXCEPT !.sent = p.q, !.q = 0] ELSE [w.p EXCEPT !.werr = TRUE]
            : w \in Post(p, "write")}

\* rd_write: n of len units go out now; interest starts when some stay behind
Writer(p, n, len) ==
    IF n = len \/ "w" \in p.wants THEN {[p |-> p, ok |-> TRUE]}
    ELSE {IF w.ok THEN w ELSE [w EXCEPT !.p.wants = @ \ {"w"}]
            : w \in Watch([p EXCEPT !.wants = @ \cup {"w"}])}

\* kl_stream_write of len units, and kl_drain_reserve_write / _reserve_buffer
Write(p, len) ==
    LET taken == [p EXCEPT !.q = @ + len, !.blocked = FALSE] IN
    IF ~CanWrite(p) \/ p.werr \/ p.st # "open" THEN {p}
    ELSE IF p.q + len > WCap THEN {[p EXCEPT !.blocked = TRUE]}
    ELSE IF ~Ready(p) THEN Pump(taken)
    ELSE IF p.q > 0 THEN {taken}
    ELSE {[p EXCEPT !.werr = TRUE]} \cup
         UNION {{IF w.ok THEN [w.p EXCEPT !.q = len - n, !.blocked = FALSE]
                 ELSE [w.p EXCEPT !.werr = TRUE] : w \in Writer(p, n, len)} : n \in 0..len}

\* stream_writable_edge and stream_fire_writable: [p, fired]
Edge(p) ==
    IF ~p.blocked \/ p.st # "open" \/ (~p.werr /\ p.q + p.sent >= WCap)
    THEN {[p |-> p, fired |-> FALSE]}
    ELSE LET in == [p EXCEPT !.blocked = FALSE, !.inw = TRUE] IN
         {[p |-> [c EXCEPT !.inw = FALSE], fired |-> TRUE]
            : c \in UNION {Write(in, n) : n \in 0..WCap}
                    \cup Close(in, FALSE) \cup Close(in, TRUE) \cup Free(in)}

MutFlush(p) ==
    LET pushed == {[p EXCEPT !.q = n] : n \in 0..p.q} \cup {[p EXCEPT !.werr = TRUE]}
        ends(e, r) == {[p |-> f, more |-> r = "more"]
                         : f \in IF r # "more" \/ e.fired THEN Finalize(e.p) ELSE {e.p}}
    IN IF p.werr THEN {[p |-> p, more |-> FALSE]}
       ELSE UNION {UNION {ends(e, IF d.werr THEN "bad" ELSE IF d.q > 0 THEN "more" ELSE "all")
                            : e \in Edge(d)} : d \in pushed}

\* kl_stream_flush: push, tell a blocked producer, notice a refill
Flush(p) ==
    LET pushed == {[p EXCEPT !.q = n] : n \in 0..p.q} \cup {[p EXCEPT !.werr = TRUE]}
        result(d, e) == IF d.werr THEN "bad"
                        ELSE IF d.q > 0 \/ (e.fired /\ e.p.q > 0) THEN "more" ELSE "all"
        ends(e, r) == {[p |-> f, more |-> r = "more"]
                         : f \in IF r # "more" \/ e.fired THEN Finalize(e.p) ELSE {e.p}}
    IN IF p.werr THEN {[p |-> p, more |-> FALSE]}
       ELSE UNION {UNION {ends(e, result(d, e)) : e \in Edge(d)} : d \in pushed}

OnWriteComplete(p, ok) ==                        \* kl_stream_on_write_complete
    LET r == [p EXCEPT !.sent = 0] IN
    IF p.sent = 0 THEN {p}
    ELSE UNION {UNION {Finalize(e.p) : e \in Edge(d)}
                  : d \in IF ok THEN Pump(r) ELSE {[r EXCEPT !.werr = TRUE]}}

\* pipe_ready: try what is wanted, whatever the readiness says
PipeReady(p) ==
    LET h == Retain(p)
        got == IF "r" \in h.wants /\ ~h.freed
               THEN {h} \cup UNION {OnRecv([h EXCEPT !.wants = @ \ {"r"}], ok) : ok \in BOOLEAN}
               ELSE {h}
        put(r) == IF "w" \in r.wants /\ ~r.freed
                  THEN {IF f.more THEN f.p ELSE [f.p EXCEPT !.wants = @ \ {"w"}] : f \in Flush(r)}
                  ELSE {r}
        watched(r) == IF r.freed THEN {r} ELSE {w.p : w \in Watch(r)}
    IN {Release(w) : w \in UNION {watched(r) : r \in UNION {put(g) : g \in got}}}

\* pipe_dispatch of a read or write event, which holds the op's reference
Dispatched(p, k, ok) ==
    LET e == [p EXCEPT !.op[k] = "none"] IN
    {Release(r) : r \in IF k = "read" THEN OnRecv(e, ok) ELSE OnWriteComplete(e, ok)}

New(shape, owner) == [NoStream EXCEPT !.mem = "live", !.refs = 1, !.shape = shape,
                                      !.owner = owner]               \* pipe_new
-----------------------------------------------------------------------------
\* The listener: worlds [ps, l]

Waiting(w) == {s \in Streams : w.ps[s].owner = "listener" /\ w.ps[s].op["accept"] # "none"}

\* l_finalize; listener_on_close, from which the owner may free the listener
Detached(w) ==
    IF w.l.st # "closing" \/ w.l.inflight > 0 THEN {w}
    ELSE IF w.l.starting THEN {[w EXCEPT !.l.st = "gone"]}
    ELSE {[w EXCEPT !.l.st = st] : st \in {"detached", "gone"}}

MutListenerCancel(w) == w

\* listener_cancel: every waiting instance's connect
ListenerCancel(w) ==
    [w EXCEPT !.ps = [s \in Streams |-> IF s \in Waiting(w) THEN CancelOp(w.ps[s], "accept")
                                        ELSE w.ps[s]]]

BeginClose(w) == IF w.l.st # "listening" THEN w
                 ELSE ListenerCancel([w EXCEPT !.l.st = "closing"])

\* listener_arm: a fresh instance with its connect outstanding
ListenerArm(w) ==
    LET unused == {s \in Streams : w.ps[s].mem = "none"}
        s == CHOOSE x \in unused : TRUE
        posted == {r.p : r \in {x \in Post(New("duplex", "listener"), "accept") : x.ok}}
        failed == Free(New("duplex", "listener"))
    IN {[w |-> w, ok |-> FALSE]}
       \cup IF unused = {} THEN {}
            ELSE {[w |-> [w EXCEPT !.ps[s] = p], ok |-> TRUE] : p \in posted}
                 \cup {[w |-> [w EXCEPT !.ps[s] = p], ok |-> FALSE] : p \in failed}

\* l_pump: fill the window; an instance that cannot be posted closes it
ListenerPump(w) ==
    LET step(v) == IF v.l.st # "listening" \/ v.l.inflight >= Window THEN {v}
                   ELSE {IF a.ok THEN [a.w EXCEPT !.l.inflight = @ + 1] ELSE BeginClose(a.w)
                           : a \in ListenerArm(v)}
        fill[k \in 0..Window] == IF k = 0 THEN {w} ELSE UNION {step(v) : v \in fill[k - 1]}
    IN UNION {Detached(v) : v \in fill[Window]}

\* listener_on_accept_obj: the owner keeps the stream, frees it, or closes
OnAccept(w, s) ==
    LET given == [w EXCEPT !.ps[s].owner = "user"] IN
    {given, BeginClose(given)} \cup {[given EXCEPT !.ps[s] = p] : p \in Free(given.ps[s])}

\* listener_accept_done, kl_listener_on_accepted_obj / _on_accept_failed
AcceptDone(w, s, ok) ==
    LET e == [w EXCEPT !.ps[s].op["accept"] = "none", !.l.inflight = @ - 1]
        freed == {[e EXCEPT !.ps[s] = p] : p \in Free(e.ps[s])}
        done == IF ok /\ e.l.st = "listening"
                THEN UNION {ListenerPump(v) : v \in OnAccept(e, s)}
                ELSE UNION {ListenerPump(v) : v \in freed}
    IN {[v EXCEPT !.ps[s] = Release(@)] : v \in done}
-----------------------------------------------------------------------------
World == [ps |-> pipe, l |-> lst]

Becomes(W) == \E w \in W : pipe' = w.ps /\ lst' = w.l
Turns(s, P) == (\E p \in P : pipe' = [pipe EXCEPT ![s] = p]) /\ UNCHANGED lst

Owned(s) == pipe[s].mem = "live" /\ pipe[s].owner = "user" /\ ~pipe[s].freed

Open(s) == /\ pipe[s].mem = "none"
           /\ Turns(s, {New(shape, "user") : shape \in Models})

Told(R) == {IF r.ok THEN r.p ELSE [r.p EXCEPT !.told = TRUE] : r \in R}

Consume(s) == /\ Owned(s)
              /\ \/ Turns(s, Told(ReadStart(pipe[s])))
                 \/ CanRead(pipe[s]) /\ Turns(s, Pause(pipe[s]))
                 \/ CanRead(pipe[s]) /\ Turns(s, Told(Resume(pipe[s])))
                 \/ Turns(s, UNION {Write(pipe[s], n) : n \in 1..WCap})
                 \/ Turns(s, Close(pipe[s], FALSE))
                 \/ Turns(s, Close(pipe[s], TRUE))
                 \/ Turns(s, Free(pipe[s]))

OpDone(s, k) == /\ pipe[s].op[k] # "none" /\ k # "accept"
                /\ Turns(s, UNION {Dispatched(pipe[s], k, ok) : ok \in BOOLEAN})

Becoming(s) == pipe[s].watched # {} /\ Turns(s, PipeReady(pipe[s]))

Listen == /\ lst.st = "none" /\ Window > 0
          /\ Becomes({[w EXCEPT !.l.starting = FALSE]
                : w \in ListenerPump([World EXCEPT !.l = [st |-> "listening", inflight |-> 0,
                                                          starting |-> TRUE]])})

Accepted(s) == /\ pipe[s].op["accept"] # "none"
               /\ Becomes(UNION {AcceptDone(World, s, ok) : ok \in BOOLEAN})

CloseListener == lst.st = "listening" /\ Becomes(Detached(BeginClose(World)))

\* kl_pipe_listener_free outside on_close
FreeListener == lst.st = "detached" /\ lst' = [lst EXCEPT !.st = "gone"] /\ UNCHANGED pipe

Init == /\ pipe = [s \in Streams |-> NoStream]
        /\ lst = [st |-> "none", inflight |-> 0, starting |-> FALSE]

Next == \/ \E s \in Streams : \/ Open(s) \/ Consume(s) \/ Becoming(s) \/ Accepted(s)
                              \/ \E k \in Kinds : OpDone(s, k)
        \/ Listen \/ CloseListener \/ FreeListener

Spec == Init /\ [][Next]_vars
-----------------------------------------------------------------------------
\* A stream's memory and handle go exactly when its owner has let go and no
\* op holds a reference any more: not before (an op the kernel still fills
\* would land in freed memory) and not later (kl_comp_life_release).
ReclaimedExactly ==
    \A s \in Streams :
        LET p == pipe[s]
            ops == {k \in Kinds : p.op[k] # "none"}
        IN p.mem # "none" =>
              /\ p.refs = Cardinality(ops) + IF p.freed THEN 0 ELSE 1
              /\ (p.mem = "final") <=> (p.refs = 0)

\* While its owner still holds the stream and has not closed it, a read side
\* that has ended has said so: one terminal delivery, or the -1 of the call
\* that failed (pipe_dispatch and pipe_ready, "never silent").
NoSilentEnd ==
    \A s \in Streams :
        LET p == pipe[s] IN
        /\ p.ends <= 1
        /\ Owned(s) /\ p.rclosed /\ p.st = "open" => p.ends = 1 \/ p.told

\* What the stream waits for is on its way: queued output has a posted send
\* or write interest behind it, an armed receive a posted read or read
\* interest, and a producer told to wait has output pending that will wake it.
WorkIsComing ==
    \A s \in Streams :
        LET p == pipe[s] IN
        Owned(s) /\ ~p.werr /\ ~p.abort =>
            /\ p.q > 0 => IF Ready(p) THEN "w" \in p.watched ELSE p.op["write"] # "none"
            /\ p.inflight => IF Ready(p) THEN "r" \in p.watched ELSE p.op["read"] # "none"
            /\ p.blocked /\ p.st = "open" => p.q + p.sent > 0

\* No C frame uses a stream the final release has freed.
NoUseAfterFinal == \A s \in Streams : ~pipe[s].touched

\* The listener counts the connects it has outstanding, and has detached
\* only when none is: nothing refers to a listener its owner may free.
ListenerCounts ==
    LET waiting == Waiting(World) IN
    /\ lst.inflight = Cardinality(waiting)
    /\ lst.st \in {"none", "detached", "gone"} => waiting = {}
    /\ lst.st = "closing" => \A s \in waiting : pipe[s].op["accept"] = "cancelled"
=============================================================================
