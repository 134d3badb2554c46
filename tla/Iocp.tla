-------------------------------- MODULE Iocp --------------------------------
(***************************************************************************)
(* The completion backend over a Windows completion port                   *)
(* (src/event_iocp.c): overlapped sockets, named pipes, and readiness      *)
(* watches expressed as zero-byte probes.                                  *)
(*                                                                         *)
(* The kernel owns an issued op until its packet is taken from the port.   *)
(* One op of each kind is outstanding; the ops of the one watched          *)
(* descriptor are the probes, of which an old one may still be on its way  *)
(* out while the current one is up.  A post that fails leaves nothing.     *)
(***************************************************************************)
EXTENDS Naturals, FiniteSets, TLC

CONSTANTS
    Kinds,      \* ops used, among the kinds below
    Probes,     \* ops for the watched descriptor
    HeadLen,    \* units of a response, of a file's head, of a pipe write
    FileLen,    \* units of a file
    Chunk,      \* units of a file one TransmitFile takes
    MaxEvents,  \* events per drain
    NoProbe

VARIABLES
    ops,       \* the registry of outstanding ops
    kern,      \* those the kernel owns
    port,      \* packets queued on the port: op -> result
    watch,     \* the current probe of the watch, or NoProbe
    quiescing, \* teardown has begun
    pc,        \* "user", "reap", "dispatch", "closing", "closed"
    todo,      \* packets this drain took
    batch,     \* events not dispatched yet: kind -> success
    relayed,   \* a watcher event not dispatched yet
    want,      \* kinds whose owner waits for a completion
    life,      \* the token of the datagram or pipe
    sent,      \* units the peer's side took of the write, file or pipe write
    closing,   \* the connection was cancelled and awaits its completions
    socks      \* pre-created accept sockets open

vars == <<ops, kern, port, watch, quiescing, pc, todo, batch, relayed, want, life,
          sent, closing, socks>>

Stream == {"read", "write", "file"}
Tokened == {"recv", "send", "pread", "pwrite", "paccept"}
Pipe == {"pread", "pwrite", "paccept"}

Op == [done |-> 0, cancelled |-> FALSE, removed |-> FALSE, rearm |-> FALSE,
       dead |-> FALSE, mask |-> "r"]

Init ==
    /\ ops = <<>> /\ port = <<>> /\ batch = <<>>
    /\ kern = {} /\ todo = {} /\ want = {}
    /\ watch = NoProbe /\ pc = "user"
    /\ quiescing = FALSE /\ relayed = FALSE /\ closing = FALSE
    /\ life = [refs |-> 1, owned |-> TRUE, freed |-> FALSE]
    /\ sent = 0 /\ socks = 0

Without(f, X) == [y \in DOMAIN f \ X |-> f[y]]

Released(l, n) == IF n = 0 THEN l ELSE [l EXCEPT !.refs = @ - n, !.freed = l.refs = n]

Caller == pc \in {"user", "dispatch"}

(* The kernel finishes an op it owns: the packet goes on the port.         *)
KernelCompletes(k) ==
    /\ k \in kern
    /\ \E res \in {"some", "zero", "error"} \union (IF k = "recv" THEN {"icmp"} ELSE {}) :
        port' = port @@ (k :> res)
    /\ kern' = kern \ {k}
    /\ UNCHANGED <<ops, watch, quiescing, pc, todo, batch, relayed, want, life, sent, closing, socks>>

(* CancelIoEx: what the kernel still owns completes with an error; what is *)
(* already on the port keeps the result it has.                            *)
CancelIoEx(K) ==
    /\ kern' = kern \ K
    /\ port' = port @@ [k \in kern \cap K |-> "error"]

-----------------------------------------------------------------------------
(* Posts.                                                                  *)

Post(k) ==
    /\ Caller /\ ~quiescing /\ k \in Kinds /\ k \notin DOMAIN ops \union DOMAIN batch
    /\ ops' = ops @@ (k :> Op)
    /\ want' = want \union {k}
    /\ life' = IF k \in Tokened THEN [life EXCEPT !.refs = @ + 1] ELSE life
    /\ UNCHANGED <<watch, quiescing, pc, todo, batch, relayed, closing>>

Issued(k) == kern' = kern \union {k} /\ UNCHANGED port

PostRecv == ~closing /\ Post("read") /\ Issued("read") /\ UNCHANGED <<sent, socks>>

PostSend == ~closing /\ Post("write") /\ Issued("write") /\ sent' = 0 /\ UNCHANGED socks

PostSendfile == ~closing /\ Post("file") /\ Issued("file") /\ sent' = 0 /\ UNCHANGED socks

(* AcceptEx takes a socket made for the connection to come.                *)
PostAccept == Post("accept") /\ Issued("accept") /\ socks' = socks + 1 /\ UNCHANGED sent

(* iocp_dgram_recv_issue: ICMP reports are skipped; past a bound the op    *)
(* queues a packet of its own, for the next drain to issue it again.       *)
DgramRecvIssue ==
    \/ Issued("recv")
    \/ port' = port @@ ("recv" :> "requeue") /\ UNCHANGED kern

PostDgramRecv == life.owned /\ Post("recv") /\ DgramRecvIssue /\ UNCHANGED <<sent, socks>>

PostDgramSend == life.owned /\ Post("send") /\ Issued("send") /\ UNCHANGED <<sent, socks>>

PostConnect == Post("conn") /\ Issued("conn") /\ UNCHANGED <<sent, socks>>

(* iocp_pipe_issue: a failure at issue queues the op's packet itself, and  *)
(* so does a client that had connected before the accept was issued.       *)
PipeIssue(k) ==
    \/ kern' = kern \union {k} /\ port' = Without(port, {k})
    \/ kern' = kern /\ port' = (k :> "error") @@ port
    \/ kern' = kern /\ k = "paccept" /\ port' = (k :> "some") @@ port

PipePost(k) ==
    /\ life.owned /\ k \in Pipe /\ Post(k) /\ PipeIssue(k)
    /\ sent' = IF k = "pwrite" THEN 0 ELSE sent
    /\ UNCHANGED socks

-----------------------------------------------------------------------------
(* Cancels.                                                                *)

Mark(K, mark(_)) == [k \in DOMAIN ops |-> IF k \in K THEN mark(ops[k]) ELSE ops[k]]

(* A connection being closed: all its overlapped I/O.                      *)
CancelStream ==
    /\ Caller /\ ~closing /\ want \cap Stream # {}
    /\ closing' = TRUE
    /\ CancelIoEx(Stream)
    /\ UNCHANGED <<ops, watch, quiescing, pc, todo, batch, relayed, want, life, sent, socks>>

(* The last completion released the connection, and its slot is used anew. *)
SlotReused ==
    /\ closing /\ want \cap Stream = {} /\ closing' = FALSE
    /\ UNCHANGED <<ops, kern, port, watch, quiescing, pc, todo, batch, relayed, want, life, sent, socks>>

(* A connect's completion is not to reach the watcher, which goes.         *)
CancelConnect ==
    /\ Caller /\ want' = want \ {"conn"}
    /\ LET gone(op) == [op EXCEPT !.removed = TRUE] IN ops' = Mark({"conn"}, gone)
    /\ CancelIoEx({"conn"})
    /\ batch' = Without(batch, {"conn"})
    /\ UNCHANGED <<watch, quiescing, pc, todo, relayed, life, sent, closing, socks>>

(* iocp_comp_cancel_dgram and kl_comp_pipe_cancel.                         *)
CancelTokened(k) ==
    /\ Caller /\ life.owned /\ k \in Tokened /\ k \in DOMAIN ops
    /\ LET end(op) == [op EXCEPT !.cancelled = TRUE] IN ops' = Mark({k}, end)
    /\ CancelIoEx({k})
    /\ UNCHANGED <<watch, quiescing, pc, todo, batch, relayed, want, life, sent, closing, socks>>

RetirePending(k) == k \in DOMAIN ops

OwnerGone ==
    /\ Caller /\ life.owned
    /\ life' = Released([life EXCEPT !.owned = FALSE], 1)
    /\ want' = want \ Tokened
    /\ UNCHANGED <<ops, kern, port, watch, quiescing, pc, todo, batch, relayed, sent, closing, socks>>

-----------------------------------------------------------------------------
(* The watch.                                                              *)

FreeProbe == Probes \ DOMAIN ops

EvAdd(p, mask) ==
    /\ Caller /\ ~quiescing /\ watch = NoProbe /\ p \in FreeProbe
    /\ ops' = ops @@ (p :> [Op EXCEPT !.mask = mask])
    /\ kern' = kern \union {p} /\ watch' = p
    /\ UNCHANGED <<port, quiescing, pc, todo, batch, relayed, want, life, sent, closing, socks>>

(* iocp_watch_reinterest: a probe waiting to be armed again is retargeted; *)
(* an outstanding one is replaced, then cancelled.                         *)
EvMod(p, mask) ==
    /\ Caller /\ ~quiescing /\ watch # NoProbe /\ ops[watch].mask # mask
    /\ IF ops[watch].rearm
       THEN /\ ops' = [ops EXCEPT ![watch].mask = mask]
            /\ UNCHANGED <<kern, port, watch>>
       ELSE /\ p \in FreeProbe
            /\ watch' = p
            /\ ops' = [ops EXCEPT ![watch].removed = TRUE] @@ (p :> [Op EXCEPT !.mask = mask])
            /\ kern' = (kern \ {watch}) \union {p}
            /\ port' = port @@ [k \in kern \cap {watch} |-> "error"]
    /\ UNCHANGED <<quiescing, pc, todo, batch, relayed, want, life, sent, closing, socks>>

MutEvDel ==
    /\ Caller /\ watch # NoProbe /\ watch' = NoProbe
    /\ ops' = [ops EXCEPT ![watch].removed = TRUE] /\ CancelIoEx({watch})
    /\ UNCHANGED <<quiescing, pc, todo, batch, relayed, want, life, sent, closing, socks>>

(* An op with no kernel I/O goes at once; another on its packet.           *)
EvDel ==
    /\ Caller /\ watch # NoProbe /\ watch' = NoProbe
    /\ IF ops[watch].rearm
       THEN ops' = Without(ops, {watch}) /\ UNCHANGED <<kern, port>>
       ELSE ops' = [ops EXCEPT ![watch].removed = TRUE] /\ CancelIoEx({watch})
    /\ UNCHANGED <<quiescing, pc, todo, batch, relayed, want, life, sent, closing, socks>>

(* iocp_watch_rearm_dispatched: the probe goes up again, or waits out a    *)
(* shortage, or its socket is dead and reported on every drain.            *)
RearmDispatched ==
    IF watch = NoProbe \/ quiescing \/ ~(watch # NoProbe /\ ops[watch].rearm)
    THEN UNCHANGED <<ops, kern, relayed>>
    ELSE \/ /\ ~ops[watch].dead
            /\ \/ ops' = [ops EXCEPT ![watch].rearm = FALSE] /\ kern' = kern \union {watch}
               \/ UNCHANGED <<ops, kern>>
            /\ UNCHANGED relayed
         \/ ops' = [ops EXCEPT ![watch].dead = TRUE] /\ relayed' = TRUE /\ UNCHANGED kern

-----------------------------------------------------------------------------
(* The drain.                                                              *)

Drain ==
    /\ pc = "user" /\ pc' = "reap"
    /\ RearmDispatched
    /\ \E T \in SUBSET DOMAIN port :
        /\ Cardinality(T) + (IF relayed' THEN 1 ELSE 0) <= MaxEvents
        /\ T = DOMAIN port \/ Cardinality(T) + (IF relayed' THEN 1 ELSE 0) = MaxEvents
        /\ todo' = T
    /\ UNCHANGED <<port, watch, quiescing, batch, want, life, sent, closing, socks>>

Emit(k, ok) ==
    /\ batch' = batch @@ (k :> ok) /\ ops' = Without(ops, {k}) /\ port' = Without(port, {k})
    /\ UNCHANGED <<kern, life>>

(* Freed with no event; a token reference it holds is released.            *)
Drop(k) ==
    /\ ops' = Without(ops, {k}) /\ port' = Without(port, {k})
    /\ life' = IF k \in Tokened THEN Released(life, 1) ELSE life
    /\ UNCHANGED <<kern, batch>>

Again(k) ==
    /\ kern' = kern \union {k} /\ port' = Without(port, {k})
    /\ UNCHANGED <<batch, life>>

CompleteAccept(res) ==
    /\ Emit("accept", res # "error")
    /\ socks' = IF res = "error" THEN socks - 1 ELSE socks
    /\ UNCHANGED <<sent, watch, relayed>>

(* Bytes or none: a cancelled receive shows as none.                       *)
CompleteRead(res) == Emit("read", res = "some") /\ UNCHANGED <<sent, watch, relayed, socks>>

MutCompleteWrite(res) ==
    /\ \E n \in (IF res = "some" THEN 1 ELSE 0) .. (IF res = "zero" THEN 0 ELSE HeadLen - ops["write"].done) :
        /\ sent' = sent + n
        /\ Emit("write", n > 0)
    /\ UNCHANGED <<watch, relayed, socks>>

(* A part sent without error is followed by the rest.                      *)
CompleteWrite(res) ==
    /\ \E n \in (IF res = "some" THEN 1 ELSE 0) .. (IF res = "zero" THEN 0 ELSE HeadLen - ops["write"].done) :
        LET done == ops["write"].done + n
        IN  /\ sent' = sent + n
            /\ IF quiescing THEN Drop("write")
               ELSE IF res = "some" /\ done < HeadLen
                    THEN \/ Again("write") /\ ops' = [ops EXCEPT !["write"].done = done]
                         \/ Emit("write", FALSE)
                    ELSE Emit("write", res = "some")
    /\ UNCHANGED <<watch, relayed, socks>>

(* Chunk after chunk, the head with the first; a short one fails.          *)
CompleteSendfile(res) ==
    LET file == ops["file"].done
        chunk == IF FileLen - file < Chunk THEN FileLen - file ELSE Chunk
        all == chunk + (IF file = 0 THEN HeadLen ELSE 0)
    IN  /\ \E n \in 0 .. all :
            /\ res = "zero" => n = 0
            /\ sent' = sent + n
            /\ IF quiescing THEN Drop("file")
               ELSE IF n = all /\ n > 0 /\ file + chunk < FileLen
                    THEN \/ Again("file") /\ ops' = [ops EXCEPT !["file"].done = file + chunk]
                         \/ Emit("file", FALSE)
                    ELSE Emit("file", n = all)
        /\ UNCHANGED <<watch, relayed, socks>>

(* An ICMP report, or the op's own packet, issues the receive again unless *)
(* it was cancelled.                                                       *)
CompleteDgramRecv(res) ==
    /\ IF quiescing THEN Drop("recv")
       ELSE IF res \in {"icmp", "requeue"} /\ ~ops["recv"].cancelled
            THEN \/ Again("recv") /\ UNCHANGED ops
                 \/ port' = [port EXCEPT !["recv"] = "requeue"] /\ UNCHANGED <<ops, kern, batch, life>>
                 \/ Emit("recv", FALSE)
            ELSE Emit("recv", res \in {"some", "zero"})
    /\ UNCHANGED <<sent, watch, relayed, socks>>

CompleteDgramSend(res) == Emit("send", res = "some") /\ UNCHANGED <<sent, watch, relayed, socks>>

MutPipeGoesOn(k, op) ==
    \/ PipeIssue(k) /\ ops' = [ops EXCEPT ![k] = op] /\ UNCHANGED <<batch, life>>
    \/ Emit(k, FALSE)

(* A read that found nothing, or a write with more to go, unless cancelled *)
(* or the issue fails.                                                     *)
PipeGoesOn(k, op) ==
    \/ ~op.cancelled /\ PipeIssue(k) /\ ops' = [ops EXCEPT ![k] = op] /\ UNCHANGED <<batch, life>>
    \/ Emit(k, FALSE)

CompletePipeRead(res) ==
    /\ IF quiescing THEN Drop("pread")
       ELSE IF res = "zero" THEN PipeGoesOn("pread", ops["pread"])
       ELSE Emit("pread", res = "some")
    /\ UNCHANGED <<sent, watch, relayed, socks>>

CompletePipeWrite(res) ==
    /\ \E n \in (IF res = "some" THEN 1 ELSE 0) .. (IF res = "some" THEN HeadLen - ops["pwrite"].done ELSE 0) :
        LET op == [ops["pwrite"] EXCEPT !.done = @ + n]
        IN  /\ sent' = sent + n
            /\ IF quiescing THEN Drop("pwrite")
               ELSE IF res = "some" /\ op.done < HeadLen THEN PipeGoesOn("pwrite", op)
               ELSE Emit("pwrite", res # "error" /\ op.done = HeadLen)
    /\ UNCHANGED <<watch, relayed, socks>>

CompletePipeAccept(res) ==
    /\ IF quiescing THEN Drop("paccept") ELSE Emit("paccept", res # "error")
    /\ UNCHANGED <<sent, watch, relayed, socks>>

CompleteConnect(res) ==
    /\ IF ops["conn"].removed THEN Drop("conn") ELSE Emit("conn", res # "error")
    /\ UNCHANGED <<sent, watch, relayed, socks>>

(* A replaced or deleted probe is freed; a live one is relayed and waits   *)
(* for the next drain, after its callback, to go up again.                 *)
CompleteWatcher(p) ==
    /\ IF ops[p].removed THEN Drop(p) /\ UNCHANGED <<watch, relayed>>
       ELSE IF quiescing THEN Drop(p) /\ watch' = NoProbe /\ UNCHANGED relayed
       ELSE /\ relayed' = TRUE
            /\ ops' = [ops EXCEPT ![p].rearm = TRUE]
            /\ port' = Without(port, {p})
            /\ UNCHANGED <<kern, batch, life, watch>>
    /\ UNCHANGED <<sent, socks>>

Reap(k) ==
    /\ pc = "reap" /\ k \in todo /\ todo' = todo \ {k}
    /\ CASE k = "accept" -> CompleteAccept(port[k]) [] k = "read" -> CompleteRead(port[k])
         [] k = "write" -> CompleteWrite(port[k]) [] k = "file" -> CompleteSendfile(port[k])
         [] k = "recv" -> CompleteDgramRecv(port[k]) [] k = "send" -> CompleteDgramSend(port[k])
         [] k = "pread" -> CompletePipeRead(port[k]) [] k = "pwrite" -> CompletePipeWrite(port[k])
         [] k = "paccept" -> CompletePipeAccept(port[k]) [] k = "conn" -> CompleteConnect(port[k])
         [] OTHER -> CompleteWatcher(k)
    /\ UNCHANGED <<quiescing, pc, want, closing>>

Reaped ==
    /\ pc = "reap" /\ todo = {} /\ pc' = "dispatch"
    /\ UNCHANGED <<ops, kern, port, watch, quiescing, todo, batch, relayed, want, life, sent, closing, socks>>

(* The owner's handler; an accepted socket becomes the listener's.         *)
Dispatch(k) ==
    /\ pc = "dispatch" /\ k \in DOMAIN batch
    /\ batch' = Without(batch, {k})
    /\ want' = want \ {k}
    /\ life' = IF k \in Tokened THEN Released(life, 1) ELSE life
    /\ socks' = IF k = "accept" /\ batch[k] THEN socks - 1 ELSE socks
    /\ UNCHANGED <<ops, kern, port, watch, quiescing, pc, todo, relayed, sent, closing>>

DispatchWatcher ==
    /\ pc = "dispatch" /\ relayed /\ relayed' = FALSE
    /\ UNCHANGED <<ops, kern, port, watch, quiescing, pc, todo, batch, want, life, sent, closing, socks>>

TickEnds ==
    /\ pc = "dispatch" /\ batch = <<>> /\ ~relayed /\ pc' = "user"
    /\ UNCHANGED <<ops, kern, port, watch, quiescing, todo, batch, relayed, want, life, sent, closing, socks>>

-----------------------------------------------------------------------------
(* Teardown.                                                               *)

(* The listen socket was closed, which cancels its accepts.                *)
ShutdownAccepts ==
    /\ pc = "user" /\ quiescing' = TRUE
    /\ CancelIoEx({"accept"})
    /\ UNCHANGED <<ops, watch, pc, todo, batch, relayed, want, life, sent, closing, socks>>

MutEvClose ==
    /\ pc = "user" /\ pc' = "closing" /\ quiescing' = TRUE
    /\ CancelIoEx(DOMAIN ops)
    /\ want' = {}
    /\ UNCHANGED <<ops, watch, todo, batch, relayed, life, sent, closing, socks>>

(* A probe waiting to be armed again has no I/O to cancel: it goes first.  *)
EvClose ==
    /\ pc = "user" /\ pc' = "closing" /\ quiescing' = TRUE
    /\ LET idle == {p \in DOMAIN ops : ops[p].rearm}
       IN  /\ ops' = Without(ops, idle)
           /\ watch' = IF watch \in idle THEN NoProbe ELSE watch
    /\ CancelIoEx(DOMAIN ops)
    /\ want' = {}
    /\ UNCHANGED <<todo, batch, relayed, life, sent, closing, socks>>

(* The port is drained until no op is left.                                *)
Quiesce(k) ==
    /\ pc = "closing" /\ k \in DOMAIN port
    /\ Drop(k)
    /\ watch' = IF watch = k THEN NoProbe ELSE watch
    /\ socks' = IF k = "accept" THEN socks - 1 ELSE socks
    /\ UNCHANGED <<quiescing, pc, todo, relayed, want, sent, closing>>

Quiesced ==
    /\ pc = "closing" /\ DOMAIN ops = {} /\ pc' = "closed"
    /\ UNCHANGED <<ops, kern, port, watch, quiescing, todo, batch, relayed, want, life, sent, closing, socks>>

Request ==
    \/ PostRecv \/ PostSend \/ PostSendfile \/ PostAccept \/ PostDgramRecv \/ PostDgramSend
    \/ PostConnect \/ (\E k \in Pipe : PipePost(k))
    \/ CancelStream \/ SlotReused \/ CancelConnect \/ (\E k \in Tokened : CancelTokened(k))
    \/ OwnerGone
    \/ \E p \in Probes, mask \in {"r", "w"} : EvAdd(p, mask) \/ EvMod(p, mask)
    \/ EvDel

Tick ==
    \/ Drain \/ (\E k \in Kinds \union Probes : Reap(k)) \/ Reaped
    \/ (\E k \in Kinds : Dispatch(k)) \/ DispatchWatcher \/ TickEnds

Teardown ==
    \/ ShutdownAccepts \/ EvClose \/ (\E k \in Kinds \union Probes : Quiesce(k)) \/ Quiesced

Next == Request \/ (\E k \in Kinds \union Probes : KernelCompletes(k)) \/ Tick \/ Teardown

Spec == Init /\ [][Next]_vars

-----------------------------------------------------------------------------

(* No op is freed while the kernel or the port still names it, and none is *)
(* left that neither will ever name again: the drain that closes the port  *)
(* would wait for it for ever.                                             *)
OwnedUntilDequeued ==
    /\ kern \union DOMAIN port \subseteq DOMAIN ops
    /\ \A k \in DOMAIN ops : k \in kern \/ k \in DOMAIN port
                            \/ (watch = k /\ ops[k].rearm /\ pc # "closing")

(* Whoever waits for a completion has one coming until teardown begins.    *)
Answered == ~quiescing => want \subseteq DOMAIN ops \union DOMAIN batch

(* Every reference on the token of the datagram or the pipe has a holder.  *)
TokenHeld ==
    /\ life.refs = (IF life.owned THEN 1 ELSE 0) + Cardinality(DOMAIN ops \cap Tokened)
                     + Cardinality(DOMAIN batch \cap Tokened)
    /\ life.freed <=> life.refs = 0

(* An accept socket is held by its op or its event until it is handed over *)
(* or closed.                                                              *)
AcceptSocketsOwned ==
    socks = (IF "accept" \in DOMAIN ops THEN 1 ELSE 0)
              + (IF "accept" \in DOMAIN batch THEN (IF batch["accept"] THEN 1 ELSE 0) ELSE 0)

(* A write is reported done only when all of it went out.                  *)
WholeWrites ==
    \A k \in DOMAIN batch \cap {"write", "file", "pwrite"} :
        batch[k] => sent = IF k = "file" THEN HeadLen + FileLen ELSE HeadLen

(* A cancelled datagram or pipe op is not issued to the kernel again.      *)
CancelHolds == \A k \in kern : ~ops[k].cancelled

(* The watched descriptor's probe is up, has fired, or waits for the next  *)
(* drain to go up; it is never one that was cancelled for another.         *)
Watched == watch # NoProbe => watch \in DOMAIN ops /\ ~ops[watch].removed

(* "The op then completes with an error, and the driver releases the       *)
(* connection through its normal completion path" (kl_comp_cancel in       *)
(* src/completion_io.h): once a connection's I/O was cancelled the kernel     *)
(* holds none of it, so a peer that stopped reading cannot keep the slot.  *)
CancelIsFinal == closing => kern \cap Stream = {}
=============================================================================
