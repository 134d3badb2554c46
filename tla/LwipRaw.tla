------------------------------- MODULE LwipRaw -------------------------------
(***************************************************************************)
(* The TCP half of the lwIP raw-API completion backend                     *)
(* (integrations/platform/lwip: lwip_raw_glue.c and event_lwip_raw.c).     *)
(*                                                                         *)
(* One thread: a tick lets lwIP run its callbacks, which only record state *)
(* in the connection slots; the drain then turns that state into           *)
(* completion events; dispatching those runs the owners, who post, cancel  *)
(* and close.  lwIP frees a pcb before it says so, and its pools are LIFO: *)
(* a freed pcb's address is the next connection's.  Accepted connections   *)
(* are therefore known by slot and generation, never by address; clients   *)
(* are still known by address.                                             *)
(*                                                                         *)
(* Bytes are counted, not carried.                                         *)
(***************************************************************************)
EXTENDS Integers, Sequences, FiniteSets

CONSTANTS
    NSlots,         \* conn_cap
    Pcbs,           \* pcb addresses, 1 .. n
    GenMod,         \* generations a handle can tell apart
    Clients,        \* outbound connections the HTTP client makes
    Serving,        \* a listener is open
    RxMax,          \* KL_LWR_RX_MAX
    Cap,            \* the room a posted receive offers
    SndBuf,         \* tcp_sndbuf of an idle pcb
    Total,          \* the bytes of a response
    MaxEvents,
    NoClient

VARIABLES
    slot,           \* KlLwrConn[]
    tcp,            \* lwIP's pcbs
    pool,           \* lwIP's free pcbs, the last freed first
    pc,             \* "tick" or "dispatch"
    batch,          \* events of the drain not yet dispatched
    hold,           \* what the driver has posted on each handle it holds
    cl,             \* the clients
    out             \* bytes of the posted send that the peer has acknowledged

vars == <<slot, tcp, pool, pc, batch, hold, cl, out>>

Slots == 1 .. NSlots

Free(gen) ==
    [pcb |-> 0, dead |-> FALSE, deadFd |-> 0, gen |-> gen, client |-> NoClient, owned |-> FALSE,
     rx |-> 0, armed |-> FALSE, closed |-> FALSE, accept |-> FALSE,
     posted |-> FALSE, write |-> "none", active |-> FALSE, off |-> 0, acked |-> 0,
     connected |-> FALSE, connect |-> "none", mask |-> {}]

(* q: bytes written and not acknowledged; unread: bytes the window is      *)
(* short of until tcp_recved gives them back.                              *)
NoPcb == [at |-> "free", slot |-> 0, client |-> NoClient, q |-> 0, unread |-> 0]

Init ==
    /\ slot = [i \in Slots |-> Free(0)]
    /\ tcp = [p \in Pcbs |-> NoPcb]
    /\ pool \in {s \in [1 .. Cardinality(Pcbs) -> Pcbs] : \A n \in DOMAIN s : s[n] = n}
    /\ pc = "tick" /\ batch = <<>> /\ hold = <<>>
    /\ cl = [c \in Clients |-> [at |-> "idle", fd |-> 0]]
    /\ out = [i \in Slots |-> 0]

-----------------------------------------------------------------------------
(* Slots and handles.                                                      *)

(* lwr_conn_find.                                                          *)
ConnFind(p) == {i \in Slots : p # 0 /\ slot[i].pcb = p}

Taken(s) == s.pcb # 0 \/ s.dead

HandleOf(i, s) == <<i, s.gen % GenMod>>

(* lwr_srv_slot and lwr_srv_live.                                          *)
SrvSlot(h) ==
    {i \in Slots : /\ h = HandleOf(i, slot[i])
                   /\ Taken(slot[i]) /\ slot[i].client = NoClient}

SrvLive(h) == {i \in SrvSlot(h) : ~slot[i].dead /\ slot[i].pcb # 0}

(* lwr_client_by_fd: a live slot is preferred.                             *)
ClientByFd(p) ==
    LET live == {i \in ConnFind(p) : slot[i].client # NoClient}
    IN  IF live # {} THEN live
        ELSE {i \in Slots : slot[i].client # NoClient /\ slot[i].dead /\ slot[i].deadFd = p}

(* lwr_conn_alloc: the first free slot.                                    *)
FreeSlots == {i \in Slots : ~Taken(slot[i])}
FirstFree == CHOOSE i \in FreeSlots : \A j \in FreeSlots : i <= j

Alloc(i, p) == [Free((slot[i].gen + 1) % GenMod) EXCEPT !.pcb = p]

SlotClear(s) == Free(s.gen)

SendReset(s) == [s EXCEPT !.active = FALSE, !.off = 0, !.acked = 0]

FailSend(s) ==
    IF ~s.posted \/ s.write # "none" THEN s
    ELSE [SendReset(s) EXCEPT !.write = "fail"]

MutMarkDead(s) ==
    [SendReset(s) EXCEPT !.rx = 0, !.deadFd = s.pcb, !.pcb = 0, !.dead = TRUE, !.closed = TRUE]

MarkDead(s) ==
    [SendReset(FailSend(s)) EXCEPT !.rx = 0, !.deadFd = s.pcb, !.pcb = 0,
                                   !.dead = TRUE, !.closed = TRUE]

(* tcp_abort: lwIP frees the pcb, whose callbacks were detached.           *)
Freed(p) == tcp' = [tcp EXCEPT ![p] = NoPcb] /\ pool' = <<p>> \o pool

(* tcp_close: lwIP finishes the connection by itself; when it cannot queue *)
(* the FIN, the caller aborts.                                             *)
Closed(p) ==
    \/ tcp' = [tcp EXCEPT ![p] = [NoPcb EXCEPT !.at = "linger"]] /\ UNCHANGED pool
    \/ Freed(p)

(* lwr_srv_kill.                                                           *)
SrvKill(i) == slot' = [slot EXCEPT ![i] = MarkDead(@)] /\ Freed(slot[i].pcb)

-----------------------------------------------------------------------------
(* The lwIP tick: callbacks that only record.                              *)

(* lwr_srv_accept: without a slot the connection is refused.               *)
SrvAccept ==
    /\ pc = "tick" /\ Serving /\ pool # <<>>
    /\ LET p == Head(pool)
       IN  IF FreeSlots = {} THEN UNCHANGED <<slot, tcp, pool, out>>
           ELSE LET i == FirstFree
                IN  /\ slot' = [slot EXCEPT ![i] = [Alloc(i, p) EXCEPT !.accept = TRUE]]
                    /\ tcp' = [tcp EXCEPT ![p] = [NoPcb EXCEPT !.at = "open", !.slot = i]]
                    /\ pool' = Tail(pool)
                    /\ out' = [out EXCEPT ![i] = 0]
    /\ UNCHANGED <<pc, batch, hold, cl>>

(* lwr_srv_recv: n bytes are kept and not acknowledged; past the bound     *)
(* lwIP keeps them, and offers them again.                                 *)
SrvRecv(p, n) ==
    /\ pc = "tick" /\ tcp[p].at = "open"
    /\ \E i \in ConnFind(p) :
        /\ slot[i].rx + n <= RxMax
        /\ slot' = [slot EXCEPT ![i].rx = @ + n]
    /\ tcp' = [tcp EXCEPT ![p].unread = @ + n]
    /\ UNCHANGED <<pool, pc, batch, hold, cl, out>>

(* The peer's FIN ends its sending only; an error also ends ours.          *)
SrvRecvEnds(p) ==
    /\ pc = "tick" /\ tcp[p].at = "open"
    /\ \E i \in ConnFind(p), failed \in BOOLEAN :
        /\ ~slot[i].closed
        /\ slot' = [slot EXCEPT ![i] =
                      LET s == [@ EXCEPT !.closed = TRUE]
                      IN  IF failed /\ s.active THEN FailSend(s) ELSE s]
    /\ UNCHANGED <<tcp, pool, pc, batch, hold, cl, out>>

(* lwr_send_pump for slot i, now s, with q bytes in the send buffer: as    *)
(* much as fits, or less when lwIP is short of memory; a file that ends    *)
(* early, or a write lwIP rejects, kills the connection.                   *)
SendPump(i, s, q) ==
    LET p == s.pcb
        most == IF Total - s.off < SndBuf - q THEN Total - s.off ELSE SndBuf - q
    IN  \/ \E n \in 0 .. most :
            /\ slot' = [slot EXCEPT ![i] = [s EXCEPT !.off = @ + n]]
            /\ tcp' = [tcp EXCEPT ![p].q = q + n]
            /\ UNCHANGED pool
        \/ most > 0 /\ slot' = [slot EXCEPT ![i] = MarkDead(s)] /\ Freed(p)

MutSrvSent(p, n) ==
    /\ pc = "tick" /\ tcp[p].at = "open" /\ n <= tcp[p].q
    /\ \E i \in ConnFind(p) :
        IF ~slot[i].active
        THEN tcp' = [tcp EXCEPT ![p].q = @ - n] /\ UNCHANGED <<slot, pool, out>>
        ELSE LET s == [slot[i] EXCEPT !.acked = @ + n]
             IN  /\ out' = [out EXCEPT ![i] = @ + n]
                 /\ IF s.off >= Total
                    THEN /\ slot' = [slot EXCEPT ![i] = [SendReset(s) EXCEPT !.write = "ok"]]
                         /\ tcp' = [tcp EXCEPT ![p].q = @ - n] /\ UNCHANGED pool
                    ELSE SendPump(i, s, tcp[p].q - n)
    /\ UNCHANGED <<pc, batch, hold, cl>>

(* lwr_srv_sent: n bytes were acknowledged.  The send is done when all of  *)
(* it is.                                                                  *)
SrvSent(p, n) ==
    /\ pc = "tick" /\ tcp[p].at = "open" /\ n <= tcp[p].q
    /\ \E i \in ConnFind(p) :
        IF ~slot[i].active
        THEN tcp' = [tcp EXCEPT ![p].q = @ - n] /\ UNCHANGED <<slot, pool, out>>
        ELSE LET s == [slot[i] EXCEPT !.acked = @ + n]
             IN  /\ out' = [out EXCEPT ![i] = @ + n]
                 /\ IF s.acked >= Total
                    THEN /\ slot' = [slot EXCEPT ![i] = [SendReset(s) EXCEPT !.write = "ok"]]
                         /\ tcp' = [tcp EXCEPT ![p].q = @ - n] /\ UNCHANGED pool
                    ELSE SendPump(i, s, tcp[p].q - n)
    /\ UNCHANGED <<pc, batch, hold, cl>>

(* lwr_srv_err, after lwIP freed the pcb: before the driver knew of the    *)
(* connection there is nobody to tell, and the slot is free again.         *)
SrvErr(i) ==
    slot' = [slot EXCEPT ![i] =
               LET s == MarkDead(@) IN IF s.accept /\ ~s.owned THEN SlotClear(s) ELSE s]

(* lwr_cli_err: found by the watcher, the argument the pcb was given.      *)
ClientByWatcher(c) == {i \in Slots : c # NoClient /\ slot[i].client = c /\ Taken(slot[i])}

CliErr(c) ==
    slot' = [i \in Slots |->
               IF i \notin ClientByWatcher(c) THEN slot[i]
               ELSE LET s == slot[i]
                    IN  [s EXCEPT !.rx = 0, !.deadFd = s.pcb, !.pcb = 0,
                                  !.dead = TRUE, !.closed = TRUE,
                                  !.connect = IF ~s.connected /\ @ = "none" THEN "fail" ELSE @]]

(* A reset, or lwIP giving up: the pcb is freed, then the owner is told.   *)
LwipResets(p) ==
    /\ pc = "tick" /\ tcp[p].at \in {"open", "syn"}
    /\ Freed(p)
    /\ IF tcp[p].slot # 0 THEN SrvErr(tcp[p].slot) ELSE CliErr(tcp[p].client)
    /\ UNCHANGED <<pc, batch, hold, cl, out>>

LingerEnds(p) ==
    /\ pc = "tick" /\ tcp[p].at = "linger" /\ Freed(p)
    /\ UNCHANGED <<slot, pc, batch, hold, cl, out>>

(* lwr_cli_connected.                                                      *)
CliConnected(p) ==
    /\ pc = "tick" /\ tcp[p].at = "syn"
    /\ tcp' = [tcp EXCEPT ![p].at = "open"]
    /\ slot' = [i \in Slots |->
                  IF i \notin ConnFind(p) THEN slot[i]
                  ELSE [slot[i] EXCEPT !.connected = TRUE,
                                       !.connect = IF @ = "none" THEN "ok" ELSE @]]
    /\ UNCHANGED <<pool, pc, batch, hold, cl, out>>

-----------------------------------------------------------------------------
(* The drain.                                                              *)

Event(kind, i, s, ok) == [kind |-> kind, h |-> HandleOf(i, s), client |-> s.client, ok |-> ok]

(* kl_lwr_drain, slot i: a client's connect; an accept, then the posted    *)
(* send's write.                                                           *)
Records(i) ==
    LET s == slot[i]
    IN  CASE ~Taken(s) -> <<>>
          [] s.client # NoClient ->
               IF s.connect = "none" THEN <<>> ELSE <<Event("connect", i, s, s.connect = "ok")>>
          [] OTHER ->
               (IF s.accept THEN <<Event("accept", i, s, TRUE)>> ELSE <<>>)
                 \o (IF s.write = "none" THEN <<>> ELSE <<Event("write", i, s, s.write = "ok")>>)

(* kl_lwr_next_readable: an armed receive completes with data, or fails    *)
(* once the peer closed or the connection died.                            *)
HasData(s) == ~s.dead /\ s.rx > 0

Readable(i) ==
    LET s == slot[i]
    IN  IF s.owned /\ s.armed /\ s.client = NoClient /\ (HasData(s) \/ s.closed \/ s.dead)
        THEN <<Event("read", i, s, HasData(s))>> ELSE <<>>

(* kl_lwr_next_client_ready.                                               *)
ClientReady(i) ==
    LET s == slot[i]
        ready == \/ "r" \in s.mask /\ (s.rx > 0 \/ s.closed \/ s.dead)
                 \/ "w" \in s.mask /\ s.connected /\ ~s.dead /\ s.pcb # 0 /\ tcp[s.pcb].q < SndBuf
    IN  IF s.client # NoClient /\ ready THEN <<Event("watch", i, s, TRUE)>> ELSE <<>>

Over(found(_)) ==
    LET upTo[n \in 0 .. NSlots] == IF n = 0 THEN <<>> ELSE upTo[n - 1] \o found(n)
    IN  upTo[NSlots]

Has(evs, kind, h) == \E n \in DOMAIN evs : evs[n].kind = kind /\ evs[n].h = h

(* kl_lwr_take_staged: what is copied out is acknowledged.                 *)
TakenNow(s) == IF ~HasData(s) THEN 0 ELSE IF s.rx < Cap THEN s.rx ELSE Cap

MutRecved(p, n) == tcp[p].unread

Recved(p, n) == tcp[p].unread - n

(* lwr_comp_drain, with room for MaxEvents.                                *)
Drain ==
    /\ pc = "tick" /\ pc' = "dispatch"
    /\ LET cut(evs) == SubSeq(evs, 1, IF Len(evs) < MaxEvents THEN Len(evs) ELSE MaxEvents)
           evs == cut(Over(Records) \o Over(Readable) \o Over(ClientReady))
           mine(i, kind) == Has(evs, kind, HandleOf(i, slot[i]))
       IN  /\ batch' = evs
           /\ slot' = [i \in Slots |->
                LET s == slot[i]
                IN  [s EXCEPT !.accept = @ /\ ~mine(i, "accept"),
                              !.posted = @ /\ ~mine(i, "write"),
                              !.write = IF mine(i, "write") THEN "none" ELSE @,
                              !.connect = IF mine(i, "connect") THEN "none" ELSE @,
                              !.armed = @ /\ ~mine(i, "read"),
                              !.rx = IF mine(i, "read") THEN @ - TakenNow(s) ELSE @]]
           /\ tcp' = [p \in Pcbs |->
                IF \E i \in ConnFind(p) : mine(i, "read")
                THEN [tcp[p] EXCEPT !.unread =
                        Recved(p, TakenNow(slot[CHOOSE i \in ConnFind(p) : TRUE]))]
                ELSE tcp[p]]
    /\ UNCHANGED <<pool, hold, cl, out>>

-----------------------------------------------------------------------------
(* The completion driver: it counts what it posted on a connection and     *)
(* closes the handle when the last of it is back.                          *)

Posted == [recv |-> FALSE, send |-> FALSE, closing |-> FALSE]

(* lwr_comp_post_recv: set_owner, then the arm, which a dead slot refuses. *)
PostRecv(h, ops) ==
    LET arm == SrvLive(h)
    IN  /\ slot' = [i \in Slots |->
                      IF i \in SrvSlot(h)
                      THEN [slot[i] EXCEPT !.owned = TRUE, !.armed = @ \/ i \in arm]
                      ELSE slot[i]]
        /\ hold' = [g \in DOMAIN hold \union {h} |->
                      IF g = h THEN [ops EXCEPT !.recv = arm # {}, !.closing = @ \/ arm = {}]
                      ELSE hold[g]]
        /\ UNCHANGED <<tcp, pool, out>>

(* kl_lwr_tcp_close of a handle: a dead slot's pcb is never touched.       *)
TcpClose(h) ==
    \/ SrvSlot(h) = {} /\ UNCHANGED <<slot, tcp, pool>>
    \/ \E i \in SrvSlot(h) :
        /\ slot' = [slot EXCEPT ![i] = SlotClear(@)]
        /\ IF slot[i].dead THEN UNCHANGED <<tcp, pool>> ELSE Closed(slot[i].pcb)

(* An accept is adopted and read from, or closed at once.                  *)
OnAccept(ev) ==
    \/ PostRecv(ev.h, Posted)
    \/ TcpClose(ev.h) /\ UNCHANGED <<hold, out>>

OnRead(ev) ==
    /\ hold' = [hold EXCEPT ![ev.h] = [@ EXCEPT !.recv = FALSE, !.closing = @ \/ ~ev.ok]]
    /\ UNCHANGED <<slot, tcp, pool, out>>

OnWrite(ev) ==
    /\ hold' = [hold EXCEPT ![ev.h] = [@ EXCEPT !.send = FALSE, !.closing = @ \/ ~ev.ok]]
    /\ UNCHANGED <<slot, tcp, pool, out>>

Rearm(h) ==
    /\ pc = "dispatch" /\ h \in DOMAIN hold /\ ~hold[h].recv /\ ~hold[h].closing
    /\ PostRecv(h, hold[h])
    /\ UNCHANGED <<pc, batch, cl>>

(* kl_lwr_send_begin, _sendfile_begin: a fresh send on a live slot.        *)
SendBegun(s) == [SendReset(s) EXCEPT !.posted = TRUE, !.owned = TRUE]

(* lwr_send_start: pump what it can; nothing to send is done at once.      *)
SendStart(i, s) ==
    IF Total = 0
    THEN slot' = [slot EXCEPT ![i] = [s EXCEPT !.write = "ok"]] /\ UNCHANGED <<tcp, pool>>
    ELSE SendPump(i, [s EXCEPT !.active = TRUE], tcp[s.pcb].q)

(* lwr_comp_post_send and post_sendfile.                                   *)
PostSend(h) ==
    /\ pc = "dispatch" /\ h \in DOMAIN hold /\ ~hold[h].send /\ ~hold[h].closing
    /\ \/ /\ SrvLive(h) = {}
          /\ hold' = [hold EXCEPT ![h].closing = TRUE]
          /\ UNCHANGED <<slot, tcp, pool, out>>
       \/ \E i \in SrvLive(h) :
            /\ hold' = [hold EXCEPT ![h].send = TRUE]
            /\ out' = [out EXCEPT ![i] = 0]
            /\ SendStart(i, SendBegun(slot[i]))
    /\ UNCHANGED <<pc, batch, cl>>

(* lwr_comp_cancel: abort, and let the posted ops fail.                    *)
Cancel(h) ==
    /\ pc = "dispatch" /\ h \in DOMAIN hold /\ ~hold[h].closing
    /\ hold' = [hold EXCEPT ![h].closing = TRUE]
    /\ \/ SrvLive(h) = {} /\ UNCHANGED <<slot, tcp, pool>>
       \/ \E i \in SrvLive(h) : SrvKill(i)
    /\ UNCHANGED <<pc, batch, cl, out>>

Release(h) ==
    /\ pc = "dispatch" /\ h \in DOMAIN hold
    /\ hold[h].closing /\ ~hold[h].recv /\ ~hold[h].send
    /\ hold' = [g \in DOMAIN hold \ {h} |-> hold[g]]
    /\ TcpClose(h)
    /\ UNCHANGED <<pc, batch, cl, out>>

-----------------------------------------------------------------------------
(* The HTTP client's end of an outbound connection.                        *)

(* lwr_sock_socket, then lwr_comp_post_connect.  A refusal is answered by  *)
(* closing the descriptor, which a pcb without a slot does not notice.     *)
CliConnect(c) ==
    /\ pc = "dispatch" /\ cl[c].at = "idle" /\ pool # <<>>
    /\ LET p == Head(pool)
       IN  \/ /\ FreeSlots = {}
              /\ tcp' = [tcp EXCEPT ![p] = [NoPcb EXCEPT !.at = "bare"]]
              /\ pool' = Tail(pool)
              /\ UNCHANGED <<slot, cl, out>>
           \/ /\ FreeSlots # {}
              /\ slot' = [slot EXCEPT ![FirstFree] = [Alloc(FirstFree, p) EXCEPT !.client = c]]
              /\ out' = [out EXCEPT ![FirstFree] = 0]
              /\ tcp' = [tcp EXCEPT ![p] = [NoPcb EXCEPT !.at = "syn", !.client = c]]
              /\ pool' = Tail(pool)
              /\ cl' = [cl EXCEPT ![c] = [at |-> "connecting", fd |-> p]]
           \/ /\ FreeSlots # {}             \* tcp_connect fails at once: aborted
              /\ slot' = [slot EXCEPT ![FirstFree] = SlotClear(Alloc(FirstFree, p))]
              /\ UNCHANGED <<tcp, pool, cl, out>>
    /\ UNCHANGED <<pc, batch, hold>>

(* kl_lwr_tcp_close and kl_lwr_tcp_abort of a client's pcb.                *)
CliTcpClose(p) ==
    LET found == ClientByFd(p)
    IN  \/ found = {} /\ UNCHANGED <<slot, tcp, pool>>
        \/ \E i \in found :
            /\ slot' = [slot EXCEPT ![i] = SlotClear(@)]
            /\ IF slot[i].dead THEN UNCHANGED <<tcp, pool>> ELSE Closed(p)

CliAbortClose(p) ==
    LET found == {i \in ConnFind(p) : slot[i].client # NoClient}
    IN  IF found = {} THEN CliTcpClose(p)
        ELSE /\ slot' = [i \in Slots |-> IF i \in found THEN SlotClear(slot[i]) ELSE slot[i]]
             /\ Freed(p)

(* The client gives the descriptor up: done, failed, cancelled or timed    *)
(* out; while it is connecting it cancels first.                           *)
GiveUp(c) ==
    /\ IF cl[c].at = "connecting" THEN CliAbortClose(cl[c].fd) ELSE CliTcpClose(cl[c].fd)
    /\ cl' = [cl EXCEPT ![c] = [at |-> "idle", fd |-> 0]]
    /\ UNCHANGED <<hold, out>>

CliClose(c) ==
    /\ pc = "dispatch" /\ cl[c].at # "idle"
    /\ GiveUp(c)
    /\ batch' = SelectSeq(batch, LAMBDA ev : ev.client # c)
    /\ UNCHANGED pc

(* lwr_ev_add / _mod / _del: only a live slot records the interest.        *)
Watching(i, c, mask) ==
    IF i \in ConnFind(cl[c].fd) /\ slot[i].client # NoClient
    THEN [slot[i] EXCEPT !.mask = mask] ELSE slot[i]

CliWatch(c, mask) ==
    /\ pc = "dispatch" /\ cl[c].at = "open"
    /\ slot' = [i \in Slots |-> Watching(i, c, mask)]
    /\ UNCHANGED <<tcp, pool, pc, batch, hold, cl, out>>

(* kl_lwr_client_send.                                                     *)
CliSend(c) ==
    /\ pc = "dispatch" /\ cl[c].at = "open"
    /\ \E i \in ConnFind(cl[c].fd) :
        /\ slot[i].client # NoClient /\ slot[i].connected
        /\ tcp[cl[c].fd].q < SndBuf
        /\ tcp' = [tcp EXCEPT ![cl[c].fd].q = @ + 1]
    /\ UNCHANGED <<slot, pool, pc, batch, hold, cl, out>>

(* kl_lwr_client_recv of what is there.                                    *)
CliRecv(c) ==
    /\ pc = "dispatch" /\ cl[c].at = "open"
    /\ \E i \in ConnFind(cl[c].fd) :
        /\ slot[i].client # NoClient /\ slot[i].rx > 0
        /\ slot' = [slot EXCEPT ![i].rx = @ - TakenNow(slot[i])]
        /\ tcp' = [tcp EXCEPT ![cl[c].fd].unread = Recved(cl[c].fd, TakenNow(slot[i]))]
    /\ UNCHANGED <<pool, pc, batch, hold, cl, out>>

(* The connect's result; a client that connected waits to write.           *)
OnConnect(ev) ==
    \/ ~ev.ok /\ GiveUp(ev.client)
    \/ /\ ev.ok
       /\ cl' = [cl EXCEPT ![ev.client].at = "open"]
       /\ slot' = [i \in Slots |-> Watching(i, ev.client, {"w"})]
       /\ UNCHANGED <<tcp, pool, hold, out>>

-----------------------------------------------------------------------------

(* kl_comp_run routes the events of the batch in order.                    *)
Dispatch ==
    /\ pc = "dispatch" /\ batch # <<>>
    /\ batch' = Tail(batch)
    /\ LET ev == Head(batch)
       IN  \/ ev.kind = "accept" /\ OnAccept(ev) /\ UNCHANGED cl
           \/ ev.kind = "read" /\ OnRead(ev) /\ UNCHANGED cl
           \/ ev.kind = "write" /\ OnWrite(ev) /\ UNCHANGED cl
           \/ ev.kind = "connect" /\ OnConnect(ev)
           \/ ev.kind = "watch" /\ UNCHANGED <<slot, tcp, pool, hold, cl, out>>
    /\ UNCHANGED pc

TickEnds ==
    /\ pc = "dispatch" /\ batch = <<>> /\ pc' = "tick"
    /\ UNCHANGED <<slot, tcp, pool, batch, hold, cl, out>>

Callbacks ==
    \/ SrvAccept
    \/ \E p \in Pcbs : \/ \E n \in 1 .. RxMax : SrvRecv(p, n)
                       \/ SrvRecvEnds(p) \/ LwipResets(p) \/ LingerEnds(p) \/ CliConnected(p)
                       \/ \E n \in 1 .. SndBuf : SrvSent(p, n)

Driver == \E h \in DOMAIN hold : Rearm(h) \/ PostSend(h) \/ Cancel(h) \/ Release(h)

Client ==
    \E c \in Clients :
        \/ CliConnect(c) \/ CliClose(c) \/ CliSend(c) \/ CliRecv(c)
        \/ \E mask \in {{"r"}, {"w"}, {}} : CliWatch(c, mask)

Next == Callbacks \/ Drain \/ Dispatch \/ TickEnds \/ Driver \/ Client

Spec == Init /\ [][Next]_vars

-----------------------------------------------------------------------------

(* Every op the driver posted on a handle it holds completes once, on a    *)
(* dead connection too: its slot is still there and owes the completion,   *)
(* or the event is in the batch, and not both.                             *)
Answered ==
    \A h \in DOMAIN hold :
        \E i \in SrvSlot(h) :
            /\ hold[h].recv <=> (slot[i].armed # Has(batch, "read", h))
            /\ hold[h].send <=> (slot[i].posted # Has(batch, "write", h))
            /\ slot[i].posted => slot[i].active \/ slot[i].write # "none"

(* A slot only names a pcb lwIP still has, and the pcb's callbacks lead    *)
(* back to that slot; no connection in lwIP is without one.                *)
PcbsMatch ==
    /\ \A i \in Slots : slot[i].pcb # 0 =>
        LET t == tcp[slot[i].pcb]
        IN  t.at \in {"open", "syn"} /\ (t.slot = i \/ t.client = slot[i].client)
    /\ \A p \in Pcbs : tcp[p].at \in {"open", "syn"} => Cardinality(ConnFind(p)) = 1

(* The receive window is given back for exactly the bytes delivered: what  *)
(* lwIP counts against it is what the slot still holds.                    *)
WindowReturned ==
    \A i \in Slots : slot[i].pcb # 0 => tcp[slot[i].pcb].unread = slot[i].rx

(* A send is reported done only once the peer has acknowledged all of it.  *)
WholeWrites ==
    \A i \in Slots : slot[i].write = "ok" =>
        out[i] = Total /\ (slot[i].pcb # 0 => tcp[slot[i].pcb].q = 0)

(* A refused connect costs nothing: "table full: caller closes the pcb".   *)
PcbsOwned ==
    \A p \in Pcbs : tcp[p].at = "bare" => \E c \in Clients : cl[c].fd = p

(* A client that is open and has not been told otherwise still has its     *)
(* connection, live or dead, and nobody else's.                            *)
ClientKeepsItsOwn ==
    \A c \in Clients : cl[c].at \in {"connecting", "open"} =>
        \E i \in ClientByFd(cl[c].fd) : slot[i].client = c

(* A client waiting on a connection that died is woken: its dead slot is   *)
(* reported by the next drain.                                             *)
DeathIsReported ==
    \A i \in Slots : slot[i].client # NoClient /\ slot[i].dead /\ slot[i].mask # {} =>
        ClientReady(i) # <<>>
=============================================================================
