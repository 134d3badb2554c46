------------------------------- MODULE LwipUdp -------------------------------
(***************************************************************************)
(* The datagram half of the lwIP raw-API completion backend                *)
(* (integrations/platform/lwip: lwip_raw_glue.c and event_lwip_raw.c).     *)
(*                                                                         *)
(* A slot per socket holds at most one datagram, and only while a receive  *)
(* is armed.  Every posted op holds one reference to its owner's token;    *)
(* the drain passes it to the event, the dispatch drops it.  A cancelled   *)
(* receive leaves a terminal that belongs to the context, so it drains     *)
(* even after the slot is gone.                                            *)
(***************************************************************************)
EXTENDS Integers, Sequences, FiniteSets

CONSTANTS
    NSlots,         \* KL_LWR_UDP_SLOTS
    Owners,         \* KlDatagram sockets
    Ring,           \* KL_LWR_UDP_SEND_RING
    InFlight,       \* sends an owner keeps in flight (KlDatagram: 1)
    MaxEvents,
    None

VARIABLES
    slot,           \* KlLwrUdpSlot[]
    term,           \* udp_term[]: the owner a cancelled receive is owed to
    refs,           \* references to each owner's token
    dg,             \* the owners
    batch,          \* drained and not yet dispatched
    up              \* the context exists

vars == <<slot, term, refs, dg, batch, up>>

Slots == 1 .. NSlots

Empty == [pcb |-> None, held |-> FALSE, armed |-> FALSE, sends |-> 0]

Init ==
    /\ slot = [i \in Slots |-> Empty]
    /\ term = [i \in Slots |-> None]
    /\ refs = [d \in Owners |-> 0]
    /\ dg = [d \in Owners |-> [at |-> "none", recv |-> FALSE, sends |-> 0]]
    /\ batch = <<>> /\ up = TRUE

UdpFind(d) == {i \in Slots : slot[i].pcb = d}

Retain(d) == refs' = [refs EXCEPT ![d] = @ + 1]

(* What a slot's ops still hold.                                           *)
Held(s) == (IF s.armed THEN 1 ELSE 0) + s.sends

-----------------------------------------------------------------------------

MutReusable(i) == slot[i].pcb = None

(* lwr_udp_alloc: a slot with a terminal to drain is not reused.           *)
Reusable(i) == slot[i].pcb = None /\ term[i] = None

(* kl_lwr_udp_new; a table without room refuses the socket.                *)
New(d) ==
    /\ up /\ dg[d].at = "none"
    /\ \E i \in Slots : /\ Reusable(i) /\ \A j \in Slots : j < i => ~Reusable(j)
                        /\ slot' = [slot EXCEPT ![i] = [Empty EXCEPT !.pcb = d]]
    /\ dg' = [dg EXCEPT ![d].at = "open"]
    /\ Retain(d)                                    \* the owner's own
    /\ UNCHANGED <<term, batch, up>>

(* lwr_comp_post_dgram_recv, kl_lwr_udp_post_recv: the arm takes a         *)
(* reference of its own and the caller's is dropped.                       *)
PostRecv(d) ==
    /\ up /\ dg[d].at = "open" /\ ~dg[d].recv
    /\ \E i \in UdpFind(d) :
        /\ slot' = [slot EXCEPT ![i].armed = TRUE]
        /\ IF slot[i].armed THEN UNCHANGED refs ELSE Retain(d)
    /\ dg' = [dg EXCEPT ![d].recv = TRUE]
    /\ UNCHANGED <<term, batch, up>>

(* lwr_comp_post_dgram_send, kl_lwr_udp_send: sent, or refused without a   *)
(* completion: only this datagram is lost (no buffer, no route, another    *)
(* family), or the send failed.                                            *)
PostSend(d) ==
    /\ up /\ dg[d].at = "open" /\ dg[d].sends < InFlight
    /\ \E i \in UdpFind(d) :
        /\ slot[i].sends < Ring
        /\ slot' = [slot EXCEPT ![i].sends = @ + 1]
    /\ Retain(d)
    /\ dg' = [dg EXCEPT ![d].sends = @ + 1]
    /\ UNCHANGED <<term, batch, up>>

MutRecvCb(i) ==
    /\ up /\ slot[i].pcb # None
    /\ ~slot[i].held
    /\ slot' = [slot EXCEPT ![i].held = TRUE]
    /\ UNCHANGED <<term, refs, dg, batch, up>>

(* lwr_udp_recv_cb: unarmed, or one held already, and the datagram is      *)
(* dropped.                                                                *)
RecvCb(i) ==
    /\ up /\ slot[i].pcb # None
    /\ slot[i].armed /\ ~slot[i].held
    /\ slot' = [slot EXCEPT ![i].held = TRUE]
    /\ UNCHANGED <<term, refs, dg, batch, up>>

MutCancelled(i) == [arm |-> FALSE, term |-> term[i]]

(* kl_lwr_udp_cancel_recv, slot i: the arm's reference becomes the         *)
(* terminal's.                                                             *)
Cancelled(i) ==
    IF slot[i].armed /\ term[i] = None THEN [arm |-> FALSE, term |-> slot[i].pcb]
    ELSE [arm |-> slot[i].armed, term |-> term[i]]

CancelRecv(d) ==
    /\ up /\ dg[d].at = "open"
    /\ \E i \in UdpFind(d) :
        /\ slot[i].armed
        /\ slot' = [slot EXCEPT ![i] = [@ EXCEPT !.armed = Cancelled(i).arm, !.held = @ /\ Cancelled(i).arm]]
        /\ term' = [term EXCEPT ![i] = Cancelled(i).term]
    /\ UNCHANGED <<refs, dg, batch, up>>

(* The close coordinator cancels the receive, then closes the transport    *)
(* (kl_lwr_udp_close): the references the drain has not passed on are      *)
(* dropped.  An abandoned socket may still have sends outstanding.         *)
Close(d) ==
    /\ up /\ dg[d].at = "open"
    /\ \E i \in UdpFind(d) :
        /\ slot' = [slot EXCEPT ![i] = Empty]
        /\ term' = [term EXCEPT ![i] = Cancelled(i).term]
        /\ refs' = [refs EXCEPT ![d] = @ - Held([slot[i] EXCEPT !.armed = Cancelled(i).arm])]
        /\ dg' = [dg EXCEPT ![d] = [@ EXCEPT !.at = "closing", !.sends = @ - slot[i].sends]]
    /\ UNCHANGED <<batch, up>>

(* lwr_comp_retire_dgram: pending while a terminal is queued.              *)
RecvPending(d) == \E i \in Slots : term[i] = d

(* The close coordinator is done when nothing is in flight; the owner      *)
(* drops its own reference.                                                *)
Retire(d) ==
    /\ dg[d].at = "closing" /\ ~dg[d].recv /\ dg[d].sends = 0 /\ ~RecvPending(d)
    /\ dg' = [dg EXCEPT ![d].at = "none"]
    /\ refs' = [refs EXCEPT ![d] = @ - 1]
    /\ UNCHANGED <<slot, term, batch, up>>

-----------------------------------------------------------------------------
(* The drain.                                                              *)

Recv(d, ok) == [kind |-> "recv", d |-> d, ok |-> ok]
Send(d) == [kind |-> "send", d |-> d, ok |-> TRUE]

Of(i) ==
    LET s == slot[i]
    IN  (IF s.armed /\ s.held THEN <<Recv(s.pcb, TRUE)>> ELSE <<>>)
          \o [n \in 1 .. s.sends |-> Send(s.pcb)]

Terminal(i) == IF term[i] = None THEN <<>> ELSE <<Recv(term[i], FALSE)>>

Over(found(_)) ==
    LET upTo[n \in 0 .. NSlots] == IF n = 0 THEN <<>> ELSE upTo[n - 1] \o found(n)
    IN  upTo[NSlots]

Count(evs, ev) == Cardinality({n \in DOMAIN evs : evs[n] = ev})

(* kl_lwr_udp_drain, and its translation: each record passes one reference *)
(* on to its event.                                                        *)
Drain ==
    /\ up /\ batch = <<>>
    /\ LET all == Over(Of) \o Over(Terminal)
           evs == SubSeq(all, 1, IF Len(all) < MaxEvents THEN Len(all) ELSE MaxEvents)
           got(i) == slot[i].pcb # None /\ Count(evs, Recv(slot[i].pcb, TRUE)) > 0
       IN  /\ batch' = evs
           /\ slot' = [i \in Slots |->
                IF slot[i].pcb = None THEN slot[i]
                ELSE [slot[i] EXCEPT !.armed = @ /\ ~got(i), !.held = @ /\ ~got(i),
                                     !.sends = @ - Count(evs, Send(slot[i].pcb))]]
           /\ term' = [i \in Slots |->
                IF term[i] # None /\ Count(evs, Recv(term[i], FALSE)) > 0 THEN None ELSE term[i]]
    /\ UNCHANGED <<refs, dg, up>>

(* The dispatch retires the owner's op and drops the event's reference.    *)
Dispatch ==
    /\ batch # <<>>
    /\ batch' = Tail(batch)
    /\ LET ev == Head(batch)
       IN  /\ refs' = [refs EXCEPT ![ev.d] = @ - 1]
           /\ dg' = [dg EXCEPT ![ev.d] =
                       IF ev.kind = "recv" THEN [@ EXCEPT !.recv = FALSE]
                       ELSE [@ EXCEPT !.sends = @ - 1]]
    /\ UNCHANGED <<slot, term, up>>

(* kl_lwr_ctx_destroy: every reference the slots and terminals hold goes.  *)
CtxDestroy ==
    /\ up /\ batch = <<>> /\ up' = FALSE
    /\ refs' = [d \in Owners |->
                  refs[d] - Cardinality({i \in UdpFind(d) : slot[i].armed})
                          - (IF UdpFind(d) = {} THEN 0 ELSE slot[CHOOSE i \in UdpFind(d) : TRUE].sends)
                          - Cardinality({i \in Slots : term[i] = d})]
    /\ slot' = [i \in Slots |-> Empty]
    /\ term' = [i \in Slots |-> None]
    /\ UNCHANGED <<dg, batch>>

Next ==
    \/ Drain \/ Dispatch \/ CtxDestroy
    \/ \E i \in Slots : RecvCb(i)
    \/ \E d \in Owners :
        New(d) \/ PostRecv(d) \/ PostSend(d) \/ CancelRecv(d) \/ Close(d) \/ Retire(d)

Spec == Init /\ [][Next]_vars

-----------------------------------------------------------------------------

Slot(d) == {slot[i] : i \in UdpFind(d)}
Terms(d) == Cardinality({i \in Slots : term[i] = d})
Armed(d) == Cardinality({s \in Slot(d) : s.armed})

(* While the context exists, an owner's receive in flight is in exactly    *)
(* one place: armed, a queued terminal, or an event; its sends likewise.   *)
Answered ==
    up => \A d \in Owners :
        /\ Armed(d) + Terms(d) + Count(batch, Recv(d, TRUE)) + Count(batch, Recv(d, FALSE))
             = (IF dg[d].recv THEN 1 ELSE 0)
        /\ \A s \in Slot(d) : s.sends + Count(batch, Send(d)) = dg[d].sends

(* The token has one reference for the owner and one for each op, wherever *)
(* that op has got to: none is dropped twice, none is left behind.         *)
TokenHeld ==
    \A d \in Owners :
        refs[d] = (IF dg[d].at = "none" THEN 0 ELSE 1)
                    + Armed(d) + Terms(d) + Cardinality({n \in DOMAIN batch : batch[n].d = d})
                    + (IF UdpFind(d) = {} THEN 0 ELSE slot[CHOOSE i \in UdpFind(d) : TRUE].sends)

(* No datagram that came while nothing was armed is kept for a later       *)
(* receive.                                                                *)
NothingStale == \A i \in Slots : slot[i].held => slot[i].armed
=============================================================================
