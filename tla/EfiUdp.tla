------------------------------- MODULE EfiUdp -------------------------------
(***************************************************************************)
(* The UEFI backend's datagram half: EFI_UDP4 slots (socket_efi_udp4.c),   *)
(* the loop's datagram ops (event_efi.c) and the datagrams above them, as  *)
(* their close coordinator drives the backend.                             *)
(*                                                                         *)
(* Each op holds a reference on its owner's life token, which pins the     *)
(* owner's buffers.  A completion that confirms the firmware is done       *)
(* transfers the reference to the event, and its dispatch releases it.  An *)
(* unconfirmed one (the slot is quarantined) only lends it: the owner's    *)
(* machine retires, the reference stays for ever.                          *)
(***************************************************************************)
EXTENDS Naturals, FiniteSets, Sequences, FiniteSetsExt

CONSTANTS
    NSlots,     \* KL_EFI_MAX_UDP
    GenMax,     \* bound on a slot's generation
    Owners,     \* the datagrams, each used once
    NOps,       \* KL_EFI_MAX_DGRAM_OPS
    MaxSends,   \* bound on the datagrams an owner sends
    MaxEvents,  \* completions one drain may report
    Hangs,      \* kinds of token ("rx", "tx") the firmware may fail to cancel
    Unbound,    \* the owners that ask for no bind address
    Abandons,   \* whether owners may be destroyed with ops in flight
    NoOwner

VARIABLES
    slot,   \* g_udp_conns; own[t] is the owner whose op posted token t (ghost)
    ops,    \* g_efi.dgram
    refs,   \* references on each owner's life token
    dg,     \* the datagrams
    batch,  \* completions drained and not dispatched yet
    up      \* the loop is open

vars == <<slot, ops, refs, dg, batch, up>>

Tokens == {"rx", "tx"}
Kinds == {"recv", "send"}
Token(kind) == IF kind = "recv" THEN "rx" ELSE "tx"

FreeSlot(gen) ==
    [st |-> "free", gen |-> gen, quar |-> FALSE, posted |-> {},
     fw |-> [t \in Tokens |-> "idle"], own |-> [t \in Tokens |-> NoOwner]]
NoOp == [kind |-> "free", fd |-> 0, gen |-> 0, who |-> NoOwner, posted |-> FALSE,
         failed |-> FALSE, emitted |-> FALSE, cancel |-> "no", seq |-> 0]

Live(u, s) == s # 0 /\ u[s].st = "open"                              \* udp_of

----------------------------------------------------------------------------
(* The slots: socket_efi_udp4.c                                            *)

\* udp_op_of: the slot is still the live one the op was posted on.
IsOp(u, s, gen) == u[s].st = "open" /\ u[s].gen = gen

MutStaleClass(u, s, gen) == "stale"

\* udp_stale_class: quarantined at close (its one bump) or cleanly retired.
StaleClass(u, s, gen) ==
    IF u[s].quar /\ u[s].gen > 0 /\ gen = u[s].gen - 1 THEN "quar" ELSE "stale"

\* kl_uefi_udp_op_state.
OpState(u, s, gen) == IF IsOp(u, s, gen) THEN "pending" ELSE StaleClass(u, s, gen)

\* kl_datagram_open: kl_uefi_udp_socket, then the one Configure.  A failure of
\* either leaves the slot free again.  A bound socket reports it (bind fails);
\* dg_configure cannot, so an unbound one opens on the handle it closed.
Free(u) == {s \in 1..NSlots : u[s].st = "free" /\ u[s].gen < GenMax}
FirstFree(u) == CHOOSE s \in Free(u) : \A r \in Free(u) : s <= r
Opened(u, d) ==
    LET s == FirstFree(u) IN
    {[slot |-> [u EXCEPT ![s] = [FreeSlot(u[s].gen + 1) EXCEPT !.st = "open"]], fd |-> s],
     [slot |-> [u EXCEPT ![s] = FreeSlot(u[s].gen + 2)], fd |-> 0]}
    \cup IF d \notin Unbound THEN {}
         ELSE {[slot |-> [u EXCEPT ![s] = FreeSlot(u[s].gen + 2)], fd |-> s]}

\* kl_uefi_udp_post_recv and udp_post_send_ex: hand the token to the firmware.
TokenPosted(u, s, t, who) ==
    [u EXCEPT ![s].posted = @ \cup {t}, ![s].fw[t] = "held", ![s].own[t] = who]
TokenRetired(u, s, t) ==
    [u EXCEPT ![s].posted = @ \ {t}, ![s].fw[t] = "idle", ![s].own[t] = NoOwner]

\* kl_uefi_udp_poll_recv and kl_uefi_udp_poll_send, by op identity.  After a
\* cancel retired the token a live op polls as pending.
Poll(u, s, gen, t) ==
    IF ~IsOp(u, s, gen) THEN {[slot |-> u, res |-> StaleClass(u, s, gen), ok |-> FALSE]}
    ELSE {[slot |-> u, res |-> "pending", ok |-> FALSE]}
         \cup IF t \notin u[s].posted THEN {}
              ELSE {[slot |-> TokenRetired(u, s, t), res |-> "done", ok |-> ok]
                       : ok \in BOOLEAN}

\* kl_uefi_udp_cancel_recv and kl_uefi_udp_cancel_send: Cancel and a bounded
\* drain; an unconfirmed one leaves the token posted.
TokenCancelled(u, s, gen, t) ==
    IF ~IsOp(u, s, gen) THEN {[slot |-> u, res |-> StaleClass(u, s, gen)]}
    ELSE IF t \notin u[s].posted THEN {[slot |-> u, res |-> "retired"]}
    ELSE {[slot |-> TokenRetired(u, s, t), res |-> "retired"]}
         \cup IF t \in Hangs THEN {[slot |-> u, res |-> "quar"]} ELSE {}

\* udp_quarantine: dead, kept, its generation bumped exactly once.
Quarantined(u, s) ==
    [u EXCEPT ![s].st = "dead", ![s].quar = TRUE, ![s].gen = @ + 1]

MutClosed(u, s) ==
    IF ~Live(u, s) THEN {u}
    ELSE {[u EXCEPT ![s] = [FreeSlot(u[s].gen + 1) EXCEPT
              !.fw = [t \in Tokens |-> IF t \in hung THEN "held" ELSE "idle"],
              !.own = u[s].own]] : hung \in SUBSET (u[s].posted \cap Hangs)}

\* kl_uefi_udp_close: Cancel(NULL), drain each posted token; any that stays
\* the firmware's quarantines the slot, else it is free again.
Closed(u, s) ==
    LET left(hung) == [u EXCEPT ![s].posted = hung,
            ![s].fw = [t \in Tokens |-> IF t \in hung THEN "held" ELSE "idle"]]
    IN IF ~Live(u, s) THEN {u}
       ELSE {IF hung = {} THEN [u EXCEPT ![s] = FreeSlot(u[s].gen + 1)]
             ELSE Quarantined(left(hung), s) : hung \in SUBSET (u[s].posted \cap Hangs)}

----------------------------------------------------------------------------
(* The loop's datagram ops: event_efi.c                                    *)

\* dgram_seq, counted from the records in use: only their order is read.
NextSeq(o) == 1 + Max({o[i].seq : i \in 1..NOps})

\* efi_dgram_pump_sends: with no Transmit out on the fd, post the queued send
\* accepted first; a refused post fails the op and the next drain reports it.
Pumped(u, o, s) ==
    LET sends == {i \in 1..NOps : o[i].kind = "send" /\ o[i].fd = s}
        queued == {i \in sends : ~o[i].posted /\ ~o[i].failed}
    IN IF queued = {} \/ \E i \in sends : o[i].posted THEN {[slot |-> u, ops |-> o]}
       ELSE LET i == CHOOSE j \in queued : \A k \in queued : o[j].seq <= o[k].seq IN
            {[slot |-> u, ops |-> [o EXCEPT ![i].failed = TRUE]]}
            \cup IF ~Live(u, s) \/ "tx" \in u[s].posted THEN {}
                 ELSE {[slot |-> TokenPosted(u, s, "tx", o[i].who),
                        ops |-> [o EXCEPT ![i].posted = TRUE, ![i].gen = u[s].gen]]}

FreeOps(o) == {i \in 1..NOps : o[i].kind = "free"}
FirstOp(o) == CHOOSE i \in FreeOps(o) : \A j \in FreeOps(o) : i <= j

\* One drain's step on record i.  z is [slot, ops, out].
Event(i, o, ok, lent) == [who |-> o[i].who, kind |-> o[i].kind, ok |-> ok, lent |-> lent]
Transfer(z, i, ok) == [z EXCEPT !.out = Append(@, Event(i, z.ops, ok, FALSE)),
                                !.ops[i] = NoOp]
Lend(z, i) == [z EXCEPT !.out = Append(@, Event(i, z.ops, FALSE, TRUE)),
                        !.ops[i].emitted = TRUE]
ThenPump(z, s) == {[z EXCEPT !.slot = p.slot, !.ops = p.ops] : p \in Pumped(z.slot, z.ops, s)}

MutUnconfirmed(z, i) == Transfer(z, i, FALSE)

\* A QUARANTINED result: the machine retires, the reference is kept.
Unconfirmed(z, i) == Lend(z, i)

DrainRecv(z, i) ==
    {LET y == [z EXCEPT !.slot = p.slot] IN
     CASE p.res = "pending" -> y
       [] p.res \in {"done", "stale"} -> Transfer(y, i, p.ok)
       [] p.res = "quar" -> Unconfirmed(y, i)
       : p \in Poll(z.slot, z.ops[i].fd, z.ops[i].gen, "rx")}

DrainSend(z, i) ==
    LET op == z.ops[i] IN
    IF op.failed \/ op.cancel = "retired" THEN ThenPump(Transfer(z, i, FALSE), op.fd)
    ELSE IF op.cancel = "quar" THEN {Unconfirmed(z, i)}
    ELSE IF ~op.posted THEN {z}
    ELSE UNION {LET y == [z EXCEPT !.slot = p.slot] IN
                CASE p.res = "pending" -> {y}
                  [] p.res \in {"done", "stale"} -> ThenPump(Transfer(y, i, p.ok), op.fd)
                  [] p.res = "quar" -> {Unconfirmed(y, i)}
                  : p \in Poll(z.slot, op.fd, op.gen, "tx")}

DrainOp(z, i) ==
    IF z.ops[i].kind = "free" \/ z.ops[i].emitted \/ Len(z.out) >= MaxEvents THEN {z}
    ELSE IF z.ops[i].kind = "recv" THEN DrainRecv(z, i) ELSE DrainSend(z, i)

\* el_drain, its datagram part.
Drain ==
    /\ up /\ batch = <<>>
    /\ LET over[k \in 0..NOps] ==
               IF k = 0 THEN {[slot |-> slot, ops |-> ops, out |-> <<>>]}
               ELSE UNION {DrainOp(z, k) : z \in over[k - 1]}
       IN \E z \in over[NOps] : slot' = z.slot /\ ops' = z.ops /\ batch' = z.out
    /\ UNCHANGED <<refs, dg, up>>

\* el_cancel_dgram: a send records what its cancel found, for the drain to
\* report; a recv's token is cancelled and its record waits for the close.
OpsCancelled(u, o, who, kind) ==
    LET mine == {i \in 1..NOps : o[i].kind = kind /\ o[i].who = who
                    /\ (kind = "send" =>
                          o[i].cancel = "no" /\ ~o[i].emitted /\ ~o[i].failed)}
    IN IF mine = {} THEN {[slot |-> u, ops |-> o]}
       ELSE LET i == CHOOSE j \in mine : TRUE IN
            {[slot |-> c.slot,
              ops |-> IF kind = "recv" THEN o
                      ELSE [o EXCEPT ![i].cancel = IF c.res = "quar" THEN "quar" ELSE "retired"]]
               : c \in IF kind = "send" /\ ~o[i].posted
                       THEN {[slot |-> u, res |-> "retired"]}
                       ELSE TokenCancelled(u, o[i].fd, o[i].gen, Token(kind))}

\* el_retire_dgram: how the owner's op of this kind ended.
Retirement(u, o, who, kind) ==
    LET mine == {i \in 1..NOps : o[i].kind = kind /\ o[i].who = who} IN
    IF mine = {} THEN "retired"
    ELSE LET i == CHOOSE j \in mine : TRUE IN
         IF kind = "send" /\ ~o[i].posted THEN "retired"
         ELSE LET st == OpState(u, o[i].fd, o[i].gen)
              IN IF st = "stale" THEN "retired" ELSE st

----------------------------------------------------------------------------
(* The datagrams                                                           *)

OpenDg(d) ==
    /\ up /\ dg[d].st = "off" /\ Free(slot) # {}
    /\ \E o \in Opened(slot, d) :
          /\ slot' = o.slot
          /\ IF o.fd = 0 THEN UNCHANGED <<dg, refs>>
             ELSE /\ dg' = [dg EXCEPT ![d].st = "open", ![d].fd = o.fd]
                  /\ refs' = [refs EXCEPT ![d] = 1]
    /\ UNCHANGED <<ops, batch, up>>

\* el_post_dgram_recv, the reference retained by the caller and transferred.
PostRecv(d) ==
    /\ dg[d].st = "open" /\ ~dg[d].recv /\ FreeOps(ops) # {}
    /\ LET s == dg[d].fd IN
       /\ Live(slot, s) /\ "rx" \notin slot[s].posted
       /\ slot' = TokenPosted(slot, s, "rx", d)
       /\ ops' = [ops EXCEPT ![FirstOp(ops)] =
             [NoOp EXCEPT !.kind = "recv", !.fd = s, !.gen = slot[s].gen, !.who = d]]
    /\ refs' = [refs EXCEPT ![d] = @ + 1]
    /\ dg' = [dg EXCEPT ![d].recv = TRUE]
    /\ UNCHANGED <<batch, up>>

\* el_post_dgram_send: copied, queued, pumped.
PostSend(d) ==
    /\ dg[d].st = "open" /\ ~dg[d].send /\ dg[d].n < MaxSends /\ FreeOps(ops) # {}
    /\ \E p \in Pumped(slot, [ops EXCEPT ![FirstOp(ops)] =
             [NoOp EXCEPT !.kind = "send", !.fd = dg[d].fd, !.who = d,
                          !.seq = NextSeq(ops)]], dg[d].fd) :
          slot' = p.slot /\ ops' = p.ops
    /\ refs' = [refs EXCEPT ![d] = @ + 1]
    /\ dg' = [dg EXCEPT ![d].send = TRUE, ![d].n = @ + 1]
    /\ UNCHANGED <<batch, up>>

\* dg_send, the synchronous source-pinned send: a Transmit that is never
\* confirmed quarantines the socket under the datagram's other ops.
SyncSend(d) ==
    /\ dg[d].st = "open" /\ Live(slot, dg[d].fd) /\ "tx" \notin slot[dg[d].fd].posted
    /\ "tx" \in Hangs
    /\ slot' = Quarantined(TokenPosted(slot, dg[d].fd, "tx", NoOwner), dg[d].fd)
    /\ UNCHANGED <<ops, refs, dg, batch, up>>

\* The owner's last word: detached or quarantined, and its own reference goes.
Finish(d, u, o, g, r) ==
    LET ends == {Retirement(u, o, d, kind) : kind \in Kinds} IN
    IF g[d].recv \/ g[d].send \/ "pending" \in ends
    THEN dg' = g /\ refs' = r
    ELSE /\ dg' = [g EXCEPT ![d].st = IF "quar" \in ends THEN "quarantined" ELSE "detached"]
         /\ refs' = [r EXCEPT ![d] = @ - 1]

\* close_run_terminal: once no send is in flight, cancel the recv and close
\* the fd, exactly once; then finish if everything has retired.
Terminal(d, u, o, g, r) ==
    IF g[d].st # "closing" \/ g[d].send \/ g[d].fd = 0
    THEN /\ slot' = u /\ ops' = o
         /\ IF g[d].st = "closing" THEN Finish(d, u, o, g, r) ELSE dg' = g /\ refs' = r
    ELSE \E c \in IF g[d].recv THEN OpsCancelled(u, o, d, "recv")
                  ELSE {[slot |-> u, ops |-> o]} :
         \E m \in Closed(c.slot, g[d].fd) :
            /\ slot' = m /\ ops' = c.ops
            /\ Finish(d, m, c.ops, [g EXCEPT ![d].fd = 0], r)

\* Closing: gracefully, or abortively with the send cancelled.
CloseDg(d) ==
    /\ dg[d].st = "open" /\ batch = <<>>
    /\ \E abort \in BOOLEAN :
       \E c \in IF abort /\ dg[d].send THEN OpsCancelled(slot, ops, d, "send")
                ELSE {[slot |-> slot, ops |-> ops]} :
       \E k \in IF abort /\ dg[d].recv THEN OpsCancelled(c.slot, c.ops, d, "recv") ELSE {c} :
          Terminal(d, k.slot, k.ops, [dg EXCEPT ![d].st = "closing"], refs)
    /\ UNCHANGED <<batch, up>>

\* The owner is destroyed with ops in flight: cancel, close, end at once.
Abandon(d) ==
    /\ Abandons /\ dg[d].st \in {"open", "closing"} /\ batch = <<>>
    /\ \E c \in IF dg[d].send THEN OpsCancelled(slot, ops, d, "send")
                ELSE {[slot |-> slot, ops |-> ops]} :
       \E k \in IF dg[d].recv THEN OpsCancelled(c.slot, c.ops, d, "recv") ELSE {c} :
       \E m \in IF dg[d].fd = 0 THEN {k.slot} ELSE Closed(k.slot, dg[d].fd) :
          /\ slot' = m /\ ops' = k.ops
          /\ dg' = [dg EXCEPT ![d] = [@ EXCEPT !.fd = 0, !.recv = FALSE, !.send = FALSE,
                !.st = IF \E kind \in Kinds : Retirement(m, k.ops, d, kind) = "quar"
                       THEN "quarantined" ELSE "detached"]]
          /\ refs' = [refs EXCEPT ![d] = @ - 1]
    /\ UNCHANGED <<batch, up>>

\* A completion reaches its owner; its reference, unless lent, is released.
Dispatch ==
    /\ batch # <<>>
    /\ LET e == Head(batch)
           r == IF e.lent THEN refs ELSE [refs EXCEPT ![e.who] = @ - 1]
           live == dg[e.who].st \in {"open", "closing"}
           g == IF ~live THEN dg
                ELSE IF e.kind = "recv" THEN [dg EXCEPT ![e.who].recv = FALSE]
                ELSE [dg EXCEPT ![e.who].send = FALSE]
       IN Terminal(e.who, slot, ops, g, r)
    /\ batch' = Tail(batch)
    /\ UNCHANGED up

MutReleased(o, who) ==
    Cardinality({i \in 1..NOps : o[i].kind # "free" /\ o[i].who = who})

\* The references el_close releases: those of ops confirmed retired.
Released(o, who) ==
    Cardinality({i \in 1..NOps : o[i].kind # "free" /\ o[i].who = who
        /\ ((o[i].kind = "send" /\ ~o[i].posted)
            \/ OpState(slot, o[i].fd, o[i].gen) = "stale")})

\* el_close: the loop goes; records left are released only if confirmed.
CloseLoop ==
    /\ up /\ batch = <<>>
    /\ \A d \in Owners : dg[d].st \notin {"open", "closing"}
    /\ refs' = [d \in Owners |-> refs[d] - Released(ops, d)]
    /\ ops' = [i \in 1..NOps |-> NoOp]
    /\ up' = FALSE
    /\ UNCHANGED <<slot, dg, batch>>

Init ==
    /\ slot = [s \in 1..NSlots |-> FreeSlot(0)]
    /\ ops = [i \in 1..NOps |-> NoOp]
    /\ refs = [d \in Owners |-> 0]
    /\ dg = [d \in Owners |-> [st |-> "off", fd |-> 0, recv |-> FALSE, send |-> FALSE, n |-> 0]]
    /\ batch = <<>> /\ up = TRUE

Next == \/ Drain \/ Dispatch \/ CloseLoop
        \/ \E d \in Owners : \/ OpenDg(d) \/ PostRecv(d) \/ PostSend(d) \/ SyncSend(d)
                             \/ CloseDg(d) \/ Abandon(d)

Spec == Init /\ [][Next]_vars

----------------------------------------------------------------------------
(* Properties                                                              *)

(* A token the firmware still owns is posted on an open slot or sits in a    *)
(* quarantined one, which is never reclaimed.                                *)
TokensReconciled ==
    \A s \in 1..NSlots, t \in Tokens :
        /\ slot[s].fw[t] = "held" =>
              t \in slot[s].posted /\ (slot[s].st = "open" \/ slot[s].quar)
        /\ t \in slot[s].posted => slot[s].fw[t] = "held"

(* The firmware never holds a token of an owner whose last reference is gone: *)
(* the storage an unconfirmed op may still touch is not freed under it.       *)
StoragePinned ==
    \A s \in 1..NSlots, t \in Tokens :
        LET d == slot[s].own[t] IN
        slot[s].fw[t] = "held" /\ d # NoOwner => refs[d] > 0

(* Every recv or send a live datagram has in flight has one record that will *)
(* still report, or one completion drained: its machine retires, once.       *)
Answered ==
    \A d \in Owners, kind \in Kinds :
        dg[d].st \in {"open", "closing"} =>
          Cardinality({i \in 1..NOps : ops[i].who = d /\ ops[i].kind = kind
                                       /\ ~ops[i].emitted})
          + Cardinality({j \in 1..Len(batch) : batch[j].who = d /\ batch[j].kind = kind})
            = IF (IF kind = "recv" THEN dg[d].recv ELSE dg[d].send) THEN 1 ELSE 0

(* A datagram reported detached has left nothing with the firmware.          *)
DetachedIsClean ==
    \A s \in 1..NSlots, t \in Tokens :
        LET d == slot[s].own[t] IN
        slot[s].fw[t] = "held" /\ d # NoOwner => dg[d].st # "detached"

(* dg_configure says of a slot whose Configure failed: "fail-close: every    *)
(* subsequent op fails".  Not checked: handles carry no generation, so once  *)
(* another socket reuses the slot the failed datagram's ops act on it.       *)
FailClosed ==
    \A d, e \in Owners :
        d # e /\ dg[d].st = "open" /\ dg[e].st = "open" => dg[d].fd # dg[e].fd
=============================================================================
