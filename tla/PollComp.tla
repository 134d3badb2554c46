------------------------------ MODULE PollComp ------------------------------
(***************************************************************************)
(* The completion backend over poll() (src/event_pollcomp.c), driven by    *)
(* the completion tick (kl_comp_run in src/completion_core.c), with the    *)
(* liveness token of datagram ops (src/completion_life.c).                 *)
(*                                                                         *)
(* One op of each kind may be pending, as its owner allows.  The order of  *)
(* the op list only decides which ready ops a full batch leaves for the    *)
(* next drain, so the list is a set and that choice is free.  A post that  *)
(* fails leaves nothing behind (its caller releases what it retained), so  *)
(* it is a stuttering step.                                                *)
(***************************************************************************)
EXTENDS Naturals, FiniteSets, Functions, TLC

CONSTANTS
    Kinds,    \* the ops used: a subset of Read, Write, ... below
    Fds,      \* descriptors with a readiness watch
    HeadLen,     \* units of a response, or of the head of a file response
    FileLen,     \* units of a file
    MaxEvents,      \* events per drain
    Oom       \* whether the drain's own allocation may fail

VARIABLES
    ops,      \* pending ops, by kind
    watches,  \* registered watches: descriptor -> interest
    primed,   \* the listen descriptor is latched
    pc,       \* "user", or where the tick is: "complete", "dispatch"
    todo,     \* ops poll() reported, not yet looked at
    fired,    \* watches poll() reported
    batch,    \* events of this tick not dispatched yet: kind -> success
    relayed,  \* watcher events of this tick not dispatched yet
    want,     \* kinds whose owner waits for a completion
    life,     \* the datagram's token
    sent,     \* units the socket took of the write or file response
    open

vars == <<ops, watches, primed, pc, todo, fired, batch, relayed, want, life, sent, open>>

Dgram == {"recv", "send"}
Stream == {"read", "write", "file"}

FdOf(k) == CASE k = "accept" -> "listen" [] k \in Stream -> "stream"
             [] k = "conn" -> "client" [] OTHER -> "dgram"

Op == [aborted |-> FALSE, done |-> 0, file |-> 0]

Init ==
    /\ ops = <<>> /\ watches = <<>> /\ batch = <<>>
    /\ primed = FALSE /\ pc = "user" /\ open = TRUE
    /\ todo = {} /\ fired = {} /\ relayed = {} /\ want = {}
    /\ life = [refs |-> 1, owned |-> TRUE, freed |-> FALSE]
    /\ sent = [k \in {"write", "file"} |-> 0]

(* kl_comp_life_release, by n holders.                                     *)
Released(l, n) == [l EXCEPT !.refs = @ - n, !.freed = l.refs = n]

(* Callers run between ticks and in the callbacks a tick dispatches.       *)
Caller == open /\ pc \in {"user", "dispatch"}

Push(k) ==
    /\ Caller /\ k \in Kinds /\ k \notin DOMAIN ops \union DOMAIN batch
    /\ ops' = ops @@ (k :> Op)
    /\ want' = want \union {k}
    /\ UNCHANGED <<watches, primed, pc, todo, fired, batch, relayed, open>>

PostRecv == Push("read") /\ UNCHANGED <<life, sent>>

PostSend == Push("write") /\ sent' = [sent EXCEPT !["write"] = 0] /\ UNCHANGED life

PostSendfile == Push("file") /\ sent' = [sent EXCEPT !["file"] = 0] /\ UNCHANGED life

(* A second accept while one is pending is reported posted and adds none.  *)
PostAccept == primed /\ Push("accept") /\ UNCHANGED <<life, sent>>

(* The caller retains the token; the op takes that reference over.         *)
PostDgramRecv == life.owned /\ Push("recv") /\ life' = [life EXCEPT !.refs = @ + 1] /\ UNCHANGED sent

PostDgramSend == life.owned /\ Push("send") /\ life' = [life EXCEPT !.refs = @ + 1] /\ UNCHANGED sent

PostConnect == Push("conn") /\ UNCHANGED <<life, sent>>

PrimeAccepts ==
    /\ Caller /\ ~primed /\ primed' = TRUE
    /\ UNCHANGED <<ops, watches, pc, todo, fired, batch, relayed, want, life, sent, open>>

Aborting(K) == [k \in DOMAIN ops |-> [ops[k] EXCEPT !.aborted = @ \/ k \in K]]

MutCancel(fd) ==
    /\ Caller
    /\ ops' = [k \in {j \in DOMAIN ops : FdOf(j) # fd} |-> ops[k]]
    /\ want' = IF fd = "client" THEN want \ {"conn"} ELSE want
    /\ UNCHANGED <<watches, primed, pc, todo, fired, batch, relayed, life, sent, open>>

(* Ops on the descriptor are marked, so the next drain fails them; a       *)
(* connect, whose owner is tearing its watcher down, is dropped.           *)
Cancel(fd) ==
    /\ Caller
    /\ ops' = LET marked == Aborting({k \in Kinds : FdOf(k) = fd})
              IN  [k \in {j \in DOMAIN ops : ~(j = "conn" /\ fd = "client")} |-> marked[k]]
    /\ want' = IF fd = "client" THEN want \ {"conn"} ELSE want
    /\ UNCHANGED <<watches, primed, pc, todo, fired, batch, relayed, life, sent, open>>

CancelDgram(k) ==
    /\ Caller /\ life.owned /\ ops' = Aborting({k})
    /\ UNCHANGED <<watches, primed, pc, todo, fired, batch, relayed, want, life, sent, open>>

(* Whether an op of the kind is still pending; the owner's close waits     *)
(* while it is.                                                            *)
RetirePending(k) == k \in DOMAIN ops

ShutdownAccepts ==
    /\ Caller /\ primed /\ ops' = Aborting({"accept"})
    /\ UNCHANGED <<watches, primed, pc, todo, fired, batch, relayed, want, life, sent, open>>

(* The datagram goes: kl_comp_life_mark_dead, and the owner's release.     *)
OwnerGone ==
    /\ Caller /\ life.owned
    /\ life' = Released([life EXCEPT !.owned = FALSE], 1)
    /\ want' = want \ Dgram
    /\ UNCHANGED <<ops, watches, primed, pc, todo, fired, batch, relayed, sent, open>>

Interests == {{"r"}, {"w"}, {"r", "w"}}

(* kl_pollcomp_ev_add, and ev_mod, which adds a watch it does not find.    *)
EvAdd(fd, mask) ==
    /\ Caller /\ watches' = (fd :> mask) @@ watches
    /\ UNCHANGED <<ops, primed, pc, todo, fired, batch, relayed, want, life, sent, open>>

EvDel(fd) ==
    /\ Caller /\ fd \in DOMAIN watches
    /\ watches' = Restrict(watches, DOMAIN watches \ {fd})
    /\ UNCHANGED <<ops, primed, pc, todo, fired, batch, relayed, want, life, sent, open>>

-----------------------------------------------------------------------------
(* The drain.                                                              *)

Aborted == {k \in DOMAIN ops : ops[k].aborted}

(* pc_emit_abort for as many cancelled ops as fit: failed events.          *)
AbortPass(A) ==
    /\ A \subseteq Aborted
    /\ Cardinality(A) = IF Cardinality(Aborted) < MaxEvents THEN Cardinality(Aborted) ELSE MaxEvents
    /\ ops' = Restrict(ops, DOMAIN ops \ A)

(* What poll() reports ready.                                              *)
Poll(A) ==
    /\ todo' \in SUBSET (DOMAIN ops \ A)
    /\ fired' \in SUBSET DOMAIN watches
    /\ pc' = "complete"

Drain ==
    /\ open /\ pc = "user"
    /\ \E A \in SUBSET Kinds :
        /\ AbortPass(A)
        /\ batch' = [k \in A |-> FALSE]
        /\ IF Cardinality(A) = MaxEvents \/ (DOMAIN ops = A /\ DOMAIN watches = {})
           THEN pc' = "dispatch" /\ UNCHANGED <<todo, fired>>
           ELSE Poll(A)
    /\ UNCHANGED <<watches, primed, relayed, want, life, sent, open>>

(* The drain finds no memory for its pollfd array and reports a loop       *)
(* error: the tick drops the batch.                                        *)
DrainFails ==
    /\ open /\ pc = "user" /\ Oom
    /\ \E A \in SUBSET Kinds :
        AbortPass(A) /\ Cardinality(A) < MaxEvents /\ (DOMAIN ops # A \/ DOMAIN watches # {})
    /\ UNCHANGED <<watches, primed, pc, todo, fired, batch, relayed, want, life, sent, open>>

Room == Cardinality(DOMAIN batch) < MaxEvents

(* pc_complete finished the op (done), or leaves it pending.               *)
Finished(k, ok) ==
    /\ ops' = Restrict(ops, DOMAIN ops \ {k})
    /\ batch' = batch @@ (k :> ok)

Kept(k, op) == ops' = [ops EXCEPT ![k] = op] /\ UNCHANGED batch

Look(k) == pc = "complete" /\ k \in todo /\ Room /\ todo' = todo \ {k}

(* accept(): a descriptor; no descriptors left, reported so that the       *)
(* consumer waits; or nothing there.                                       *)
CompleteAccept ==
    /\ Look("accept")
    /\ \E ok \in BOOLEAN : Finished("accept", ok) \/ (~ok /\ Kept("accept", ops["accept"]))
    /\ UNCHANGED sent

CompleteRead ==
    /\ Look("read")
    /\ Finished("read", TRUE) \/ Kept("read", ops["read"])
    /\ UNCHANGED sent

MutCompleteWrite ==
    /\ Look("write")
    /\ \E n \in 0 .. HeadLen - ops["write"].done :
        LET op == [ops["write"] EXCEPT !.done = @ + n]
        IN  /\ sent' = [sent EXCEPT !["write"] = @ + n]
            /\ Finished("write", n > 0)

(* send() until all is out, it would block, or it fails.                   *)
CompleteWrite ==
    /\ Look("write")
    /\ \E n \in 0 .. HeadLen - ops["write"].done :
        LET op == [ops["write"] EXCEPT !.done = @ + n]
        IN  /\ sent' = [sent EXCEPT !["write"] = @ + n]
            /\ IF op.done = HeadLen THEN Finished("write", TRUE)
               ELSE Kept("write", op) \/ Finished("write", FALSE)

(* The head, then the file, which may turn out shorter than it was.        *)
CompleteSendfile ==
    /\ Look("file")
    /\ \E n \in 0 .. HeadLen - ops["file"].done, m \in 0 .. FileLen - ops["file"].file :
        LET op == [ops["file"] EXCEPT !.done = @ + n, !.file = @ + m]
        IN  /\ m > 0 => op.done = HeadLen
            /\ sent' = [sent EXCEPT !["file"] = @ + n + m]
            /\ IF op.done = HeadLen /\ op.file = FileLen THEN Finished("file", TRUE)
               ELSE Kept("file", op) \/ Finished("file", FALSE)

(* A datagram or an error; an ICMP report or nothing leaves the op there.  *)
CompleteDgramRecv ==
    /\ Look("recv")
    /\ (\E ok \in BOOLEAN : Finished("recv", ok)) \/ Kept("recv", ops["recv"])
    /\ UNCHANGED sent

CompleteDgramSend ==
    /\ Look("send")
    /\ (\E ok \in BOOLEAN : Finished("send", ok)) \/ Kept("send", ops["send"])
    /\ UNCHANGED sent

CompleteConnect ==
    /\ Look("conn")
    /\ \E ok \in BOOLEAN : Finished("conn", ok)
    /\ UNCHANGED sent

Complete ==
    /\ \/ CompleteAccept \/ CompleteRead \/ CompleteWrite \/ CompleteSendfile
       \/ CompleteDgramRecv \/ CompleteDgramSend \/ CompleteConnect
    /\ UNCHANGED <<watches, primed, pc, fired, relayed, want, life, open>>

(* Watches come last, with what room is left.                              *)
RelayWatches ==
    /\ pc = "complete" /\ (todo = {} \/ ~Room)
    /\ \E W \in SUBSET fired :
        /\ Cardinality(W) + Cardinality(DOMAIN batch) <= MaxEvents
        /\ W = fired \/ Cardinality(W) + Cardinality(DOMAIN batch) = MaxEvents
        /\ relayed' = W
    /\ todo' = {} /\ fired' = {} /\ pc' = "dispatch"
    /\ UNCHANGED <<ops, watches, primed, batch, want, life, sent, open>>

-----------------------------------------------------------------------------
(* kl_comp_run routes the batch.                                           *)

(* The owner's handler; a datagram event's reference is released after it. *)
Dispatch(k) ==
    /\ pc = "dispatch" /\ k \in DOMAIN batch
    /\ batch' = Restrict(batch, DOMAIN batch \ {k})
    /\ want' = want \ {k}
    /\ life' = IF k \in Dgram THEN Released(life, 1) ELSE life
    /\ UNCHANGED <<ops, watches, primed, pc, todo, fired, relayed, sent, open>>

DispatchWatcher(fd) ==
    /\ pc = "dispatch" /\ fd \in relayed
    /\ relayed' = relayed \ {fd}
    /\ UNCHANGED <<ops, watches, primed, pc, todo, fired, batch, want, life, sent, open>>

TickEnds ==
    /\ pc = "dispatch" /\ DOMAIN batch = {} /\ relayed = {} /\ pc' = "user"
    /\ UNCHANGED <<ops, watches, primed, todo, fired, batch, relayed, want, life, sent, open>>

(* kl_pollcomp_ev_close: what is still pending goes without an event, and  *)
(* the tokens with it.                                                     *)
EvClose ==
    /\ open /\ pc = "user" /\ open' = FALSE
    /\ ops' = <<>> /\ watches' = <<>> /\ want' = {}
    /\ life' = LET n == Cardinality(DOMAIN ops \cap Dgram)
               IN  IF n = 0 THEN life ELSE Released(life, n)
    /\ UNCHANGED <<primed, pc, todo, fired, batch, relayed, sent>>

Post ==
    \/ PostRecv \/ PostSend \/ PostSendfile \/ PostAccept
    \/ PostDgramRecv \/ PostDgramSend \/ PostConnect \/ PrimeAccepts

Request ==
    \/ \E fd \in {"stream", "listen", "client"} : Cancel(fd)
    \/ \E k \in Dgram : CancelDgram(k)
    \/ ShutdownAccepts \/ OwnerGone
    \/ \E fd \in Fds : EvDel(fd) \/ \E mask \in Interests : EvAdd(fd, mask)

Tick ==
    \/ Drain \/ DrainFails \/ Complete \/ RelayWatches
    \/ (\E k \in Kinds : Dispatch(k)) \/ (\E fd \in Fds : DispatchWatcher(fd)) \/ TickEnds

Next == Post \/ Request \/ Tick \/ EvClose

Spec == Init /\ [][Next]_vars

-----------------------------------------------------------------------------

(* Whoever waits for a completion gets one: its op is pending or its event *)
(* is in the batch (a connection is released only from a completion).      *)
Answered == want \subseteq DOMAIN ops \union DOMAIN batch

(* Every reference on the datagram's token has a holder that will release  *)
(* it: its owner, an op or an undispatched event; so the receive storage   *)
(* goes with the last of them, neither earlier nor never.                  *)
TokenHeld ==
    /\ life.refs = (IF life.owned THEN 1 ELSE 0) + Cardinality(DOMAIN ops \cap Dgram)
                     + Cardinality(DOMAIN batch \cap Dgram)
    /\ life.freed <=> life.refs = 0

(* A write is reported done only when the socket took all of it.           *)
WholeWrites ==
    /\ "write" \in DOMAIN batch /\ batch["write"] => sent["write"] = HeadLen
    /\ "file" \in DOMAIN batch /\ batch["file"] => sent["file"] = HeadLen + FileLen
=============================================================================
