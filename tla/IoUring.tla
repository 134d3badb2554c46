------------------------------- MODULE IoUring -------------------------------
(***************************************************************************)
(* The completion backend over io_uring (src/event_iouring.c).             *)
(*                                                                         *)
(* The kernel takes submission entries in order, names what they concern   *)
(* by the address of the op or watch, and may complete anything it holds   *)
(* at any time.  An address is the op's kind, or a watch's name: the       *)
(* next op of that kind reuses the address of the last one, which is the   *)
(* reuse an allocator may make.  A completion entry of an op is its place  *)
(* "cq" with its result; each op has one submission outstanding at most.   *)
(***************************************************************************)
EXTENDS Naturals, Sequences, FiniteSets, SequencesExt, TLC

CONSTANTS
    Kinds,      \* ops used, among read, write, file, accept, recv, send, conn
    Watches,    \* addresses for watches of the one watched descriptor
    SqLen,      \* entries of the submission queue
    RegBufs,    \* registered send buffers
    HeadLen,      \* units of a response, or of the head of a file response
    FileLen,       \* units of a file
    Chunk,      \* units one splice moves
    MaxEvents,        \* events per drain
    ZeroSplice  \* whether a splice to a socket may move nothing

VARIABLES
    s,        \* the backend and the kernel: [ops, sq, watches, free]
    pc,       \* "user", "reap" or "dispatch"
    batch,    \* events not dispatched yet: kind -> success
    relayed,  \* a watcher event not dispatched yet
    want,     \* kinds whose owner waits for a completion
    life,     \* the datagram's token
    sent,     \* units the socket took of the write or file response
    saturated,\* shutdown_accepts could not queue its cancel
    refused   \* the last change of interest found no entry: "told" to its
              \* caller, or "silent", or "no"

vars == <<s, pc, batch, relayed, want, life, sent, saturated, refused>>

Dgram == {"recv", "send"}
Sends == {"write", "file"}

FdOf(k) == CASE k = "accept" -> "listen" [] k \in Sends \union {"read"} -> "stream"
             [] k = "conn" -> "client" [] OTHER -> "dgram"

NoBuf == "none"

(* iou_op_alloc: no registered buffer, no pipe, nothing submitted yet.     *)
Op == [at |-> "idle", res |-> "none", aborted |-> FALSE, unsent |-> FALSE,
       reg |-> NoBuf, done |-> 0, off |-> 0, stage |-> 0, pipe |-> 0]

Init ==
    /\ s = [ops |-> <<>>, sq |-> <<>>, watches |-> <<>>, free |-> SetToSeq(RegBufs)]
    /\ pc = "user" /\ batch = <<>> /\ relayed = FALSE /\ want = {} /\ saturated = FALSE /\ refused = "no"
    /\ life = [refs |-> 1, owned |-> TRUE, freed |-> FALSE]
    /\ sent = 0

Without(f, x) == [y \in DOMAIN f \ {x} |-> f[y]]

-----------------------------------------------------------------------------
(* The kernel and the submission queue.                                    *)

Entry(what, x) == [what |-> what, of |-> x]

HeldOp(t, x) == x \in DOMAIN t.ops /\ t.ops[x].at = "kernel"
HeldPoll(t, x) == x \in DOMAIN t.watches /\ t.watches[x].at = "kernel"

(* The kernel takes the oldest entry.  A cancel or a remove completes what *)
(* it names if the kernel holds it, and does nothing otherwise.            *)
Take(t) ==
    LET e == Head(t.sq)
        r == [t EXCEPT !.sq = Tail(@)]
    IN  CASE e.what = "op" -> [r EXCEPT !.ops[e.of].at = "kernel"]
          [] e.what = "poll" -> [r EXCEPT !.watches[e.of].at = "kernel",
                                          !.watches[e.of].polled = t.watches[e.of].mask]
          [] e.what = "cancel" /\ HeldOp(t, e.of) ->
                [r EXCEPT !.ops[e.of].at = "cq", !.ops[e.of].res = "error"]
          [] e.what = "remove" /\ HeldPoll(t, e.of) ->
                [r EXCEPT !.watches[e.of].at = "cq", !.watches[e.of].res = "error"]
          [] e.what = "update" /\ HeldPoll(t, e.of) ->
                [r EXCEPT !.watches[e.of].polled = t.watches[e.of].mask]
          [] OTHER -> r

(* io_uring_submit: the kernel takes some of the queue, possibly nothing.  *)
Submitted(t) ==
    LET after[n \in 0 .. Len(t.sq)] == IF n = 0 THEN t ELSE Take(after[n - 1])
    IN  {after[n] : n \in 0 .. Len(t.sq)}

(* iou_sqe with the entry filled in: [s, got].  A full queue is submitted  *)
(* first, and stays full when the kernel takes nothing.                    *)
Sqe(t, e) ==
    {IF Len(u.sq) < SqLen THEN [s |-> [u EXCEPT !.sq = Append(@, e)], got |-> TRUE]
     ELSE [s |-> u, got |-> FALSE]
     : u \in IF Len(t.sq) < SqLen THEN {t} ELSE Submitted(t)}

(* An op finishes in the kernel with an error, with nothing moved, or with *)
(* what it asked for or a part of it; a poll finds its descriptor ready.   *)
KernelCompletes ==
    /\ \/ \E k \in DOMAIN s.ops, res \in {"error", "zero", "some"} :
            HeldOp(s, k) /\ s' = [s EXCEPT !.ops[k].at = "cq", !.ops[k].res = res]
       \/ \E w \in DOMAIN s.watches :
            HeldPoll(s, w) /\ s' = [s EXCEPT !.watches[w].at = "cq", !.watches[w].res = "some"]
    /\ UNCHANGED <<pc, batch, relayed, want, life, sent, saturated, refused>>

-----------------------------------------------------------------------------
(* Watches.                                                                *)

Watch == [at |-> "idle", res |-> "none", mask |-> "r", polled |-> "r",
          removed |-> FALSE, unsent |-> FALSE]

(* iou_arm_watch: one poll at a time.                                      *)
ArmWatch(t, w) ==
    IF t.watches[w].at # "idle" THEN {[s |-> t, got |-> TRUE]}
    ELSE {IF x.got THEN [x EXCEPT !.s.watches[w].at = "sq"] ELSE x : x \in Sqe(t, Entry("poll", w))}

LiveWatch(t) == {w \in DOMAIN t.watches : ~t.watches[w].removed}

Caller == pc \in {"user", "dispatch"}

EvAdd(w, mask) ==
    /\ Caller /\ LiveWatch(s) = {} /\ w \in Watches \ DOMAIN s.watches
    /\ \E x \in ArmWatch([s EXCEPT !.watches = @ @@ (w :> [Watch EXCEPT !.mask = mask])], w) :
        s' = IF x.got THEN x.s ELSE [x.s EXCEPT !.watches = Without(@, w)]
    /\ refused' = "no"
    /\ UNCHANGED <<pc, batch, relayed, want, life, sent, saturated>>

(* The new interest: armed afresh, or the poll in flight retargeted.       *)
Modified(t, w, mask) ==
    LET m == [t EXCEPT !.watches[w].mask = mask]
    IN  IF t.watches[w].at = "idle" THEN ArmWatch(m, w)
        ELSE IF t.watches[w].mask = mask THEN {[s |-> m, got |-> TRUE]}
        ELSE Sqe(m, Entry("update", w))

EvMod(mask) ==
    /\ Caller
    /\ \E w \in LiveWatch(s) : \E x \in Modified(s, w, mask) :
        /\ s' = x.s
        /\ refused' = IF ~x.got THEN "told"
                      ELSE IF s.watches[w].at # "idle" /\ s.watches[w].mask = mask THEN refused
                      ELSE "no"
    /\ UNCHANGED <<pc, batch, relayed, want, life, sent, saturated>>

MutDeleted(t, w) == {[t EXCEPT !.watches = Without(@, w)]}

(* An armed watch stays until the completion of its poll comes.            *)
Deleted(t, w) ==
    IF t.watches[w].at = "idle" THEN {[t EXCEPT !.watches = Without(@, w)]}
    ELSE {IF x.got THEN x.s ELSE [x.s EXCEPT !.watches[w].unsent = TRUE]
          : x \in Sqe([t EXCEPT !.watches[w].removed = TRUE], Entry("remove", w))}

EvDel ==
    /\ Caller /\ \E w \in LiveWatch(s) : s' \in Deleted(s, w)
    /\ UNCHANGED <<pc, batch, relayed, want, life, sent, saturated, refused>>

-----------------------------------------------------------------------------
(* Posts.  One that fails leaves nothing behind.                           *)

SendRelease(t, k) ==
    IF t.ops[k].reg = NoBuf THEN t
    ELSE [t EXCEPT !.free = Append(@, t.ops[k].reg), !.ops[k].reg = NoBuf]

(* A registered buffer when one is free, else an allocated one.            *)
RegAcquire(t, k) ==
    IF t.free = <<>> THEN t
    ELSE [t EXCEPT !.free = Front(@), !.ops[k].reg = Last(t.free)]

OpFreed(t, k) == [t EXCEPT !.ops = Without(@, k)]

Queued(t, k) ==
    {[x EXCEPT !.s.ops[k].at = IF x.got THEN "sq" ELSE "idle", !.s.ops[k].res = "none"]
     : x \in Sqe(t, Entry("op", k))}

MutPostUndo(t, k) == OpFreed(t, k)

PostUndo(t, k) == OpFreed(SendRelease(t, k), k)

Pushed(k) == [s EXCEPT !.ops = @ @@ (k :> Op)]

Post(k, pushed) ==
    /\ Caller /\ k \in Kinds /\ k \notin DOMAIN s.ops \union DOMAIN batch
    /\ \E x \in Queued(pushed, k) :
        /\ s' = IF x.got THEN x.s ELSE PostUndo(x.s, k)
        /\ want' = IF x.got THEN want \union {k} ELSE want
        /\ life' = IF x.got /\ k \in Dgram THEN [life EXCEPT !.refs = @ + 1] ELSE life
    /\ UNCHANGED <<pc, batch, relayed, saturated, refused>>

PostRecv == Post("read", Pushed("read")) /\ UNCHANGED sent
PostSend == Post("write", RegAcquire(Pushed("write"), "write")) /\ sent' = 0
PostSendfile == Post("file", RegAcquire(Pushed("file"), "file")) /\ sent' = 0
PostAccept == Post("accept", Pushed("accept")) /\ UNCHANGED sent
PostDgramRecv == life.owned /\ Post("recv", Pushed("recv")) /\ UNCHANGED sent
PostDgramSend == life.owned /\ Post("send", Pushed("send")) /\ UNCHANGED sent
PostConnect == Post("conn", Pushed("conn")) /\ UNCHANGED sent

-----------------------------------------------------------------------------
(* Cancels.                                                                *)

MutCancelled(t, k) == {x.s : x \in Sqe([t EXCEPT !.ops[k].aborted = TRUE], Entry("cancel", k))}

Cancelled(t, k) ==
    {IF x.got THEN x.s ELSE [x.s EXCEPT !.ops[k].unsent = TRUE]
     : x \in Sqe([t EXCEPT !.ops[k].aborted = TRUE], Entry("cancel", k))}

CancelAll(t, K) ==
    LET todo == SetToSeq({k \in K \cap DOMAIN t.ops : ~t.ops[k].aborted})
        after[n \in 0 .. Len(todo)] ==
            IF n = 0 THEN {t} ELSE UNION {Cancelled(u, todo[n]) : u \in after[n - 1]}
    IN  after[Len(todo)]

Cancel(fd) ==
    /\ Caller /\ s' \in CancelAll(s, {k \in Kinds : FdOf(k) = fd})
    /\ want' = IF fd = "client" THEN want \ {"conn"} ELSE want
    /\ UNCHANGED <<pc, batch, relayed, life, sent, saturated, refused>>

CancelDgram(k) ==
    /\ Caller /\ life.owned /\ s' \in CancelAll(s, {k})
    /\ UNCHANGED <<pc, batch, relayed, want, life, sent, saturated, refused>>

RetirePending(k) == k \in DOMAIN s.ops

(* Every queued entry must reach the kernel, or the caller is told not to  *)
(* wait for the accept.                                                    *)
ShutdownAccepts ==
    /\ Caller /\ "accept" \in DOMAIN s.ops
    /\ \E x \in Sqe([s EXCEPT !.ops["accept"].aborted = TRUE], Entry("cancel", "accept")) :
        \E u \in Submitted(x.s) :
            /\ s' = u
            /\ saturated' = (~x.got \/ u.sq # <<>>)
    /\ UNCHANGED <<pc, batch, relayed, want, life, sent, refused>>

OwnerGone ==
    /\ Caller /\ life.owned
    /\ life' = [refs |-> life.refs - 1, owned |-> FALSE, freed |-> life.refs = 1]
    /\ want' = want \ Dgram
    /\ UNCHANGED <<s, pc, batch, relayed, sent, saturated, refused>>

-----------------------------------------------------------------------------
(* The drain: the cancels and removes that found no entry, the submission, *)
(* then the completions one by one.                                        *)

Retried(t, x, what, fn) ==
    {IF y.got THEN [y EXCEPT !.s[fn][x].unsent = FALSE] ELSE y : y \in Sqe(t, Entry(what, x))}

PostUnsentCancels(t) ==
    LET opsDue == SetToSeq({k \in DOMAIN t.ops : t.ops[k].unsent})
        watchesDue == SetToSeq({w \in DOMAIN t.watches : t.watches[w].unsent})
        one(u, n) ==
            IF n <= Len(opsDue) THEN Retried(u, opsDue[n], "cancel", "ops")
            ELSE LET w == watchesDue[n - Len(opsDue)]
                 IN  IF u.watches[w].at = "idle"
                     THEN {[s |-> [u EXCEPT !.watches[w].unsent = FALSE], got |-> TRUE]}
                     ELSE Retried(u, w, "remove", "watches")
        after[n \in 0 .. Len(opsDue) + Len(watchesDue)] ==
            IF n = 0 THEN {[s |-> t, got |-> TRUE]}
            ELSE UNION {IF x.got THEN one(x.s, n) ELSE {x} : x \in after[n - 1]}
    IN  {x.s : x \in after[Len(opsDue) + Len(watchesDue)]}

(* A submission that fails outright returns before anything is reaped, so  *)
(* no completion is lost; one refused for now reaps all the same.          *)
Drain ==
    /\ pc = "user" /\ pc' \in {"user", "reap"}
    /\ \E t \in PostUnsentCancels(s) : s' \in IF pc' = "user" THEN {t} ELSE Submitted(t)
    /\ UNCHANGED <<batch, relayed, want, life, sent, saturated, refused>>

Room == Cardinality(DOMAIN batch) + (IF relayed THEN 1 ELSE 0) < MaxEvents

Emit(t, k, ok) == s' = OpFreed(t, k) /\ batch' = batch @@ (k :> ok)

(* iou_prep_send_tail, splice_in and splice_out while an op goes on: with  *)
(* no entry to be had the op fails at once.                                *)
MutGoesOn(t, k) == \E x \in Queued(t, k) : s' = x.s /\ UNCHANGED batch

GoesOn(t, k) ==
    \E x \in Queued(t, k) :
        IF x.got THEN s' = x.s /\ UNCHANGED batch ELSE Emit(SendRelease(x.s, k), k, FALSE)

CompleteAccept(op) == Emit(s, "accept", op.res # "error") /\ UNCHANGED sent

CompleteRead(op) == Emit(s, "read", ~op.aborted /\ op.res = "some") /\ UNCHANGED sent

(* A part of the head, for a plain response and for a file's alike.        *)
SendPart(k, op, finish(_)) ==
    IF op.aborted \/ op.res = "error" \/ op.res = "zero"
    THEN Emit(SendRelease(s, k), k, FALSE) /\ UNCHANGED sent
    ELSE \E n \in 1 .. HeadLen - op.done :
            LET t == [s EXCEPT !.ops[k].done = @ + n]
            IN  /\ sent' = sent + n
                /\ IF op.done + n < HeadLen THEN GoesOn(t, k) ELSE finish(SendRelease(t, k))

CompleteWrite(op) == LET done(t) == Emit(t, "write", TRUE) IN SendPart("write", op, done)

(* Stage 0 is the head; 1 fills the pipe from the file, 2 empties it into  *)
(* the socket, until the file is through.                                  *)
CompleteSendfile(op) ==
    LET fails == Emit(SendRelease(s, "file"), "file", FALSE)
        splice(t) == \/ GoesOn([t EXCEPT !.ops["file"].stage = 1], "file")
                     \/ Emit(t, "file", FALSE)
    IN  CASE op.stage = 0 -> SendPart("file", op, splice)
          [] op.aborted \/ op.res = "error" -> fails /\ UNCHANGED sent
          [] op.stage = 1 /\ op.res = "zero" -> Emit(s, "file", FALSE) /\ UNCHANGED sent
          [] op.stage = 1 /\ op.res = "some" ->
                /\ \E n \in 1 .. Chunk :
                    /\ op.off + n <= FileLen
                    /\ GoesOn([s EXCEPT !.ops["file"] = [op EXCEPT !.off = @ + n, !.pipe = n,
                                                                  !.stage = 2]], "file")
                /\ UNCHANGED sent
          [] op.stage = 2 /\ op.res = "zero" -> ZeroSplice /\ Emit(s, "file", TRUE) /\ UNCHANGED sent
          [] OTHER ->
                \E n \in 1 .. op.pipe :
                    LET t == [s EXCEPT !.ops["file"].pipe = @ - n]
                    IN  /\ sent' = sent + n
                        /\ IF op.pipe > n THEN GoesOn(t, "file")
                           ELSE IF op.off < FileLen
                                THEN GoesOn([t EXCEPT !.ops["file"].stage = 1], "file")
                                ELSE Emit(t, "file", TRUE)

(* An ICMP report about an earlier send puts the receive back, unless it   *)
(* was cancelled or finds no entry.                                        *)
CompleteDgramRecv(op) ==
    /\ \/ op.res = "error" /\ ~op.aborted
          /\ \E x \in Queued(s, "recv") :
                IF x.got THEN s' = x.s /\ UNCHANGED batch ELSE Emit(x.s, "recv", FALSE)
       \/ Emit(s, "recv", op.res # "error")
    /\ UNCHANGED sent

CompleteDgramSend(op) == Emit(s, "send", op.res # "error") /\ UNCHANGED sent

(* The owner of a cancelled connect is gone: no event.                     *)
CompleteConnect(op) ==
    /\ IF op.aborted THEN s' = OpFreed(s, "conn") /\ UNCHANGED batch
       ELSE Emit(s, "conn", op.res # "error")
    /\ UNCHANGED sent

Reap(k) ==
    /\ pc = "reap" /\ Room /\ k \in DOMAIN s.ops /\ s.ops[k].at = "cq"
    /\ LET op == s.ops[k]
       IN  CASE k = "accept" -> CompleteAccept(op) [] k = "read" -> CompleteRead(op)
             [] k = "write" -> CompleteWrite(op) [] k = "file" -> CompleteSendfile(op)
             [] k = "recv" -> CompleteDgramRecv(op) [] k = "send" -> CompleteDgramSend(op)
             [] k = "conn" -> CompleteConnect(op)
    /\ UNCHANGED <<pc, relayed, want, life, saturated, refused>>

(* A watch's poll is over; a removed watch goes, a live one is relayed and *)
(* armed again after its callback.                                         *)
ReapWatch(w) ==
    /\ pc = "reap" /\ Room /\ w \in DOMAIN s.watches /\ s.watches[w].at = "cq"
    /\ IF s.watches[w].removed
       THEN s' = [s EXCEPT !.watches = Without(@, w)] /\ UNCHANGED relayed
       ELSE /\ s' = [s EXCEPT !.watches[w].at = "idle", !.watches[w].res = "none"]
            /\ relayed' = (relayed \/ s.watches[w].res = "some")
    /\ UNCHANGED <<pc, batch, want, life, sent, saturated, refused>>

Reaped ==
    /\ pc = "reap" /\ pc' = "dispatch"
    /\ ~Room \/ /\ \A k \in DOMAIN s.ops : s.ops[k].at # "cq"
                /\ \A w \in DOMAIN s.watches : s.watches[w].at # "cq"
    /\ UNCHANGED <<s, batch, relayed, want, life, sent, saturated, refused>>

Dispatch(k) ==
    /\ pc = "dispatch" /\ k \in DOMAIN batch
    /\ batch' = Without(batch, k)
    /\ want' = want \ {k}
    /\ life' = IF k \in Dgram THEN [life EXCEPT !.refs = @ - 1, !.freed = life.refs = 1] ELSE life
    /\ UNCHANGED <<s, pc, relayed, sent, saturated, refused>>

(* The callback, then kl_watcher_rearm for a watch that is still there;    *)
(* what kl_event_mod answers is not looked at.                             *)
DispatchWatcher ==
    /\ pc = "dispatch" /\ relayed /\ relayed' = FALSE
    /\ IF LiveWatch(s) = {} THEN UNCHANGED <<s, refused>>
       ELSE \E w \in LiveWatch(s) : \E x \in Modified(s, w, s.watches[w].mask) :
                s' = x.s /\ refused' = IF x.got THEN refused ELSE "silent"
    /\ UNCHANGED <<pc, batch, want, life, sent, saturated>>

TickEnds ==
    /\ pc = "dispatch" /\ batch = <<>> /\ ~relayed /\ pc' = "user"
    /\ UNCHANGED <<s, batch, relayed, want, life, sent, saturated, refused>>

(* kl_event_close_builtin: the ring goes with what it holds, then the ops  *)
(* with their tokens.                                                      *)
EvClose ==
    /\ pc = "user" /\ pc' = "closed"
    /\ s' = [s EXCEPT !.ops = <<>>, !.sq = <<>>, !.watches = <<>>, !.free = SetToSeq(RegBufs)]
    /\ LET n == Cardinality(DOMAIN s.ops \cap Dgram)
       IN  life' = IF n = 0 THEN life
                   ELSE [life EXCEPT !.refs = @ - n, !.freed = life.refs = n]
    /\ want' = {}
    /\ UNCHANGED <<batch, relayed, sent, saturated, refused>>

Request ==
    \/ PostRecv \/ PostSend \/ PostSendfile \/ PostAccept
    \/ PostDgramRecv \/ PostDgramSend \/ PostConnect
    \/ \E fd \in {"stream", "client"} : Cancel(fd)
    \/ \E k \in Dgram : CancelDgram(k)
    \/ ShutdownAccepts \/ OwnerGone
    \/ \E mask \in {"r", "w"} : EvMod(mask) \/ \E w \in Watches : EvAdd(w, mask)
    \/ EvDel

Tick ==
    \/ Drain \/ (\E k \in Kinds : Reap(k)) \/ (\E w \in Watches : ReapWatch(w)) \/ Reaped
    \/ (\E k \in Kinds : Dispatch(k)) \/ DispatchWatcher \/ TickEnds

Next == Request \/ KernelCompletes \/ Tick \/ EvClose

Spec == Init /\ [][Next]_vars

-----------------------------------------------------------------------------

InSq(what, x) == \E i \in DOMAIN s.sq : s.sq[i] = Entry(what, x)

(* Whoever waits for a completion gets one: an op it waits for is in the   *)
(* submission queue, in the kernel or completed, never tracked with        *)
(* nothing behind it.                                                      *)
Answered ==
    /\ want \subseteq DOMAIN s.ops \union DOMAIN batch
    /\ \A k \in DOMAIN s.ops : s.ops[k].at \in {"kernel", "cq"} \/ InSq("op", k)

(* A cancelled op the kernel may still hold has its cancel queued, or one  *)
(* recorded for the next drain, so that a receive on a quiet socket ends.  *)
CancelArrives ==
    \A k \in DOMAIN s.ops :
        s.ops[k].aborted /\ s.ops[k].at # "cq"
            => s.ops[k].unsent \/ InSq("cancel", k) \/ (k = "accept" /\ saturated)

(* A queued cancel, remove or update names an address; by the time the     *)
(* kernel takes it, it never hits the next op or watch at that address.    *)
HitsItsOwn ==
    \A i \in DOMAIN s.sq : LET e == s.sq[i] IN
        /\ e.what = "op" => e.of \in DOMAIN s.ops
        /\ e.what = "poll" => e.of \in DOMAIN s.watches
        /\ e.what = "cancel" /\ HeldOp(s, e.of) => s.ops[e.of].aborted
        /\ e.what = "remove" /\ HeldPoll(s, e.of) => s.watches[e.of].removed
        /\ \A j \in 1 .. i - 1 : /\ e.what = "cancel" /\ s.sq[j] = Entry("op", e.of)
                                        => s.ops[e.of].aborted
                                 /\ e.what = "remove" /\ s.sq[j] = Entry("poll", e.of)
                                        => s.watches[e.of].removed

(* The descriptor is watched: a live watch is armed with the interest last *)
(* asked for, or its event is about to be dispatched, which arms it again; *)
(* unless a change of interest found no submission entry.                  *)
Watched ==
    refused = "no" => \A w \in LiveWatch(s) :
        /\ s.watches[w].at = "idle" => relayed
        /\ s.watches[w].at = "kernel" /\ ~InSq("update", w) => s.watches[w].polled = s.watches[w].mask

(* "calls on_ready, re-arms for one-shot backends, and returns 1" (the     *)
(* comment of kl_event_dispatch in include/keel/event_ctx.h): after a      *)
(* watcher's callback the watch it still wants is armed, unless a caller   *)
(* was told that its own change failed.                                    *)
RearmedAfterCallback ==
    refused # "told" => \A w \in LiveWatch(s) : s.watches[w].at = "idle" => relayed

(* A removed watch still has the completion coming that frees it.          *)
RemovedGoes ==
    \A w \in DOMAIN s.watches : s.watches[w].removed =>
        s.watches[w].at = "cq" \/ s.watches[w].unsent \/ InSq("remove", w)

(* Each registered buffer is free or lent to one op.                       *)
BuffersConserved ==
    /\ IsInjective(s.free)
    /\ LET lent == {k \in DOMAIN s.ops : s.ops[k].reg # NoBuf}
       IN  /\ {s.ops[k].reg : k \in lent} \union ToSet(s.free) = RegBufs
           /\ Len(s.free) + Cardinality(lent) = Cardinality(RegBufs)

(* Every reference on the datagram's token has a holder.                   *)
TokenHeld ==
    /\ life.refs = (IF life.owned THEN 1 ELSE 0) + Cardinality(DOMAIN s.ops \cap Dgram)
                     + Cardinality(DOMAIN batch \cap Dgram)
    /\ life.freed <=> life.refs = 0

(* A write is reported done only when the socket took all of it.           *)
WholeWrites ==
    \A k \in DOMAIN batch \cap Sends :
        batch[k] => sent = IF k = "write" THEN HeadLen ELSE HeadLen + FileLen
=============================================================================
