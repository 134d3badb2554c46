----------------------------- MODULE MCBackends ------------------------------
(****************************************************************************)
(* The platform layer, checked side by side: the event context, the         *)
(* completion backends, pipe streams, the two write buffers, and the UEFI   *)
(* and lwIP integrations. A behaviour is one of one component: part, chosen *)
(* at the start, says which, and x1 .. x14 hold that component's variables  *)
(* in the order it declares them; the rest are 0.                           *)
(****************************************************************************)
EXTENDS Naturals, Sequences, FiniteSets, TLC

CONSTANTS f1, f2, f3, n1, n2, n3, n4, none, b1, w1, w2, s1, s2, c1, c2, d1, d2

VARIABLES part, x1, x2, x3, x4, x5, x6, x7, x8, x9, x10, x11, x12, x13, x14

vars == <<part, x1, x2, x3, x4, x5, x6, x7, x8, x9, x10, x11, x12, x13, x14>>

------------------------------------------------------------------------------
(* The instances. *)

\* The event context over any readiness backend.
E == INSTANCE EventCtx WITH Fds <- {f1, f2, f3}, Nodes <- {n1, n2, n3, n4}, NoFd <- none,
          MaxDepth <- 2, fd <- x1, retired <- x2, depth <- x3, dirty <- x4, armed <- x5, connecting <-
          x6, stack <- x7, stale <- x8, foreign <- x9
\* Timers over a moving clock and nested calls; UINT64_MAX is a timer that never fires.
R == INSTANCE Timer WITH U64Max <- 2, MaxTime <- 1, MaxId <- 4, MaxCalls <- 2, IntMax <- 1,
          timers <- x1, next_id <- x2, now <- x3, calls <- x4
\* A heap of seven, where the last entry may belong above the hole of a cancelled one.
R2 == INSTANCE Timer WITH U64Max <- 1, MaxTime <- 0, MaxId <- 7, MaxCalls <- 1, IntMax <- 1,
          timers <- x1, next_id <- x2, now <- x3, calls <- x4
\* The completion backends: portable, io_uring, IOCP.
P1 == INSTANCE PollComp WITH Kinds <- {"write", "send", "conn"}, Fds <- {w1}, HeadLen <- 2,
          FileLen <- 1, MaxEvents <- 2, Oom <- FALSE, ops <- x1, watches <- x2, primed <- x3, pc <-
          x4, todo <- x5, fired <- x6, batch <- x7, relayed <- x8, want <- x9, life <- x10, sent <-
          x11, open <- x12
P2 == INSTANCE PollComp WITH Kinds <- {"file", "recv", "accept"}, Fds <- {}, HeadLen <- 2,
          FileLen <- 1, MaxEvents <- 2, Oom <- FALSE, ops <- x1, watches <- x2, primed <- x3, pc <-
          x4, todo <- x5, fired <- x6, batch <- x7, relayed <- x8, want <- x9, life <- x10, sent <-
          x11, open <- x12
P3 == INSTANCE PollComp WITH Kinds <- {"read", "recv", "send"}, Fds <- {w1}, HeadLen <- 2,
          FileLen <- 1, MaxEvents <- 2, Oom <- FALSE, ops <- x1, watches <- x2, primed <- x3, pc <-
          x4, todo <- x5, fired <- x6, batch <- x7, relayed <- x8, want <- x9, life <- x10, sent <-
          x11, open <- x12
P4 == INSTANCE PollComp WITH Kinds <- {"write"}, Fds <- {}, HeadLen <- 2, FileLen <- 1,
          MaxEvents <- 2, Oom <- TRUE, ops <- x1, watches <- x2, primed <- x3, pc <- x4, todo <- x5,
          fired <- x6, batch <- x7, relayed <- x8, want <- x9, life <- x10, sent <- x11, open <- x12
U1 == INSTANCE IoUring WITH Kinds <- {"write", "recv"}, Watches <- {}, SqLen <- 2, RegBufs
          <- {b1}, HeadLen <- 2, FileLen <- 2, Chunk <- 1, MaxEvents <- 2, ZeroSplice <- FALSE, s <-
          x1, pc <- x2, batch <- x3, relayed <- x4, want <- x5, life <- x6, sent <- x7, saturated <-
          x8, refused <- x9
U2 == INSTANCE IoUring WITH Kinds <- {"file", "accept"}, Watches <- {}, SqLen <- 1, RegBufs
          <- {b1}, HeadLen <- 2, FileLen <- 2, Chunk <- 1, MaxEvents <- 2, ZeroSplice <- FALSE, s <-
          x1, pc <- x2, batch <- x3, relayed <- x4, want <- x5, life <- x6, sent <- x7, saturated <-
          x8, refused <- x9
U3 == INSTANCE IoUring WITH Kinds <- {"read", "send"}, Watches <- {}, SqLen <- 1, RegBufs <-
          {b1}, HeadLen <- 2, FileLen <- 2, Chunk <- 1, MaxEvents <- 2, ZeroSplice <- FALSE, s <- x1,
          pc <- x2, batch <- x3, relayed <- x4, want <- x5, life <- x6, sent <- x7, saturated <- x8,
          refused <- x9
U4 == INSTANCE IoUring WITH Kinds <- {"conn"}, Watches <- {w1}, SqLen <- 1, RegBufs <- {b1},
          HeadLen <- 2, FileLen <- 2, Chunk <- 1, MaxEvents <- 2, ZeroSplice <- FALSE, s <- x1, pc <-
          x2, batch <- x3, relayed <- x4, want <- x5, life <- x6, sent <- x7, saturated <- x8, refused
          <- x9
U5 == INSTANCE IoUring WITH Kinds <- {}, Watches <- {w1, w2}, SqLen <- 1, RegBufs <- {b1},
          HeadLen <- 2, FileLen <- 2, Chunk <- 1, MaxEvents <- 2, ZeroSplice <- FALSE, s <- x1, pc <-
          x2, batch <- x3, relayed <- x4, want <- x5, life <- x6, sent <- x7, saturated <- x8, refused
          <- x9
U6 == INSTANCE IoUring WITH Kinds <- {"file"}, Watches <- {}, SqLen <- 1, RegBufs <- {b1},
          HeadLen <- 2, FileLen <- 2, Chunk <- 1, MaxEvents <- 2, ZeroSplice <- TRUE, s <- x1, pc <-
          x2, batch <- x3, relayed <- x4, want <- x5, life <- x6, sent <- x7, saturated <- x8, refused
          <- x9
O1 == INSTANCE Iocp WITH Kinds <- {"write", "recv"}, Probes <- {}, HeadLen <- 2, FileLen <-
          2, Chunk <- 1, MaxEvents <- 2, NoProbe <- none, ops <- x1, kern <- x2, port <- x3, watch <-
          x4, quiescing <- x5, pc <- x6, todo <- x7, batch <- x8, relayed <- x9, want <- x10, life <-
          x11, sent <- x12, closing <- x13, socks <- x14
O2 == INSTANCE Iocp WITH Kinds <- {"file", "accept"}, Probes <- {}, HeadLen <- 2, FileLen <-
          2, Chunk <- 1, MaxEvents <- 2, NoProbe <- none, ops <- x1, kern <- x2, port <- x3, watch <-
          x4, quiescing <- x5, pc <- x6, todo <- x7, batch <- x8, relayed <- x9, want <- x10, life <-
          x11, sent <- x12, closing <- x13, socks <- x14
O3 == INSTANCE Iocp WITH Kinds <- {"read", "conn", "send"}, Probes <- {}, HeadLen <- 2,
          FileLen <- 2, Chunk <- 1, MaxEvents <- 2, NoProbe <- none, ops <- x1, kern <- x2, port <-
          x3, watch <- x4, quiescing <- x5, pc <- x6, todo <- x7, batch <- x8, relayed <- x9, want <-
          x10, life <- x11, sent <- x12, closing <- x13, socks <- x14
O4 == INSTANCE Iocp WITH Kinds <- {"pread", "pwrite"}, Probes <- {}, HeadLen <- 2, FileLen
          <- 2, Chunk <- 1, MaxEvents <- 2, NoProbe <- none, ops <- x1, kern <- x2, port <- x3, watch
          <- x4, quiescing <- x5, pc <- x6, todo <- x7, batch <- x8, relayed <- x9, want <- x10, life
          <- x11, sent <- x12, closing <- x13, socks <- x14
O5 == INSTANCE Iocp WITH Kinds <- {"paccept"}, Probes <- {}, HeadLen <- 2, FileLen <- 2,
          Chunk <- 1, MaxEvents <- 2, NoProbe <- none, ops <- x1, kern <- x2, port <- x3, watch <- x4,
          quiescing <- x5, pc <- x6, todo <- x7, batch <- x8, relayed <- x9, want <- x10, life <- x11,
          sent <- x12, closing <- x13, socks <- x14
O6 == INSTANCE Iocp WITH Kinds <- {}, Probes <- {w1, w2}, HeadLen <- 2, FileLen <- 2, Chunk
          <- 1, MaxEvents <- 2, NoProbe <- none, ops <- x1, kern <- x2, port <- x3, watch <- x4,
          quiescing <- x5, pc <- x6, todo <- x7, batch <- x8, relayed <- x9, want <- x10, life <- x11,
          sent <- x12, closing <- x13, socks <- x14
\* Pipe streams of every shape; two behind a listener.
S1 == INSTANCE PipeStream WITH Streams <- {s1}, Models <- {"duplex", "reads", "writes",
          "rdreads", "rdwrites"}, WCap <- 2, Window <- 0, HeldFree <- FALSE, pipe <- x1, lst <- x2
S2 == INSTANCE PipeStream WITH Streams <- {s1, s2}, Models <- {}, WCap <- 1, Window <- 2,
          HeldFree <- FALSE, pipe <- x1, lst <- x2
\* The write buffer: without a limit, limited, preallocated.
B1 == INSTANCE Drain WITH Fixed <- FALSE, InitCap <- 1, MaxSize <- 0, SizeMax <- 6, LowWater
          <- 1, MaxWrite <- 3, MaxBytes <- 7, buf <- x1, cap <- x2, error <- x3, wire <- x4, taken <-
          x5
B2 == INSTANCE Drain WITH Fixed <- FALSE, InitCap <- 1, MaxSize <- 3, SizeMax <- 7, LowWater
          <- 1, MaxWrite <- 3, MaxBytes <- 7, buf <- x1, cap <- x2, error <- x3, wire <- x4, taken <-
          x5
B3 == INSTANCE Drain WITH Fixed <- TRUE, InitCap <- 1, MaxSize <- 3, SizeMax <- 7, LowWater
          <- 1, MaxWrite <- 3, MaxBytes <- 8, buf <- x1, cap <- x2, error <- x3, wire <- x4, taken <-
          x5
\* The output queue of a completion-mode connection.
Q == INSTANCE CompQueue WITH Chunk <- 2, PostMax <- 3, QueueMax <- 3, MaxWrite <- 3,
          MaxBytes <- 8, Doublings <- 3, q <- x1, resp <- x2, wire <- x3, closing <- x4
\* UEFI: a server, more Accept tokens than connections, clients.
T1 == INSTANCE EfiTcp WITH NSlots <- 2, GenMax <- 3, Backlog <- 1, PoolCap <- 1, NIo <- 2,
          Total <- 2, MaxEvents <- 2, Serving <- TRUE, Clients <- {}, Hangs <- {"rx", "tx", "close"},
          net <- x1, ev <- x2, batch <- x3, conn <- x4, cli <- x5, wire <- x6, ebs <- x7
T2 == INSTANCE EfiTcp WITH NSlots <- 2, GenMax <- 3, Backlog <- 2, PoolCap <- 1, NIo <- 2,
          Total <- 1, MaxEvents <- 2, Serving <- TRUE, Clients <- {}, Hangs <- {"rx", "tx", "close"},
          net <- x1, ev <- x2, batch <- x3, conn <- x4, cli <- x5, wire <- x6, ebs <- x7
T3 == INSTANCE EfiTcp WITH NSlots <- 2, GenMax <- 3, Backlog <- 1, PoolCap <- 1, NIo <- 2,
          Total <- 1, MaxEvents <- 2, Serving <- FALSE, Clients <- {c1, c2}, Hangs <- {"rx", "tx",
          "close", "conn"}, net <- x1, ev <- x2, batch <- x3, conn <- x4, cli <- x5, wire <- x6, ebs
          <- x7
G1 == INSTANCE EfiUdp WITH NSlots <- 1, GenMax <- 3, Owners <- {d1, d2}, NOps <- 3, MaxSends
          <- 2, MaxEvents <- 2, Hangs <- {"rx", "tx"}, Unbound <- {}, Abandons <- FALSE, NoOwner <-
          none, slot <- x1, ops <- x2, refs <- x3, dg <- x4, batch <- x5, up <- x6
G2 == INSTANCE EfiUdp WITH NSlots <- 2, GenMax <- 1, Owners <- {d1}, NOps <- 3, MaxSends <-
          2, MaxEvents <- 2, Hangs <- {"rx", "tx"}, Unbound <- {d1}, Abandons <- TRUE, NoOwner <- none,
          slot <- x1, ops <- x2, refs <- x3, dg <- x4, batch <- x5, up <- x6
\* lwIP: a server, a client, both at once.
L1 == INSTANCE LwipRaw WITH NSlots <- 1, Pcbs <- {1, 2}, GenMod <- 2, Clients <- {}, Serving
          <- TRUE, RxMax <- 2, Cap <- 1, SndBuf <- 2, Total <- 2, MaxEvents <- 2, NoClient <- none,
          slot <- x1, tcp <- x2, pool <- x3, pc <- x4, batch <- x5, hold <- x6, cl <- x7, out <- x8
L4 == INSTANCE LwipRaw WITH NSlots <- 1, Pcbs <- {1, 2}, GenMod <- 2, Clients <- {}, Serving
          <- TRUE, RxMax <- 2, Cap <- 1, SndBuf <- 1, Total <- 0, MaxEvents <- 2, NoClient <- none,
          slot <- x1, tcp <- x2, pool <- x3, pc <- x4, batch <- x5, hold <- x6, cl <- x7, out <- x8
L2 == INSTANCE LwipRaw WITH NSlots <- 2, Pcbs <- {1, 2}, GenMod <- 2, Clients <- {c1},
          Serving <- FALSE, RxMax <- 2, Cap <- 1, SndBuf <- 1, Total <- 1, MaxEvents <- 2, NoClient <-
          none, slot <- x1, tcp <- x2, pool <- x3, pc <- x4, batch <- x5, hold <- x6, cl <- x7, out <-
          x8
L3 == INSTANCE LwipRaw WITH NSlots <- 1, Pcbs <- {1, 2}, GenMod <- 2, Clients <- {c1},
          Serving <- TRUE, RxMax <- 2, Cap <- 1, SndBuf <- 1, Total <- 1, MaxEvents <- 2, NoClient <-
          none, slot <- x1, tcp <- x2, pool <- x3, pc <- x4, batch <- x5, hold <- x6, cl <- x7, out <-
          x8
M == INSTANCE LwipUdp WITH NSlots <- 2, Owners <- {d1, d2}, Ring <- 2, InFlight <- 1,
          MaxEvents <- 2, None <- none, slot <- x1, term <- x2, refs <- x3, dg <- x4, batch <- x5, up
          <- x6

ASSUME /\ E!EventAssumption /\ R!TimerAssumption /\ R!Q!QueueAssumption
       /\ R2!TimerAssumption /\ R2!Q!QueueAssumption
       /\ B1!DrainAssumption /\ B2!DrainAssumption /\ B3!DrainAssumption

\* Used by the event context only.
Symmetry == Permutations({f1, f2, f3}) \cup Permutations({n1, n2, n3, n4})

------------------------------------------------------------------------------
(* Their union. *)

from13 == <<x13, x14>>
Off13 == x13 = 0 /\ x14 = 0
from10 == <<x10, x11, x12, x13, x14>>
Off10 == x10 = 0 /\ x11 = 0 /\ x12 = 0 /\ Off13
from9 == <<x9, x10, x11, x12, x13, x14>>
Off9 == x9 = 0 /\ Off10
from8 == <<x8, x9, x10, x11, x12, x13, x14>>
Off8 == x8 = 0 /\ Off9
from7 == <<x7, x8, x9, x10, x11, x12, x13, x14>>
Off7 == x7 = 0 /\ Off8
from6 == <<x6, x7, x8, x9, x10, x11, x12, x13, x14>>
Off6 == x6 = 0 /\ Off7
from5 == <<x5, x6, x7, x8, x9, x10, x11, x12, x13, x14>>
Off5 == x5 = 0 /\ Off6
from3 == <<x3, x4, x5, x6, x7, x8, x9, x10, x11, x12, x13, x14>>
Off3 == x3 = 0 /\ x4 = 0 /\ Off5

Init ==
    \/ part = "events" /\ E!Init /\ Off10
    \/ part = "timers" /\ R!Init /\ Off5
    \/ part = "timer heap" /\ R2!Init /\ Off5
    \/ part = "poll a" /\ P1!Init /\ Off13
    \/ part = "poll b" /\ P2!Init /\ Off13
    \/ part = "poll c" /\ P3!Init /\ Off13
    \/ part = "poll oom" /\ P4!Init /\ Off13
    \/ part = "uring a" /\ U1!Init /\ Off10
    \/ part = "uring b" /\ U2!Init /\ Off10
    \/ part = "uring c" /\ U3!Init /\ Off10
    \/ part = "uring d" /\ U4!Init /\ Off10
    \/ part = "uring e" /\ U5!Init /\ Off10
    \/ part = "uring zero" /\ U6!Init /\ Off10
    \/ part = "iocp a" /\ O1!Init
    \/ part = "iocp b" /\ O2!Init
    \/ part = "iocp c" /\ O3!Init
    \/ part = "iocp d" /\ O4!Init
    \/ part = "iocp e" /\ O5!Init
    \/ part = "iocp f" /\ O6!Init
    \/ part = "pipes" /\ S1!Init /\ Off3
    \/ part = "pipe listener" /\ S2!Init /\ Off3
    \/ part = "drain" /\ B1!Init /\ Off6
    \/ part = "drain limited" /\ B2!Init /\ Off6
    \/ part = "drain fixed" /\ B3!Init /\ Off6
    \/ part = "queue" /\ Q!Init /\ Off5
    \/ part = "efi server" /\ T1!Init /\ Off8
    \/ part = "efi accepts" /\ T2!Init /\ Off8
    \/ part = "efi clients" /\ T3!Init /\ Off8
    \/ part = "efi udp" /\ G1!Init /\ Off7
    \/ part = "efi udp abandon" /\ G2!Init /\ Off7
    \/ part = "lwip server" /\ L1!Init /\ Off9
    \/ part = "lwip empty" /\ L4!Init /\ Off9
    \/ part = "lwip client" /\ L2!Init /\ Off9
    \/ part = "lwip both" /\ L3!Init /\ Off9
    \/ part = "lwip udp" /\ M!Init /\ Off7

\* A step A of the part p.
Step2(p, A) == part = p /\ A /\ UNCHANGED <<part, from3>>
Step4(p, A) == part = p /\ A /\ UNCHANGED <<part, from5>>
Step5(p, A) == part = p /\ A /\ UNCHANGED <<part, from6>>
Step6(p, A) == part = p /\ A /\ UNCHANGED <<part, from7>>
Step7(p, A) == part = p /\ A /\ UNCHANGED <<part, from8>>
Step8(p, A) == part = p /\ A /\ UNCHANGED <<part, from9>>
Step9(p, A) == part = p /\ A /\ UNCHANGED <<part, from10>>
Step12(p, A) == part = p /\ A /\ UNCHANGED <<part, from13>>
Step14(p, A) == part = p /\ A /\ UNCHANGED part

Events == Step9("events", E!Next)
Timers == Step4("timers", R!Next)
TimerHeap == Step4("timer heap", R2!Next)
PollA == Step12("poll a", P1!Next)
PollB == Step12("poll b", P2!Next)
PollC == Step12("poll c", P3!Next)
PollOom == Step12("poll oom", P4!Next)
UringA == Step9("uring a", U1!Next)
UringB == Step9("uring b", U2!Next)
UringC == Step9("uring c", U3!Next)
UringD == Step9("uring d", U4!Next)
UringE == Step9("uring e", U5!Next)
UringZero == Step9("uring zero", U6!Next)
IocpA == Step14("iocp a", O1!Next)
IocpB == Step14("iocp b", O2!Next)
IocpC == Step14("iocp c", O3!Next)
IocpD == Step14("iocp d", O4!Next)
IocpE == Step14("iocp e", O5!Next)
IocpF == Step14("iocp f", O6!Next)
Pipes == Step2("pipes", S1!Next)
PipeListener == Step2("pipe listener", S2!Next)
Drain == Step5("drain", B1!Next)
DrainLimited == Step5("drain limited", B2!Next)
DrainFixed == Step5("drain fixed", B3!Next)
Queue == Step4("queue", Q!Next)
EfiServer == Step7("efi server", T1!Next)
EfiAccepts == Step7("efi accepts", T2!Next)
EfiClients == Step7("efi clients", T3!Next)
EfiUdp == Step6("efi udp", G1!Next)
EfiUdpAbandon == Step6("efi udp abandon", G2!Next)
LwipServer == Step8("lwip server", L1!Next)
LwipEmpty == Step8("lwip empty", L4!Next)
LwipClient == Step8("lwip client", L2!Next)
LwipBoth == Step8("lwip both", L3!Next)
LwipUdp == Step6("lwip udp", M!Next)

Next == Events \/ Timers \/ TimerHeap \/ PollA \/ PollB \/ PollC \/ PollOom \/ UringA \/ UringB \/
        UringC \/ UringD \/ UringE \/ UringZero \/ IocpA \/ IocpB \/ IocpC \/ IocpD \/ IocpE \/
        IocpF \/ Pipes \/ PipeListener \/ Drain \/ DrainLimited \/ DrainFixed \/ Queue \/
        EfiServer \/ EfiAccepts \/ EfiClients \/ EfiUdp \/ EfiUdpAbandon \/ LwipServer \/
        LwipEmpty \/ LwipClient \/ LwipBoth \/ LwipUdp

Spec == Init /\ [][Next]_vars

------------------------------------------------------------------------------
(* Properties. *)

\* An event drained for a watcher that was deleted meanwhile never reaches another one at the
\* same address, and a callback that touches only its own watcher leaves it armed.
WatchersKept == part = "events" => E!NoStaleDispatch /\ E!OwnWatcherArmed

\* Whoever posted an operation gets exactly one completion: it is pending, in the kernel or the
\* firmware, completed and not yet drained, or drained and not yet dispatched, through partial
\* progress, cancellation, a dead connection and a full queue.  (A pipe's read side that ended
\* has said so, once.)
Answered ==
    /\ part = "poll a" => P1!Answered
    /\ part = "poll b" => P2!Answered
    /\ part = "poll c" => P3!Answered
    /\ part = "uring a" => U1!Answered
    /\ part = "uring b" => U2!Answered
    /\ part = "uring c" => U3!Answered
    /\ part = "uring d" => U4!Answered
    /\ part = "uring e" => U5!Answered
    /\ part = "uring zero" => U6!Answered
    /\ part = "iocp a" => O1!Answered
    /\ part = "iocp b" => O2!Answered
    /\ part = "iocp c" => O3!Answered
    /\ part = "iocp d" => O4!Answered
    /\ part = "iocp e" => O5!Answered
    /\ part = "iocp f" => O6!Answered
    /\ part = "pipes" => S1!NoSilentEnd
    /\ part = "pipe listener" => S2!NoSilentEnd
    /\ part = "efi server" => T1!Answered
    /\ part = "efi accepts" => T2!Answered
    /\ part = "efi clients" => T3!Answered
    /\ part = "efi udp" => G1!Answered
    /\ part = "efi udp abandon" => G2!Answered
    /\ part = "lwip server" => L1!Answered
    /\ part = "lwip empty" => L4!Answered
    /\ part = "lwip client" => L2!Answered
    /\ part = "lwip both" => L3!Answered
    /\ part = "lwip udp" => M!Answered

\* Storage is held exactly as long as something outside the program, or a completion on its way,
\* may touch it: the tokens' references count their holders, an overlapped op is not freed while
\* the port names it, firmware tokens are remembered until they are reconciled, a pipe goes with
\* its last reference, a queued io_uring request never hits the next op at the address it names.
StorageHeld ==
    /\ part = "poll a" => P1!TokenHeld
    /\ part = "poll b" => P2!TokenHeld
    /\ part = "poll c" => P3!TokenHeld
    /\ part = "uring a" => U1!TokenHeld /\ U1!HitsItsOwn
    /\ part = "uring b" => U2!TokenHeld /\ U2!HitsItsOwn
    /\ part = "uring c" => U3!TokenHeld /\ U3!HitsItsOwn
    /\ part = "uring d" => U4!TokenHeld /\ U4!HitsItsOwn
    /\ part = "uring e" => U5!TokenHeld /\ U5!HitsItsOwn
    /\ part = "uring zero" => U6!TokenHeld /\ U6!HitsItsOwn
    /\ part = "iocp a" => O1!TokenHeld /\ O1!OwnedUntilDequeued /\ O1!AcceptSocketsOwned
    /\ part = "iocp b" => O2!TokenHeld /\ O2!OwnedUntilDequeued /\ O2!AcceptSocketsOwned
    /\ part = "iocp c" => O3!TokenHeld /\ O3!OwnedUntilDequeued /\ O3!AcceptSocketsOwned
    /\ part = "iocp d" => O4!TokenHeld /\ O4!OwnedUntilDequeued /\ O4!AcceptSocketsOwned
    /\ part = "iocp e" => O5!TokenHeld /\ O5!OwnedUntilDequeued /\ O5!AcceptSocketsOwned
    /\ part = "iocp f" => O6!TokenHeld /\ O6!OwnedUntilDequeued /\ O6!AcceptSocketsOwned
    /\ part = "pipes" => S1!ReclaimedExactly /\ S1!NoUseAfterFinal
    /\ part = "pipe listener" => S2!ReclaimedExactly /\ S2!NoUseAfterFinal
    /\ part = "efi server" => T1!TokensReconciled /\ T1!AcceptStorageKept
    /\ part = "efi accepts" => T2!TokensReconciled /\ T2!AcceptStorageKept
    /\ part = "efi clients" => T3!TokensReconciled /\ T3!AcceptStorageKept
    /\ part = "efi udp" => G1!TokensReconciled /\ G1!StoragePinned
    /\ part = "efi udp abandon" => G2!TokensReconciled /\ G2!StoragePinned
    /\ part = "lwip server" => L1!PcbsMatch /\ L1!ClientKeepsItsOwn
    /\ part = "lwip empty" => L4!PcbsMatch /\ L4!ClientKeepsItsOwn
    /\ part = "lwip client" => L2!PcbsMatch /\ L2!ClientKeepsItsOwn
    /\ part = "lwip both" => L3!PcbsMatch /\ L3!ClientKeepsItsOwn
    /\ part = "lwip udp" => M!TokenHeld

\* Bytes leave in order, each once, and a write is reported done only when all of it went out,
\* however the kernel cuts it; the buffers behind it hold what they claim.
BytesInOrder ==
    /\ part = "poll a" => P1!WholeWrites
    /\ part = "poll b" => P2!WholeWrites
    /\ part = "poll c" => P3!WholeWrites
    /\ part = "poll oom" => P4!WholeWrites
    /\ part = "uring a" => U1!WholeWrites
    /\ part = "uring b" => U2!WholeWrites
    /\ part = "uring c" => U3!WholeWrites
    /\ part = "uring d" => U4!WholeWrites
    /\ part = "uring e" => U5!WholeWrites
    /\ part = "iocp a" => O1!WholeWrites
    /\ part = "iocp b" => O2!WholeWrites
    /\ part = "iocp c" => O3!WholeWrites
    /\ part = "iocp d" => O4!WholeWrites
    /\ part = "iocp e" => O5!WholeWrites
    /\ part = "iocp f" => O6!WholeWrites
    /\ part = "drain" => B1!NoGap /\ B1!FitsBuffer
    /\ part = "drain limited" => B2!NoGap /\ B2!FitsBuffer
    /\ part = "drain fixed" => B3!NoGap /\ B3!FitsBuffer
    /\ part = "queue" => Q!InFlightIntact /\ Q!QueueInOrder /\ Q!WireInOrder /\ Q!MarkAhead
    /\ part = "efi server" => T1!WholeWrites
    /\ part = "efi accepts" => T2!WholeWrites
    /\ part = "efi clients" => T3!WholeWrites
    /\ part = "lwip server" => L1!WholeWrites
    /\ part = "lwip empty" => L4!WholeWrites
    /\ part = "lwip client" => L2!WholeWrites
    /\ part = "lwip both" => L3!WholeWrites

\* What was asked for arrives: a cancel is in the kernel, queued or recorded for the next drain
\* and is not undone by a repost, a live watch is armed or about to be, a removed one is freed,
\* queued output and an armed receive of a pipe have an op or an interest behind them.
WorkIsComing ==
    /\ part = "uring a" => U1!CancelArrives /\ U1!Watched /\ U1!RemovedGoes
    /\ part = "uring b" => U2!CancelArrives /\ U2!Watched /\ U2!RemovedGoes
    /\ part = "uring c" => U3!CancelArrives /\ U3!Watched /\ U3!RemovedGoes
    /\ part = "uring d" => U4!CancelArrives /\ U4!Watched /\ U4!RemovedGoes
    /\ part = "uring e" => U5!CancelArrives /\ U5!Watched /\ U5!RemovedGoes
    /\ part = "uring zero" => U6!CancelArrives /\ U6!Watched /\ U6!RemovedGoes
    /\ part = "iocp a" => O1!CancelHolds /\ O1!Watched
    /\ part = "iocp b" => O2!CancelHolds /\ O2!Watched
    /\ part = "iocp c" => O3!CancelHolds /\ O3!Watched
    /\ part = "iocp d" => O4!CancelHolds /\ O4!Watched
    /\ part = "iocp e" => O5!CancelHolds /\ O5!Watched
    /\ part = "iocp f" => O6!CancelHolds /\ O6!Watched
    /\ part = "pipes" => S1!WorkIsComing
    /\ part = "pipe listener" => S2!WorkIsComing

\* Limited resources are conserved: registered buffers are free or lent once, posted accepts fit
\* the connections that are free, a pipe listener counts its connects, the receive window is
\* given back for exactly the bytes delivered, and nothing stale is kept for a later receive.
ResourcesConserved ==
    /\ part = "uring a" => U1!BuffersConserved
    /\ part = "uring b" => U2!BuffersConserved
    /\ part = "uring c" => U3!BuffersConserved
    /\ part = "uring d" => U4!BuffersConserved
    /\ part = "uring e" => U5!BuffersConserved
    /\ part = "uring zero" => U6!BuffersConserved
    /\ part = "pipes" => S1!ListenerCounts
    /\ part = "pipe listener" => S2!ListenerCounts
    /\ part = "efi server" => T1!AcceptsFit
    /\ part = "efi accepts" => T2!AcceptsFit
    /\ part = "efi clients" => T3!AcceptsFit
    /\ part = "efi udp" => G1!DetachedIsClean
    /\ part = "efi udp abandon" => G2!DetachedIsClean
    /\ part = "lwip server" => L1!WindowReturned
    /\ part = "lwip empty" => L4!WindowReturned
    /\ part = "lwip client" => L2!WindowReturned
    /\ part = "lwip both" => L3!WindowReturned
    /\ part = "lwip udp" => M!NothingStale

\* The timer heap takes the steps of TimerQueue, a set of pending timers of which the earliest
\* due one fires, whatever is added or cancelled from inside the callbacks; every step leaves the
\* array in heap order, the hole of a cancelled timer filled from another branch included.
RefinesQueue ==
    /\ part = "timers" => R!Q!Init
    /\ part = "timer heap" => R2!Q!Init
    /\ [][/\ part = "timers" => [R!Q!Next]_(R!Q!vars) /\ R!HeapOrdered'
          /\ part = "timer heap" => [R2!Q!Next]_(R2!Q!vars) /\ R2!HeapOrdered']_vars

\* The loop never sleeps past a timer nor spins while none is due; a call that stops at a new
\* timer has fired every older one that was due when it began, and fires no more than there were;
\* no deadline lies in the past, whatever the delay.
TimersOnTime ==
    [][part = "timers" => /\ R!NeverOversleeps' /\ R!CallIsBounded'
                          /\ R!Q!FiringStep /\ R!Q!DeadlineStep]_vars
==============================================================================
