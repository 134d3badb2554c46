------------------------------- MODULE MCCore --------------------------------
(****************************************************************************)
(* The thread pool, connect operations and listeners, checked side by side. *)
(* A behaviour is one of one component: part, chosen at the start, says     *)
(* which, and x1 .. x8 hold that component's variables in the order it      *)
(* declares them; the rest are 0.                                           *)
(****************************************************************************)
EXTENDS Naturals, Sequences, FiniteSets

CONSTANTS w1, w2, i1, i2, i3, i4, None

VARIABLES part, x1, x2, x3, x4, x5, x6, x7, x8

vars == <<part, x1, x2, x3, x4, x5, x6, x7, x8>>

------------------------------------------------------------------------------
(* The instances. *)

\* Two workers, a queue of one beyond them, and one item more than is admitted.
T == INSTANCE ThreadPool WITH Workers <- {w1, w2}, Items <- {i1, i2, i3, i4}, QueueCap <- 1,
          None <- None, pool <- x1, work_queue <- x2, done_queue <- x3, pipe <- x4, loop <- x5, pc <-
          x6, job <- x7, fate <- x8
\* Three addresses: a winner, a racing loser and one not yet started.
C == INSTANCE ConnectOp WITH N <- 3, MaxSpurious <- 1, op <- x1, stack <- x2, prov <- x3
\* Windows of 1 to 3 against 3 credits: both the window and the pool run out.
L == INSTANCE Listener WITH Credits <- 3, MaxWindow <- 3, MaxSpurious <- 1, l <- x1, stack
          <- x2, pool <- x3, prov <- x4

ASSUME T!PoolAssumption /\ C!ConnectAssumption /\ L!ListenerAssumption

------------------------------------------------------------------------------
(* Their union. *)

from5 == <<x5, x6, x7, x8>>
Off5 == x5 = 0 /\ x6 = 0 /\ x7 = 0 /\ x8 = 0
from4 == <<x4, x5, x6, x7, x8>>
Off4 == x4 = 0 /\ Off5

Init ==
    \/ part = "thread pool" /\ T!Init
    \/ part = "connect" /\ C!Init /\ Off4
    \/ part = "listener" /\ L!Init /\ Off5

\* A step A of the part p.
Step3(p, A) == part = p /\ A /\ UNCHANGED <<part, from4>>
Step4(p, A) == part = p /\ A /\ UNCHANGED <<part, from5>>
Step8(p, A) == part = p /\ A /\ UNCHANGED part

ThreadPool == Step8("thread pool", T!Next)
Connect == Step3("connect", C!Next)
Listener == Step4("listener", L!Next)

Next == ThreadPool \/ Connect \/ Listener

\* The fairness of each component (Fairness of ThreadPool and ConnectOp, FairSpec of Listener).
Fairness ==
    /\ WF_vars(Step8("thread pool", T!LoopThread))
    /\ \A w \in {w1, w2} : WF_vars(Step8("thread pool", T!Worker(w)))
    /\ WF_vars(Step3("connect", C!Returns))
    /\ WF_vars(Step3("connect", C!Idle /\ C!Resolved))
    /\ WF_vars(Step3("connect", C!Idle /\ C!Attempted))
    /\ WF_vars(Step4("listener", L!Returns))
    /\ WF_vars(Step4("listener", L!CancelledAccepts))

Spec == Init /\ [][Next]_vars /\ Fairness

------------------------------------------------------------------------------
(* Properties. *)

\* When on_detach or on_close has run, no operation, accept or timer can still reach the object,
\* and it never runs on top of another hook's frame: its owner may free it there.
CloseDiscipline ==
    /\ part = "connect" => C!CloseDiscipline
    /\ part = "listener" => L!CloseDiscipline

\* Every connected descriptor, accepted value and credit has exactly one owner, stragglers,
\* duplicates and nested completions included; neither ring of the pool overflows.
EverythingOwned ==
    /\ part = "connect" => C!EveryDescriptorOwned
    /\ part = "listener" => L!EveryValueOwned /\ L!CreditsConserved
    /\ part = "thread pool" => T!TypeOK

\* Every item gets one callback, of the kind its fate calls for, and all of them before
\* kl_thread_pool_free returns; a connect reports one outcome and detaches after it.
SettledOnce ==
    [][/\ part = "connect" => C!TerminalOnce'
       /\ part = "thread pool" => T!CallbackStep /\ T!FreedIsSettled']_vars

\* Back in the loop nothing that was reported is forgotten: a finished item has a byte in the
\* pipe or on its way, a listener is short of accepts only for want of a credit, a connect
\* waits for something that can come.
NothingForgotten ==
    /\ part = "thread pool" => T!NoLostWakeup
    /\ part = "connect" => C!NeverStuck
    /\ part = "listener" => L!NoLostCredit

\* An accepted item is called back, kl_thread_pool_free returns, a started connect detaches and
\* a listener that closes reaches on_close.
WorkEnds ==
    /\ \A i \in {i1, i2, i3, i4} :
          (part = "thread pool" /\ T!Accepted(i)) ~> (part = "thread pool" /\ T!Settled(i))
    /\ (part = "thread pool" /\ T!Freeing) ~> (part = "thread pool" /\ T!Freed)
    /\ (part = "connect" /\ C!Started) ~> (part = "connect" /\ C!Detached)
    /\ (part = "listener" /\ L!CloseBegun) ~> (part = "listener" /\ L!Detached)
==============================================================================
