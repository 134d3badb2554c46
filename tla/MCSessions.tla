------------------------------ MODULE MCSessions ------------------------------
(***************************************************************************)
(* The long-lived exchanges with a peer, checked side by side: the DNS     *)
(* resolver, the asynchronous HTTP clients, the completion-mode server     *)
(* connection, WebSocket and HTTP/2 at both ends.  A behaviour is one of   *)
(* one component: part, chosen at the start, says which, and x1 .. x7      *)
(* hold that component's variables in the order it declares them; the rest *)
(* are 0.                                                                  *)
(***************************************************************************)
EXTENDS Naturals, Sequences, FiniteSets

CONSTANTS q1, c1, c2, f1, f2, f3, p1

VARIABLES part, x1, x2, x3, x4, x5, x6, x7

vars == <<part, x1, x2, x3, x4, x5, x6, x7>>

-------------------------------------------------------------------------------
(* The instances. *)

\* One request through a search list: both legs, truncation, TCP.
D1 == INSTANCE DnsResolver WITH Reqs <- {q1}, NNS <- 1, Attempts <- 1, MaxSearch <- 1,
          req <- x1, timers <- x2, tcp <- x3, calls <- x4, life <- x5
\* One client and every kind of request; two clients and one pool.
C1 == INSTANCE HttpClient WITH Clients <- {c1}, Fds <- {f1, f2},
          Kinds <- {"plain", "tls", "proxied", "tunnel", "unix"}, Streamed <- BOOLEAN,
          PoolCap <- 1, MaxPerHost <- 1, NAddr <- 2,
          cl <- x1, tmr <- x2, open <- x3, dirty <- x4, pool <- x5, order <- x6, frames <- x7
C2 == INSTANCE HttpClient WITH Clients <- {c1, c2}, Fds <- {f1, f2, f3}, Kinds <- {"plain"},
          Streamed <- {FALSE}, PoolCap <- 2, MaxPerHost <- 1, NAddr <- 1,
          cl <- x1, tmr <- x2, open <- x3, dirty <- x4, pool <- x5, order <- x6, frames <- x7

Url(h, u) == [https |-> FALSE, unix |-> u, port |-> 80, host |-> h]
R == INSTANCE HttpRedirect WITH Urls <- {Url("a", FALSE), Url("b", FALSE), Url("a", TRUE)},
         Methods <- {"GET", "HEAD", "POST", "DELETE"}, Statuses <- {200, 301, 303, 307},
         MaxRedirects <- 2, rc <- x1, inner <- x2, frames <- x3, sync <- x4, sent <- x5

Q == INSTANCE CompHttpServer WITH QMax <- 2, RecMax <- 2, Tls <- BOOLEAN, Upgrades <- {"WS", "H2"},
         c <- x1

\* A server's WebSocket with a bounded drain, one that writes synchronously, and one with a drain
\* on a completion loop.
W1 == INSTANCE WsServer WITH DrainOn <- TRUE, MaxDrain <- 2, OutMax <- 0, Interval <- 1, Stall <- 2,
          CloseTimeout <- 1, Pings <- {p1}, w <- x1
W2 == INSTANCE WsServer WITH DrainOn <- FALSE, MaxDrain <- 3, OutMax <- 0, Interval <- 2, Stall <- 3,
          CloseTimeout <- 2, Pings <- {p1}, w <- x1
W3 == INSTANCE WsServer WITH DrainOn <- TRUE, MaxDrain <- 2, OutMax <- 1, Interval <- 1, Stall <- 2,
          CloseTimeout <- 1, Pings <- {}, w <- x1
V1 == INSTANCE WsClient WITH Tls <- TRUE, UpLen <- 2, HsMax <- 3, MaxDrain <- 2, Interval <- TRUE,
          c <- x1
V2 == INSTANCE WsClient WITH Tls <- FALSE, UpLen <- 2, HsMax <- 3, MaxDrain <- 2, Interval <- TRUE,
          c <- x1

\* A stream table that holds every stream, and one that fills up.
H1 == INSTANCE Http2Server WITH Streams <- {1, 2}, MaxStreams <- 2, MaxBody <- 1, h <- x1
H2 == INSTANCE Http2Server WITH Streams <- {1, 2}, MaxStreams <- 1, MaxBody <- 1, h <- x1
K1 == INSTANCE Http2Client WITH Ids <- {1, 2}, MaxStreams <- 2, Tls <- TRUE, c <- x1
K2 == INSTANCE Http2Client WITH Ids <- {1, 2}, MaxStreams <- 1, Tls <- FALSE, c <- x1

-------------------------------------------------------------------------------
(* Their union. *)

from6 == <<x6, x7>>
from2 == <<x2, x3, x4, x5, x6, x7>>

Off6 == x6 = 0 /\ x7 = 0
Off2 == x2 = 0 /\ x3 = 0 /\ x4 = 0 /\ x5 = 0 /\ Off6

Init ==
    \/ part = "dns search" /\ D1!Init /\ Off6
    \/ part = "client" /\ C1!Init
    \/ part = "clients" /\ C2!Init
    \/ part = "redirect" /\ R!Init /\ Off6
    \/ part = "completion" /\ Q!Init /\ Off2
    \/ part = "ws drain" /\ W1!Init /\ Off2
    \/ part = "ws sync" /\ W2!Init /\ Off2
    \/ part = "ws completion" /\ W3!Init /\ Off2
    \/ part = "wss client" /\ V1!Init /\ Off2
    \/ part = "ws client" /\ V2!Init /\ Off2
    \/ part = "h2 server" /\ H1!Init /\ Off2
    \/ part = "h2 full" /\ H2!Init /\ Off2
    \/ part = "h2s client" /\ K1!Init /\ Off2
    \/ part = "h2c client" /\ K2!Init /\ Off2

\* A step A of the part p.
Step2(p, A) == part = p /\ A /\ UNCHANGED <<part, from2>>
Step6(p, A) == part = p /\ A /\ UNCHANGED <<part, from6>>
Step8(p, A) == part = p /\ A /\ UNCHANGED part

DnsSearch == Step6("dns search", D1!Next)
Client == Step8("client", C1!Next)
Clients == Step8("clients", C2!Next)
Redirect == Step6("redirect", R!Next)
Completion == Step2("completion", Q!Next)
WsDrain == Step2("ws drain", W1!Next)
WsSync == Step2("ws sync", W2!Next)
WsCompletion == Step2("ws completion", W3!Next)
WssClient == Step2("wss client", V1!Next)
WsClient == Step2("ws client", V2!Next)
H2Server == Step2("h2 server", H1!Next)
H2Full == Step2("h2 full", H2!Next)
H2sClient == Step2("h2s client", K1!Next)
H2cClient == Step2("h2c client", K2!Next)

Next ==
    \/ DnsSearch \/ Client \/ Clients \/ Redirect \/ Completion
    \/ WsDrain \/ WsSync \/ WsCompletion \/ WssClient \/ WsClient \/ H2Server \/ H2Full
    \/ H2sClient \/ H2cClient

\* The components' own fairness, each for its part.
Fairness ==
    /\ WF_vars(Step6("dns search", D1!Returns))
    /\ SF_vars(Step6("dns search", D1!OnRdelay(q1)))
    /\ SF_vars(Step6("dns search", D1!OnLiteral(q1)))
    /\ \A i \in D1!Legs : SF_vars(Step6("dns search", D1!OnLegTimer(q1, i)))
    /\ WF_vars(Step8("client", C1!DoneReturns))
    /\ SF_vars(Step8("client", C1!OnDeadline(c1)))
    /\ SF_vars(Step8("client", C1!DeferredError(c1)))
    /\ WF_vars(Step6("redirect", R!Inner))
    /\ WF_vars(Step6("redirect", \E o \in R!Outcomes : R!InnerCompletes(o)))
    /\ WF_vars(Step6("redirect", \E o \in R!Outcomes : R!SyncHop(o)))
    /\ WF_vars(Step2("completion", Q!OnReadClosing))
    /\ WF_vars(Step2("completion", Q!OnWriteClosing))
    /\ WF_vars(Step2("completion", Q!SweepReleases))
    /\ WF_vars(Step2("completion", Q!TlsDriveStep))
    /\ WF_vars(Step2("ws drain", W1!Tick))
    /\ WF_vars(Step2("ws drain", W1!Sweep))
    /\ WF_vars(Step2("ws completion", W3!Tick))
    /\ WF_vars(Step2("ws completion", W3!Sweep))

Spec == Init /\ [][Next]_vars /\ Fairness

-------------------------------------------------------------------------------
(* Properties. *)

\* The owner's callback is the last thing a session does with it, and it comes once: a resolver
\* goes only when no done() is open on it, on_done() of a client never runs under the connect op
\* that still uses the client, a redirect's start never returns into a freed client, on_close of
\* a WebSocket and the final word of a WebSocket client are said once and nothing follows, and an
\* HTTP/2 client freed in a callback is freed when the session has unwound.
CallbacksAreLast ==
    /\ part = "dns search" => D1!TeardownLast
    /\ part = "client" => C1!DoneIsSafe
    /\ part = "clients" => C2!DoneIsSafe
    /\ part = "redirect" => R!StartOutlivesDone
    /\ part = "ws drain" => W1!OnCloseOnce
    /\ part = "ws sync" => W2!OnCloseOnce
    /\ part = "ws completion" => W3!OnCloseOnce
    /\ part = "wss client" => V1!LastWord /\ V1!ClosedIsOver
    /\ part = "ws client" => V2!LastWord /\ V2!ClosedIsOver
    /\ part = "h2s client" => K1!FreeIsLast
    /\ part = "h2c client" => K2!FreeIsLast

\* Nothing is left behind, whichever side ends first: every pending timer belongs to a live
\* request and every live request has one (or a connection) that ends it; every open socket has
\* exactly one owner and an idle pooled one nothing unread; every HTTP/2 stream has an entry, an
\* answer or a reset on its way, but for one whose 500 the session refused, and every HTTP/2 request is answered once or still known.
NothingLeftBehind ==
    /\ part = "dns search" => D1!TimersMatch /\ D1!NothingStranded
    /\ part = "client" => C1!SocketsOwned /\ C1!TimersOwned /\ C1!PoolClean
    /\ part = "clients" => C2!SocketsOwned /\ C2!TimersOwned /\ C2!PoolClean
    /\ part = "h2 server" => H1!TableFollowsSession /\ H1!NoStreamForgotten
    /\ part = "h2 full" => H2!TableFollowsSession /\ H2!NoStreamForgotten
    /\ part = "h2s client" => K1!EachRequestAnswered
    /\ part = "h2c client" => K2!EachRequestAnswered

\* A completion-mode connection counts the ops the backend holds for it, has one receive and one
\* send at a time, always has something that moves it on, and a paused body delivers at most one
\* more chunk, with TLS and without.
OpsBalanced ==
    part = "completion" => Q!OpsCounted /\ Q!OneOpEachWay /\ Q!NotStranded /\ Q!PauseBound

\* What one hop of a redirected request carries: no credential reaches another origin, body
\* headers go with a body only, and no more than max_redirects hops follow.
HopCarries == part = "redirect" => R!HopCarries

\* Output goes out whole and in frames: nothing is written into the middle of a frame that was
\* cut short, output the socket refused is watched for WRITE, and an HTTP/2 response that reached
\* its end and is handed over without an error is the whole final one.
OutputGoesOut ==
    /\ part = "ws drain" => W1!FrameAligned
    /\ part = "ws sync" => W2!FrameAligned
    /\ part = "ws completion" => W3!FrameAligned
    /\ part = "wss client" => V1!WriteInterestKept
    /\ part = "ws client" => V2!WriteInterestKept
    /\ part = "h2s client" => K1!OutputWatched /\ K1!WholeOrFailed
    /\ part = "h2c client" => K2!OutputWatched /\ K2!WholeOrFailed

\* The keep-alive of a server's WebSocket gives up only on a peer that showed no life.
OnlyTheDeadDropped ==
    /\ part = "ws drain" => W1!OnlyTheDeadDropped
    /\ part = "ws sync" => W2!OnlyTheDeadDropped
    /\ part = "ws completion" => W3!OnlyTheDeadDropped

\* Every session that must end does, whatever its peer does or fails to do: a resolution, a
\* request, a redirected request, a closing connection's slot, a WebSocket whose peer is silent
\* or never answers the Close.  (part never changes, so what ends is what had to.)
SessionsEnd ==
    /\ \/ part = "dns search" /\ D1!Live(q1)
       \/ part = "client" /\ C1!Active(c1)
       \/ part = "redirect" /\ R!Running
       \/ part = "completion" /\ Q!Leaving
       \/ part \in {"ws drain", "ws completion"} /\ x1.cs
       ~> \/ part = "dns search" /\ D1!Over(q1)
          \/ part = "client" /\ ~C1!Active(c1)
          \/ part = "redirect" /\ R!Ended
          \/ part = "completion" /\ x1.st = "FREE"
          \/ part \in {"ws drain", "ws completion"} /\ x1.st = "GONE"
    /\ []<>(part \in {"ws drain", "ws completion"} => x1.st = "GONE" \/ x1.quiet = 0)
===============================================================================
