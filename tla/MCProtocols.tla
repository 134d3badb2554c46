----------------------------- MODULE MCProtocols -----------------------------
(****************************************************************************)
(* Protocols and services above the streams, checked side by side: name     *)
(* resolution and its cache, the blocking HTTP client, the parsers of what  *)
(* peers send, and two clients of one HTTP/1 server. A behaviour is one of  *)
(* one component: part, chosen at the start, says which, and x1 .. x10 hold *)
(* that component's variables in the order it declares them; the rest are   *)
(* 0.                                                                       *)
(****************************************************************************)
EXTENDS Integers, Sequences, FiniteSets

CONSTANTS q1, q2, k1, k2, k3, c1, c2, Listen, Watch

VARIABLES part, x1, x2, x3, x4, x5, x6, x7, x8, x9, x10

vars == <<part, x1, x2, x3, x4, x5, x6, x7, x8, x9, x10>>

------------------------------------------------------------------------------
(* The instances. *)

\* Symbols: R and N are CR and LF, D a dash, the lower case letters and the rest are bytes.
NL == <<"R", "N">>

\* Form bodies: what may precede the first delimiter, the headers and the body of a part, and
\* the ways a body may end, cut short or carry a delimiter's prefix.
Delim == <<"D", "D", "b">>
PartHeaders == {<<"V">>, <<"x", "R", "N", "V">>, <<"M">>}
PartBodies == {<<>>, <<"R", "N", "D">>, <<"x", "R", "N", "D", "D", "x">>}
FormPart(h, d) == NL \o h \o NL \o NL \o d \o NL \o Delim
FormBodies ==
    {Delim \o FormPart(h, d) \o e : h \in PartHeaders, d \in PartBodies,
         e \in {<<"D", "D", "R">>, <<"D">>, <<"x", "x">>}}
      \cup {<<"D">> \o Delim \o FormPart(<<"V">>, d) \o <<"D", "D">> : d \in PartBodies}
      \cup {Delim \o FormPart(<<"V">>, d) \o FormPart(<<"V">>, e) \o <<"D", "D">> :
                d, e \in PartBodies}
      \cup {Delim \o <<"D", "D">>, <<"x">>, Delim \o NL \o NL \o <<"V">> \o NL \o NL \o <<"x">>,
            Delim \o NL \o <<"V">> \o NL \o NL \o <<"x", "x", "x", "x", "x", "x">>}

\* Chunked bodies: size lines with leading zeros, extensions, too many digits and none, data
\* shorter and longer than its size, line ends that are not, trailers.
SizeLines ==
    {<<"1">>, <<"0", "1", "0">>, <<"1", ";", "x">>, <<"1", ";", "x", ";", "0">>,
     <<"1", "0", "0">>, <<"0", "0", "0", "0">>, <<";">>, <<"1", "x">>, <<"1", ";", "c">>, <<>>}
Chunks ==
    {l \o e \o d \o NL : l \in SizeLines, e \in {NL, <<"R", "R">>},
         d \in {<<"x">>, <<"x", "R">>, <<"R", "N">>, <<"x", "x", "x">>}}
      \cup {<<"1">> \o NL \o <<"x">> \o e : e \in {NL, <<"R", "x">>, <<"N">>}}
Trailers ==
    {NL, <<"x">> \o NL \o NL, <<"x">> \o NL \o <<"x", "x">> \o NL \o NL, <<"R", "x">>,
     <<"x", "N">>, <<"c">>, NL \o <<"x">>}
ChunkedBodies ==
    {c \o <<"0">> \o NL \o t : c \in Chunks, t \in {NL, NL \o <<"x">>}}
      \cup {<<"0">> \o NL \o t : t \in Trailers}
      \cup {<<"1">> \o NL \o <<"x">> \o NL \o c \o <<"0">> \o NL \o NL : c \in Chunks}

\* PROXY headers of both versions, whole, malformed and too long, followed by data or not.
Text(f) == <<"P", "_", f>>
Ports == <<"_", "p", "_", "p">>
ProxyStreams ==
    {Text("4") \o <<"_", "a", "_", "a">> \o Ports \o NL \o t : t \in {<<>>, <<"x">>, NL}}
      \cup {Text("6") \o <<"_", "b", "_", "b">> \o Ports \o NL \o <<"x">>,
            Text("4") \o <<"_", "a", "_", "b">> \o Ports \o NL,
            Text("4") \o <<"_", "a", "_", "a">> \o Ports \o <<"_">> \o NL,
            Text("U") \o NL \o <<"x">>, Text("U") \o <<"_", "_", "x">> \o NL,
            Text("U") \o <<"0">> \o NL \o <<"x">>, Text("x") \o NL,
            <<"P", "x">>, <<"x">>, <<"P", "_">> \o NL, Text("4") \o [i \in 1..11 |-> "x"]}
      \cup {<<"S", v, f, l>> \o b : v \in {"2p", "2l", "2x", "x"}, f \in {"a", "b", "x"},
                l \in {"l0", "l1", "l2", "l9"}, b \in {<<>>, <<"a">>, <<"a", "b", "x">>}}
      \cup {<<"S", "2p">>}

\* Addresses of two and four bytes of two bits, and blocks of every prefix length.
V4(a, b) == [fam |-> "v4", addr |-> <<a, b>>]
V6(a, b, c, d) == [fam |-> "v6", addr |-> <<a, b, c, d>>]
Block(s, n) == [fam |-> s.fam, addr |-> s.addr, bits |-> n]
TrustLists ==
    {{}} \cup {{Block(s, n)} : s \in {V4(1, 2), V4(1, 0), V4(0, 3)}, n \in 0..4}
      \cup {{Block(s, n)} : s \in {V6(0, 3, 1, 2), V6(0, 3, 1, 0), V6(0, 1, 1, 3)}, n \in 0..8}

\* The bytes at the edges of the ranges that UTF-8 tells apart.
EdgeBytes ==
    {0, 127, 128, 143, 144, 159, 160, 191, 192, 193, 194, 223, 224, 225, 236, 237, 238, 239,
     240, 241, 243, 244, 245, 247, 255}

\* Frames of a peer: messages in fragments with whole, split and bad text, pings, closes with
\* good, short and bad payloads, and frames that are too long, malformed or wrongly masked.
Frame(o, b, d, w) == [op |-> o, fin |-> b, pay |-> d, flaw |-> w]
WsPeers ==
    {Frame(o, b, d, "none") : o \in {"cont", "text", "bin"}, b \in BOOLEAN,
         d \in {<<>>, <<"a">>, <<"L">>, <<"T">>, <<"L", "T">>}}
      \cup {Frame("ping", TRUE, d, "none") : d \in {<<>>, <<"a", "a">>}}
      \cup {Frame("close", TRUE, d, "none") :
                d \in {<<>>, <<"C">>, <<"C", "C">>, <<"B", "B">>, <<"C", "C", "T">>}}
      \cup {Frame("bin", TRUE, <<"a", "a", "a", "a">>, "none"),
            Frame("text", TRUE, <<>>, "parse"), Frame("text", TRUE, <<"a">>, "mask")}

\* One client streams a body in or an answer out, the other's handler may only suspend.
PairRequests ==
    [c \in {c1, c2} |->
        IF c = c1
        THEN [route : {"legacy"}, body : {"length"}, keep : {TRUE}]
               \cup [route : {"async"}, body : {"chunked"}, keep : {TRUE}]
        ELSE [route : {"plain"}, body : {"none"}, keep : {FALSE}]]

\* Name resolution: one request over two servers, two requests over one, the cache.
D2 == INSTANCE DnsResolver WITH Reqs <- {q1}, NNS <- 2, Attempts <- 1, MaxSearch <- 0, req
          <- x1, timers <- x2, tcp <- x3, calls <- x4, life <- x5
D3 == INSTANCE DnsResolver WITH Reqs <- {q1, q2}, NNS <- 1, Attempts <- 1, MaxSearch <- 0,
          req <- x1, timers <- x2, tcp <- x3, calls <- x4, life <- x5
N == INSTANCE ResolverCache WITH Keys <- {k1, k2, k3}, Reqs <- {q1, q2}, Capacity <- 2, Ttl
          <- 1, MaxTime <- 2, ent <- x1, count <- x2, cr <- x3, frames <- x4, now <- x5
S == INSTANCE HttpClientSync WITH Deadline <- 3, NAddr <- 2, MaxResp <- 3, FirstCap <- 2, pc
          <- x1, now <- x2, r <- x3, conn <- x4, addr <- x5, held <- x6, body <- x7, out <- x8, err <-
          x9, ret <- x10
\* The parsers. A form without limits, with few and small parts, with a small total.
F1 == INSTANCE Multipart WITH Boundary <- <<"b">>, Bodies <- FormBodies, MaxChunk <- 3,
          MaxPartSize <- 0, MaxTotal <- 0, MaxParts <- 0, MaxHeaders <- 0, MaxInput <- 0, mp <- x1,
          wire <- x2, seen <- x3
F2 == INSTANCE Multipart WITH Boundary <- <<"b">>, Bodies <- FormBodies, MaxChunk <- 3,
          MaxPartSize <- 2, MaxTotal <- 0, MaxParts <- 1, MaxHeaders <- 5, MaxInput <- 6, mp <- x1,
          wire <- x2, seen <- x3
F3 == INSTANCE Multipart WITH Boundary <- <<"b">>, Bodies <- FormBodies, MaxChunk <- 3,
          MaxPartSize <- 3, MaxTotal <- 15, MaxParts <- 0, MaxHeaders <- 4, MaxInput <- 7, mp <- x1,
          wire <- x2, seen <- x3
P == INSTANCE MimeParams WITH Symbols <- {"name", "filename", "boundary", "q", "e", ";",
          "_", "c", "x"}, MaxLen <- 4, MaxBoundary <- 2, val <- x1
C == INSTANCE Http1Chunked WITH Inputs <- ChunkedBodies, MaxChunk <- 3, MaxDigits <- 3,
          SizeMax <- 3, ExtMax <- 2, TrailerMax <- 6, BodyMax <- 3, dec <- x1, wire <- x2, body <- x3
H1 == INSTANCE ProxyProtocol WITH W <- 2, Streams <- ProxyStreams, Socks <- {V4(1, 2), V4(1,
          1)}, Lists <- {{}, {Block(V4(1, 2), 4)}}, V1Max <- 14, HeaderMax <- 14, NoPeer <-
          <<"none">>, conn <- x1, wire <- x2
H2 == INSTANCE ProxyProtocol WITH W <- 2, Streams <- {<<"x">>}, Socks <- {V4(1, 2), V6(0, 3,
          1, 2), V6(0, 1, 1, 2)}, Lists <- TrustLists, V1Max <- 14, HeaderMax <- 14, NoPeer <-
          <<"none">>, conn <- x1, wire <- x2
U == INSTANCE Utf8 WITH Bytes <- EdgeBytes, MaxLen <- 4, state <- x1, text <- x2
W == INSTANCE WsFrames WITH Role <- "client", Peers <- WsPeers, HdrLen <- 2, MaxFrame <- 3,
          MaxMsg <- 3, MaxRead <- 4, MaxFrames <- 3, f <- x1, msg <- x2, ctrl <- x3, avail <- x4, conn
          <- x5, seen <- x6, want <- x7, n <- x8
\* The HTTP/1 server with two clients at once.
V == INSTANCE HttpServer WITH Slots <- {c1, c2}, Requests <- PairRequests, Listen <- Listen,
          Watch <- Watch, TlsModes <- {FALSE}, MaxSuspends <- 1, MaxBatch <- 2, MaxFrames <- 3, conn
          <- x1, reg <- x2, pool <- x3, ops <- x4, armed <- x5, stack <- x6, loop <- x7, batch <- x8,
          server <- x9

------------------------------------------------------------------------------
(* Their union. *)

from10 == <<x10>>
Off10 == x10 = 0
from9 == <<x9, x10>>
Off9 == x9 = 0 /\ Off10
from6 == <<x6, x7, x8, x9, x10>>
Off6 == x6 = 0 /\ x7 = 0 /\ x8 = 0 /\ Off9
from4 == <<x4, x5, x6, x7, x8, x9, x10>>
Off4 == x4 = 0 /\ x5 = 0 /\ Off6
from3 == <<x3, x4, x5, x6, x7, x8, x9, x10>>
Off3 == x3 = 0 /\ Off4
from2 == <<x2, x3, x4, x5, x6, x7, x8, x9, x10>>
Off2 == x2 = 0 /\ Off3

Init ==
    \/ part = "dns servers" /\ D2!Init /\ Off6
    \/ part = "dns shared" /\ D3!Init /\ Off6
    \/ part = "cache" /\ N!Init /\ Off6
    \/ part = "blocking client" /\ S!Init
    \/ part = "form" /\ F1!Init /\ Off4
    \/ part = "form parts" /\ F2!Init /\ Off4
    \/ part = "form total" /\ F3!Init /\ Off4
    \/ part = "parameters" /\ P!Init /\ Off2
    \/ part = "chunked" /\ C!Init /\ Off4
    \/ part = "proxy header" /\ H1!Init /\ Off3
    \/ part = "proxy trust" /\ H2!Init /\ Off3
    \/ part = "utf8" /\ U!Init /\ Off3
    \/ part = "ws frames" /\ W!Init /\ Off9
    \/ part = "http pair" /\ V!Init /\ Off10

\* A step A of the part p.
Step1(p, A) == part = p /\ A /\ UNCHANGED <<part, from2>>
Step2(p, A) == part = p /\ A /\ UNCHANGED <<part, from3>>
Step3(p, A) == part = p /\ A /\ UNCHANGED <<part, from4>>
Step5(p, A) == part = p /\ A /\ UNCHANGED <<part, from6>>
Step8(p, A) == part = p /\ A /\ UNCHANGED <<part, from9>>
Step9(p, A) == part = p /\ A /\ UNCHANGED <<part, from10>>
Step10(p, A) == part = p /\ A /\ UNCHANGED part

DnsServers == Step5("dns servers", D2!Next)
DnsShared == Step5("dns shared", D3!Next)
Cache == Step5("cache", N!Next)
BlockingClient == Step10("blocking client", S!Next)
Form == Step3("form", F1!Next)
FormParts == Step3("form parts", F2!Next)
FormTotal == Step3("form total", F3!Next)
Parameters == Step1("parameters", P!Next)
Chunked == Step3("chunked", C!Next)
ProxyHeader == Step2("proxy header", H1!Next)
ProxyTrust == Step2("proxy trust", H2!Next)
Utf8 == Step2("utf8", U!Next)
WsFrames == Step8("ws frames", W!Next)
HttpPair == Step9("http pair", V!Next)

Next == DnsServers \/ DnsShared \/ Cache \/ BlockingClient \/ Form \/ FormParts \/
        FormTotal \/ Parameters \/ Chunked \/ ProxyHeader \/ ProxyTrust \/ Utf8 \/ WsFrames \/
        HttpPair

Spec == Init /\ [][Next]_vars

------------------------------------------------------------------------------
(* Properties. *)

\* However the connection cuts its bytes into reads, what is parsed from them is what the whole
\* says: the parts of a form, the data of a chunked body, the addresses of a PROXY header and the
\* first byte after it, the messages of a WebSocket.
CutAnywhere ==
    /\ part = "form" => F1!AgreesWithWhole
    /\ part = "form parts" => F2!AgreesWithWhole
    /\ part = "form total" => F3!AgreesWithWhole
    /\ part = "chunked" => C!DecodesTheGrammar
    /\ part = "proxy header" => H1!HeaderReadsTheSame
    /\ part = "ws frames" => W!DeliveredIntact /\ W!AssemblyInStep

\* What is computed agrees with its definition: text is accepted exactly when it is UTF-8, a
\* parameter is found exactly where one stands outside of every string, a peer is trusted exactly
\* when a block of the list has its leading bits, and a form reader that asks for more
\* bytes has given the handler all that the ones it holds determine.
AgreesWithDefinition ==
    /\ part = "utf8" => U!ValidatesUtf8
    /\ part = "parameters" => P!ParamsOutsideStrings
    /\ part = "proxy trust" => H2!TrustIsPrefix
    /\ part = "form" => F1!NothingHeldBack
    /\ part = "form parts" => F2!NothingHeldBack
    /\ part = "form total" => F3!NothingHeldBack

\* A lookup's timers are those of the legs it waits for, no request that waits is left without a
\* timer or a query of its own, and teardown is the last thing a resolver does; the cache holds a
\* key once, counts what it holds, and is not freed under a running callback.
LookupsTracked ==
    /\ part = "dns servers" => D2!TimersMatch /\ D2!NothingStranded /\ D2!TeardownLast
    /\ part = "dns shared" => D3!TimersMatch /\ D3!NothingStranded /\ D3!TeardownLast
    /\ part = "cache" => N!OneEntryPerKey /\ N!CountMatches /\ N!HeldWhileRunning

\* The blocking client gives up only after every address it was given time for was tried, returns
\* with nothing but the response in hand, and gives back every buffer with the size it took.
BlockingClientThorough ==
    [][part = "blocking client" => S!AddressStep /\ S!LeavesNothing' /\ S!FreedAtItsSize']_vars

\* Two connections of one server keep apart: the pool's lists partition the slots, nobody is left
\* without an event that moves it on, and every request has one outcome.
ClientsKeptApart == part = "http pair" => V!PoolConsistent /\ V!NoneStranded /\ V!OneOutcome
==============================================================================
