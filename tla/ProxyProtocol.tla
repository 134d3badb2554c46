---------------------------- MODULE ProxyProtocol ----------------------------
(***************************************************************************)
(* The PROXY protocol phase of an accepted connection: the trust list and  *)
(* the header parser of src/protocols/proxy_protocol/proxy_protocol.c, and *)
(* the two ways the server reads a header, by peeking at the socket (the   *)
(* readiness server) and from its read buffer (the completion server).     *)
(*                                                                         *)
(* Scales: an address byte has W bits, an IPv4 address has 2 bytes and an  *)
(* IPv6 one 4; the mapped prefix is 2 bytes.  Stream symbols: "P" is the   *)
(* text of the v1 signature before its space, "_" a space, "4", "6" and    *)
(* "U" the protocol names, "a" and "b" the addresses of their family, "p"  *)
(* a port, "0" a NUL, "R" "N" the line end; "S" is the v2 signature, whose *)
(* first byte is also a CR; "x" is any other byte.                         *)
(***************************************************************************)
EXTENDS Integers, SequencesExt, FiniteSetsExt

CONSTANTS
    W,              \* bits of an address byte
    Streams,        \* what clients send, sequences of symbols
    Socks,          \* socket addresses, records of family and bytes
    Lists,          \* trust lists as written: sets of such records with a bit count
    V1Max,          \* 107
    HeaderMax,      \* KL_PROXY_HEADER_MAX
    NoPeer          \* KL_AF_UNSPEC

VARIABLES
    conn,     \* the accepted connection; asked: it had to send a header
    wire      \* its stream: all of it, what arrived, what the header took

vars == <<conn, wire>>

\* ------------------------------------------------------------ the trust list

Mapped == <<0, 2^W - 1>>
IsV4Mapped(a) == SubSeq(a, 1, 2) = Mapped

\* kl_cidr_parse_list: an entry that names mapped addresses is kept as IPv4.
MutStored(e) == e
Stored(e) ==
    IF e.fam = "v6" /\ e.bits >= 2 * W /\ IsV4Mapped(e.addr)
    THEN [fam |-> "v4", addr |-> SubSeq(e.addr, 3, 4), bits |-> e.bits - 2 * W]
    ELSE e

\* prefix_match: whole bytes, then the masked one.
PrefixMatch(a, b, bits) ==
    LET full == bits \div W
        rem  == bits % W
        unit == 2^(W - rem)
    IN  /\ SubSeq(a, 1, full) = SubSeq(b, 1, full)
        /\ rem = 0 \/ a[full + 1] \div unit = b[full + 1] \div unit

\* kl_cidr_match: a mapped peer is the IPv4 address it is.
CidrMatch(list, s) ==
    LET plain == s.fam = "v6" /\ IsV4Mapped(s.addr)
        fam   == IF plain THEN "v4" ELSE s.fam
        addr  == IF plain THEN SubSeq(s.addr, 3, 4) ELSE s.addr
    IN  \E w \in list : LET e == Stored(w)
                        IN  e.fam = fam /\ PrefixMatch(addr, e.addr, e.bits)

\* ------------------------------------------------------------ the header

Result(r, n, p) == [r |-> r, consumed |-> n, peer |-> p]
Invalid == Result("invalid", 0, NoPeer)
NeedMore == Result("need_more", 0, NoPeer)
None == Result("none", 0, NoPeer)

\* The fields of a v1 line, at its single spaces.
RECURSIVE Fields(_)
Fields(line) ==
    LET sp == {i \in DOMAIN line : line[i] = "_"}
    IN  IF sp = {} THEN <<line>>
        ELSE <<SubSeq(line, 1, Min(sp) - 1)>> \o Fields(SubSeq(line, Min(sp) + 1, Len(line)))

V1Line(line, n) ==
    LET f    == Fields(line)
        port == <<"p">>
        addr == IF f[2] = <<"4">> THEN <<"a">> ELSE <<"b">>
    IN  CASE Len(f) = 1 -> Invalid
          [] Len(f) > 1 /\ f[2] = <<"U">> -> Result("ok", n, NoPeer)
          [] Len(f) = 6 /\ f[2] \in {<<"4">>, <<"6">>} ->
                IF f[3] = addr /\ f[4] = addr /\ f[5] = port /\ f[6] = port
                THEN Result("ok", n, f[3]) ELSE Invalid
          [] OTHER -> Invalid

MutV1Capped(n) == TRUE
V1Capped(n) == n >= V1Max

ParseV1(buf) ==
    LET most == Min({Len(buf), V1Max})
        ends == {i \in 2..(most - 1) : buf[i] = "R" /\ buf[i + 1] = "N"}
        line == SubSeq(buf, 1, Min(ends) - 1)
    IN  IF ends = {} THEN IF V1Capped(Len(buf)) THEN Invalid ELSE NeedMore
        ELSE IF "0" \in ToSet(line) THEN Invalid
        ELSE V1Line(line, Len(line) + 2)

\* Signature, version and command ("2p", "2l"), family, block length, block.
BlockLen(s) == CASE s = "l0" -> 0 [] s = "l1" -> 1 [] s = "l2" -> 2
                 [] s = "l9" -> 9 [] OTHER -> 3

ParseV2(buf) ==
    LET n    == BlockLen(buf[4])
        full == 4 + n
        need == IF buf[3] = "b" THEN 2 ELSE 1
    IN  CASE buf[2] \notin {"2p", "2l", "2x"} -> Invalid
          [] buf[2] \in {"2p", "2l", "2x"} /\ full > HeaderMax -> Invalid
          [] buf[2] \in {"2p", "2l", "2x"} /\ full <= HeaderMax /\ Len(buf) < full -> NeedMore
          [] OTHER ->
                IF buf[2] = "2l" THEN Result("ok", full, NoPeer)
                ELSE IF buf[2] = "2x" THEN Invalid
                ELSE IF buf[3] \notin {"a", "b"} THEN Result("ok", full, NoPeer)
                ELSE IF n < need THEN Invalid
                ELSE Result("ok", full, <<buf[3]>>)

\* kl_proxy_parse, on the bytes at hand.
Parse(buf) ==
    CASE buf = <<>> -> NeedMore
      [] buf # <<>> /\ buf[1] = "S" -> IF Len(buf) < 4 THEN NeedMore ELSE ParseV2(buf)
      [] buf # <<>> /\ IsPrefix(SubSeq(buf, 1, Min({2, Len(buf)})), <<"P", "_">>) ->
            IF Len(buf) < 2 THEN NeedMore ELSE ParseV1(buf)
      [] OTHER -> None

\* ------------------------------------------------------------ the connection

Trusted == CidrMatch(conn.list, conn.sock)

Init ==
    /\ conn \in [st : {"accept"}, path : {"peek", "buffer"}, sock : Socks, list : Lists,
                 peer : {NoPeer}, asked : {FALSE}, failed : {FALSE}]
    /\ wire \in [all : Streams, at : {0}, taken : {0}]

\* The accept gate of both servers.
Accept ==
    /\ conn.st = "accept"
    /\ conn' = [conn EXCEPT !.st = IF Trusted THEN "proxy" ELSE "next", !.asked = Trusted]
    /\ UNCHANGED wire

Arrive ==
    \E n \in 1..(Len(wire.all) - wire.at) :
        /\ wire' = [wire EXCEPT !.at = @ + n]
        /\ UNCHANGED conn

Arrived == SubSeq(wire.all, 1, wire.at)

Closed(failed) == conn' = [conn EXCEPT !.st = "closed", !.failed = failed]

\* A header read whole: its bytes go, the rest stays for TLS or HTTP.
Taken(r) ==
    /\ wire' = [wire EXCEPT !.taken = r.consumed]
    /\ conn' = [conn EXCEPT !.st = "next", !.peer = r.peer]

\* kl_http_conn_read_proxy_header: peek, and receive exactly the header.
ReadProxyHeader ==
    /\ conn.st = "proxy" /\ conn.path = "peek" /\ wire.at > 0
    /\ LET n == Min({wire.at, HeaderMax})
           r == Parse(SubSeq(Arrived, 1, n))
       IN  CASE r.r = "need_more" -> /\ n >= HeaderMax /\ Closed(FALSE)
                                     /\ UNCHANGED wire
             [] r.r = "invalid" -> Closed(FALSE) /\ UNCHANGED wire
             [] r.r = "none" -> Taken(r)
             [] r.r = "ok" -> \/ Taken(r)
                              \/ Closed(TRUE) /\ UNCHANGED wire

\* comp_drive_proxy with kl_http_conn_ingest_proxy: from the read buffer.
DriveProxy ==
    /\ conn.st = "proxy" /\ conn.path = "buffer" /\ wire.at > 0
    /\ LET r == Parse(Arrived)
       IN  CASE r.r = "need_more" -> /\ wire.at >= HeaderMax /\ Closed(FALSE)
                                     /\ UNCHANGED wire
             [] r.r = "invalid" -> Closed(FALSE) /\ UNCHANGED wire
             [] OTHER -> Taken(r)

Next == Accept \/ Arrive \/ ReadProxyHeader \/ DriveProxy

Spec == Init /\ [][Next]_vars

\* ------------------------------------------------------------ properties

\* However the stream is cut into packets and whichever server reads it, the
\* verdict on a trusted connection is the one on the whole stream: the same
\* peer, the same first byte for the next layer, or the same refusal; an
\* untrusted connection keeps its socket address and all of its bytes.
HeaderReadsTheSame ==
    LET r == IF Trusted THEN Parse(wire.all) ELSE None
    IN  /\ conn.st = "next" =>
              /\ r.r \in {"ok", "none"}
              /\ wire.taken = r.consumed /\ conn.peer = r.peer
        /\ conn.st = "closed" /\ ~conn.failed =>
              \/ r.r = "invalid"
              \/ r.r = "need_more" /\ Len(wire.all) >= HeaderMax

\* The bits of an address, the first one first.
Bits(a) == [k \in 1..(W * Len(a)) |->
                (a[((k - 1) \div W) + 1] \div 2^(W - 1 - ((k - 1) % W))) % 2]

AsV4(s) == IF s.fam = "v6" /\ IsV4Mapped(s.addr)
           THEN [fam |-> "v4", addr |-> SubSeq(s.addr, 3, 4)] ELSE s

\* A connection is asked for a header exactly when its address shares the first
\* bits of an entry of the list of its family, where an IPv4 address counts as
\* IPv4 whether the socket or the entry writes it mapped or not.
TrustIsPrefix ==
    LET as4(e) == e.fam = "v6" /\ e.bits >= 2 * W /\ IsV4Mapped(e.addr)
        named(e) == IF as4(e) THEN AsV4(e).addr ELSE e.addr
        within(e, s) ==
            /\ (IF as4(e) THEN "v4" ELSE e.fam) = s.fam
            /\ \A k \in 1..(IF as4(e) THEN e.bits - 2 * W ELSE e.bits) :
                  Bits(named(e))[k] = Bits(s.addr)[k]
    IN  conn.st # "accept" =>
            (conn.asked <=> \E e \in conn.list : within(e, AsV4(conn.sock)))

==============================================================================
