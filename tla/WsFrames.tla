------------------------------ MODULE WsFrames ------------------------------
(***************************************************************************)
(* The receive path of a WebSocket: the incremental frame parser           *)
(* (websocket.c) and the reassembly loop around it, as the server runs it  *)
(* (kl_ws_server_on_readable_data) and as the client does                  *)
(* (wsc_process_frames).  TCP cuts the peer's frames anywhere, so a header,*)
(* a payload or a control frame may arrive over several reads and several  *)
(* frames in one; the loop takes one parse call per step.                  *)
(*                                                                         *)
(* A payload byte is "a" (ASCII), "L" / "T" (the lead and trail byte of a  *)
(* two-byte character), or "C" / "B" (the bytes of a Close status that may *)
(* / may not appear on the wire).  A header is HdrLen bytes long.          *)
(***************************************************************************)
EXTENDS Integers, Sequences

CONSTANTS
    Role,        \* "server" or "client": whose loop this is
    Peers,       \* the frames a peer may send: [op, fin, pay, flaw]
    HdrLen,      \* bytes of a frame header
    MaxFrame,    \* max_frame_size
    MaxMsg,      \* max_message_size (the client's is max_frame_size)
    MaxRead,     \* the receive buffer: most bytes one read returns
    MaxFrames    \* bound: frames the peer sends

VARIABLES
    f,           \* KlWsFrameParser: [hdr, read, frame]
    msg,         \* the message being assembled: [op, data, utf]
    ctrl,        \* ctrl_buf: the control payload gathered so far
    avail,       \* bytes of the current read not yet parsed
    conn,        \* "open", or what the loop ended the connection with
    seen,        \* history: the last thing handed on, and what the peer sent
    want,        \* history: the message the peer is in the middle of
    n            \* frames the peer has begun

vars == <<f, msg, ctrl, avail, conn, seen, want, n>>

NoFrame == [op |-> "none", fin |-> TRUE, pay |-> <<>>, flaw |-> "none"]
NoMsg   == [op |-> "none", data |-> <<>>, utf |-> "ok"]
Nothing == [kind |-> "none", op |-> "none", got |-> <<>>, sent |-> <<>>]

IsControl(fr) == fr.op \in {"ping", "pong", "close"}

Lesser(a, b) == IF a < b THEN a ELSE b

(* kl_ws_frame_init.                                                       *)
FrameInit == [hdr |-> 0, read |-> 0, frame |-> NoFrame]

(***************************************************************************)
(* kl_ws_frame_parse over the len bytes left of the read: header bytes     *)
(* first, then as much of the payload as is there.  rc is "more", "done"   *)
(* or "error"; take is how many payload bytes this call consumed.          *)
(***************************************************************************)
FrameParse(p, len) ==
    LET h    == Lesser(len, HdrLen - p.hdr)
        take == Lesser(len - h, Len(p.frame.pay) - p.read)
        q    == [p EXCEPT !.hdr = @ + h, !.read = @ + take]
    IN  IF p.hdr + h < HdrLen
        THEN [p |-> [p EXCEPT !.hdr = @ + h], used |-> h, take |-> 0, rc |-> "more"]
        ELSE IF p.frame.flaw = "parse"
        THEN [p |-> p, used |-> h, take |-> 0, rc |-> "error"]
        ELSE [p |-> q, used |-> h + take, take |-> take,
              rc |-> IF q.read = Len(p.frame.pay) THEN "done" ELSE "more"]

(***************************************************************************)
(* kl_utf8_validate, one byte at a time: the state is between characters,  *)
(* inside one, or rejected for good.                                       *)
(***************************************************************************)
Utf8Step(st, b) ==
    CASE st = "ok" /\ b \notin {"L", "T"} -> "ok"
      [] st = "ok" /\ b = "L"             -> "part"
      [] st = "part" /\ b = "T"           -> "ok"
      [] OTHER                            -> "bad"

Utf8Validate(st, bytes) ==
    LET at[i \in 0..Len(bytes)] ==
            IF i = 0 THEN st ELSE Utf8Step(at[i - 1], bytes[i])
    IN  at[Len(bytes)]

(* kl_ws_close_payload_check: 0, or the status to fail the connection with *)
ClosePayloadCheck(pay) ==
    CASE Len(pay) = 0                                -> "0"
      [] Len(pay) = 1 \/ (Len(pay) > 1 /\ pay[1] = "B") -> "1002"
      [] Utf8Validate("ok", SubSeq(pay, 3, Len(pay))) # "ok" -> "1007"
      [] OTHER                                       -> "0"

-----------------------------------------------------------------------------
Init ==
    /\ f = FrameInit /\ msg = NoMsg /\ ctrl = <<>> /\ avail = 0
    /\ conn = "open" /\ seen = Nothing /\ want = NoMsg /\ n = 0

(* A read returned k bytes: the loop runs over them.                       *)
Read(k) ==
    /\ conn = "open" /\ avail = 0
    /\ avail' = k /\ seen' = Nothing
    /\ UNCHANGED <<f, msg, ctrl, conn, want, n>>

(* The peer's next frame, when the parser is between frames: what its      *)
(* message should come to is recorded here, independently of the loop.     *)
Incoming == IF f.frame = NoFrame
            THEN IF n < MaxFrames THEN Peers ELSE {}
            ELSE {f.frame}

Legal(fr) ==
    /\ fr.flaw = "none"
    /\ fr.op = "cont" => want.op # "none"
    /\ fr.op \in {"text", "bin"} => want.op = "none"

Wanted(fr) ==
    IF IsControl(fr) \/ ~Legal(fr) THEN want
    ELSE [op |-> IF fr.op = "cont" THEN want.op ELSE fr.op,
          data |-> want.data \o fr.pay, utf |-> "ok"]

(***************************************************************************)
(* One turn of the loop that ends the frame (or not) without failing:      *)
(* the parser starts over after a complete frame.                          *)
(***************************************************************************)
Turn(r) ==
    /\ avail' = avail - r.used
    /\ f' = IF r.rc = "done" THEN FrameInit ELSE r.p
    /\ conn' = "open"

(* The loop gives up: a Close with this status, and no further byte is     *)
(* parsed.                                                                 *)
Fail(code) ==
    /\ conn' = code /\ avail' = 0 /\ f' = FrameInit
    /\ msg' = NoMsg /\ ctrl' = <<>> /\ seen' = Nothing

-----------------------------------------------------------------------------
(* Only part of the header is here.                                        *)
HeaderPart(p, r) ==
    /\ r.rc = "more" /\ r.p.hdr < HdrLen
    /\ Turn(r) /\ seen' = Nothing /\ UNCHANGED <<msg, ctrl>>

(* A frame the parser refuses, or one with the wrong masking for its       *)
(* direction (RFC 6455 5.1).                                               *)
BadFrame(p, r) ==
    \/ r.rc = "error" /\ Fail("1002")
    \/ /\ r.rc # "error" /\ r.p.hdr = HdrLen /\ p.frame.flaw = "mask"
       /\ Fail("1002")

(* The payload has begun and the frame is larger than allowed.             *)
TooLarge(p, r) ==
    r.take > 0 /\ Len(p.frame.pay) > MaxFrame

MutGathered(p, r) ==
    SubSeq(p.frame.pay, p.read + 1, p.read + r.take)

(* ctrl_buf after this call: gathered across reads, from the frame's first *)
(* payload byte on.                                                        *)
Gathered(p, r) ==
    (IF p.read = 0 THEN <<>> ELSE ctrl) \o SubSeq(p.frame.pay, p.read + 1, p.read + r.take)

(***************************************************************************)
(* A control frame: gathered, and acted on once complete, on all of it.  A *)
(* ping goes to on_ping or is answered with its payload; a Close ends the  *)
(* connection with its status, or with the one its payload check gives.    *)
(***************************************************************************)
Control(p, r) ==
    /\ IsControl(p.frame) /\ ~TooLarge(p, r)
    /\ r.p.hdr = HdrLen
    /\ LET c == IF r.take > 0 THEN Gathered(p, r) ELSE IF r.rc = "done" THEN <<>> ELSE ctrl
       IN  \/ /\ r.rc = "more" \/ p.frame.op # "close"
              /\ Turn(r)
              /\ ctrl' = IF r.rc = "done" THEN <<>> ELSE c
              /\ seen' = IF r.rc = "done"
                         THEN [kind |-> "control", op |-> p.frame.op, got |-> c,
                               sent |-> p.frame.pay]
                         ELSE Nothing
              /\ UNCHANGED msg
           \/ /\ r.rc = "done" /\ p.frame.op = "close"
              /\ conn' = IF ClosePayloadCheck(c) # "0" THEN ClosePayloadCheck(c) ELSE "closed"
              /\ avail' = 0 /\ f' = FrameInit
              /\ msg' = NoMsg /\ ctrl' = <<>>
              /\ seen' = [kind |-> "control", op |-> "close", got |-> c,
                          sent |-> p.frame.pay]

(* Does this call start a data frame, and is that frame out of place?      *)
OutOfPlace(p, r) ==
    /\ p.read = 0 /\ (r.take > 0 \/ r.rc = "done")
    /\ IF p.frame.op = "cont" THEN msg.op = "none" ELSE msg.op # "none"

MutAssembled(p, r) ==
    LET bytes == SubSeq(p.frame.pay, p.read + 1, p.read + r.take)
    IN  IF p.frame.op # "cont"
        THEN [op |-> p.frame.op, data |-> bytes, utf |-> "ok"]
        ELSE [msg EXCEPT !.data = @ \o bytes]

(***************************************************************************)
(* The message after this call's bytes: a non-continuation frame opens it  *)
(* at its first byte only, later bytes of the same frame append.           *)
(***************************************************************************)
Assembled(p, r) ==
    LET bytes == SubSeq(p.frame.pay, p.read + 1, p.read + r.take)
        base  == IF p.read = 0 /\ p.frame.op # "cont"
                 THEN [op |-> p.frame.op, data |-> <<>>, utf |-> "ok"] ELSE msg
    IN  [base EXCEPT !.data = @ \o bytes,
                     !.utf = IF base.op = "text" THEN Utf8Validate(@, bytes) ELSE @]

(***************************************************************************)
(* A data frame: reassembled, checked, and delivered with the final        *)
(* fragment.  On the client, on_message may free or close the connection,  *)
(* and the loop stops.                                                     *)
(***************************************************************************)
Data(p, r, w) ==
    /\ ~IsControl(p.frame) /\ ~TooLarge(p, r)
    /\ r.p.hdr = HdrLen
    /\ LET m    == Assembled(p, r)
           last == r.rc = "done" /\ p.frame.fin
       IN  \/ OutOfPlace(p, r) /\ Fail("1002")
           \/ ~OutOfPlace(p, r) /\ r.take > 0 /\ Len(m.data) > MaxMsg /\ Fail("1009")
           \/ /\ ~OutOfPlace(p, r) /\ Len(m.data) <= MaxMsg
              /\ m.utf = "bad" \/ (last /\ m.op = "text" /\ m.utf # "ok")
              /\ Fail("1007")
           \/ /\ ~OutOfPlace(p, r) /\ Len(m.data) <= MaxMsg /\ m.utf # "bad" /\ ~last
              /\ Turn(r) /\ seen' = Nothing /\ UNCHANGED ctrl
              /\ msg' = IF r.take > 0 \/ r.rc = "done" THEN m ELSE msg
           \/ /\ ~OutOfPlace(p, r) /\ Len(m.data) <= MaxMsg
              /\ last /\ (m.op = "text" => m.utf = "ok")
              /\ seen' = [kind |-> "message", op |-> m.op, got |-> m.data,
                          sent |-> w.data]
              /\ \/ Turn(r) /\ msg' = NoMsg /\ UNCHANGED ctrl
                 \/ /\ Role = "client"
                    /\ conn' = "closed" /\ avail' = 0 /\ f' = FrameInit
                    /\ msg' = NoMsg /\ ctrl' = <<>>

(***************************************************************************)
(* One turn of the loop: parse what is left of the read, then act on it.   *)
(***************************************************************************)
Step ==
    /\ conn = "open" /\ avail > 0
    /\ \E fr \in Incoming :
         LET p == [f EXCEPT !.frame = fr]
             r == FrameParse(p, avail)
             w == IF f.frame = NoFrame THEN Wanted(fr) ELSE want
         IN  /\ n' = IF f.frame = NoFrame THEN n + 1 ELSE n
             /\ \/ HeaderPart(p, r)
                \/ BadFrame(p, r)
                \/ fr.flaw = "none" /\ TooLarge(p, r) /\ Fail("1009")
                \/ fr.flaw = "none" /\ Control(p, r)
                \/ fr.flaw = "none" /\ Data(p, r, w)
             /\ want' = IF conn' # "open" \/ seen'.kind = "message" THEN NoMsg ELSE w

Next == Step \/ \E k \in 1..MaxRead : Read(k)

Spec == Init /\ [][Next]_vars

-----------------------------------------------------------------------------
(***************************************************************************)
(* What the application is given is what the peer sent: a message is the   *)
(* payloads of its frames in order, and a ping, pong or Close carries its  *)
(* whole payload, however the reads cut the frames and however many        *)
(* control frames come between the fragments (ctrl_buf, msg_buf).  A text  *)
(* message is whole UTF-8: every character that begins also ends.          *)
(***************************************************************************)
DeliveredIntact ==
    /\ seen.got = seen.sent
    /\ (seen.kind = "message" /\ seen.op = "text") =>
         \A i \in 1..Len(seen.got) :
            /\ seen.got[i] = "L" => (i < Len(seen.got) /\ seen.got[i + 1] = "T")
            /\ seen.got[i] = "T" => (i > 1 /\ seen.got[i - 1] = "L")

(***************************************************************************)
(* The loop neither holds a message back nor loses its place: between      *)
(* frames, the message it is assembling is the one the peer is in the      *)
(* middle of, and it has one exactly when the peer has.                    *)
(***************************************************************************)
AssemblyInStep ==
    (conn = "open" /\ f.frame = NoFrame) =>
        msg.op = want.op /\ msg.data = want.data
=============================================================================
