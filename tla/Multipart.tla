------------------------------ MODULE Multipart ------------------------------
(***************************************************************************)
(* The streaming multipart/form-data reader of                             *)
(* src/protocols/http/http_body_reader_multipart.c: the connection pushes  *)
(* bytes (on_data), the handler pulls events (kl_http_multipart_next).     *)
(* Where the bytes are cut has no meaning in the format, so what the       *)
(* handler sees must be what a parser of the whole body would see.         *)
(*                                                                         *)
(* Bytes are symbols: "R" and "N" are CR and LF, "D" is '-', every other   *)
(* symbol is text.  A part header line is told by its first symbol: "V" is *)
(* a Content-Disposition with a usable name, "M" one without; what is in   *)
(* the value is the subject of MimeParams.                                 *)
(***************************************************************************)
EXTENDS Integers, SequencesExt, FiniteSetsExt

CONSTANTS
    Boundary,       \* the boundary, a sequence of symbols
    Bodies,         \* the request bodies, sequences of symbols
    MaxChunk,       \* most bytes one read of the connection delivers
    MaxPartSize, MaxTotal, MaxParts, MaxHeaders, MaxInput   \* 0 is no limit

VARIABLES
    mp,       \* the KlHttpMultipartReader
    wire,     \* the body of the request and how much of it was delivered
    seen      \* what the handler has been given: the parts, and the last event

vars == <<mp, wire, seen>>

CRLF == <<"R", "N">>
Delimiter == CRLF \o <<"D", "D">> \o Boundary
Dashed == SubSeq(Delimiter, 3, Len(Delimiter))

Over(n, limit) == limit > 0 /\ n > limit

Occurs(hay, needle) ==
    {i \in 1..(Len(hay) - Len(needle) + 1) :
        SubSeq(hay, i, i + Len(needle) - 1) = needle}

\* The place of the first occurrence, 0 where there is none.
MemMem(hay, needle) ==
    IF Occurs(hay, needle) = {} THEN 0 ELSE Min(Occurs(hay, needle))

Drop(s, n) == SubSeq(s, n + 1, Len(s))

\* ------------------------------------------------------------ the reader

Factory == [st |-> "preamble", err |-> "none", input |-> <<>>, consumed |-> 0,
            ended |-> FALSE, total |-> 0, size |-> 0, parts |-> 0,
            hdr |-> <<>>]

ApplyConsume(m) == [m EXCEPT !.input = Drop(@, m.consumed), !.consumed = 0]

Fail(m, code) == [m EXCEPT !.st = "error", !.err = code]

Event(m, e) == [m |-> m, evt |-> e, data |-> <<>>]
Failed(m, code) == Event(Fail(m, code), "error")
NeedOrEof(m) == IF m.ended THEN Failed(m, "eof") ELSE Event(m, "need_data")

\* The lines of a header block up to its empty line: the first one counts.
LineStarts(h) ==
    {1} \cup {i + 2 : i \in Occurs(h, CRLF) \ {Len(h) - 1, Len(h) - 3}}

ParseHeaders(h) ==
    /\ SubSeq(h, 1, 2) # CRLF
    /\ \A i \in LineStarts(h) : h[i] # "M"
    /\ \E i \in LineStarts(h) : h[i] = "V"

\* The part headers: bytes move to the header buffer up to its limit, and
\* those past the empty line go back to the front of the input.  A header
\* buffer that cannot grow fails; the code reports that as headers too large,
\* here it is "nomem".
PushBack(hdr, end, input) == Drop(hdr, end) \o input

InHeaders(m) ==
    LET room == IF MaxHeaders = 0 THEN Len(m.input) ELSE MaxHeaders - Len(m.hdr)
        take == Min({Len(m.input), room})
        hdr  == m.hdr \o SubSeq(m.input, 1, take)
        rest == Drop(m.input, take)
        end  == MemMem(hdr, CRLF \o CRLF) + 3
        kept == [m EXCEPT !.hdr = hdr, !.input = rest]
        part == [m EXCEPT !.hdr = SubSeq(hdr, 1, end),
                          !.input = PushBack(hdr, end, rest)]
    IN  CASE m.input = <<>> -> {NeedOrEof(m)}
          [] m.input # <<>> /\ room = 0 -> {Failed(m, "headers")}
          [] m.input # <<>> /\ room > 0 /\ end = 3 ->
                {IF rest # <<>> THEN Failed(kept, "headers") ELSE NeedOrEof(kept),
                 Failed(m, "nomem")}
          [] OTHER ->
                {Failed(m, "nomem")}
                  \cup IF ParseHeaders(SubSeq(hdr, 1, end))
                       THEN {Event([part EXCEPT !.parts = @ + 1, !.st = "body", !.hdr = <<>>],
                                   "part_begin"),
                             Failed(part, "nomem")}
                       ELSE {Failed(part, "malformed")}

AfterBoundary(m) ==
    LET two == SubSeq(m.input, 1, 2)
        on  == [m EXCEPT !.input = Drop(@, 2)]
    IN  CASE Len(m.input) < 2 -> {NeedOrEof(m)}
          [] Len(m.input) >= 2 /\ two = <<"D", "D">> ->
                {Event([on EXCEPT !.st = "done"], "done")}
          [] Len(m.input) >= 2 /\ two = CRLF ->
                IF MaxParts > 0 /\ m.parts >= MaxParts
                THEN {Failed(m, "parts")}
                ELSE InHeaders([on EXCEPT !.st = "headers", !.hdr = <<>>, !.size = 0])
          [] OTHER -> {Failed(m, "malformed")}

\* Before the first boundary: all but what could be its beginning is dropped.
Keep(n) == n - 1

InPreamble(m) ==
    LET at == MemMem(m.input, Dashed)
        n  == Len(Dashed)
    IN  CASE Len(m.input) < n -> {NeedOrEof(m)}
          [] Len(m.input) >= n /\ at > 0 ->
                AfterBoundary([m EXCEPT !.input = Drop(@, at + n - 1),
                                        !.st = "after_boundary"])
          [] OTHER ->
                {NeedOrEof([m EXCEPT !.input = Drop(@, Len(@) - Keep(n))])}

\* n bytes of body go to the handler; they leave the buffer at the next call.
EmitData(m, n) ==
    IF Over(m.size + n, MaxPartSize)
    THEN Failed(m, "part_size")
    ELSE [m |-> [m EXCEPT !.size = @ + n, !.consumed = n],
          evt |-> "part_data", data |-> SubSeq(m.input, 1, n)]

\* Without a delimiter in the input, the bytes that cannot begin one are safe.
MutSafe(m) == Len(m.input)
Safe(m) == Len(m.input) - (Len(Delimiter) - 1)

InBody(m) ==
    LET at == MemMem(m.input, Delimiter)
    IN  CASE at > 1 -> {EmitData(m, at - 1)}
          [] at = 1 ->
                {Event([m EXCEPT !.input = Drop(@, Len(Delimiter)),
                                 !.st = "after_boundary"], "part_end")}
          [] at = 0 /\ Safe(m) > 0 -> {EmitData(m, Safe(m))}
          [] OTHER -> {NeedOrEof(m)}

\* kl_http_multipart_next: one event.
Advance(m) ==
    CASE m.st = "error"          -> {Event(m, "error")}
      [] m.st = "done"           -> {Event(m, "done")}
      [] m.st = "preamble"       -> InPreamble(m)
      [] m.st = "after_boundary" -> AfterBoundary(m)
      [] m.st = "headers"        -> InHeaders(m)
      [] m.st = "body"           -> InBody(m)

\* ------------------------------------------------------------ the actions

Init ==
    /\ mp = Factory
    /\ wire \in [all : Bodies, at : {0}]
    /\ seen = [parts |-> <<>>, open |-> FALSE, last |-> "none", fresh |-> FALSE]

\* The handler sees one event.
Collected(e) ==
    [seen EXCEPT
        !.last = e.evt, !.fresh = FALSE,
        !.open = CASE e.evt = "part_begin" -> TRUE [] e.evt = "part_end" -> FALSE
                   [] OTHER -> @,
        !.parts = CASE e.evt = "part_begin" -> Append(@, <<>>)
                    [] e.evt = "part_data" -> [@ EXCEPT ![Len(@)] = @ \o e.data]
                    [] OTHER -> @]

MultipartNext ==
    \E e \in Advance(ApplyConsume(mp)) :
        /\ mp' = e.m
        /\ seen' = Collected(e)
        /\ UNCHANGED wire

\* mp_on_data; a refusal makes the connection answer 413 and stop reading.
\* A buffer that cannot grow fails too; the code reports it as an overflow,
\* here it is "nomem".
Reserve(m, n) == Over(Len(m.input) + n, MaxInput)

Taken(m, bytes) == [m EXCEPT !.input = @ \o bytes, !.total = @ + Len(bytes)]

OnData ==
    \E n \in 1..MaxChunk :
        /\ wire.at + n <= Len(wire.all)
        /\ mp.st # "error"
        /\ wire' = [wire EXCEPT !.at = @ + n]
        /\ seen' = [seen EXCEPT !.fresh = mp.st # "done"]
        /\ mp' \in CASE mp.st = "done" -> {mp}
                     [] mp.st # "done" /\ Over(mp.total + n, MaxTotal) -> {Fail(mp, "total")}
                     [] mp.st # "done" /\ ~Over(mp.total + n, MaxTotal) /\ Reserve(mp, n) ->
                          {Fail(mp, "overflow")}
                     [] OTHER ->
                          {Taken(mp, SubSeq(wire.all, wire.at + 1, wire.at + n)),
                           Fail(mp, "nomem")}

OnComplete ==
    /\ wire.at = Len(wire.all)
    /\ ~mp.ended
    /\ mp' = [mp EXCEPT !.ended = TRUE]
    /\ UNCHANGED <<wire, seen>>

\* The connection fails: an error the parser already has is kept.  The code
\* reports it as a premature end; it has a name of its own here.
OnError ==
    /\ ~mp.ended
    /\ mp' = IF mp.st = "done" THEN [mp EXCEPT !.ended = TRUE]
             ELSE [mp EXCEPT !.st = "error", !.ended = TRUE,
                             !.err = IF @ = "none" THEN "aborted" ELSE @]
    /\ UNCHANGED <<wire, seen>>

Next == MultipartNext \/ OnData \/ OnComplete \/ OnError

Spec == Init /\ [][Next]_vars

\* ------------------------------------------- the format, on a whole body

\* The first occurrence at or after place p, 0 where there is none.
From(b, p, needle) ==
    LET all == {i \in Occurs(b, needle) : i >= p}
    IN  IF all = {} THEN 0 ELSE Min(all)

Outcome(parts, end) == [parts |-> parts, end |-> end]

RECURSIVE Whole(_, _, _)
Whole(b, p, parts) ==
    LET h    == p + 2
        e    == From(b, h, CRLF \o CRLF)
        q    == e + 4
        d    == From(b, q, Delimiter)
        left == Len(b) + 1 - q
        body == SubSeq(b, q, IF d = 0 THEN Len(b) ELSE d - 1)
        two  == SubSeq(b, p, Min({p + 1, Len(b)}))
    IN  CASE Len(two) < 2 -> Outcome(parts, "eof")
          [] two = <<"D", "D">> -> Outcome(parts, "done")
          [] Len(two) = 2 /\ two \notin {CRLF, <<"D", "D">>} ->
                Outcome(parts, "malformed")
          [] OTHER ->
                IF MaxParts > 0 /\ Len(parts) >= MaxParts
                THEN Outcome(parts, "parts")
                ELSE IF Over((IF e = 0 THEN Len(b) + 1 ELSE q) - h, MaxHeaders)
                THEN Outcome(parts, "headers")
                ELSE IF e = 0 THEN Outcome(parts, "eof")
                ELSE IF ~ParseHeaders(SubSeq(b, h, q - 1))
                THEN Outcome(parts, "malformed")
                ELSE IF Over(IF d = 0 THEN left - (Len(Delimiter) - 1) ELSE d - q,
                             MaxPartSize)
                THEN Outcome(Append(parts, body), "part_size")
                ELSE IF d = 0 THEN Outcome(Append(parts, body), "eof")
                ELSE Whole(b, d + Len(Delimiter), Append(parts, body))

Reference(b) ==
    LET at == From(b, 1, Dashed)
    IN  IF at = 0 THEN Outcome(<<>>, "eof") ELSE Whole(b, at + Len(Dashed), <<>>)

\* ------------------------------------------------------------ properties

\* However the body is cut into reads, and whenever the handler pulls, it is
\* given the parts that the whole body has: a finished part is complete, an
\* open one is a beginning of the real one, and the end of the stream is
\* reached with the verdict of the whole body (done, or the same error), apart
\* from failures of the connection, of memory and of the input limits.
AgreesWithWhole ==
    LET ref  == Reference(wire.all)
        n    == Len(seen.parts)
        cut  == {"aborted", "nomem", "total", "overflow"}
    IN  /\ n <= Len(ref.parts)
        /\ \A i \in 1..n :
              LET got == seen.parts[i]
              IN  IF i = n /\ seen.open
                  THEN IsPrefix(got, ref.parts[i])
                  ELSE got = ref.parts[i]
        /\ mp.st = "done" => ref.end = "done" /\ n = Len(ref.parts)
        /\ mp.st = "error" /\ mp.err \notin cut => mp.err = ref.end

\* Nothing that could be given is held back: when the handler has pulled all
\* there is (NEED_DATA, no bytes since), it has been given every part of what
\* was delivered, the open one but for bytes that may begin a delimiter, and
\* the buffer holds less than a delimiter: a handler that keeps up never
\* meets the input limit for bytes of an earlier read.
NothingHeldBack ==
    seen.last = "need_data" /\ ~seen.fresh /\ mp.st # "error" =>
        LET ref  == Reference(SubSeq(wire.all, 1, wire.at))
            n    == Len(ref.parts)
        IN  /\ Len(mp.input) < Len(Delimiter)
            /\ ref.end = "eof"
            /\ n = Len(seen.parts)
            /\ seen.open => Len(ref.parts[n]) - Len(seen.parts[n]) < Len(Delimiter)

==============================================================================
