---------------------------- MODULE Http1Chunked -----------------------------
(***************************************************************************)
(* The chunked transfer decoder of src/protocols/http/http1_chunked.c: it  *)
(* is called with whatever a read returned, keeps its place between calls, *)
(* and hands the body to the reader.  It is checked against the grammar,   *)
(* stated on the whole of what has arrived.                                *)
(*                                                                         *)
(* Symbols: "0" and "1" are the digits (radix 2 for 16, with the limits    *)
(* scaled to it), "R" and "N" are CR and LF, ";" starts an extension, "x"  *)
(* is any other byte a field may hold and "c" a control byte.              *)
(***************************************************************************)
EXTENDS Integers, SequencesExt, FiniteSetsExt

CONSTANTS
    Inputs,         \* what the peer sends, sequences of symbols
    MaxChunk,       \* most bytes one read delivers
    MaxDigits,      \* 16 in the code
    SizeMax,        \* SIZE_MAX
    ExtMax, TrailerMax,
    BodyMax         \* what the body reader accepts

VARIABLES dec, wire, body

vars == <<dec, wire, body>>

ChunkedInit ==
    [st |-> "size", left |-> 0, accum |-> 0, digits |-> 0, cr |-> FALSE, meta |-> 0]

Digit(ch) == IF ch = "1" THEN 1 ELSE 0
FieldByte(ch) == ch \notin {"R", "N", "c"}

\* One turn of the decoder's loop on the bytes d: the decoder after it, how many
\* bytes it used, and how many of those go to the reader.
Turn(x, used, out) == [x |-> x, used |-> used, out |-> out]
Bad(x) == Turn([x EXCEPT !.st = "error"], 0, 0)

InSize(x, ch) ==
    CASE ch \in {"0", "1"} ->
            IF x.digits >= MaxDigits \/ x.accum > SizeMax \div 2
            THEN Bad(x)
            ELSE Turn([x EXCEPT !.accum = 2 * @ + Digit(ch), !.digits = @ + 1], 1, 0)
      [] ch = ";" /\ x.digits > 0 -> Turn([x EXCEPT !.st = "ext", !.meta = 0], 1, 0)
      [] ch = "R" /\ x.digits > 0 -> Turn([x EXCEPT !.st = "size_cr"], 1, 0)
      [] OTHER -> Bad(x)

InExt(x, ch) ==
    CASE ch = "R" -> Turn([x EXCEPT !.st = "size_cr"], 1, 0)
      [] FieldByte(ch) /\ x.meta < ExtMax -> Turn([x EXCEPT !.meta = @ + 1], 1, 0)
      [] OTHER -> Bad(x)

\* The line of a size ends: the size is taken and its digits are reset.
MutSizeTaken(x) == [x EXCEPT !.left = x.accum, !.accum = 0]
SizeTaken(x) == [x EXCEPT !.left = x.accum, !.accum = 0, !.digits = 0]

InSizeCr(x, ch) ==
    LET y == SizeTaken(x)
    IN  IF ch # "N" THEN Bad(x)
        ELSE Turn(IF y.left = 0
                  THEN [y EXCEPT !.st = "trailer", !.cr = TRUE, !.meta = 0]
                  ELSE [y EXCEPT !.st = "data"], 1, 0)

InData(x, d) ==
    LET n == Min({Len(d), x.left})
    IN  Turn([x EXCEPT !.left = @ - n,
                       !.st = IF n = x.left THEN "data_cr" ELSE @,
                       !.cr = IF n = x.left THEN FALSE ELSE @], n, n)

\* The CR and the LF after a chunk may come in two reads.
MutDataCrSplit(x) == [x EXCEPT !.st = "size"]
DataCrSplit(x) == [x EXCEPT !.cr = TRUE]

InDataCr(x, d) ==
    LET on == [x EXCEPT !.st = "size"]
    IN  CASE x.cr ->
                IF d[1] = "N" THEN Turn([on EXCEPT !.cr = FALSE], 1, 0) ELSE Bad(x)
          [] ~x.cr /\ d[1] = "R" ->
                IF Len(d) = 1 THEN Turn(DataCrSplit(x), 1, 0)
                ELSE IF d[2] = "N" THEN Turn(on, 2, 0) ELSE Bad(x)
          [] OTHER -> Bad(x)

InTrailer(x, ch) ==
    LET y == [x EXCEPT !.meta = @ + 1]
    IN  CASE y.meta > TrailerMax -> Bad(y)
          [] y.meta <= TrailerMax /\ ch = "R" -> Turn([y EXCEPT !.st = "trailer_cr"], 1, 0)
          [] y.meta <= TrailerMax /\ FieldByte(ch) -> Turn([y EXCEPT !.cr = FALSE], 1, 0)
          [] OTHER -> Bad(y)

InTrailerCr(x, ch) ==
    LET y == [x EXCEPT !.meta = @ + 1]
    IN  CASE ch # "N" -> Bad(x)
          [] ch = "N" /\ y.meta > TrailerMax -> Bad(y)
          [] OTHER -> Turn(IF x.cr THEN [y EXCEPT !.st = "done"]
                           ELSE [y EXCEPT !.cr = TRUE, !.st = "trailer"], 1, 0)

OneTurn(x, d) ==
    CASE x.st = "size"       -> InSize(x, d[1])
      [] x.st = "ext"        -> InExt(x, d[1])
      [] x.st = "size_cr"    -> InSizeCr(x, d[1])
      [] x.st = "data"       -> InData(x, d)
      [] x.st = "data_cr"    -> InDataCr(x, d)
      [] x.st = "trailer"    -> InTrailer(x, d[1])
      [] x.st = "trailer_cr" -> InTrailerCr(x, d[1])

\* kl_http1_chunked_decode: the decoder, the body and what is left of d.
RECURSIVE Decode(_, _, _)
Decode(x, b, d) ==
    IF d = <<>> \/ x.st \in {"done", "error"} THEN [x |-> x, body |-> b]
    ELSE LET t == OneTurn(x, d)
             c == b \o SubSeq(d, 1, t.out)
         IN  IF Len(c) > BodyMax
             THEN [x |-> [x EXCEPT !.st = "error"], body |-> b]
             ELSE Decode(t.x, c, SubSeq(d, t.used + 1, Len(d)))

\* ------------------------------------------------------------ the actions

Init ==
    /\ dec = ChunkedInit
    /\ wire \in [all : Inputs, at : {0}]
    /\ body = <<>>

\* The connection stops reading the body at the verdict.
Read ==
    \E n \in 1..MaxChunk :
        /\ dec.st \notin {"done", "error"}
        /\ wire.at + n <= Len(wire.all)
        /\ LET r == Decode(dec, body, SubSeq(wire.all, wire.at + 1, wire.at + n))
           IN  dec' = r.x /\ body' = r.body
        /\ wire' = [wire EXCEPT !.at = @ + n]

Next == Read

Spec == Init /\ [][Next]_vars

\* --------------------------------------------- the grammar, on all that came

Outcome(b, end) == [body |-> b, end |-> end]

\* The least place of S, or the one past the end of b.
FirstOf(S, b) == Min(S \cup {Len(b) + 1})

\* The value of a run of digits.
RECURSIVE Value(_)
Value(ds) == IF ds = <<>> THEN 0 ELSE 2 * Value(Front(ds)) + Digit(Last(ds))

\* A chunk line at p: digits, maybe an extension, CR LF.
SizeLine(b, p) ==
    LET i   == FirstOf({k \in p..Len(b) : b[k] \notin {"0", "1"}}, b)
        ds  == SubSeq(b, p, i - 1)
        ext == i <= Len(b) /\ b[i] = ";"
        e   == IF ext THEN FirstOf({k \in (i + 1)..Len(b) : ~FieldByte(b[k])}, b) ELSE i
    IN  CASE Len(ds) > MaxDigits \/ Value(ds) > SizeMax -> [end |-> "error"]
          [] i > Len(b) -> [end |-> "more"]
          [] ds = <<>> -> [end |-> "error"]
          [] ext /\ e - i - 1 > ExtMax -> [end |-> "error"]
          [] e > Len(b) -> [end |-> "more"]
          [] b[e] # "R" -> [end |-> "error"]
          [] e = Len(b) -> [end |-> "more"]
          [] b[e + 1] # "N" -> [end |-> "error"]
          [] OTHER -> [end |-> "ok", size |-> Value(ds), next |-> e + 2]

\* The trailer section at p: lines of field bytes, up to an empty one.
Trailer(b, p) ==
    LET cr(k)    == k >= p /\ b[k] = "R"
        wrong(k) == \/ k - p + 1 > TrailerMax
                    \/ b[k] = "c"
                    \/ (b[k] = "N") # cr(k - 1)
        empty(k) == /\ b[k] = "N" /\ cr(k - 1)
                    /\ k - 1 = p \/ b[k - 2] = "N"
        stop == FirstOf({k \in p..Len(b) : wrong(k) \/ empty(k)}, b)
    IN  IF stop > Len(b) THEN "more" ELSE IF wrong(stop) THEN "error" ELSE "done"

RECURSIVE Grammar(_, _, _)
Grammar(b, p, sofar) ==
    LET line == SizeLine(b, p)
        d    == line.next
        z    == d + line.size
        got  == sofar \o SubSeq(b, d, Min({z - 1, Len(b)}))
    IN  CASE line.end # "ok" -> Outcome(sofar, line.end)
          [] line.end = "ok" /\ line.size = 0 -> Outcome(sofar, Trailer(b, d))
          [] OTHER ->
                IF Len(got) > BodyMax THEN Outcome(got, "error")
                ELSE IF z > Len(b) THEN Outcome(got, "more")
                ELSE IF b[z] # "R" THEN Outcome(got, "error")
                ELSE IF z = Len(b) THEN Outcome(got, "more")
                ELSE IF b[z + 1] # "N" THEN Outcome(got, "error")
                ELSE Grammar(b, z + 2, got)

\* ------------------------------------------------------------ properties

Verdict == IF dec.st \in {"done", "error"} THEN dec.st ELSE "more"

\* Wherever the reads cut the stream, the decoder's verdict is the grammar's on
\* what has arrived (a malformed chunk is refused at the byte that is wrong, a
\* terminal chunk is recognised at its last byte), and the reader holds exactly
\* the chunk data of it, or the beginning of it that it accepted.
DecodesTheGrammar ==
    LET ref == Grammar(SubSeq(wire.all, 1, wire.at), 1, <<>>)
    IN  /\ Verdict = ref.end
        /\ IF Len(ref.body) > BodyMax THEN IsPrefix(body, ref.body)
           ELSE body = ref.body

==============================================================================
