----------------------------- MODULE MimeParams ------------------------------
(***************************************************************************)
(* The header values of the multipart reader                               *)
(* (src/protocols/http/http_body_reader_multipart.c): finding a parameter  *)
(* in a value that holds quoted strings, and taking the name, the file     *)
(* name and the boundary out of it.  A value is a sequence of symbols: the *)
(* parameter names with their '=' ("name", "filename", "boundary"), the    *)
(* quote "q", the backslash "e", the separators ";" and "_" (blank), a     *)
(* control byte "c" and text "x".  The model spells every value out, one   *)
(* symbol after the other.                                                 *)
(***************************************************************************)
EXTENDS Integers, SequencesExt, FiniteSetsExt

CONSTANTS Symbols, MaxLen, MaxBoundary

VARIABLE val

\* mp_quote_close: the first quote of v at or after i that is not escaped, 0 if
\* there is none.
MutEscapes(v, i) == FALSE
Escapes(v, i) == v[i] = "e"

RECURSIVE QuoteClose(_, _)
QuoteClose(v, i) ==
    IF i > Len(v) THEN 0
    ELSE IF Escapes(v, i) THEN QuoteClose(v, i + 2)
    ELSE IF v[i] = "q" THEN i
    ELSE QuoteClose(v, i + 1)

\* mp_find_param: the place after the needle, 0 if it is not a parameter of v.
RECURSIVE FindFrom(_, _, _)
FindFrom(v, i, needle) ==
    IF i > Len(v) THEN 0
    ELSE IF v[i] = "q"
    THEN IF QuoteClose(v, i + 1) = 0 THEN 0
         ELSE FindFrom(v, QuoteClose(v, i + 1) + 1, needle)
    ELSE IF v[i] = needle /\ (i = 1 \/ v[i - 1] \in {";", "_"}) THEN i + 1
    ELSE FindFrom(v, i + 1, needle)

FindParam(v, needle) == FindFrom(v, 1, needle)

\* An unquoted value runs to the first of `stops`; blanks at its end are not its own.
RECURSIVE Stripped(_)
Stripped(t) == IF t # <<>> /\ Last(t) = "_" THEN Stripped(Front(t)) ELSE t

Token(v, p, stops) ==
    LET ends == {i \in p..Len(v) : v[i] \in stops}
    IN  SubSeq(v, p, Min(ends \cup {Len(v) + 1}) - 1)

Bad == [ok |-> FALSE, value |-> <<>>]
Good(t) == [ok |-> TRUE, value |-> t]

\* The value at p.
Value(v, p, stops) ==
    IF p <= Len(v) /\ v[p] = "q"
    THEN LET z == QuoteClose(v, p + 1)
         IN  IF z = 0 THEN Bad ELSE Good(SubSeq(v, p + 1, z - 1))
    ELSE Good(Stripped(Token(v, p, stops)))

HasCtl(t) == \E i \in DOMAIN t : t[i] = "c"

\* mp_parse_disposition: a name is required, a file name may be missing.
Disposition(v) ==
    LET n  == FindParam(v, "name")
        f  == FindParam(v, "filename")
        nv == Value(v, n, {";"})
        fv == Value(v, f, {";"})
        nameOk == n > 0 /\ nv.ok /\ nv.value # <<>> /\ ~HasCtl(nv.value)
        fileOk == f = 0 \/ (fv.ok /\ ~HasCtl(fv.value))
    IN  [ok |-> nameOk /\ fileOk, name |-> n, file |-> f]

\* The boundary of the request's own Content-Type, in the factory.
BoundaryOf(v) ==
    LET b == FindParam(v, "boundary")
        t == Value(v, b, {";", "_"})
    IN  IF b > 0 /\ t.ok /\ Len(t.value) \in 1..MaxBoundary THEN t ELSE Bad

Init == val = <<>>
Next == \E s \in Symbols : Len(val) < MaxLen /\ val' = Append(val, s)
Spec == Init /\ [][Next]_val

\* ------------------------------------------------------------ properties

\* A scan of v as text and quoted strings: the mode after i symbols.
Modes(v) ==
    LET mode[i \in 0..Len(v)] ==
            IF i = 0 THEN "out"
            ELSE CASE mode[i - 1] = "out" -> IF v[i] = "q" THEN "in" ELSE "out"
                   [] mode[i - 1] = "in"  -> CASE v[i] = "q" -> "out"
                                               [] v[i] = "e" -> "escaped"
                                               [] OTHER -> "in"
                   [] mode[i - 1] = "escaped" -> "in"
    IN  mode

\* The places of v where the needle stands as a parameter outside any string.
Params(v, needle) ==
    {i \in 1..Len(v) : /\ v[i] = needle /\ Modes(v)[i - 1] = "out"
                       /\ i = 1 \/ v[i - 1] \in {";", "_"}}

\* What a quoted string holds never names a parameter: the parameter that is
\* found is the first one outside of every quoted string, and where there is one
\* it is found.  An accepted disposition has such a name; a boundary fits.
ParamsOutsideStrings ==
    /\ \A needle \in {"name", "filename", "boundary"} :
          FindParam(val, needle) =
              (IF Params(val, needle) = {} THEN 0 ELSE Min(Params(val, needle)) + 1)
    /\ Disposition(val).ok =>
          /\ Params(val, "name") # {}
          /\ val[Disposition(val).name - 1] = "name"
    /\ BoundaryOf(val).ok => Len(BoundaryOf(val).value) \in 1..MaxBoundary

==============================================================================
