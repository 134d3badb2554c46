-------------------------------- MODULE Utf8 ---------------------------------
(***************************************************************************)
(* The incremental UTF-8 validator of src/utf8.h, its two tables included, *)
(* against a definition of UTF-8 by the code points it encodes.  The state *)
(* is carried between calls, so the cuts of a text over frames and reads   *)
(* are just places in one sequence of bytes.                               *)
(***************************************************************************)
EXTENDS Integers, SequencesExt

CONSTANTS Bytes, MaxLen

VARIABLES state, text

vars == <<state, text>>

ACCEPT == 0
REJECT == 12

\* kl_utf8_class, by its runs.
Class(b) ==
    CASE b \in 0..127   -> 0
      [] b \in 128..143 -> 1
      [] b \in 144..159 -> 9
      [] b \in 160..191 -> 7
      [] b \in 194..223 -> 2
      [] b = 224        -> 10
      [] b = 237        -> 4
      [] b \in 225..239 \ {237} -> 3
      [] b = 240        -> 11
      [] b \in 241..243 -> 6
      [] b = 244        -> 5
      [] OTHER          -> 8

\* kl_utf8_trans; a state is the offset of its row of 12 classes.
MutTrans ==
    << 0,12,24,36,60,96,84,12,12,12,48,72, 12,12,12,12,12,12,12,12,12,12,12,12,
      12, 0,12,12,12,12,12, 0,12, 0,12,12, 12,24,12,12,12,12,12,24,12,24,12,12,
      12,24,12,12,12,12,12,24,12,12,12,12, 12,24,12,12,12,12,12,12,12,24,12,12,
      12,12,12,12,12,12,12,36,12,36,12,12, 12,36,12,12,12,12,12,36,12,36,12,12,
      12,36,12,12,12,12,12,12,12,12,12,12 >>
Trans ==
    << 0,12,24,36,60,96,84,12,12,12,48,72, 12,12,12,12,12,12,12,12,12,12,12,12,
      12, 0,12,12,12,12,12, 0,12, 0,12,12, 12,24,12,12,12,12,12,24,12,24,12,12,
      12,12,12,12,12,12,12,24,12,12,12,12, 12,24,12,12,12,12,12,12,12,24,12,12,
      12,12,12,12,12,12,12,36,12,36,12,12, 12,36,12,12,12,12,12,36,12,36,12,12,
      12,36,12,12,12,12,12,12,12,12,12,12 >>

Init == state = ACCEPT /\ text = <<>>

\* One byte of kl_utf8_validate; a rejected text is read no further.
Validate ==
    \E b \in Bytes :
        /\ state # REJECT /\ Len(text) < MaxLen
        /\ state' = Trans[state + Class(b) + 1]
        /\ text' = Append(text, b)

Next == Validate

Spec == Init /\ [][Next]_vars

\* ------------------------------------------------------------ properties

\* The number of bytes a first byte announces, 0 if it is not one.
Announced(b) == CASE b < 128 -> 1 [] b \in 192..223 -> 2 [] b \in 224..239 -> 3
                  [] b \in 240..247 -> 4 [] OTHER -> 0

Lead(b, n) == CASE n = 1 -> b [] n = 2 -> b - 192 [] n = 3 -> b - 224 [] n = 4 -> b - 240

\* The value of an encoding that has all its bytes.
CodePoint(s) ==
    LET up[i \in 1..Len(s)] ==
            IF i = 1 THEN Lead(s[1], Len(s)) ELSE 64 * up[i - 1] + s[i] - 128
    IN  up[Len(s)]

\* The least code point that needs n bytes.
Least(n) == CASE n = 1 -> 0 [] n = 2 -> 128 [] n = 3 -> 2048 [] n = 4 -> 65536

IsChar(s) ==
    /\ Len(s) > 0 /\ Announced(s[1]) = Len(s)
    /\ \A i \in 2..Len(s) : s[i] \in 128..191
    /\ CodePoint(s) \in Least(Len(s))..1114111
    /\ CodePoint(s) \notin 55296..57343

RECURSIVE IsText(_)
IsText(s) == s = <<>> \/ \E n \in 1..4 :
                            /\ n <= Len(s)
                            /\ IsChar(SubSeq(s, 1, n))
                            /\ IsText(SubSeq(s, n + 1, Len(s)))

Tails == {<<>>} \cup {<<b>> : b \in {128, 144, 160}}
                \cup {<<b, 128>> : b \in {128, 144, 160}}
                \cup {<<b, 128, 128>> : b \in {128, 144, 160}}

\* The validator accepts exactly the complete texts of well-formed characters
\* (no overlong form, no surrogate, nothing past the last code point), and it
\* rejects at the first byte after which no further bytes could make one.
ValidatesUtf8 ==
    /\ (state = ACCEPT) <=> IsText(text)
    /\ (state = REJECT) <=> ~\E t \in Tails : IsText(text \o t)

==============================================================================
