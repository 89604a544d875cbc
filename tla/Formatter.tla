------------------------------ MODULE Formatter ------------------------------
(***************************************************************************)
(* The parts of Formatter::format (src/src/exec/debugger.cpp): reading a   *)
(* directive %[flags][width.limit][length]type, taking its argument, and   *)
(* rendering it; Debugger.tla has the loop.  A character is a string of    *)
(* length 1, a pattern or a text a sequence of them; arguments are a       *)
(* sequence of 16 bit words.                                               *)
(***************************************************************************)
EXTENDS Integers, Sequences, SequencesExt, TLC

CONSTANT Strings    \* what is in memory: address to characters

NUL == "NUL"        \* the character that ends a pattern

Symbols == <<"0", "1", "2", "3", "4", "5", "6", "7", "8", "9",
             "a", "b", "c", "d", "e", "f">>
Digits == {Symbols[i] : i \in 1 .. 10}
Flags  == {"#", "0", "-", "'"}

\* The characters that arguments of type c have in the model.
CharOf == (10 :> "\n") @@ (65 :> "A") @@ (37 :> "%")

CharAt(p, i) == IF i <= Len(p) THEN p[i] ELSE NUL

\* Where the run of characters of S that begins at i ends.
PastAll(p, i, S) ==
    CHOOSE j \in i .. (Len(p) + 1) :
        CharAt(p, j) \notin S /\ \A k \in i .. (j - 1) : p[k] \in S

\* A decimal number read on top of what the variable held.
Accumulate(from, s) ==
    FoldLeft(LAMBDA n, c : n * 10 + SelectInSeq(Symbols, LAMBDA d : d = c) - 1, from, s)

\* The pattern goes on behind the type, which may be missing.
After(p, t) == IF CharAt(p, t) = NUL THEN t ELSE t + 1

\* The directive at i.  The limit starts as ~0, which is -1 modulo 2^32, and
\* digits are added to that; a negative limit stands for one above any length.
\* Zeros fill only where there is no width.
Directive(p, i) ==
    LET f == PastAll(p, i + 1, Flags)
        w == PastAll(p, f, Digits)
        l == IF CharAt(p, w) = "." THEN PastAll(p, w + 1, Digits) ELSE w
        t == IF CharAt(p, l) = "l" THEN l + 1 ELSE l
        pointer == CharAt(p, t) = "p"
        width   == Accumulate(0, SubSeq(p, f, w - 1))
        flags   == {p[k] : k \in (i + 1) .. (f - 1)}
    IN  [flags     |-> flags \cup IF pointer THEN {"#"} ELSE {},
         zero_fill |-> pointer \/ ("0" \in flags /\ width = 0),
         width     |-> width,
         limit     |-> Accumulate(-1, SubSeq(p, w + 1, l - 1)),
         long      |-> pointer \/ t > l,
         type      |-> IF pointer THEN "x" ELSE CharAt(p, t),
         next      |-> After(p, t)]

\* How far a directive advances the argument pointer, in words.
WordsTaken(d) ==
    CASE d.type \in {"c", "d", "u", "x"} -> IF d.long THEN 2 ELSE 1
      [] d.type \in {"s", "b"}           -> 2
      [] OTHER                           -> 0

\* A 16 bit argument is not sign extended; a long is big-endian, with sign.
Argument(d, data, j) ==
    CASE WordsTaken(d) = 0 -> 0
      [] WordsTaken(d) = 1 -> data[j]
      [] OTHER -> (IF data[j] >= 2^15 THEN data[j] - 2^16 ELSE data[j]) * 2^16 + data[j + 1]

\* The digits of a number, from the right: a comma after every third, if more
\* follow.
Numeral(value, base, grouped) ==
    LET Left[n \in Nat, digit \in Nat] ==
            IF n = 0 THEN << >>
            ELSE Left[n \div base, digit + 1]
                 \o (IF grouped /\ n >= base /\ (digit + 1) % 3 = 0 THEN <<",">> ELSE << >>)
                 \o << Symbols[(n % base) + 1] >>
    IN  IF value = 0 THEN <<"0">> ELSE Left[value, 0]

\* [start, end): the text of a directive before it is padded.
Body(d, v) ==
    LET grouped == "'" \in d.flags
    IN  CASE d.type = "c" -> << CharOf[v] >>
          [] d.type = "d" /\ v < 0  -> <<"-">> \o Numeral(-v, 10, grouped)
          [] d.type = "d" /\ v >= 0 -> Numeral(v, 10, grouped)
          [] d.type = "u" -> Numeral(v, 10, grouped)
          [] d.type = "x" -> (IF "#" \in d.flags THEN <<"0", "x">> ELSE << >>)
                             \o Numeral(v, 16, FALSE)
          [] d.type \in {"s", "b"} ->
                IF v = 0 THEN << >>
                ELSE IF d.type = "s" /\ d.limit \in 0 .. Len(Strings[v])
                THEN SubSeq(Strings[v], 1, d.limit) ELSE Strings[v]
          [] OTHER -> << d.type >>

Repeated(c, n) == [i \in 1 .. n |-> c]

\* The text of a directive, cut off or padded.
Field(d, v) ==
    LET text == Body(d, v)
        fill == Repeated(IF d.zero_fill THEN "0" ELSE " ", d.width - Len(text))
    IN  CASE d.limit \in 0 .. (Len(text) - 1) -> SubSeq(text, 1, d.limit)
          [] Len(text) >= d.width /\ d.limit \notin 0 .. (Len(text) - 1) -> text
          [] OTHER -> IF d.zero_fill \/ "-" \notin d.flags THEN fill \o text ELSE text \o fill

\* Where literal text that begins at i ends.
TextEnd(p, i) == PastAll(p, i, {p[k] : k \in DOMAIN p} \ {"%"})
=============================================================================
