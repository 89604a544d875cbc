---------------------------- MODULE FormatMeaning ----------------------------
(***************************************************************************)
(* What a format promises, without parsing one: a format is a sequence of  *)
(* literal texts and directives, written down as a pattern and arguments   *)
(* for Formatter.tla to read.  A number is spelled by the value of each of *)
(* its places rather than by repeated division.                            *)
(***************************************************************************)
EXTENDS Formatter

Literal(s) == [kind |-> "literal", text |-> s]

\* A directive: flags and width as they are written, the argument's value.
Shown(flags, width, long, type, value) ==
    [kind |-> "shown", flags |-> flags, width |-> width,
     long |-> long, type |-> type, value |-> value]

-----------------------------------------------------------------------------
(* How a format is written.                                                *)

\* The places of a number in a base, the highest first.
Places(v, base) ==
    LET n == CHOOSE n \in 1 .. 32 : v < base^n /\ (n > 1 => v >= base^(n - 1))
    IN  [i \in 1 .. n |-> Symbols[((v \div base^(n - i)) % base) + 1]]

Pattern(m) ==
    IF m.kind = "literal" THEN m.text
    ELSE <<"%">> \o m.flags \o (IF m.width = 0 THEN << >> ELSE Places(m.width, 10))
         \o (IF m.long THEN <<"l">> ELSE << >>)
         \o (IF m.type = NUL THEN << >> ELSE << m.type >>)

\* Two words of a long, negative ones in two's complement.
LongWords(v) == << (v \div 2^16) % 2^16, v % 2^16 >>

Arguments(m) ==
    CASE m.kind = "literal" -> << >>
      [] m.kind = "shown" /\ m.type \in {"s", "b", "p"} -> LongWords(m.value)
      [] m.kind = "shown" /\ m.type \in {"c", "d", "u", "x"} ->
            IF m.long THEN LongWords(m.value) ELSE << m.value >>
      [] OTHER -> << >>

PatternOf(f)   == FlattenSeq([i \in DOMAIN f |-> Pattern(f[i])])
ArgumentsOf(f) == FlattenSeq([i \in DOMAIN f |-> Arguments(f[i])])

-----------------------------------------------------------------------------
(* What it means.                                                          *)

HasFlag(m, c) == \E i \in DOMAIN m.flags : m.flags[i] = c

\* The places with a comma in front of every full group of three but the first.
Grouped(s) ==
    FlattenSeq([i \in DOMAIN s |->
        IF i > 1 /\ (Len(s) + 1 - i) % 3 = 0 THEN <<",", s[i]>> ELSE << s[i] >>])

Decimal(m, v) == IF HasFlag(m, "'") THEN Grouped(Places(v, 10)) ELSE Places(v, 10)

\* A word of type d has a sign, as a long has one.
Signed(m) == IF ~m.long /\ m.value >= 2^15 THEN m.value - 2^16 ELSE m.value

\* All the places of an address: "pointer-length hex string, with 0x prefix
\* and grouping" says the comment in format, which is not what it prints.
Pointer(v) ==
    <<"0", "x">> \o Grouped([i \in 1 .. 8 |-> Symbols[((v \div 16^(8 - i)) % 16) + 1]])

Unpadded(m) ==
    CASE m.type = "c" -> << CharOf[m.value] >>
      [] m.type = "d" ->
            IF Signed(m) < 0 THEN <<"-">> \o Decimal(m, -Signed(m)) ELSE Decimal(m, Signed(m))
      [] m.type = "u" -> Decimal(m, m.value)
      [] m.type = "x" -> (IF HasFlag(m, "#") THEN <<"0", "x">> ELSE << >>) \o Places(m.value, 16)
      [] m.type = "p" -> Pointer(m.value)
      [] m.type \in {"s", "b"} -> IF m.value = 0 THEN << >> ELSE Strings[m.value]
      [] OTHER -> << m.type >>

\* A field has the width asked for, or the length of its text if that is
\* more; the text is at its right, or at its left if "-" is among the flags.
Meaning(m) ==
    IF m.kind = "literal" THEN m.text
    ELSE LET text  == Unpadded(m)
             long  == Len(text) >= m.width
             shift == IF HasFlag(m, "-") THEN 0 ELSE m.width - Len(text)
         IN  IF long THEN text
             ELSE [i \in 1 .. m.width |->
                      IF i - shift \in DOMAIN text THEN text[i - shift] ELSE " "]

MeaningOf(f) == FlattenSeq([i \in DOMAIN f |-> Meaning(f[i])])

-----------------------------------------------------------------------------
(* What is asked of every directive by itself.                             *)

\* How much of a format's pattern and arguments its first i parts take.
PatternUpTo(f, i)   == Len(PatternOf(SubSeq(f, 1, i)))
ArgumentsUpTo(f, i) == Len(ArgumentsOf(SubSeq(f, 1, i)))

\* Where it stands in its format, a directive is read to its end, takes its
\* arguments and is rendered as it means.
Shows(f, i) ==
    LET d == Directive(PatternOf(f), PatternUpTo(f, i - 1) + 1)
    IN  /\ d.next = PatternUpTo(f, i) + 1
        /\ WordsTaken(d) = Len(Arguments(f[i]))
        /\ Field(d, Argument(d, ArgumentsOf(f), ArgumentsUpTo(f, i - 1) + 1)) = Meaning(f[i])

IsSequence(s) == s \in Seq(Range(s))

\* A format whose patterns end where they should, and whose arguments are numbers.
WellFormed(f) ==
    /\ IsSequence(f)
    /\ \A i \in DOMAIN f :
         /\ IsSequence(Pattern(f[i])) /\ NUL \notin Range(Pattern(f[i]))
         /\ IsSequence(Meaning(f[i])) /\ Arguments(f[i]) \in Seq(Int)

\* A format whose directives show what they mean, with no % in its literals.
Readable(f) ==
    /\ WellFormed(f)
    /\ \A i \in DOMAIN f :
         IF f[i].kind = "literal"
         THEN \A k \in DOMAIN f[i].text : f[i].text[k] # "%"
         ELSE Pattern(f[i]) # << >> /\ Head(Pattern(f[i])) = "%" /\ Shows(f, i)
=============================================================================
