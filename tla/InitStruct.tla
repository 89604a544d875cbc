------------------------------ MODULE InitStruct ------------------------------
(***************************************************************************)
(* InitStruct: a structure is filled in from a table of commands           *)
(* (PackedStruct::unpack, src/src/exec/library.cpp), one command a step,   *)
(* against what the commands mean.                                         *)
(***************************************************************************)
EXTENDS Integers, Sequences
LOCAL INSTANCE SequencesExt

CONSTANTS
    Size,       \* the size of the structure
    Packed      \* tables to unpack: sequences of commands

(* A command stores "times" values of "unit" bytes each, or with "repeat"  *)
(* one value so often, behind a gap in the structure.  "bytes" are the     *)
(* values; "width" is how the gap is written: not at all (the gap is 0 and *)
(* a repetition has no other form), as one byte or as 24 bits.             *)

VARIABLES
    packed,     \* the table, as commands
    table,      \* ... and as bytes, from 0 on, at an even address
    input,      \* the byte looked at
    target,     \* the next byte of the structure
    memory,     \* the structure
    done

structVars == <<packed, table, input, target, memory, done>>

-----------------------------------------------------------------------------
(* What a table means, and how it is written.                              *)

Zeros(n) == [i \in 1 .. n |-> 0]

Stored(c) ==
    Zeros(c.gap) \o (IF c.repeat THEN FlattenSeq([i \in 1 .. c.times |-> c.bytes]) ELSE c.bytes)

\* The structure as the commands describe it: cleared, and then one command's
\* values behind the other's.
Meant ==
    LET all == FlattenSeq([i \in DOMAIN packed |-> Stored(packed[i])])
    IN  [i \in 0 .. (Size - 1) |-> IF i + 1 \in DOMAIN all THEN all[i + 1] ELSE 0]

Code(c) ==
    (CASE c.repeat -> 64 [] c.width = 0 -> 0 [] c.width = 1 -> 128 [] c.width = 3 -> 192)
        + (CASE c.unit = 4 -> 0 [] c.unit = 2 -> 16 [] c.unit = 1 -> 32)
        + (c.times - 1)

\* A command byte, the gap, the values; what follows a copy begins at an even
\* address.
Written(c) ==
    LET s == << Code(c) >>
               \o (IF c.width = 0 THEN << >> ELSE Zeros(c.width - 1) \o << c.gap >>)
               \o c.bytes
    IN  IF c.repeat \/ Len(s) % 2 = 0 THEN s ELSE Append(s, 0)

Bytes(t) ==
    LET s == Append(FlattenSeq([i \in DOMAIN t |-> Written(t[i])]), 0)
    IN  [i \in 0 .. (Len(s) - 1) |-> s[i + 1]]

-----------------------------------------------------------------------------
(* What unpack does.                                                       *)

\* A byte of the table; what lies behind it is anything, here 0.
At(i) == IF i \in DOMAIN table THEN table[i] ELSE 0

Command == At(input)
Count   == 1 + (Command % 16)
Unit    == CASE Command % 64 < 16 -> 4 [] Command % 64 \in 16 .. 31 -> 2 [] OTHER -> 1
Repeats == Command \div 64 = 1

\* The structure after bytes, numbered from 0, have been stored at a place.
Filled(from, bytes) ==
    [a \in DOMAIN memory |-> IF a - from \in DOMAIN bytes THEN bytes[a - from] ELSE memory[a]]

\* The value is read from where the command is, and so begins with its byte.
\* The commands 0x70 to 0x7f do nothing and stay where they are.
RepeatCommand ==
    /\ ~done /\ Repeats /\ Command % 64 < 48
    /\ memory' = Filled(target, [i \in 0 .. (Count * Unit - 1) |-> At(input + (i % Unit))])
    /\ target' = target + Count * Unit
    /\ input' = input + Unit
    /\ UNCHANGED <<packed, table, done>>

\* How long the command and its gap are, and the gap.
Lead == CASE Command \div 64 = 0 -> 0 [] Command \div 64 = 2 -> 2 [] OTHER -> 4
Gap ==
    CASE Lead = 0 -> 0
      [] Lead = 2 -> At(input + 1)
      [] OTHER    -> (At(input + 1) * 256 + At(input + 2)) * 256 + At(input + 3)

\* A command that has no gap is not stepped over: its byte is copied too.
CopyCommand ==
    /\ ~done /\ Command # 0 /\ ~Repeats
    /\ memory' = Filled(target + Gap, [i \in 0 .. (Count * Unit - 1) |-> At(input + Lead + i)])
    /\ target' = target + Gap + Count * Unit
    /\ input' = 2 * ((input + Lead + Count * Unit + 1) \div 2)
    /\ UNCHANGED <<packed, table, done>>

UnpackEnds ==
    /\ ~done /\ Command = 0
    /\ done' = TRUE
    /\ UNCHANGED <<packed, table, input, target, memory>>

-----------------------------------------------------------------------------
Init ==
    /\ packed \in Packed
    /\ table = Bytes(packed)
    /\ input = 0 /\ target = 0
    /\ memory = [a \in 0 .. (Size - 1) |-> 0]
    /\ done = FALSE

Next == RepeatCommand \/ CopyCommand \/ UnpackEnds

Spec == Init /\ [][Next]_structVars

-----------------------------------------------------------------------------
\* "repeat long", "repeat word", "repeat byte": such a command stores the
\* value behind it as often as it says; "copy" stores the values behind it.
UnpackedAsMeant == done => memory = Meant
=============================================================================
