---------------------------- MODULE LibraryVectors ----------------------------
(***************************************************************************)
(* The jump table below a library's base and the checksum that guards it   *)
(* (class Library and its Function, class PackedFunctions,                 *)
(* src/src/exec/library.cpp; SetFunction, SumLibrary and MakeFunctions in  *)
(* src/exec.yml).  SetFunction and SumLibrary run between Forbid and       *)
(* Permit, so they are steps; MakeFunctions does not, so another task may  *)
(* run between two of its stores.                                          *)
(***************************************************************************)
EXTENDS Integers, Sequences

CONSTANTS
    Addresses,  \* the addresses of functions, as their words <<high, low>>
    Tables,     \* the function tables
    Words,      \* neg_size / 2, as a structure gives it or as memory happens to
    Garbage,    \* what sum may hold in memory that was not cleared
    Foreign     \* what may stand in memory below the table, which is others'

\* A word is a uint16_t, and so is the running sum.
Word == 0 .. (2 ^ 16 - 1)

ASSUME VectorAssumption ==
    /\ Addresses \subseteq Word \X Word
    /\ Tables \subseteq Seq(Addresses)
    /\ Words \subseteq Nat
    /\ Garbage \subseteq Nat
    /\ Foreign \subseteq Word

VARIABLES
    vectors,    \* the jump table, from the base downwards
    changed,    \* LIBF_CHANGED
    sum,        \* the checksum on record; 0 stands for none
    words,      \* how many words below the base it covers: neg_size / 2
    below,      \* the words below the table
    made,       \* what make_library was given, of the two that are optional
    making,     \* the vectors a MakeFunctions has yet to store, with their places
    alert,      \* Alert(AN_LibChkSum) was called
    tampered,   \* a vector was written by none of the operations since the
                \* table was summed
    raced       \* it was summed in the middle of a MakeFunctions

libVars == <<vectors, changed, sum, words, below, made, making, alert, tampered, raced>>

-----------------------------------------------------------------------------
(* The table as words.                                                     *)

JMP     == 20217    \* 0x4ef9
ILLEGAL == 19196    \* 0x4afc

\* Function::set_function: a jump, or an illegal instruction for nullptr.
Vector(f) == << IF f = <<0, 0>> THEN ILLEGAL ELSE JMP, f[1], f[2] >>

\* The i-th word below the base: a vector's last word is the nearest of its
\* three, and beyond the last vector is what others have there.
WordAt(vs, others, i) ==
    LET v == ((i - 1) \div 3) + 1
    IN  IF v \in DOMAIN vs THEN Vector(vs[v])[3 - ((i - 1) % 3)] ELSE others

\* Mutant of Checksum: summed in the 32 bits of the field it is kept in.
ChecksumWide(vs, others, n) ==
    LET upto[i \in 0 .. n] == IF i = 0 THEN 0 ELSE upto[i - 1] + WordAt(vs, others, i)
    IN  upto[n]

\* The sum of the n words below the base, modulo its width.
Checksum(vs, others, n) ==
    LET upto[i \in 0 .. n] ==
            IF i = 0 THEN 0 ELSE (upto[i - 1] + WordAt(vs, others, i)) % (2 ^ 16)
    IN  upto[n]

-----------------------------------------------------------------------------
(* Marking and summing.                                                    *)

\* Mutant of SetBefore: the table is not marked.
SetBeforeUnmarked(flag) == flag

\* set_function_before: the table is about to change.
SetBefore(flag) == TRUE

\* Mutant of Summed: a marked table loses its mark, its sum is not renewed.
SummedOnlyUnmarks(vs, flag) ==
    LET newsum == Checksum(vs, below, words)
    IN  /\ changed' = FALSE
        /\ alert' = (~flag /\ sum # 0 /\ sum # newsum)
        /\ sum' = IF flag THEN sum ELSE newsum
        /\ tampered' = (tampered /\ alert')
        /\ raced' = (making # <<>> \/ (raced /\ alert'))
        /\ UNCHANGED <<words, below, made, making>>

\* sum_library of the table vs, whose mark is flag.  The test that should
\* spare a library without LIBF_SUMUSED is "!flags & LIBF_SUMUSED", which is
\* never true, as ! binds tighter than &.  With the new sum what was done to
\* the table before is forgotten, unless the alert is raised on its account.
Summed(vs, flag) ==
    LET newsum == Checksum(vs, below, words)
    IN  /\ changed' = FALSE
        /\ alert' = (~flag /\ sum # 0 /\ sum # newsum)
        /\ sum' = newsum
        /\ tampered' = (tampered /\ alert')
        /\ raced' = (making # <<>> \/ (raced /\ alert'))
        /\ UNCHANGED <<words, below, made, making>>

-----------------------------------------------------------------------------
(* The operations.                                                         *)

\* SumLibrary.
SumLibrary ==
    /\ Summed(vectors, changed)
    /\ UNCHANGED vectors

\* SetFunction: set_function_before, set_function, set_function_after.
SetFunction(i, f) ==
    /\ vectors' = [vectors EXCEPT ![i] = f]
    /\ Summed(vectors', SetBefore(changed))

\* MakeFunctions begins, with a table for which there is room below the base:
\* set_function_before.
MakeFunctions(t) ==
    /\ making = <<>>
    /\ DOMAIN t \subseteq DOMAIN vectors
    /\ making' = [i \in DOMAIN t |-> <<i, t[i]>>]
    /\ changed' = SetBefore(changed)
    /\ UNCHANGED <<vectors, sum, words, below, made, alert, tampered, raced>>

\* unpack16 and unpack32 store one vector.  unpack returns when the last is
\* stored, before it gets to set_function_after: the table stays marked.
StoreNext ==
    /\ making # <<>>
    /\ vectors' = [vectors EXCEPT ![making[1][1]] = making[1][2]]
    /\ making' = Tail(making)
    /\ UNCHANGED <<changed, sum, words, below, made, alert, tampered, raced>>

\* A stray write, or a program that patches the table by hand.
Tamper(i, f) ==
    /\ vectors[i] # f
    /\ vectors' = [vectors EXCEPT ![i] = f]
    /\ tampered' = TRUE
    /\ UNCHANGED <<changed, sum, words, below, made, making, alert, raced>>

\* Whoever owns the memory below the table writes there.
Elsewhere(x) ==
    /\ x # below
    /\ below' = x
    /\ UNCHANGED <<vectors, changed, sum, words, made, making, alert, tampered, raced>>

-----------------------------------------------------------------------------
Parts == {"table", "structure"}

\* make_library.  If there is a table it is unpacked, which marks it.  If there
\* is a structure the library's data are then cleared, mark and sum with them,
\* and set as it says: its neg_size reaches no further than the table.  If
\* there is none, sum, neg_size and the flags (but for the mark that a table
\* sets) are what was in memory.
MakeLibrary(parts, t) ==
    /\ made = parts
    /\ vectors = IF "table" \in parts THEN t ELSE <<>>
    /\ words \in {w \in Words : "structure" \in parts => w <= 3 * Len(vectors)}
    /\ changed \in IF parts = {"table"} THEN {TRUE} ELSE BOOLEAN
    /\ sum \in IF "structure" \in parts THEN {0} ELSE Garbage
    /\ below \in Foreign
    /\ making = <<>>
    /\ alert = FALSE /\ tampered = FALSE /\ raced = FALSE

Init == \E parts \in SUBSET Parts, t \in Tables : MakeLibrary(parts, t)

\* Alert is not implemented: its vector holds an illegal instruction, which
\* stops the machine.
Next ==
    /\ ~alert
    /\ \/ SumLibrary
       \/ \E i \in DOMAIN vectors, f \in Addresses : SetFunction(i, f)
       \/ \E t \in Tables : MakeFunctions(t)
       \/ StoreNext
       \/ \E i \in DOMAIN vectors, f \in Addresses : Tamper(i, f)
       \/ \E x \in Foreign : Elsewhere(x)

Spec == Init /\ [][Next]_libVars

-----------------------------------------------------------------------------
\* The table keeps its length and holds addresses, and what MakeFunctions has
\* yet to store fits it.  The sum on record is of 16 bits, but for what a
\* library made without a structure found in memory: behind the mark, if it was
\* given a table.
TypeOK ==
    /\ made \subseteq Parts
    /\ \E t \in Tables : DOMAIN vectors = IF "table" \in made THEN DOMAIN t ELSE {}
    /\ \A i \in DOMAIN vectors : vectors[i] \in Addresses
    /\ making \in Seq((DOMAIN vectors) \X Addresses)
    /\ {changed, alert, tampered, raced} \subseteq BOOLEAN
    /\ words \in Words /\ below \in Foreign
    /\ \/ sum \in Word
       \/ "structure" \notin made /\ sum \in Garbage /\ ("table" \in made => changed)

\* Somebody has set what the checksum goes by: the structure has, or the table
\* has set the mark and neg_size happens to reach no further than the table.
\* Of the libraries that make_library can make, these have a guarded table.
Guarded ==
    \/ "structure" \in made
    \/ "table" \in made /\ words <= 3 * Len(vectors)

\* The sum on record never falls behind a guarded table unseen, in whatever
\* order the library is remade, patched and summed: it is out of date only
\* while the mark says so, or if the table was tampered with since the last sum,
\* or if another task took that in the middle of a MakeFunctions.
SumFollows ==
    Guarded => \/ sum = 0 \/ changed \/ tampered \/ raced
               \/ sum = Checksum(vectors, below, words)

\* Alert(AN_LibChkSum), which stops the machine, means that something is wrong:
\* the table was tampered with or, the one race there is, it was summed in the
\* middle of a MakeFunctions, which takes no Forbid.
AlertMeansHarm == alert => tampered \/ raced

\* No sequence of legal calls raises the alert against a guarded table.
NoFalseAlarm == Guarded => AlertMeansHarm
=============================================================================
