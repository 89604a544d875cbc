---------------------------- MODULE LibraryProofs ----------------------------
(***************************************************************************)
(* The checksum of a guarded jump table never raises a false alarm: the    *)
(* proof, for every library, table, coverage and sequence of operations.   *)
(***************************************************************************)
EXTENDS LibraryVectors, Lemmas, SequenceTheorems, TLAPS

-----------------------------------------------------------------------------
(* The words of a table and their sum.                                     *)

\* Every word below the base, of a vector or beyond the last, is 16 bits wide.
LEMMA WordAtType ==
    ASSUME NEW vs, \A i \in DOMAIN vs : vs[i] \in Addresses, NEW low \in Word,
           NEW n \in Nat, NEW i \in 1 .. n
    PROVE  WordAt(vs, low, i) \in Word
<1> DEFINE v == ((i - 1) \div 3) + 1
           k == 3 - ((i - 1) % 3)
<1>1. k \in 1 .. 3
  OBVIOUS
<1>2. CASE v \in DOMAIN vs
  <2>1. vs[v][1] \in Word /\ vs[v][2] \in Word
    BY <1>2, VectorAssumption
  <2>2. JMP \in Word /\ ILLEGAL \in Word
    BY DEF JMP, ILLEGAL, Word
  <2>3. Vector(vs[v])[k] \in Word
    BY <1>1, <2>1, <2>2 DEF Vector
  <2>4. WordAt(vs, low, i) = Vector(vs[v])[k]
    BY <1>2 DEF WordAt
  <2> QED BY <2>3, <2>4
<1>3. CASE v \notin DOMAIN vs
  BY <1>3 DEF WordAt
<1> QED BY <1>2, <1>3

\* The checksum is the last value of a loop over the words.
Sums(f, vs, low, n) ==
    f = [i \in 0 .. n |->
            IF i = 0 THEN 0 ELSE (f[i - 1] + WordAt(vs, low, i)) % (2 ^ 16)]

LEMMA ChecksumLoop ==
    ASSUME NEW vs, \A i \in DOMAIN vs : vs[i] \in Addresses, NEW low \in Word, NEW n \in Nat
    PROVE  \E f : Sums(f, vs, low, n) /\ Checksum(vs, low, n) = f[n]
<1> DEFINE upto == CHOOSE f : Sums(f, vs, low, n)
           step == [i \in 1 .. n |-> [x \in Word |-> (x + WordAt(vs, low, i)) % (2 ^ 16)]]
<1>1. step \in [1 .. n -> [Word -> Word]]
  <2>1. ASSUME NEW i \in 1 .. n, NEW x \in Word
        PROVE  (x + WordAt(vs, low, i)) % (2 ^ 16) \in Word
    <3>1. WordAt(vs, low, i) \in Word
      BY WordAtType
    <3> QED BY <3>1 DEF Word
  <2> QED BY <2>1
<1>2. 0 \in Word
  BY DEF Word
<1>3. \E f : Sums(f, vs, low, n)
  <2> HIDE DEF step
  <2>1. PICK f : f \in [0 .. n -> Word] /\ Steps(f, n, 0, step)
    BY <1>1, <1>2, BoundedRecursion
  <2>2. ASSUME NEW i \in 1 .. n
        PROVE  f[i] = (f[i - 1] + WordAt(vs, low, i)) % (2 ^ 16)
    <3>1. f[i - 1] \in Word /\ f[0] = 0 /\ f[i] = step[i][f[i - 1]]
      BY <2>1 DEF Steps
    <3>2. step[i][f[i - 1]] = (f[i - 1] + WordAt(vs, low, i)) % (2 ^ 16)
      BY <3>1 DEF step
    <3> QED BY <3>1, <3>2
  <2>3. ASSUME NEW i \in 0 .. n
        PROVE  f[i] = IF i = 0 THEN 0 ELSE (f[i - 1] + WordAt(vs, low, i)) % (2 ^ 16)
    <3>1. i = 0 \/ i \in 1 .. n
      OBVIOUS
    <3> QED BY <2>1, <2>2, <3>1 DEF Steps
  <2>4. Sums(f, vs, low, n)
    BY <2>1, <2>3 DEF Sums
  <2> QED BY <2>4
<1>4. Sums(upto, vs, low, n)
  BY <1>3
<1>5. Checksum(vs, low, n) = upto[n]
  BY DEF Checksum, Sums
<1> QED BY <1>4, <1>5

\* Function::sum adds in a uint16_t: whatever the table and however many words
\* are covered, the sum is of 16 bits, though the field it goes to has 32.
LEMMA ChecksumType ==
    ASSUME NEW vs, \A i \in DOMAIN vs : vs[i] \in Addresses, NEW low \in Word, NEW n \in Nat
    PROVE  Checksum(vs, low, n) \in Word
<1>1. PICK f : Sums(f, vs, low, n) /\ Checksum(vs, low, n) = f[n]
  BY ChecksumLoop
<1> DEFINE T == {i \in 0 .. n : f[i] \in Word}
<1>2. 0 \in T
  <2>1. f[0] = 0
    BY <1>1 DEF Sums
  <2> QED BY <2>1 DEF Word
<1>3. ASSUME NEW i \in 0 .. (n - 1), i \in T PROVE i + 1 \in T
  <2>1. i + 1 \in 1 .. n /\ f[(i + 1) - 1] \in Word
    BY <1>3
  <2>2. f[i + 1] = (f[(i + 1) - 1] + WordAt(vs, low, i + 1)) % (2 ^ 16)
    BY <1>1, <2>1 DEF Sums
  <2>3. WordAt(vs, low, i + 1) \in Word
    BY <2>1, WordAtType
  <2>4. f[i + 1] \in Word
    BY <2>1, <2>2, <2>3 DEF Word
  <2> QED BY <2>1, <2>4
<1> HIDE DEF T
<1>4. \A i \in 0 .. n : i \in T
  BY <1>2, <1>3, BoundedInduction
<1> QED BY <1>1, <1>4 DEF T

\* A sum that reaches no further than the table has nothing of what others
\* write below it.
LEMMA ChecksumOwn ==
    ASSUME NEW vs \in Seq(Addresses), NEW low \in Word, NEW high \in Word,
           NEW n \in Nat, n <= 3 * Len(vs)
    PROVE  Checksum(vs, low, n) = Checksum(vs, high, n)
<1>1. \A i \in DOMAIN vs : vs[i] \in Addresses
  OBVIOUS
<1>2. ASSUME NEW i \in 1 .. n PROVE WordAt(vs, low, i) = WordAt(vs, high, i)
  <2>1. ((i - 1) \div 3) + 1 \in 1 .. Len(vs)
    OBVIOUS
  <2>2. DOMAIN vs = 1 .. Len(vs)
    OBVIOUS
  <2> QED BY <2>1, <2>2 DEF WordAt
<1>3. PICK f : Sums(f, vs, low, n) /\ Checksum(vs, low, n) = f[n]
  BY <1>1, ChecksumLoop
<1>4. PICK g : Sums(g, vs, high, n) /\ Checksum(vs, high, n) = g[n]
  BY <1>1, ChecksumLoop
<1> DEFINE T == {i \in 0 .. n : f[i] = g[i]}
<1>5. 0 \in T
  BY <1>3, <1>4 DEF Sums
<1>6. ASSUME NEW i \in 0 .. (n - 1), i \in T PROVE i + 1 \in T
  <2>1. i + 1 \in 1 .. n /\ f[(i + 1) - 1] = g[(i + 1) - 1]
    BY <1>6
  <2>2. /\ f[i + 1] = (f[(i + 1) - 1] + WordAt(vs, low, i + 1)) % (2 ^ 16)
        /\ g[i + 1] = (g[(i + 1) - 1] + WordAt(vs, high, i + 1)) % (2 ^ 16)
    BY <1>3, <1>4, <2>1 DEF Sums
  <2>3. WordAt(vs, low, i + 1) = WordAt(vs, high, i + 1)
    BY <1>2, <2>1
  <2> QED BY <2>1, <2>2, <2>3
<1> HIDE DEF T
<1>7. \A i \in 0 .. n : i \in T
  BY <1>5, <1>6, BoundedInduction
<1> QED BY <1>3, <1>4, <1>7 DEF T

-----------------------------------------------------------------------------
(* The types, of every library.                                            *)

\* The table is a sequence, and the checksum of a guarded one reaches no
\* further: what it is a sum of is the library's alone.
Fits == Guarded => words <= 3 * Len(vectors)

TypeInv == TypeOK /\ vectors \in Seq(Addresses) /\ Fits

\* A store to one vector keeps the table's length and its vectors addresses.
LEMMA StoreKeepsTable ==
    ASSUME vectors \in Seq(Addresses), NEW i \in DOMAIN vectors, NEW f \in Addresses,
           vectors' = [vectors EXCEPT ![i] = f]
    PROVE  /\ vectors' \in Seq(Addresses) /\ Len(vectors') = Len(vectors)
           /\ DOMAIN vectors' = DOMAIN vectors
           /\ \A j \in DOMAIN vectors' : vectors'[j] \in Addresses
  OBVIOUS

\* Nothing makes a library guarded, or unguarded, that keeps its table's length.
LEMMA FitsStays ==
    ASSUME Fits, Len(vectors') = Len(vectors), UNCHANGED <<words, made>>
    PROVE  Fits' /\ (Guarded' <=> Guarded)
  BY DEF Fits, Guarded

\* sum_library leaves the fields of a library well typed, whatever they were.
LEMMA SummedKeepsTypes ==
    ASSUME TypeInv, NEW flag,
           vectors' \in Seq(Addresses), Len(vectors') = Len(vectors),
           Summed(vectors', flag)
    PROVE  TypeInv'
<1>1. /\ words' = words /\ words \in Words /\ words \in Nat
      /\ below' = below /\ below \in Foreign /\ below \in Word
      /\ made' = made /\ making' = making
  BY VectorAssumption DEF Summed, TypeInv, TypeOK
<1>2. DOMAIN vectors' = DOMAIN vectors /\ \A i \in DOMAIN vectors' : vectors'[i] \in Addresses
  BY DEF TypeInv
<1>3. sum' \in Word
  <2>1. sum' = Checksum(vectors', below, words)
    BY DEF Summed
  <2> QED BY <1>1, <1>2, <2>1, ChecksumType
<1>4. {changed', alert', tampered', raced'} \subseteq BOOLEAN
  <2>1. changed' \in BOOLEAN
    BY DEF Summed
  <2>2. alert' = (~flag /\ sum # 0 /\ sum # Checksum(vectors', below, words))
    BY DEF Summed
  <2>3. alert' \in BOOLEAN
    BY <2>2
  <2>4. tampered' = (tampered /\ alert')
    BY DEF Summed
  <2>5. tampered' \in BOOLEAN
    BY <2>4
  <2>6. raced' = (making # <<>> \/ (raced /\ alert'))
    BY DEF Summed
  <2>7. raced' \in BOOLEAN
    BY <2>6
  <2> QED BY <2>1, <2>3, <2>5, <2>7
<1>5. TypeOK'
  <2>1. making' \in Seq((DOMAIN vectors') \X Addresses)
    BY <1>1, <1>2 DEF TypeInv, TypeOK
  <2>2. made' \subseteq Parts
        /\ \E t \in Tables : DOMAIN vectors' = IF "table" \in made' THEN DOMAIN t ELSE {}
    BY <1>1, <1>2 DEF TypeInv, TypeOK
  <2> QED BY <1>1, <1>2, <1>3, <1>4, <2>1, <2>2 DEF TypeOK
<1>6. Fits'
  BY <1>1, FitsStays DEF TypeInv
<1> QED BY <1>5, <1>6 DEF TypeInv

\* A library as make_library leaves it is well typed.
LEMMA MadeTyped == Init => TypeInv
<1> SUFFICES ASSUME NEW parts \in SUBSET Parts, NEW t \in Tables, MakeLibrary(parts, t)
             PROVE  TypeInv
  BY DEF Init
<1>1. /\ made = parts /\ making = <<>> /\ below \in Foreign /\ words \in Words
      /\ vectors = IF "table" \in parts THEN t ELSE <<>>
      /\ "structure" \in parts => words <= 3 * Len(vectors)
  BY DEF MakeLibrary
<1>2. t \in Seq(Addresses)
  BY VectorAssumption
<1>3. vectors \in Seq(Addresses)
  BY <1>1, <1>2
<1>4. \A i \in DOMAIN vectors : vectors[i] \in Addresses
  BY <1>3
<1>5. DOMAIN vectors = IF "table" \in made THEN DOMAIN t ELSE {}
  BY <1>1
<1>6. {changed, alert, tampered, raced} \subseteq BOOLEAN
  <2>1. changed \in BOOLEAN
    BY DEF MakeLibrary
  <2> QED BY <2>1 DEF MakeLibrary
<1>7. \/ sum \in Word
      \/ "structure" \notin made /\ sum \in Garbage /\ ("table" \in made => changed)
  <2>1. CASE "structure" \in parts
    BY <2>1 DEF MakeLibrary, Word
  <2>2. CASE "structure" \notin parts
    <3>1. sum \in Garbage
      BY <2>2 DEF MakeLibrary
    <3>2. "table" \in parts => parts = {"table"}
      BY <2>2 DEF Parts
    <3>3. "table" \in parts => changed
      BY <3>2 DEF MakeLibrary
    <3> QED BY <1>1, <2>2, <3>1, <3>3
  <2> QED BY <2>1, <2>2
<1>8. making \in Seq((DOMAIN vectors) \X Addresses)
  BY <1>1
<1>9. Fits
  BY <1>1 DEF Fits, Guarded
<1> QED BY <1>1, <1>3, <1>4, <1>5, <1>6, <1>7, <1>8, <1>9 DEF TypeInv, TypeOK

\* Every operation keeps a library well typed: what MakeFunctions has yet to
\* store fits the table it began with, whichever tables are stored over it.
LEMMA StepTyped == TypeInv /\ [Next]_libVars => TypeInv'
<1> SUFFICES ASSUME TypeInv, [Next]_libVars
             PROVE  TypeInv'
  OBVIOUS
<1> USE DEF TypeInv
<1>1. CASE UNCHANGED libVars
  BY <1>1 DEF libVars, TypeOK, Fits, Guarded
<1>2. CASE ~alert /\ SumLibrary
  <2>1. Summed(vectors', changed) /\ vectors' = vectors
    BY <1>2 DEF SumLibrary, Summed
  <2> QED BY <2>1, SummedKeepsTypes
<1>3. ASSUME NEW i \in DOMAIN vectors, NEW f \in Addresses, SetFunction(i, f)
      PROVE  TypeInv'
  <2>1. vectors' = [vectors EXCEPT ![i] = f] /\ Summed(vectors', TRUE)
    BY <1>3 DEF SetFunction, SetBefore
  <2>2. vectors' \in Seq(Addresses) /\ Len(vectors') = Len(vectors)
    BY <2>1, StoreKeepsTable
  <2> QED BY <2>1, <2>2, SummedKeepsTypes
<1>4. ASSUME NEW t \in Tables, MakeFunctions(t)
      PROVE  TypeInv'
  <2>1. /\ making' = [i \in DOMAIN t |-> <<i, t[i]>>] /\ changed' = TRUE
        /\ UNCHANGED <<vectors, sum, words, below, made, alert, tampered, raced>>
        /\ DOMAIN t \subseteq DOMAIN vectors
    BY <1>4 DEF MakeFunctions, SetBefore
  <2>2. t \in Seq(Addresses)
    BY VectorAssumption
  <2>3. making' \in Seq((DOMAIN vectors) \X Addresses)
    <3>1. DOMAIN t = 1 .. Len(t) /\ Len(t) \in Nat
      BY <2>2
    <3>2. \A i \in 1 .. Len(t) : <<i, t[i]>> \in (DOMAIN vectors) \X Addresses
      BY <2>1, <2>2, <3>1
    <3> QED BY <2>1, <3>1, <3>2
  <2>4. TypeOK'
    BY <2>1, <2>3 DEF TypeOK
  <2> QED BY <2>1, <2>4, FitsStays
<1>5. CASE StoreNext
  <2>1. /\ making # <<>> /\ vectors' = [vectors EXCEPT ![making[1][1]] = making[1][2]]
        /\ making' = Tail(making)
        /\ UNCHANGED <<changed, sum, words, below, made, alert, tampered, raced>>
    BY <1>5 DEF StoreNext
  <2>2. making \in Seq((DOMAIN vectors) \X Addresses)
    BY DEF TypeOK
  <2>3. making[1] \in (DOMAIN vectors) \X Addresses
    BY <2>1, <2>2
  <2>4. /\ vectors' \in Seq(Addresses) /\ Len(vectors') = Len(vectors)
        /\ DOMAIN vectors' = DOMAIN vectors
        /\ \A j \in DOMAIN vectors' : vectors'[j] \in Addresses
    BY <2>1, <2>3, StoreKeepsTable
  <2>5. making' \in Seq((DOMAIN vectors) \X Addresses)
    BY <2>1, <2>2
  <2>6. TypeOK'
    BY <2>1, <2>4, <2>5 DEF TypeOK
  <2> QED BY <2>1, <2>4, <2>6, FitsStays
<1>6. ASSUME NEW i \in DOMAIN vectors, NEW f \in Addresses, Tamper(i, f)
      PROVE  TypeInv'
  <2>1. /\ vectors' = [vectors EXCEPT ![i] = f] /\ tampered' = TRUE
        /\ UNCHANGED <<changed, sum, words, below, made, making, alert, raced>>
    BY <1>6 DEF Tamper
  <2>2. /\ vectors' \in Seq(Addresses) /\ Len(vectors') = Len(vectors)
        /\ DOMAIN vectors' = DOMAIN vectors
        /\ \A j \in DOMAIN vectors' : vectors'[j] \in Addresses
    BY <2>1, StoreKeepsTable
  <2>3. TypeOK'
    BY <2>1, <2>2 DEF TypeOK
  <2> QED BY <2>1, <2>2, <2>3, FitsStays
<1>7. ASSUME NEW x \in Foreign, Elsewhere(x) PROVE TypeInv'
  <2>1. /\ below' \in Foreign
        /\ UNCHANGED <<vectors, changed, sum, words, made, making, alert, tampered, raced>>
    BY <1>7 DEF Elsewhere
  <2>2. TypeOK'
    BY <2>1 DEF TypeOK
  <2> QED BY <2>1, <2>2, FitsStays
<1> QED BY <1>1, <1>2, <1>3, <1>4, <1>5, <1>6, <1>7 DEF Next

\* Every library is well typed, and the sum of a guarded one is its own.
LEMMA TypeInvariant == Spec => []TypeInv
<1> QED BY MadeTyped, StepTyped, PTL DEF Spec

\* A library's table keeps its length and holds functions, its sum is of 16
\* bits although the field has 32 (but for what a library made without a
\* structure found in memory), and what a MakeFunctions has yet to store always
\* fits the table (class Library and PackedFunctions, library.cpp).
THEOREM LibraryTypes == Spec => []TypeOK
<1>1. TypeInv => TypeOK
  BY DEF TypeInv
<1> QED BY <1>1, TypeInvariant, PTL

-----------------------------------------------------------------------------
(* The checksum and the alert.                                             *)

\* A table in the middle of a MakeFunctions is marked, unless it was summed
\* since: what the stores that follow set_function_before rely on.
MakingMarked == making # <<>> => changed \/ raced

\* What every operation preserves.
SumInv == SumFollows /\ NoFalseAlarm /\ MakingMarked

\* sum_library, called from SumLibrary or at the end of SetFunction, leaves a
\* sum that is right, and finds fault only with a table whose sum had already
\* fallen behind.
LEMMA SummedKeepsInv ==
    ASSUME NEW flag,
           SumInv, ~alert, Guarded' <=> Guarded,
           vectors' = vectors \/ flag = TRUE,
           flag = changed \/ flag = TRUE,
           Summed(vectors', flag)
    PROVE  SumInv'
<1>1. /\ sum' = Checksum(vectors', below, words)
      /\ words' = words /\ below' = below
      /\ making' = making
      /\ alert' = (~flag /\ sum # 0 /\ sum # Checksum(vectors', below, words))
      /\ tampered' = (tampered /\ alert')
      /\ raced' = (making # <<>> \/ (raced /\ alert'))
    BY DEF Summed
<1>2. SumFollows'
    BY <1>1 DEF SumFollows
<1>3. MakingMarked'
    BY <1>1 DEF MakingMarked
<1>4. NoFalseAlarm'
  <2>1. CASE alert' /\ Guarded
    <3>1. ~flag /\ sum # 0 /\ sum # Checksum(vectors', below, words)
        BY <1>1, <2>1
    <3>2. ~changed /\ vectors' = vectors
        BY <3>1
    <3>3. tampered \/ raced
        BY <2>1, <3>1, <3>2 DEF SumInv, SumFollows
    <3> QED
        BY <1>1, <2>1, <3>3 DEF NoFalseAlarm, AlertMeansHarm
  <2>2. CASE ~(alert' /\ Guarded)
      BY <2>2 DEF NoFalseAlarm, AlertMeansHarm
  <2> QED
      BY <2>1, <2>2
<1> QED
    BY <1>2, <1>3, <1>4 DEF SumInv

\* A new library with a guarded table has no sum yet or a mark.
LEMMA MadeWithInv == Init => SumInv
<1> SUFFICES ASSUME NEW parts \in SUBSET Parts, NEW t \in Tables, MakeLibrary(parts, t)
             PROVE  SumInv
    BY DEF Init
<1>1. Guarded => sum = 0 \/ changed
  <2>1. CASE "structure" \in parts
      BY <2>1 DEF MakeLibrary
  <2>2. CASE "structure" \notin parts /\ Guarded
    <3>1. parts = {"table"}
        BY <2>2 DEF Guarded, MakeLibrary, Parts
    <3> QED BY <3>1 DEF MakeLibrary
  <2> QED
      BY <2>1, <2>2
<1>2. ~alert /\ making = <<>>
    BY DEF MakeLibrary
<1> QED
    BY <1>1, <1>2 DEF SumInv, SumFollows, NoFalseAlarm, AlertMeansHarm, MakingMarked

\* Every operation, and every store of a MakeFunctions in progress, preserves
\* the invariant.
LEMMA StepKeepsInv == TypeInv /\ SumInv /\ [Next]_libVars => SumInv'
<1> SUFFICES ASSUME TypeInv, SumInv, [Next]_libVars
             PROVE  SumInv'
    OBVIOUS
<1> USE DEF NoFalseAlarm, AlertMeansHarm
<1>0. vectors \in Seq(Addresses) /\ Fits
    BY DEF TypeInv
<1>1. CASE UNCHANGED libVars
    BY <1>1 DEF libVars, SumInv, SumFollows, MakingMarked, Guarded
<1>2. CASE ~alert /\ SumLibrary
  <2>1. Summed(vectors', changed) /\ vectors' = vectors
      BY <1>2 DEF SumLibrary, Summed
  <2>2. Guarded' <=> Guarded
      BY <2>1 DEF Summed, Guarded
  <2> QED
      BY <1>2, <2>1, <2>2, SummedKeepsInv
<1>3. ASSUME NEW i \in DOMAIN vectors, NEW f \in Addresses,
             ~alert, SetFunction(i, f)
      PROVE  SumInv'
  <2>1. Summed(vectors', TRUE) /\ vectors' = [vectors EXCEPT ![i] = f]
      BY <1>3 DEF SetFunction, SetBefore
  <2>2. UNCHANGED <<words, made>> /\ Len(vectors') = Len(vectors)
      BY <1>0, <2>1, StoreKeepsTable DEF Summed
  <2>3. Guarded' <=> Guarded
      BY <1>0, <2>2, FitsStays
  <2> QED
      BY <1>3, <2>1, <2>3, SummedKeepsInv
<1>4. ASSUME NEW t \in Tables, ~alert, MakeFunctions(t)
      PROVE  SumInv'
    BY <1>4 DEF MakeFunctions, SetBefore, SumInv, SumFollows, MakingMarked
<1>5. CASE ~alert /\ StoreNext
  <2>1. changed \/ raced
      BY <1>5 DEF StoreNext, SumInv, MakingMarked
  <2> QED
      BY <1>5, <2>1 DEF StoreNext, SumInv, SumFollows, MakingMarked
<1>6. ASSUME NEW i \in DOMAIN vectors, NEW f \in Addresses,
             ~alert, Tamper(i, f)
      PROVE  SumInv'
    BY <1>6 DEF Tamper, SumInv, SumFollows, MakingMarked
<1>7. ASSUME NEW x \in Foreign, ~alert, Elsewhere(x)
      PROVE  SumInv'
  <2>1. /\ below' = x
        /\ UNCHANGED <<vectors, changed, sum, words, made, making, alert, tampered, raced>>
      BY <1>7 DEF Elsewhere
  <2>2. Guarded' <=> Guarded
      BY <2>1 DEF Guarded
  <2>3. Guarded => Checksum(vectors, below', words) = Checksum(vectors, below, words)
    <3>1. below \in Word /\ below' \in Word /\ words \in Nat
        BY <2>1, VectorAssumption DEF TypeInv, TypeOK
    <3>2. Guarded => words <= 3 * Len(vectors)
        BY <1>0 DEF Fits
    <3> QED
        BY <1>0, <3>1, <3>2, ChecksumOwn
  <2>4. SumFollows'
      BY <2>1, <2>2, <2>3 DEF SumInv, SumFollows
  <2>5. AlertMeansHarm' /\ MakingMarked'
      BY <1>7, <2>1 DEF SumInv, MakingMarked
  <2> QED
      BY <2>4, <2>5 DEF SumInv
<1> QED
    BY <1>1, <1>2, <1>3, <1>4, <1>5, <1>6, <1>7 DEF Next

\* The invariant holds in every reachable state.
THEOREM SumInvariant == Spec => []SumInv
<1>1. TypeInv /\ SumInv /\ [Next]_libVars => SumInv'
    BY StepKeepsInv
<1> QED
    BY <1>1, MadeWithInv, TypeInvariant, PTL DEF Spec

\* The sum on record of a guarded library (Library::sum, library.cpp) is out of
\* date only while LIBF_CHANGED says so, or after tampering or the race, until
\* the next sum.
THEOREM LibrarySumFollows == Spec => []SumFollows
<1>1. SumInv => SumFollows
    BY DEF SumInv
<1> QED
    BY <1>1, SumInvariant, PTL

\* Library::sum_library never raises Alert(AN_LibChkSum) against a guarded
\* table that only SetFunction, MakeFunctions and MakeLibrary wrote since it was
\* last summed, unless that was in the middle of a MakeFunctions.
THEOREM LibraryNoFalseAlarm == Spec => []NoFalseAlarm
<1>1. SumInv => NoFalseAlarm
    BY DEF SumInv
<1> QED
    BY <1>1, SumInvariant, PTL
=============================================================================
