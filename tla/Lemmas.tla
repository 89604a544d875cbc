-------------------------------- MODULE Lemmas --------------------------------
(***************************************************************************)
(* What the proofs of several modules rest on.                             *)
(*                                                                         *)
(* First induction over the naturals, on sets, so that no fact takes an    *)
(* operator as a parameter: what a loop of the code has done after k turns *)
(* is shown by way of the set of the k for which it holds.                 *)
(*                                                                         *)
(* Then what the free-list surgery of Chunks.tla does to the set of free   *)
(* addresses and to the order of the list, for lists of every length.      *)
(***************************************************************************)
EXTENDS Chunks, FiniteSetTheorems, SequenceTheorems, WellFoundedInduction, TLAPS

-----------------------------------------------------------------------------
(* Induction.                                                              *)

\* A set of naturals that is not empty has a least element.
LEMMA LeastNatural ==
    ASSUME NEW S \in SUBSET Nat, S # {}
    PROVE  \E m \in S : \A k \in S : m <= k
<1>1. PICK m \in S : \A k \in S : ~(<<k, m>> \in OpToRel(<, Nat))
  BY NatLessThanWellFounded, WFMin
<1>2. \A k \in S : ~(k < m)
  BY <1>1 DEF OpToRel
<1> QED BY <1>2

\* What holds for 0 and, if for n, then for n + 1, holds for every natural.
LEMMA SetInduction ==
    ASSUME NEW S, 0 \in S, \A n \in Nat : n \in S => n + 1 \in S
    PROVE  Nat \subseteq S
<1> SUFFICES ASSUME Nat \ S # {} PROVE FALSE
  OBVIOUS
<1>1. PICK m \in Nat \ S : \A k \in Nat \ S : m <= k
  BY LeastNatural
<1>2. m - 1 \in Nat /\ m - 1 \in S
  BY <1>1
<1> QED BY <1>1, <1>2

\* Up to a bound: what holds for 0 and goes on from every n below the bound
\* holds up to the bound.
LEMMA BoundedInduction ==
    ASSUME NEW n \in Nat, NEW S, 0 \in S, \A k \in 0 .. (n - 1) : k \in S => k + 1 \in S
    PROVE  \A k \in 0 .. n : k \in S
<1> DEFINE T == {k \in Nat : k <= n => k \in S}
<1>1. 0 \in T
  OBVIOUS
<1>2. ASSUME NEW k \in Nat, k \in T PROVE k + 1 \in T
  <2>1. CASE k + 1 <= n
    <3>1. k \in 0 .. (n - 1) /\ k \in S
      BY <1>2, <2>1
    <3> QED BY <3>1
  <2>2. CASE ~(k + 1 <= n)
    BY <2>2
  <2> QED BY <2>1, <2>2
<1> HIDE DEF T
<1>3. Nat \subseteq T
  BY <1>1, <1>2, SetInduction
<1>4. ASSUME NEW k \in 0 .. n PROVE k \in S
  <2>1. k \in T /\ k <= n
    BY <1>3
  <2> QED BY <2>1 DEF T
<1> QED BY <1>4

\* A finite set of integers that is not empty has a greatest element.
LEMMA GreatestElement ==
    ASSUME NEW S \in SUBSET Int, IsFiniteSet(S), S # {}
    PROVE  \E m \in S : \A k \in S : k <= m
<1> DEFINE Has(T) == \E m \in T : \A k \in T : k <= m
           G == {n \in Nat : \A T \in SUBSET Int :
                    IsFiniteSet(T) /\ Cardinality(T) = n /\ T # {} => Has(T)}
<1>1. 0 \in G
  BY FS_EmptySet
<1>2. ASSUME NEW n \in Nat, n \in G PROVE n + 1 \in G
  <2> SUFFICES ASSUME NEW T \in SUBSET Int, IsFiniteSet(T), Cardinality(T) = n + 1, T # {}
               PROVE  Has(T)
    OBVIOUS
  <2>1. PICK x \in T : TRUE
    OBVIOUS
  <2> DEFINE U == T \ {x}
  <2>2. U \in SUBSET Int /\ IsFiniteSet(U) /\ Cardinality(U) = n
    <3>1. IsFiniteSet(U) /\ Cardinality(U) = (n + 1) - 1
      BY <2>1, FS_RemoveElement
    <3> QED BY <3>1
  <2>3. CASE U = {}
    <3>1. \A k \in T : k = x
      BY <2>3
    <3> QED BY <2>1, <3>1
  <2>4. CASE U # {}
    <3>1. PICK m \in U : \A k \in U : k <= m
      BY <1>2, <2>2, <2>4
    <3>2. m \in Int /\ x \in Int
      BY <3>1
    <3>3. CASE m <= x
      <4>1. \A k \in T : k <= x
        BY <3>1, <3>2, <3>3
      <4> QED BY <4>1
    <3>4. CASE ~(m <= x)
      <4>1. \A k \in T : k <= m
        BY <3>1, <3>2, <3>4
      <4> QED BY <3>1, <4>1
    <3> QED BY <3>3, <3>4
  <2> QED BY <2>3, <2>4
<1> HIDE DEF G
<1>3. Nat \subseteq G
  BY <1>1, <1>2, SetInduction
<1>4. Cardinality(S) \in G
  BY <1>3, FS_CardinalityType
<1> QED BY <1>4 DEF G

\* The function f on 0 .. n starts at first and takes the i-th step to f[i].
Steps(f, n, first, step) ==
    f[0] = first /\ \A i \in 1 .. n : f[i] = step[i][f[i - 1]]

\* A function defined on 0 .. n from its value one earlier exists: the steps
\* are given as one function of that value for each place.
LEMMA BoundedRecursion ==
    ASSUME NEW n \in Nat, NEW V, NEW first \in V, NEW step \in [1 .. n -> [V -> V]]
    PROVE  \E f : f \in [0 .. n -> V] /\ Steps(f, n, first, step)
<1> USE DEF Steps
<1> DEFINE Upto(m) == \E f : f \in [0 .. m -> V] /\ Steps(f, m, first, step)
           S == {m \in 0 .. n : Upto(m)}
<1>1. 0 \in S
  <2> DEFINE f == [i \in 0 .. 0 |-> first]
  <2>1. f \in [0 .. 0 -> V] /\ Steps(f, 0, first, step)
    OBVIOUS
  <2> HIDE DEF f
  <2>2. 0 \in 0 .. n /\ Upto(0)
    BY <2>1
  <2> QED BY <2>2
<1>2. ASSUME NEW m \in 0 .. (n - 1), m \in S PROVE m + 1 \in S
  <2>1. PICK f : f \in [0 .. m -> V] /\ Steps(f, m, first, step)
    BY <1>2
  <2>2. m \in 0 .. m /\ m + 1 \in 1 .. n /\ f[m] \in V /\ step[m + 1][f[m]] \in V
    BY <2>1
  <2> DEFINE g == [i \in 0 .. (m + 1) |-> IF i = m + 1 THEN step[m + 1][f[m]] ELSE f[i]]
  <2>3. g \in [0 .. (m + 1) -> V]
    BY <2>1, <2>2
  <2>4. g[0] = first
    BY <2>1
  <2>5. ASSUME NEW i \in 1 .. (m + 1) PROVE g[i] = step[i][g[i - 1]]
    <3>1. CASE i = m + 1
      BY <3>1, <2>2
    <3>2. CASE i # m + 1
      <4>1. i \in 1 .. m /\ g[i] = f[i] /\ g[i - 1] = f[i - 1]
        BY <3>2
      <4> QED BY <2>1, <4>1
    <3> QED BY <3>1, <3>2
  <2> HIDE DEF g
  <2>6. Upto(m + 1)
    BY <2>3, <2>4, <2>5
  <2> QED BY <2>2, <2>6
<1> HIDE DEF S
<1>3. \A k \in 0 .. n : k \in S
  BY <1>1, <1>2, BoundedInduction
<1>4. n \in S
  BY <1>3
<1> QED BY <1>4 DEF S

-----------------------------------------------------------------------------
(* Free lists.                                                             *)

ChunkRecords == [start : Nat, size : Nat \ {0}]

\* A well-formed free list.
ChunkList(cs) == cs \in Seq(ChunkRecords) /\ Separated(cs)

\* A chunk is not empty: it ends past its start.
LEMMA ChunkEnds ==
    ASSUME NEW c \in ChunkRecords
    PROVE  c.start < End(c) /\ c.start \in Nat /\ End(c) \in Nat
<1>1. c.start \in Nat /\ c.size \in Nat \ {0}
  BY DEF ChunkRecords
<1> QED BY <1>1 DEF End

\* Rounding up loses no byte of the request and adds at most seven.
LEMMA RoundUpBounds ==
    ASSUME NEW n \in Nat
    PROVE  /\ RoundUp(n) \in Nat
           /\ RoundUp(n) >= n /\ RoundUp(n) <= n + 7
           /\ RoundUp(n) % 8 = 0
BY SMT DEF RoundUp

\* Membership in the free set: some chunk covers the address.
LEMMA InFree ==
    ASSUME NEW cs \in Seq(ChunkRecords), NEW x
    PROVE  x \in FreeBytes(cs)
             <=> x \in Int /\ \E i \in 1 .. Len(cs) : cs[i].start <= x /\ x < End(cs[i])
<1>1. DOMAIN cs = 1 .. Len(cs) /\ \A i \in DOMAIN cs : cs[i] \in ChunkRecords
  BY LenProperties, ElementOfSeq
<1>2. x \in FreeBytes(cs) <=> \E i \in DOMAIN cs : x \in Run(cs[i].start, cs[i].size)
  BY Zenon DEF FreeBytes
<1>3. ASSUME NEW i \in DOMAIN cs
      PROVE  x \in Run(cs[i].start, cs[i].size)
               <=> x \in Int /\ cs[i].start <= x /\ x < End(cs[i])
  BY <1>1, <1>3 DEF Run, End, ChunkRecords
<1> QED BY <1>1, <1>2, <1>3

\* A sequence all of whose elements are in T is a sequence over T.
LEMMA ElementwiseSeq ==
    ASSUME NEW S, NEW T, NEW s \in Seq(S), \A q \in 1 .. Len(s) : s[q] \in T
    PROVE  s \in Seq(T)
<1>1. Len(s) \in Nat
  BY LenProperties
<1>2. SubSeq(s, 1, Len(s)) = s
  BY SubSeqFull
<1>3. SubSeq(s, 1, Len(s)) \in Seq(T)
  BY <1>1, SubSeqProperties
<1> QED BY <1>2, <1>3

\* The links of a spliced list: the kept ones below, the new ones, the kept
\* ones above.
LEMMA SpliceLinks ==
    ASSUME NEW S, NEW cs \in Seq(S), NEW mid \in Seq(S),
           NEW i \in 0 .. Len(cs), NEW j \in 1 .. (Len(cs) + 1), i < j
    PROVE  LET new == Splice(cs, i, mid, j)
               k   == Len(mid)
           IN  /\ new \in Seq(S)
               /\ Len(new) = i + k + (Len(cs) + 1 - j)
               /\ \A q \in 1 .. i : new[q] = cs[q]
               /\ \A q \in 1 .. k : new[i + q] = mid[q]
               /\ \A q \in j .. Len(cs) : new[i + k + 1 + (q - j)] = cs[q]
<1> DEFINE low  == SubSeq(cs, 1, i)
           high == SubSeq(cs, j, Len(cs))
           k    == Len(mid)
<1>0. Len(cs) \in Nat /\ k \in Nat
  BY LenProperties
<1>1. /\ low \in Seq(S) /\ Len(low) = i
      /\ \A q \in 1 .. i : low[q] = cs[q]
  <2>1. \A q \in 1 .. i : cs[q] \in S
    BY <1>0, ElementOfSeq
  <2> QED BY <1>0, <2>1, SubSeqProperties
<1>2. /\ high \in Seq(S) /\ Len(high) = Len(cs) + 1 - j
      /\ \A q \in 1 .. (Len(cs) + 1 - j) : high[q] = cs[j + q - 1]
  <2>1. \A q \in j .. Len(cs) : cs[q] \in S
    BY <1>0, ElementOfSeq
  <2> QED BY <1>0, <2>1, SubSeqProperties
<1> HIDE DEF low, high
<1>3. /\ low \o mid \in Seq(S) /\ Len(low \o mid) = i + k
      /\ \A q \in 1 .. (i + k) : (low \o mid)[q] = IF q <= i THEN low[q] ELSE mid[q - i]
  BY <1>0, <1>1, ConcatProperties
<1> DEFINE lm == low \o mid
<1>4. /\ lm \in Seq(S) /\ Len(lm) = i + k
      /\ \A q \in 1 .. (i + k) : lm[q] = IF q <= i THEN low[q] ELSE mid[q - i]
  BY <1>3
<1> HIDE DEF lm
<1>5. /\ lm \o high \in Seq(S)
      /\ Len(lm \o high) = i + k + (Len(cs) + 1 - j)
      /\ \A q \in 1 .. (i + k + (Len(cs) + 1 - j)) :
            (lm \o high)[q] = IF q <= i + k THEN lm[q] ELSE high[q - (i + k)]
  <2>1. /\ lm \o high \in Seq(S)
        /\ Len(lm \o high) = Len(lm) + Len(high)
        /\ \A q \in 1 .. Len(lm) + Len(high) :
              (lm \o high)[q] = IF q <= Len(lm) THEN lm[q] ELSE high[q - Len(lm)]
    BY <1>2, <1>4, ConcatProperties
  <2> QED BY <1>2, <1>4, <2>1
<1>6. Splice(cs, i, mid, j) = lm \o high
  BY DEF Splice, lm, low, high
<1> DEFINE new == lm \o high
<1>7. /\ new \in Seq(S) /\ Len(new) = i + k + (Len(cs) + 1 - j)
      /\ \A q \in 1 .. (i + k + (Len(cs) + 1 - j)) :
            new[q] = IF q <= i + k THEN lm[q] ELSE high[q - (i + k)]
  BY <1>5
<1> HIDE DEF new
<1>8. ASSUME NEW q \in 1 .. i
      PROVE  new[q] = cs[q]
  <2>1. q \in 1 .. (i + k) /\ q \in 1 .. (i + k + (Len(cs) + 1 - j)) /\ q <= i + k /\ q <= i
    BY <1>0
  <2>2. new[q] = lm[q]
    BY <1>7, <2>1
  <2>3. lm[q] = low[q]
    BY <1>4, <2>1
  <2> QED BY <1>1, <2>2, <2>3
<1>9. ASSUME NEW q \in 1 .. k
      PROVE  new[i + q] = mid[q]
  <2> DEFINE p == i + q
  <2>1. p \in 1 .. (i + k) /\ p \in 1 .. (i + k + (Len(cs) + 1 - j)) /\ p <= i + k
    BY <1>0
  <2>2. ~(p <= i) /\ p - i = q
    BY <1>0
  <2> HIDE DEF p
  <2>3. new[p] = lm[p]
    BY <1>7, <2>1
  <2>4. lm[p] = mid[q]
    BY <1>4, <2>1, <2>2
  <2> QED BY <2>3, <2>4 DEF p
<1>10. ASSUME NEW q \in j .. Len(cs)
       PROVE  new[i + k + 1 + (q - j)] = cs[q]
  <2>1. i + k + 1 + (q - j) \in 1 .. (i + k + (Len(cs) + 1 - j))
    BY <1>0
  <2>2. new[i + k + 1 + (q - j)] = high[i + k + 1 + (q - j) - (i + k)]
    BY <1>0, <1>7, <2>1
  <2>3. i + k + 1 + (q - j) - (i + k) = q - j + 1
    BY <1>0
  <2>4. q - j + 1 \in 1 .. (Len(cs) + 1 - j) /\ j + (q - j + 1) - 1 = q
    BY <1>0
  <2>5. high[q - j + 1] = cs[j + (q - j + 1) - 1]
    BY <1>2, <2>4
  <2> QED BY <2>2, <2>3, <2>4, <2>5
<1> QED BY <1>6, <1>7, <1>8, <1>9, <1>10 DEF new

Covers(c, x) == c.start <= x /\ x < End(c)

\* Replacing the links strictly between i and j by at most one chunk that
\* keeps a gap to both sides leaves a well-formed list, whose free addresses
\* are those of the links that stay and of the new one.
LEMMA SpliceSound ==
    ASSUME NEW cs, ChunkList(cs),
           NEW mid \in Seq(ChunkRecords), Len(mid) <= 1,
           NEW i \in 0 .. Len(cs), NEW j \in 1 .. (Len(cs) + 1), i < j,
           Len(mid) = 1 /\ i > 0 => End(cs[i]) < mid[1].start,
           Len(mid) = 1 /\ j <= Len(cs) => End(mid[1]) < cs[j].start
    PROVE  /\ ChunkList(Splice(cs, i, mid, j))
           /\ \A x \in Int :
                x \in FreeBytes(Splice(cs, i, mid, j)) <=>
                    \/ \E q \in 1 .. i : Covers(cs[q], x)
                    \/ \E q \in j .. Len(cs) : Covers(cs[q], x)
                    \/ Len(mid) = 1 /\ Covers(mid[1], x)
<1> DEFINE new  == Splice(cs, i, mid, j)
           k    == Len(mid)
           n    == Len(cs)
           r(a) == a - i - k - 1 + j
<1>0. /\ cs \in Seq(ChunkRecords)
      /\ n \in Nat /\ k \in {0, 1}
      /\ \A q \in 1 .. n : cs[q] \in ChunkRecords
      /\ k = 1 => mid[1] \in ChunkRecords
      /\ DOMAIN cs = 1 .. n
  <2>1. k \in {0, 1}
    <3>1. k \in Nat
      BY LenProperties
    <3> QED BY <3>1
  <2>2. ASSUME k = 1 PROVE mid[1] \in ChunkRecords
    <3>1. 1 \in 1 .. Len(mid)
      BY <2>2
    <3> QED BY <3>1, ElementOfSeq
  <2>3. cs \in Seq(ChunkRecords)
    BY DEF ChunkList
  <2>4. n \in Nat /\ DOMAIN cs = 1 .. n
    BY <2>3, LenProperties
  <2>5. \A q \in 1 .. n : cs[q] \in ChunkRecords
    BY <2>3, ElementOfSeq
  <2> QED BY <2>1, <2>2, <2>3, <2>4, <2>5
<1>1. /\ new \in Seq(ChunkRecords)
      /\ Len(new) = i + k + (n + 1 - j)
      /\ \A q \in 1 .. i : new[q] = cs[q]
      /\ \A q \in 1 .. k : new[i + q] = mid[q]
      /\ \A q \in j .. n : new[i + k + 1 + (q - j)] = cs[q]
  <2>1. cs \in Seq(ChunkRecords)
    BY <1>0
  <2> QED BY <2>1, SpliceLinks, ZenonT(60)
<1>2. DOMAIN new = 1 .. Len(new)
  BY <1>1, LenProperties
<1> HIDE DEF new, k
<1>3. ASSUME NEW a \in 1 .. Len(new), a > i + k
      PROVE  r(a) \in j .. n /\ new[a] = cs[r(a)]
  <2>1. r(a) \in j .. n /\ i + k + 1 + (r(a) - j) = a
    BY <1>0, <1>1, <1>3
  <2> QED BY <1>1, <2>1
<1>4. ASSUME NEW a \in 1 .. Len(new)
      PROVE  \/ a <= i /\ new[a] = cs[a]
             \/ k = 1 /\ a = i + 1 /\ new[a] = mid[1]
             \/ a > i + k /\ r(a) \in j .. n /\ new[a] = cs[r(a)]
  <2>1. CASE a <= i
    BY <1>1, <2>1
  <2>2. CASE i < a /\ a <= i + k
    <3>1. k = 1 /\ a = i + 1
      BY <1>0, <2>2
    <3> QED BY <1>1, <3>1
  <2>3. CASE a > i + k
    BY <1>3, <2>3
  <2> QED BY <1>0, <1>1, <2>1, <2>2, <2>3
<1>5. \A p, q \in 1 .. n : p < q => End(cs[p]) < cs[q].start
  BY <1>0 DEF ChunkList, Separated
<1>6. \A q \in 1 .. n : cs[q].start < End(cs[q]) /\ cs[q].start \in Nat /\ End(cs[q]) \in Nat
  BY <1>0, ChunkEnds
<1>7. k = 1 => mid[1].start < End(mid[1]) /\ mid[1].start \in Nat /\ End(mid[1]) \in Nat
  BY <1>0, ChunkEnds
<1>8. k = 1 => \A q \in 1 .. i : End(cs[q]) < mid[1].start
  <2> SUFFICES ASSUME k = 1, NEW q \in 1 .. i PROVE End(cs[q]) < mid[1].start
    OBVIOUS
  <2>1. q = i \/ End(cs[q]) < cs[i].start
    BY <1>0, <1>5
  <2>2. End(cs[i]) < mid[1].start
    BY <1>0 DEF k
  <2>3. i \in 1 .. n /\ q \in 1 .. n
    BY <1>0
  <2> QED BY <1>0, <1>6, <1>7, <2>1, <2>2, <2>3
<1>9. k = 1 => \A q \in j .. n : End(mid[1]) < cs[q].start
  <2> SUFFICES ASSUME k = 1, NEW q \in j .. n PROVE End(mid[1]) < cs[q].start
    OBVIOUS
  <2>1. q = j \/ End(cs[j]) < cs[q].start
    BY <1>0, <1>5
  <2>2. End(mid[1]) < cs[j].start
    BY <1>0 DEF k
  <2>3. j \in 1 .. n /\ q \in 1 .. n
    BY <1>0
  <2> QED BY <1>0, <1>6, <1>7, <2>1, <2>2, <2>3
<1>10. Separated(new)
  <2> SUFFICES ASSUME NEW a \in 1 .. Len(new), NEW b \in 1 .. Len(new), a < b
               PROVE  End(new[a]) < new[b].start
    BY <1>2 DEF Separated
  <2>1. CASE a <= i /\ new[a] = cs[a]
    <3>1. CASE b <= i /\ new[b] = cs[b]
      BY <1>0, <1>5, <2>1, <3>1
    <3>2. CASE k = 1 /\ b = i + 1 /\ new[b] = mid[1]
      BY <1>0, <1>8, <2>1, <3>2
    <3>3. CASE b > i + k /\ r(b) \in j .. n /\ new[b] = cs[r(b)]
      <4>1. a \in 1 .. n /\ r(b) \in 1 .. n /\ a < r(b)
        BY <1>0, <2>1, <3>3
      <4> QED BY <1>5, <2>1, <3>3, <4>1
    <3> QED BY <1>4, <3>1, <3>2, <3>3
  <2>2. CASE k = 1 /\ a = i + 1 /\ new[a] = mid[1]
    <3>1. b > i + k /\ r(b) \in j .. n /\ new[b] = cs[r(b)]
      BY <1>0, <1>4, <2>2
    <3> QED BY <1>9, <2>2, <3>1
  <2>3. CASE a > i + k /\ r(a) \in j .. n /\ new[a] = cs[r(a)]
    <3>0. b > i + k
      BY <1>0, <1>1, <2>3
    <3>1. r(b) \in j .. n /\ new[b] = cs[r(b)]
      BY <1>3, <3>0
    <3>2. r(a) \in 1 .. n /\ r(b) \in 1 .. n /\ r(a) < r(b)
      BY <1>0, <1>1, <2>3, <3>1
    <3> QED BY <1>5, <2>3, <3>1, <3>2
  <2> QED BY <1>4, <2>1, <2>2, <2>3
<1>11. ASSUME NEW x \in Int
       PROVE  x \in FreeBytes(new) <=>
                 \/ \E q \in 1 .. i : Covers(cs[q], x)
                 \/ \E q \in j .. n : Covers(cs[q], x)
                 \/ k = 1 /\ Covers(mid[1], x)
  <2>1. x \in FreeBytes(new) <=> \E a \in 1 .. Len(new) : Covers(new[a], x)
    BY <1>1, InFree DEF Covers
  <2>2. ASSUME NEW a \in 1 .. Len(new), Covers(new[a], x)
        PROVE  \/ \E q \in 1 .. i : Covers(cs[q], x)
               \/ \E q \in j .. n : Covers(cs[q], x)
               \/ k = 1 /\ Covers(mid[1], x)
    <3>1. CASE a <= i /\ new[a] = cs[a]
      <4>1. a \in 1 .. i
        BY <1>0, <1>1, <3>1
      <4> QED BY <2>2, <3>1, <4>1
    <3>2. CASE k = 1 /\ a = i + 1 /\ new[a] = mid[1]
      BY <2>2, <3>2
    <3>3. CASE a > i + k /\ r(a) \in j .. n /\ new[a] = cs[r(a)]
      <4> HIDE DEF r
      <4> QED BY <2>2, <3>3
    <3> QED BY <1>4, <3>1, <3>2, <3>3
  <2>3. ASSUME NEW q \in 1 .. i, Covers(cs[q], x)
        PROVE  \E a \in 1 .. Len(new) : Covers(new[a], x)
    <3>1. q \in 1 .. Len(new) /\ new[q] = cs[q]
      BY <1>0, <1>1
    <3> QED BY <2>3, <3>1
  <2>4. ASSUME NEW q \in j .. n, Covers(cs[q], x)
        PROVE  \E a \in 1 .. Len(new) : Covers(new[a], x)
    <3> DEFINE a == i + k + 1 + (q - j)
    <3>1. a \in 1 .. Len(new) /\ new[a] = cs[q]
      BY <1>0, <1>1
    <3> QED BY <2>4, <3>1
  <2>5. ASSUME k = 1, Covers(mid[1], x)
        PROVE  \E a \in 1 .. Len(new) : Covers(new[a], x)
    <3>1. i + 1 \in 1 .. Len(new) /\ new[i + 1] = mid[1]
      BY <1>0, <1>1, <2>5
    <3> QED BY <2>5, <3>1
  <2> QED BY <2>1, <2>2, <2>3, <2>4, <2>5
<1> QED BY <1>1, <1>10, <1>11 DEF ChunkList, new, k

\* Taking r bytes at m out of chunk i: the chunk is replaced by what is left
\* of it, or unlinked when nothing is.
LEMMA ReplaceChunk ==
    ASSUME NEW cs, ChunkList(cs), NEW i \in 1 .. Len(cs),
           NEW mid \in Seq(ChunkRecords), Len(mid) <= 1,
           Len(mid) = 1 => cs[i].start <= mid[1].start /\ End(mid[1]) <= End(cs[i]),
           NEW m \in Nat, NEW r \in Nat, Holds(cs[i], m, r),
           \A x \in Int : Covers(cs[i], x) =>
                ((Len(mid) = 1 /\ Covers(mid[1], x)) <=> ~(m <= x /\ x < m + r))
    PROVE  /\ ChunkList(Splice(cs, i - 1, mid, i + 1))
           /\ FreeBytes(Splice(cs, i - 1, mid, i + 1)) = FreeBytes(cs) \ Run(m, r)
           /\ Run(m, r) \subseteq FreeBytes(cs)
<1> DEFINE new == Splice(cs, i - 1, mid, i + 1)
           n   == Len(cs)
           M(x) == Len(mid) = 1 /\ Covers(mid[1], x)
<1>0. /\ cs \in Seq(ChunkRecords) /\ n \in Nat
      /\ \A q \in 1 .. n : cs[q] \in ChunkRecords
      /\ \A p, q \in 1 .. n : p < q => End(cs[p]) < cs[q].start
  <2>1. cs \in Seq(ChunkRecords)
    BY DEF ChunkList
  <2>2. n \in Nat /\ DOMAIN cs = 1 .. n
    BY <2>1, LenProperties
  <2> QED BY <2>1, <2>2, ElementOfSeq DEF ChunkList, Separated
<1>1. \A q \in 1 .. n : cs[q].start \in Nat /\ End(cs[q]) \in Nat /\ cs[q].start < End(cs[q])
  BY <1>0, ChunkEnds
<1>2. Len(mid) = 1 => mid[1].start \in Nat /\ End(mid[1]) \in Nat
  <2> SUFFICES ASSUME Len(mid) = 1 PROVE mid[1].start \in Nat /\ End(mid[1]) \in Nat
    OBVIOUS
  <2>1. 1 \in 1 .. Len(mid)
    OBVIOUS
  <2>2. mid[1] \in ChunkRecords
    BY <2>1, ElementOfSeq
  <2> QED BY <2>2 DEF ChunkRecords, End
<1>3. i - 1 \in 0 .. n /\ i + 1 \in 1 .. (n + 1) /\ i - 1 < i + 1
  BY <1>0
<1>4. Len(mid) = 1 /\ i - 1 > 0 => End(cs[i - 1]) < mid[1].start
  BY <1>0, <1>1, <1>2, SMTT(30)
<1>5. Len(mid) = 1 /\ i + 1 <= n => End(mid[1]) < cs[i + 1].start
  BY <1>0, <1>1, <1>2
<1>6. /\ ChunkList(new)
      /\ \A x \in Int :
            x \in FreeBytes(new) <=>
                \/ \E q \in 1 .. (i - 1) : Covers(cs[q], x)
                \/ \E q \in (i + 1) .. n : Covers(cs[q], x)
                \/ M(x)
  BY <1>3, <1>4, <1>5, SpliceSound
<1> HIDE DEF new, M
<1>7. ASSUME NEW x \in Int
      PROVE  x \in FreeBytes(new) <=> x \in FreeBytes(cs) /\ ~(m <= x /\ x < m + r)
  <2>1. x \in FreeBytes(cs) <=> \E q \in 1 .. n : Covers(cs[q], x)
    BY <1>0, InFree DEF Covers
  <2>2. Covers(cs[i], x) => (M(x) <=> ~(m <= x /\ x < m + r))
    BY DEF M
  <2>3. M(x) => Covers(cs[i], x)
    BY <1>1, <1>2 DEF M, Covers
  <2>4. m <= x /\ x < m + r => Covers(cs[i], x)
    BY <1>1 DEF Covers, Holds
  <2>5. ASSUME NEW q \in 1 .. n, q # i, Covers(cs[q], x)
        PROVE  ~Covers(cs[i], x) /\ (q \in 1 .. (i - 1) \/ q \in (i + 1) .. n)
    <3>1. q < i \/ i < q
      BY <1>0, <2>5
    <3>2. ~Covers(cs[i], x)
      BY <1>0, <1>1, <2>5, <3>1 DEF Covers
    <3> QED BY <1>0, <3>1, <3>2
  <2>6. ASSUME x \in FreeBytes(new)
        PROVE  x \in FreeBytes(cs) /\ ~(m <= x /\ x < m + r)
    <3>1. CASE M(x)
      BY <2>1, <2>2, <2>3, <3>1
    <3>2. ASSUME NEW q \in 1 .. n, q # i, Covers(cs[q], x)
          PROVE  x \in FreeBytes(cs) /\ ~(m <= x /\ x < m + r)
      BY <2>1, <2>4, <2>5, <3>2
    <3>3. ASSUME NEW q \in 1 .. (i - 1) PROVE q \in 1 .. n /\ q # i
      BY <1>0
    <3>4. ASSUME NEW q \in (i + 1) .. n PROVE q \in 1 .. n /\ q # i
      BY <1>0
    <3> QED BY <1>6, <2>6, <3>1, <3>2, <3>3, <3>4
  <2>7. ASSUME x \in FreeBytes(cs), ~(m <= x /\ x < m + r)
        PROVE  x \in FreeBytes(new)
    <3>1. PICK q \in 1 .. n : Covers(cs[q], x)
      BY <2>1, <2>7
    <3>2. CASE q = i
      BY <1>6, <2>2, <2>7, <3>1, <3>2
    <3>3. CASE q # i
      BY <1>6, <2>5, <3>1, <3>3
    <3> QED BY <3>2, <3>3
  <2> QED BY <2>6, <2>7
<1>8. FreeBytes(new) \subseteq Int /\ FreeBytes(cs) \subseteq Int
  <2>1. new \in Seq(ChunkRecords)
    BY <1>6 DEF ChunkList
  <2> QED BY <1>0, <2>1, InFree
<1>9. \A x : x \in Run(m, r) <=> x \in Int /\ m <= x /\ x < m + r
  BY DEF Run
<1>10. FreeBytes(new) = FreeBytes(cs) \ Run(m, r)
  BY <1>7, <1>8, <1>9
<1>11. Run(m, r) \subseteq FreeBytes(cs)
  <2> SUFFICES ASSUME NEW x \in Run(m, r) PROVE x \in FreeBytes(cs)
    OBVIOUS
  <2>1. x \in Int /\ cs[i].start <= x /\ x < End(cs[i])
    BY <1>1, <1>9 DEF Holds
  <2> QED BY <1>0, <2>1, InFree
<1> QED BY <1>6, <1>10, <1>11 DEF new

\* The links of a well-formed list, one by one.
LEMMA ListLinks ==
    ASSUME NEW cs, ChunkList(cs)
    PROVE  /\ cs \in Seq(ChunkRecords)
           /\ Len(cs) \in Nat /\ DOMAIN cs = 1 .. Len(cs)
           /\ \A q \in 1 .. Len(cs) :
                /\ cs[q] = Chunk(cs[q].start, cs[q].size)
                /\ cs[q].start \in Nat /\ cs[q].size \in Nat \ {0}
                /\ End(cs[q]) \in Nat /\ End(cs[q]) = cs[q].start + cs[q].size
                /\ cs[q].start < End(cs[q])
           /\ \A p, q \in 1 .. Len(cs) : p < q => End(cs[p]) < cs[q].start
<1>1. cs \in Seq(ChunkRecords)
  BY DEF ChunkList
<1>2. Len(cs) \in Nat /\ DOMAIN cs = 1 .. Len(cs)
  BY <1>1, LenProperties
<1>3. \A q \in 1 .. Len(cs) : cs[q] \in ChunkRecords
  BY <1>1, ElementOfSeq
<1>4. \A p, q \in 1 .. Len(cs) : p < q => End(cs[p]) < cs[q].start
  BY <1>2 DEF ChunkList, Separated
<1>5. \A q \in 1 .. Len(cs) :
        /\ cs[q] = Chunk(cs[q].start, cs[q].size)
        /\ cs[q].start \in Nat /\ cs[q].size \in Nat \ {0}
        /\ End(cs[q]) \in Nat /\ End(cs[q]) = cs[q].start + cs[q].size
        /\ cs[q].start < End(cs[q])
  BY <1>3 DEF ChunkRecords, Chunk, End
<1> QED BY <1>1, <1>2, <1>4, <1>5

\* A sequence of one chunk, or of none.
LEMMA OneChunk ==
    ASSUME NEW a \in Nat, NEW n \in Nat \ {0}
    PROVE  /\ << Chunk(a, n) >> \in Seq(ChunkRecords)
           /\ Len(<< Chunk(a, n) >>) = 1
           /\ << Chunk(a, n) >>[1].start = a /\ << Chunk(a, n) >>[1].size = n
           /\ End(<< Chunk(a, n) >>[1]) = a + n
BY DEF Chunk, ChunkRecords, End

\* What takes the place of a chunk that is unlinked.
LEMMA NoChunk == << >> \in Seq(ChunkRecords) /\ Len(<< >>) = 0
BY EmptySeq

\* allocate's carving: the r lowest addresses of the chunk leave the list.
LEMMA CarveLowSound ==
    ASSUME NEW cs, ChunkList(cs), NEW i \in 1 .. Len(cs),
           NEW r \in Nat \ {0}, cs[i].size >= r
    PROVE  /\ ChunkList(CarveLow(cs, i, r))
           /\ FreeBytes(CarveLow(cs, i, r)) = FreeBytes(cs) \ Run(cs[i].start, r)
           /\ Run(cs[i].start, r) \subseteq FreeBytes(cs)
<1> DEFINE c == cs[i]
           m == c.start
<1>0. r \in Nat
  OBVIOUS
<1>1. /\ c.start \in Nat /\ c.size \in Nat \ {0} /\ End(c) = c.start + c.size
  BY ListLinks
<1>2. m \in Nat /\ Holds(c, m, r)
  BY <1>1 DEF Holds
<1>3. CASE c.size = r
  <2>1. CarveLow(cs, i, r) = Splice(cs, i - 1, << >>, i + 1)
    BY <1>3 DEF CarveLow
  <2>2. \A x \in Int : Covers(c, x) => (m <= x /\ x < m + r)
    BY <1>1, <1>3 DEF Covers
  <2> DEFINE mid == << >>
  <2>3. mid \in Seq(ChunkRecords) /\ Len(mid) <= 1 /\ Len(mid) # 1
    BY NoChunk
  <2> HIDE DEF mid, m
  <2>4. \A x \in Int : Covers(cs[i], x) =>
            ((Len(mid) = 1 /\ Covers(mid[1], x)) <=> ~(m <= x /\ x < m + r))
    BY <2>2, <2>3
  <2>5. /\ ChunkList(Splice(cs, i - 1, mid, i + 1))
        /\ FreeBytes(Splice(cs, i - 1, mid, i + 1)) = FreeBytes(cs) \ Run(m, r)
        /\ Run(m, r) \subseteq FreeBytes(cs)
    BY <1>0, <1>2, <2>3, <2>4, ReplaceChunk
  <2> QED BY <2>1, <2>5 DEF mid, m
<1>4. CASE c.size # r
  <2> DEFINE mid == << Chunk(c.start + r, c.size - r) >>
  <2>1. CarveLow(cs, i, r) = Splice(cs, i - 1, mid, i + 1)
    BY <1>4 DEF CarveLow
  <2>2. c.start + r \in Nat /\ c.size - r \in Nat \ {0}
    BY <1>1, <1>4
  <2>3. /\ mid \in Seq(ChunkRecords) /\ Len(mid) = 1
        /\ mid[1].start = c.start + r /\ End(mid[1]) = (c.start + r) + (c.size - r)
    BY <2>2, OneChunk
  <2> HIDE DEF mid
  <2>4. End(mid[1]) = End(c) /\ End(mid[1]) <= End(c) /\ c.start <= mid[1].start
    BY <1>1, <2>3
  <2>5. \A x \in Int : Covers(c, x) =>
            (Covers(mid[1], x) <=> ~(m <= x /\ x < m + r))
    BY <1>1, <2>3, <2>4 DEF Covers
  <2> HIDE DEF m
  <2>6. \A x \in Int : Covers(cs[i], x) =>
            ((Len(mid) = 1 /\ Covers(mid[1], x)) <=> ~(m <= x /\ x < m + r))
    BY <2>3, <2>5
  <2>7. Len(mid) <= 1 /\ cs[i].start <= mid[1].start /\ End(mid[1]) <= End(cs[i])
    BY <1>1, <2>3, <2>4
  <2>8. /\ ChunkList(Splice(cs, i - 1, mid, i + 1))
        /\ FreeBytes(Splice(cs, i - 1, mid, i + 1)) = FreeBytes(cs) \ Run(m, r)
        /\ Run(m, r) \subseteq FreeBytes(cs)
    BY <1>0, <1>2, <2>3, <2>6, <2>7, ReplaceChunk
  <2> QED BY <2>1, <2>8 DEF m
<1> QED BY <1>3, <1>4

\* allocate_reverse's carving: the r highest addresses leave the list.
LEMMA CarveHighSound ==
    ASSUME NEW cs, ChunkList(cs), NEW i \in 1 .. Len(cs),
           NEW r \in Nat \ {0}, cs[i].size >= r
    PROVE  /\ ChunkList(CarveHigh(cs, i, r))
           /\ FreeBytes(CarveHigh(cs, i, r)) = FreeBytes(cs) \ Run(End(cs[i]) - r, r)
           /\ Run(End(cs[i]) - r, r) \subseteq FreeBytes(cs)
<1> DEFINE c == cs[i]
           m == End(c) - r
<1>0. r \in Nat
  OBVIOUS
<1>1. /\ c.start \in Nat /\ c.size \in Nat \ {0} /\ End(c) = c.start + c.size
  BY ListLinks
<1>2. m \in Nat /\ Holds(c, m, r)
  BY <1>1 DEF Holds
<1>3. CASE c.size = r
  <2>1. CarveHigh(cs, i, r) = Splice(cs, i - 1, << >>, i + 1)
    BY <1>3 DEF CarveHigh
  <2>2. \A x \in Int : Covers(c, x) => (m <= x /\ x < m + r)
    BY <1>1, <1>3 DEF Covers
  <2> DEFINE mid == << >>
  <2>3. mid \in Seq(ChunkRecords) /\ Len(mid) <= 1 /\ Len(mid) # 1
    BY NoChunk
  <2> HIDE DEF mid, m
  <2>4. \A x \in Int : Covers(cs[i], x) =>
            ((Len(mid) = 1 /\ Covers(mid[1], x)) <=> ~(m <= x /\ x < m + r))
    BY <2>2, <2>3
  <2>5. /\ ChunkList(Splice(cs, i - 1, mid, i + 1))
        /\ FreeBytes(Splice(cs, i - 1, mid, i + 1)) = FreeBytes(cs) \ Run(m, r)
        /\ Run(m, r) \subseteq FreeBytes(cs)
    BY <1>0, <1>2, <2>3, <2>4, ReplaceChunk
  <2> QED BY <2>1, <2>5 DEF mid, m
<1>4. CASE c.size # r
  <2> DEFINE mid == << Chunk(c.start, c.size - r) >>
  <2>1. CarveHigh(cs, i, r) = Splice(cs, i - 1, mid, i + 1)
    BY <1>4 DEF CarveHigh
  <2>2. c.start \in Nat /\ c.size - r \in Nat \ {0}
    BY <1>1, <1>4
  <2>3. /\ mid \in Seq(ChunkRecords) /\ Len(mid) = 1
        /\ mid[1].start = c.start /\ End(mid[1]) = c.start + (c.size - r)
    BY <2>2, OneChunk
  <2> HIDE DEF mid
  <2>4. End(mid[1]) = m /\ End(mid[1]) <= End(c) /\ c.start <= mid[1].start
    BY <1>1, <2>3
  <2>5. \A x \in Int : Covers(c, x) =>
            (Covers(mid[1], x) <=> ~(m <= x /\ x < m + r))
    BY <1>1, <2>3, <2>4 DEF Covers
  <2> HIDE DEF m
  <2>6. \A x \in Int : Covers(cs[i], x) =>
            ((Len(mid) = 1 /\ Covers(mid[1], x)) <=> ~(m <= x /\ x < m + r))
    BY <2>3, <2>5
  <2>7. Len(mid) <= 1 /\ cs[i].start <= mid[1].start /\ End(mid[1]) <= End(cs[i])
    BY <1>1, <2>3, <2>4
  <2>8. /\ ChunkList(Splice(cs, i - 1, mid, i + 1))
        /\ FreeBytes(Splice(cs, i - 1, mid, i + 1)) = FreeBytes(cs) \ Run(m, r)
        /\ Run(m, r) \subseteq FreeBytes(cs)
    BY <1>0, <1>2, <2>3, <2>6, <2>7, ReplaceChunk
  <2> QED BY <2>1, <2>8 DEF m
<1> QED BY <1>3, <1>4

\* allocate_at's carving, of a block that shares an end with its chunk: the
\* block leaves the list.  (Strictly inside the chunk it does not: both pieces
\* get the size c.size - r.)
LEMMA CarveAtSound ==
    ASSUME NEW cs, ChunkList(cs), NEW i \in 1 .. Len(cs),
           NEW m \in Nat, NEW r \in Nat \ {0}, Holds(cs[i], m, r),
           m = cs[i].start \/ m + r = End(cs[i])
    PROVE  /\ ChunkList(CarveAt(cs, i, m, r))
           /\ FreeBytes(CarveAt(cs, i, m, r)) = FreeBytes(cs) \ Run(m, r)
           /\ Run(m, r) \subseteq FreeBytes(cs)
<1> DEFINE c == cs[i]
<1>0. r \in Nat
  OBVIOUS
<1>1. /\ c.start \in Nat /\ c.size \in Nat \ {0} /\ End(c) = c.start + c.size
      /\ cs \in Seq(ChunkRecords) /\ c.start <= m /\ m + r <= End(c)
  BY ListLinks DEF Holds
<1>2. CASE m = c.start
  <2>1. r <= c.size
    BY <1>1, <1>2
  <2>2. c.size = r <=> ~(m + r < End(c))
    BY <1>1, <1>2, <2>1
  <2>3. << >> \o << Chunk(m + r, c.size - r) >> = << Chunk(m + r, c.size - r) >>
        /\ << >> \o << >> = << >>
    OBVIOUS
  <2> DEFINE one == << Chunk(m + r, c.size - r) >>
             mid == IF c.size = r THEN << >> ELSE one
  <2>5. ~(c.start < m)
    BY <1>1, <1>2
  <2>6. CarveLow(cs, i, r) = Splice(cs, i - 1, mid, i + 1)
    BY <1>2 DEF CarveLow
  <2>7. CarveAt(cs, i, m, r)
          = Splice(cs, i - 1, << >> \o (IF m + r < End(c) THEN one ELSE << >>), i + 1)
    BY <2>5 DEF CarveAt
  <2>8. << >> \o (IF m + r < End(c) THEN one ELSE << >>) = mid
    <3> HIDE DEF c, one
    <3>1. << >> \o one = one /\ << >> \o << >> = << >>
      BY <2>3 DEF one
    <3> QED BY <2>2, <3>1
  <2>4. CarveAt(cs, i, m, r) = CarveLow(cs, i, r)
    BY <2>6, <2>7, <2>8
  <2> QED BY <1>2, <2>1, <2>4, CarveLowSound
<1>3. CASE m # c.start
  <2>1. r < c.size /\ m + r = End(c) /\ End(c) - r = m
    BY <1>1, <1>3
  <2>2. << Chunk(c.start, c.size - r) >> \o << >> = << Chunk(c.start, c.size - r) >>
    OBVIOUS
  <2>3. c.start < m /\ ~(m + r < End(c)) /\ c.size # r
    BY <1>1, <1>3, <2>1
  <2>4. CarveAt(cs, i, m, r) = CarveHigh(cs, i, r)
    BY <2>2, <2>3 DEF CarveAt, CarveHigh
  <2>5. cs[i].size >= r
    BY <1>1, <2>1
  <2>6. /\ ChunkList(CarveHigh(cs, i, r))
        /\ FreeBytes(CarveHigh(cs, i, r)) = FreeBytes(cs) \ Run(End(cs[i]) - r, r)
        /\ Run(End(cs[i]) - r, r) \subseteq FreeBytes(cs)
    BY <2>5, CarveHighSound
  <2>7. End(cs[i]) - r = m
    BY <2>1
  <2> HIDE DEF c
  <2> QED BY <2>4, <2>6, <2>7, Zenon
<1> QED BY <1>2, <1>3

\* deallocate's relinking of a block no address of which is on the list: it
\* does not give up, and the block's addresses join the list.
LEMMA GiveBackSound ==
    ASSUME NEW cs, ChunkList(cs), NEW m \in Nat, NEW r \in Nat \ {0},
           NEW k \in StopsAt(cs, m),
           Run(m, r) \cap FreeBytes(cs) = {}
    PROVE  /\ ~Clashes(cs, k, m, r)
           /\ ChunkList(GiveBack(cs, k, m, r))
           /\ FreeBytes(GiveBack(cs, k, m, r)) = FreeBytes(cs) \cup Run(m, r)
<1> DEFINE n    == Len(cs)
           next == JoinsNext(cs, k, m, r)
           prev == JoinsPrev(cs, k, m)
           low  == IF prev THEN cs[k - 1].start ELSE m
           high == IF next THEN End(cs[k]) ELSE m + r
           i    == IF prev THEN k - 2 ELSE k - 1
           j    == IF next THEN k + 1 ELSE k
           mid  == << Chunk(low, high - low) >>
           new  == Splice(cs, i, mid, j)
<1>1. /\ cs \in Seq(ChunkRecords) /\ n \in Nat
      /\ \A q \in 1 .. n : /\ cs[q].start \in Nat /\ End(cs[q]) \in Nat
                            /\ cs[q].start < End(cs[q])
      /\ \A p, q \in 1 .. n : p < q => End(cs[p]) < cs[q].start
  BY ListLinks
<1>2. /\ k \in 1 .. (n + 1)
      /\ \A q \in 1 .. (k - 1) : cs[q].start <= m
      /\ k <= n => cs[k].start > m
  BY DEF StopsAt
<1>3. \A x : x \in Run(m, r) <=> x \in Int /\ m <= x /\ x < m + r
  BY DEF Run
<1>4. \A x \in Int : x \in FreeBytes(cs) <=> \E q \in 1 .. n : Covers(cs[q], x)
  BY <1>1, InFree DEF Covers
<1>5. k <= n => ~(cs[k].start < m + r)
  <2> SUFFICES ASSUME k <= n, cs[k].start < m + r PROVE FALSE
    OBVIOUS
  <2>1. k \in 1 .. n
    BY <1>1, <1>2
  <2>2. cs[k].start \in Run(m, r)
    BY <1>1, <1>2, <1>3, <2>1
  <2>3. cs[k].start \in Int /\ Covers(cs[k], cs[k].start)
    BY <1>1, <2>1 DEF Covers
  <2>4. cs[k].start \in FreeBytes(cs)
    BY <1>4, <2>1, <2>3
  <2> QED BY <2>2, <2>4
<1>6. k > 1 => ~(End(cs[k - 1]) > m)
  <2> SUFFICES ASSUME k > 1, End(cs[k - 1]) > m PROVE FALSE
    OBVIOUS
  <2>1. k - 1 \in 1 .. n /\ k - 1 \in 1 .. (k - 1)
    BY <1>1, <1>2
  <2>2. m \in Run(m, r)
    BY <1>3
  <2>3. Covers(cs[k - 1], m)
    BY <1>2, <2>1 DEF Covers
  <2>4. m \in FreeBytes(cs)
    BY <1>4, <2>1, <2>3
  <2> QED BY <2>2, <2>4
<1>7. ~Clashes(cs, k, m, r)
  BY <1>5, <1>6 DEF Clashes
<1>8. k <= n => k \in 1 .. n /\ cs[k].start >= m + r
  BY <1>1, <1>2, <1>5
<1>9. k > 1 => k - 1 \in 1 .. n /\ End(cs[k - 1]) <= m
  <2> SUFFICES ASSUME k > 1 PROVE k - 1 \in 1 .. n /\ End(cs[k - 1]) <= m
    OBVIOUS
  <2>1. k - 1 \in 1 .. n
    BY <1>1, <1>2
  <2> QED BY <1>1, <1>6, <2>1
<1>10. /\ prev => k - 1 \in 1 .. n /\ End(cs[k - 1]) = m
       /\ next => k \in 1 .. n /\ cs[k].start = m + r
       /\ ~prev => (k > 1 => End(cs[k - 1]) < m)
       /\ ~next => (k <= n => cs[k].start > m + r)
  <2>1. k > 1 => End(cs[k - 1]) \in Nat
    BY <1>1, <1>9
  <2>2. k <= n => cs[k].start \in Nat
    BY <1>1, <1>8
  <2> QED BY <1>8, <1>9, <2>1, <2>2 DEF JoinsPrev, JoinsNext
<1>11. low \in Nat /\ high \in Nat /\ low <= m /\ m + r <= high /\ low < high
  BY <1>1, <1>10
<1>12. /\ mid \in Seq(ChunkRecords) /\ Len(mid) = 1
       /\ mid[1].start = low /\ End(mid[1]) = high
  <2>1. high - low \in Nat \ {0} /\ low + (high - low) = high
    BY <1>11
  <2> HIDE DEF low, high
  <2> QED BY <1>11, <2>1, OneChunk
<1>16. /\ i = k - 1 \/ (i = k - 2 /\ prev)
       /\ j = k \/ (j = k + 1 /\ next)
       /\ prev => i = k - 2 /\ low = cs[k - 1].start
       /\ next => j = k + 1 /\ high = End(cs[k])
       /\ ~prev => i = k - 1 /\ low = m
       /\ ~next => j = k /\ high = m + r
  OBVIOUS
<1>17. GiveBack(cs, k, m, r) = new
  BY DEF GiveBack
<1> HIDE DEF low, high, i, j, mid, prev, next
<1>13. i \in 0 .. n /\ j \in 1 .. (n + 1) /\ i < j
  <2>1. n \in Nat /\ k \in 1 .. (n + 1)
    BY <1>1, <1>2
  <2>2. (prev => k - 1 \in 1 .. n) /\ (next => k \in 1 .. n)
    BY <1>10
  <2>3. /\ i = k - 1 \/ (i = k - 2 /\ prev)
        /\ j = k \/ (j = k + 1 /\ next)
    BY <1>16
  <2>4. i \in 0 .. n /\ i < k
    BY <2>1, <2>2, <2>3
  <2>5. j \in 1 .. (n + 1) /\ k <= j
    BY <2>1, <2>2, <2>3
  <2> QED BY <2>1, <2>4, <2>5
<1>14. i > 0 => End(cs[i]) < low
  <2> SUFFICES ASSUME i > 0 PROVE End(cs[i]) < low
    OBVIOUS
  <2>1. CASE prev
    <3>1. i \in 1 .. n /\ k - 1 \in 1 .. n /\ i < k - 1
      BY <1>1, <1>2, <1>10, <1>16, <2>1
    <3>2. End(cs[i]) < cs[k - 1].start
      BY <1>1, <3>1
    <3> QED BY <1>16, <2>1, <3>2
  <2>2. CASE ~prev
    <3>1. k > 1 /\ i = k - 1 /\ low = m
      BY <1>1, <1>2, <1>16, <2>2
    <3> QED BY <1>10, <2>2, <3>1
  <2> QED BY <2>1, <2>2
<1>15. j <= n => high < cs[j].start
  <2> SUFFICES ASSUME j <= n PROVE high < cs[j].start
    OBVIOUS
  <2>1. CASE next
    <3>1. j \in 1 .. n /\ k \in 1 .. n /\ k < j
      BY <1>1, <1>2, <1>10, <1>16, <2>1
    <3>2. End(cs[k]) < cs[j].start
      BY <1>1, <3>1
    <3> QED BY <1>16, <2>1, <3>2
  <2>2. CASE ~next
    <3>1. j = k /\ k <= n /\ high = m + r
      BY <1>16, <2>2
    <3>2. cs[k].start \in Nat
      BY <1>1, <1>2, <3>1
    <3> QED BY <1>10, <2>2, <3>1, <3>2
  <2> QED BY <2>1, <2>2
<1>18. /\ ChunkList(new)
       /\ \A x \in Int :
            x \in FreeBytes(new) <=>
                \/ \E q \in 1 .. i : Covers(cs[q], x)
                \/ \E q \in j .. n : Covers(cs[q], x)
                \/ Len(mid) = 1 /\ Covers(mid[1], x)
  <2>1. Len(mid) <= 1
    BY <1>12
  <2>2. /\ Len(mid) = 1 /\ i > 0 => End(cs[i]) < mid[1].start
        /\ Len(mid) = 1 /\ j <= Len(cs) => End(mid[1]) < cs[j].start
    BY <1>12, <1>14, <1>15
  <2> QED BY <1>12, <1>13, <2>1, <2>2, SpliceSound
<1> HIDE DEF new
<1>19. ASSUME NEW x \in Int
       PROVE  x \in FreeBytes(new) <=> x \in FreeBytes(cs) \/ (m <= x /\ x < m + r)
  <2>1. x \in FreeBytes(new) <=>
            \/ \E q \in 1 .. i : Covers(cs[q], x)
            \/ \E q \in j .. n : Covers(cs[q], x)
            \/ low <= x /\ x < high
    BY <1>12, <1>18 DEF Covers
  <2>2. low <= x /\ x < high <=>
            \/ prev /\ Covers(cs[k - 1], x)
            \/ m <= x /\ x < m + r
            \/ next /\ Covers(cs[k], x)
    <3>1. prev => low = cs[k - 1].start /\ End(cs[k - 1]) = m /\ low \in Nat /\ low < m
      BY <1>1, <1>10, <1>16
    <3>2. next => cs[k].start = m + r /\ End(cs[k]) = high /\ high \in Nat /\ m + r < high
      BY <1>1, <1>10, <1>16
    <3>3. (~prev => low = m) /\ (~next => high = m + r)
      BY <1>16
    <3>4. prev => (Covers(cs[k - 1], x) <=> low <= x /\ x < m)
      BY <3>1 DEF Covers
    <3>5. next => (Covers(cs[k], x) <=> m + r <= x /\ x < high)
      BY <3>2 DEF Covers
    <3>6. low <= x /\ x < high <=>
              \/ prev /\ low <= x /\ x < m
              \/ m <= x /\ x < m + r
              \/ next /\ m + r <= x /\ x < high
      <4>1. (prev => low \in Nat /\ low < m) /\ (next => high \in Nat /\ m + r < high)
        BY <3>1, <3>2
      <4> QED BY <3>3, <4>1
    <3> QED BY <3>4, <3>5, <3>6
  <2>3. ASSUME NEW q \in 1 .. n
        PROVE  \/ q \in 1 .. i
               \/ q \in j .. n
               \/ prev /\ q = k - 1
               \/ next /\ q = k
    <3>1. q < k - 1 \/ q = k - 1 \/ q = k \/ q > k
      BY <1>1, <1>2
    <3>2. CASE q < k - 1
      BY <1>1, <1>2, <1>16, <3>2
    <3>3. CASE q = k - 1
      BY <1>1, <1>2, <1>16, <3>3
    <3>4. CASE q = k
      BY <1>1, <1>2, <1>16, <3>4
    <3>5. CASE q > k
      BY <1>1, <1>2, <1>16, <3>5
    <3> QED BY <3>1, <3>2, <3>3, <3>4, <3>5
  <2>4. \A q \in 1 .. i : q \in 1 .. n
    BY <1>1, <1>13
  <2>5. \A q \in j .. n : q \in 1 .. n
    BY <1>1, <1>13
  <2>6. ASSUME x \in FreeBytes(new)
        PROVE  x \in FreeBytes(cs) \/ (m <= x /\ x < m + r)
    BY <1>4, <1>10, <2>1, <2>2, <2>4, <2>5, <2>6
  <2>7. ASSUME x \in FreeBytes(cs) PROVE x \in FreeBytes(new)
    <3>1. PICK q \in 1 .. n : Covers(cs[q], x)
      BY <1>4, <2>7
    <3> QED BY <2>1, <2>2, <2>3, <3>1
  <2> QED BY <2>1, <2>2, <2>6, <2>7
<1>20. FreeBytes(new) \subseteq Int /\ FreeBytes(cs) \subseteq Int
  <2>1. new \in Seq(ChunkRecords)
    BY <1>18 DEF ChunkList
  <2> QED BY <1>1, <2>1, InFree
<1>21. FreeBytes(new) = FreeBytes(cs) \cup Run(m, r)
  BY <1>3, <1>19, <1>20
<1> QED BY <1>7, <1>17, <1>18, <1>21

\* Because chunks are kept coalesced, a run of free addresses lies in a
\* single chunk: a search chunk by chunk misses none.
LEMMA RunInOneChunk ==
    ASSUME NEW cs, ChunkList(cs), NEW m \in Int, NEW r \in Nat \ {0},
           Run(m, r) \subseteq FreeBytes(cs)
    PROVE  \E i \in 1 .. Len(cs) : Holds(cs[i], m, r) /\ cs[i].size >= r
<1>1. /\ cs \in Seq(ChunkRecords) /\ Len(cs) \in Nat
      /\ \A q \in 1 .. Len(cs) :
            /\ cs[q].start \in Nat /\ cs[q].size \in Nat
            /\ End(cs[q]) \in Nat /\ End(cs[q]) = cs[q].start + cs[q].size
            /\ cs[q].start < End(cs[q])
      /\ \A p, q \in 1 .. Len(cs) : p < q => End(cs[p]) < cs[q].start
  BY ListLinks
<1>2. \A x : x \in Run(m, r) <=> x \in Int /\ m <= x /\ x < m + r
  BY DEF Run
<1>3. PICK i \in 1 .. Len(cs) : cs[i].start <= m /\ m < End(cs[i])
  <2>1. m \in FreeBytes(cs)
    BY <1>2
  <2> QED BY <1>1, <2>1, InFree
<1>4. m + r <= End(cs[i])
  <2> SUFFICES ASSUME End(cs[i]) < m + r PROVE FALSE
    BY <1>1
  <2>1. End(cs[i]) \in FreeBytes(cs)
    BY <1>1, <1>2, <1>3
  <2>2. PICK j \in 1 .. Len(cs) : cs[j].start <= End(cs[i]) /\ End(cs[i]) < End(cs[j])
    BY <1>1, <2>1, InFree
  <2>3. i # j
    BY <1>1, <2>2
  <2>4. CASE i < j
    BY <1>1, <2>2, <2>4
  <2>5. CASE j < i
    <3>1. End(cs[j]) < cs[i].start /\ cs[i].start < End(cs[i])
      BY <1>1, <2>5
    <3> QED BY <1>1, <2>2, <3>1
  <2> QED BY <1>1, <2>3, <2>4, <2>5
<1>5. cs[i].size >= r
  BY <1>1, <1>3, <1>4
<1>6. Holds(cs[i], m, r)
  BY <1>3, <1>4 DEF Holds
<1> QED BY <1>5, <1>6

\* The searches find something when there is something to find: the first and
\* the last chunk that is large enough, and the place where deallocate's walk
\* stops.
LEMMA FirstFitExists ==
    ASSUME NEW cs, ChunkList(cs), NEW r \in Nat, ~NoFit(cs, r)
    PROVE  FirstFit(cs, r) # {}
<1>1. Len(cs) \in Nat /\ DOMAIN cs = 1 .. Len(cs) /\ \A q \in 1 .. Len(cs) : cs[q].size \in Nat
  BY ListLinks
<1> DEFINE S == {i \in 1 .. Len(cs) : cs[i].size >= r}
<1>2. S # {} /\ S \in SUBSET Nat
  BY <1>1 DEF NoFit
<1>3. PICK i \in S : \A j \in S : i <= j
  BY <1>2, LeastNatural
<1>4. \A j \in 1 .. (i - 1) : cs[j].size < r
  <2> TAKE j \in 1 .. (i - 1)
  <2>1. j \in 1 .. Len(cs) /\ ~(i <= j)
    BY <1>1
  <2> QED BY <1>1, <1>3, <2>1
<1> QED BY <1>1, <1>4 DEF FirstFit

\* The last chunk that is large enough.
LEMMA LastFitExists ==
    ASSUME NEW cs, ChunkList(cs), NEW r \in Nat, ~NoFit(cs, r)
    PROVE  LastFit(cs, r) # {}
<1>1. Len(cs) \in Nat /\ DOMAIN cs = 1 .. Len(cs) /\ \A q \in 1 .. Len(cs) : cs[q].size \in Nat
  BY ListLinks
<1> DEFINE S == {i \in 1 .. Len(cs) : cs[i].size >= r}
<1>2. S # {} /\ S \in SUBSET Int /\ S \in SUBSET (1 .. Len(cs))
  BY <1>1 DEF NoFit
<1>3. IsFiniteSet(S)
  <2>1. IsFiniteSet(1 .. Len(cs))
    BY <1>1, FS_Interval
  <2> HIDE DEF S
  <2> QED BY <1>2, <2>1, FS_Subset
<1>4. PICK i \in S : \A j \in S : j <= i
  BY <1>2, <1>3, GreatestElement
<1>5. \A j \in DOMAIN cs : j > i => cs[j].size < r
  BY <1>1, <1>4
<1> QED BY <1>1, <1>5 DEF LastFit

\* The place where deallocate's walk stops.
LEMMA StopExists ==
    ASSUME NEW cs, ChunkList(cs), NEW m \in Nat
    PROVE  StopsAt(cs, m) # {}
<1>1. Len(cs) \in Nat /\ \A q \in 1 .. Len(cs) : cs[q].start \in Nat
  BY ListLinks
<1> DEFINE S == {k \in 1 .. (Len(cs) + 1) : k <= Len(cs) => cs[k].start > m}
<1>2. Len(cs) + 1 \in S /\ S \in SUBSET Nat
  BY <1>1
<1>3. PICK k \in S : \A j \in S : k <= j
  BY <1>2, LeastNatural
<1>4. \A j \in 1 .. (k - 1) : cs[j].start <= m
  <2> TAKE j \in 1 .. (k - 1)
  <2>1. j \in 1 .. Len(cs) /\ ~(k <= j)
    BY <1>1
  <2> QED BY <1>1, <1>3, <2>1
<1> QED BY <1>4 DEF StopsAt

\* A list that starts like another one and frees no address that the other
\* does not has no chunk before the other's next one.
LEMMA NextChunkStarts ==
    ASSUME NEW cs, ChunkList(cs), NEW ds, ChunkList(ds),
           FreeBytes(cs) \subseteq FreeBytes(ds),
           NEW k \in Nat, k + 1 <= Len(cs), k <= Len(ds),
           \A q \in 1 .. k : cs[q] = ds[q]
    PROVE  k + 1 <= Len(ds) /\ ds[k + 1].start <= cs[k + 1].start
<1>1. /\ cs \in Seq(ChunkRecords) /\ Len(cs) \in Nat
      /\ \A q \in 1 .. Len(cs) :
           /\ cs[q].start \in Nat /\ End(cs[q]) \in Nat /\ cs[q].start < End(cs[q])
      /\ \A p, q \in 1 .. Len(cs) : p < q => End(cs[p]) < cs[q].start
  BY ListLinks
<1>2. /\ ds \in Seq(ChunkRecords) /\ Len(ds) \in Nat
      /\ \A q \in 1 .. Len(ds) :
           /\ ds[q].start \in Nat /\ End(ds[q]) \in Nat /\ ds[q].start < End(ds[q])
      /\ \A p, q \in 1 .. Len(ds) : p < q => End(ds[p]) < ds[q].start
  BY ListLinks
<1> DEFINE x == cs[k + 1].start
<1>3. k + 1 \in 1 .. Len(cs) /\ x \in Nat /\ x < End(cs[k + 1])
  BY <1>1
<1>4. x \in FreeBytes(ds)
  BY <1>1, <1>3, InFree
<1>5. PICK j \in 1 .. Len(ds) : ds[j].start <= x /\ x < End(ds[j])
  BY <1>2, <1>4, InFree
<1>6. ~(j <= k)
  <2> SUFFICES ASSUME j <= k PROVE FALSE
    OBVIOUS
  <2>1. j \in 1 .. k /\ j \in 1 .. Len(cs) /\ j < k + 1
    BY <1>1, <1>2
  <2>2. End(cs[j]) < x
    BY <1>1, <1>3, <2>1
  <2>3. cs[j] = ds[j] /\ End(ds[j]) \in Nat
    BY <1>2, <2>1
  <2> QED BY <1>3, <1>5, <2>2, <2>3
<1>7. k + 1 <= j /\ k + 1 \in 1 .. Len(ds)
  BY <1>2, <1>6
<1>8. ds[k + 1].start <= ds[j].start
  <2>1. CASE k + 1 = j
    BY <1>2, <2>1
  <2>2. CASE k + 1 < j
    <3>1. End(ds[k + 1]) < ds[j].start
      BY <1>2, <1>7, <2>2
    <3> QED BY <1>2, <1>7, <3>1
  <2> QED BY <1>7, <2>1, <2>2
<1>9. ds[k + 1].start \in Nat /\ ds[j].start \in Nat
  BY <1>2, <1>7
<1> QED BY <1>3, <1>5, <1>7, <1>8, <1>9

\* The chunk that starts where another list's does reaches as far, if the
\* other's addresses are free.
LEMMA NextChunkEnds ==
    ASSUME NEW cs, ChunkList(cs), NEW ds, ChunkList(ds),
           FreeBytes(cs) \subseteq FreeBytes(ds),
           NEW i \in 1 .. Len(cs), NEW j \in 1 .. Len(ds), cs[i].start = ds[j].start
    PROVE  End(cs[i]) <= End(ds[j])
<1>1. /\ cs \in Seq(ChunkRecords) /\ ds \in Seq(ChunkRecords) /\ Len(ds) \in Nat
      /\ cs[i].start \in Nat /\ cs[i].size \in Nat \ {0} /\ End(cs[i]) = cs[i].start + cs[i].size
      /\ \A q \in 1 .. Len(ds) :
           /\ ds[q].start \in Nat /\ End(ds[q]) \in Nat /\ ds[q].start < End(ds[q])
      /\ \A p, q \in 1 .. Len(ds) : p < q => End(ds[p]) < ds[q].start
  BY ListLinks
<1>2. Run(cs[i].start, cs[i].size) \subseteq FreeBytes(cs)
  <2> SUFFICES ASSUME NEW x \in Run(cs[i].start, cs[i].size) PROVE x \in FreeBytes(cs)
    OBVIOUS
  <2>1. x \in Int /\ cs[i].start <= x /\ x < End(cs[i])
    BY <1>1 DEF Run
  <2> QED BY <1>1, <2>1, InFree
<1>3. PICK q \in 1 .. Len(ds) : Holds(ds[q], cs[i].start, cs[i].size)
  <2> DEFINE m == cs[i].start
             r == cs[i].size
  <2>1. m \in Int /\ r \in Nat \ {0} /\ Run(m, r) \subseteq FreeBytes(ds)
    BY <1>1, <1>2
  <2> HIDE DEF m, r
  <2>2. \E q \in 1 .. Len(ds) : Holds(ds[q], m, r) /\ ds[q].size >= r
    BY <2>1, RunInOneChunk
  <2> QED BY <2>2 DEF m, r
<1>4. ds[q].start <= ds[j].start /\ End(cs[i]) <= End(ds[q])
  BY <1>1, <1>3 DEF Holds
<1>5. ~(j < q)
  <2> SUFFICES ASSUME j < q PROVE FALSE
    OBVIOUS
  <2>1. End(ds[j]) < ds[q].start
    BY <1>1, <1>3
  <2> QED BY <1>1, <1>3, <1>4, <2>1
<1>6. ~(q < j)
  <2> SUFFICES ASSUME q < j PROVE FALSE
    OBVIOUS
  <2>1. End(ds[q]) < ds[j].start
    BY <1>1, <1>3
  <2>2. cs[i].start < End(cs[i])
    BY <1>1
  <2>3. End(cs[i]) \in Nat /\ End(ds[q]) \in Nat
    BY <1>1, <1>3
  <2> QED BY <1>1, <1>4, <2>1, <2>2, <2>3
<1>7. q = j
  BY <1>1, <1>3, <1>5, <1>6
<1> QED BY <1>4, <1>7

\* A well-formed list is as far as another one the same if both free the same
\* addresses.
LEMMA SamePrefix ==
    ASSUME NEW cs, ChunkList(cs), NEW ds, ChunkList(ds),
           FreeBytes(cs) = FreeBytes(ds)
    PROVE  Len(cs) <= Len(ds) /\ \A q \in 1 .. Len(cs) : cs[q] = ds[q]
<1>1. Len(cs) \in Nat /\ Len(ds) \in Nat
  BY ListLinks
<1> DEFINE S == {k \in Nat : k <= Len(ds) /\ \A q \in 1 .. k : cs[q] = ds[q]}
<1>2. 0 \in S
  BY <1>1
<1>3. ASSUME NEW k \in 0 .. (Len(cs) - 1), k \in S
      PROVE  k + 1 \in S
  <2>1. k \in Nat /\ k + 1 <= Len(cs) /\ k <= Len(ds) /\ \A q \in 1 .. k : cs[q] = ds[q]
    BY <1>1, <1>3
  <2>2. k + 1 <= Len(ds) /\ ds[k + 1].start <= cs[k + 1].start
    BY <2>1, NextChunkStarts
  <2>3. cs[k + 1].start <= ds[k + 1].start
    BY <2>1, <2>2, NextChunkStarts
  <2>4. k + 1 \in 1 .. Len(cs) /\ k + 1 \in 1 .. Len(ds)
    BY <1>1, <2>1, <2>2
  <2>5. /\ cs[k + 1] = Chunk(cs[k + 1].start, cs[k + 1].size)
        /\ ds[k + 1] = Chunk(ds[k + 1].start, ds[k + 1].size)
        /\ cs[k + 1].start \in Nat /\ ds[k + 1].start \in Nat
        /\ cs[k + 1].size \in Nat /\ ds[k + 1].size \in Nat
        /\ End(cs[k + 1]) = cs[k + 1].start + cs[k + 1].size
        /\ End(ds[k + 1]) = ds[k + 1].start + ds[k + 1].size
    BY <2>4, ListLinks
  <2>6. cs[k + 1].start = ds[k + 1].start
    BY <2>2, <2>3, <2>5
  <2>7. End(cs[k + 1]) <= End(ds[k + 1]) /\ End(ds[k + 1]) <= End(cs[k + 1])
    BY <2>4, <2>6, NextChunkEnds
  <2>8. cs[k + 1].size = ds[k + 1].size
    BY <2>5, <2>6, <2>7
  <2>9. cs[k + 1] = ds[k + 1]
    BY <2>5, <2>6, <2>8
  <2>10. \A q \in 1 .. (k + 1) : cs[q] = ds[q]
    <3> TAKE q \in 1 .. (k + 1)
    <3>1. q \in 1 .. k \/ q = k + 1
      BY <2>1
    <3> QED BY <2>1, <2>9, <3>1
  <2> QED BY <2>1, <2>2, <2>10
<1> HIDE DEF S
<1>4. Len(cs) \in S
  <2>1. \A k \in 0 .. Len(cs) : k \in S
    BY <1>1, <1>2, <1>3, BoundedInduction
  <2> QED BY <1>1, <2>1
<1> QED BY <1>4 DEF S

\* The free list is determined by the set of free addresses: what gives the
\* same addresses back restores the list, chunk by chunk.
LEMMA FreeSetDeterminesList ==
    ASSUME NEW cs, ChunkList(cs), NEW ds, ChunkList(ds),
           FreeBytes(cs) = FreeBytes(ds)
    PROVE  cs = ds
<1>1. /\ cs \in Seq(ChunkRecords) /\ ds \in Seq(ChunkRecords)
      /\ Len(cs) \in Nat /\ Len(ds) \in Nat
  BY ListLinks
<1>2. Len(cs) <= Len(ds) /\ \A q \in 1 .. Len(cs) : cs[q] = ds[q]
  BY SamePrefix
<1>3. Len(ds) <= Len(cs)
  BY SamePrefix
<1>4. Len(cs) = Len(ds)
  BY <1>1, <1>2, <1>3
<1> QED BY <1>1, <1>2, <1>4, SeqEqual
=============================================================================
