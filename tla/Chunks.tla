------------------------------- MODULE Chunks -------------------------------
(***************************************************************************)
(* The free list of an exec.library memory zone (class Heap::Chunk and the *)
(* list surgery of class Heap, src/src/exec/memory.cpp), as operators on   *)
(* values.  A free list is the sequence of its chunks in link order; a     *)
(* chunk is the address of its header and its size in bytes, header        *)
(* included.  Heap.tla gives one zone its state; MemPool.tla gives a list  *)
(* of zones theirs.                                                        *)
(***************************************************************************)
EXTENDS Integers, Sequences

\* nullptr: no zone starts at address 0.
NULL == 0

\* Mutant of RoundUp: units of 4 bytes.
RoundUpTo4(n) == ((n + 3) \div 4) * 4

\* "size = (size + 7) & ~7": every request is served in units of 8 bytes.
RoundUp(n) == ((n + 7) \div 8) * 8

\* The n addresses from a on.
Run(a, n) == a .. (a + n - 1)

Chunk(a, n) == [start |-> a, size |-> n]
End(c)      == c.start + c.size

\* The addresses a free list says are free.
FreeBytes(cs) == UNION {Run(cs[i].start, cs[i].size) : i \in DOMAIN cs}

\* In link order, every chunk ends before the next one starts, with a gap
\* between them: sorted, disjoint and coalesced.
Separated(cs) ==
    \A i, j \in DOMAIN cs : i < j => End(cs[i]) < cs[j].start

-----------------------------------------------------------------------------
(* Searching.                                                              *)

\* The cheap check that opens all three allocators.
Refuses(free, n) == n = 0 \/ n > free

\* The chunk at which allocate stops: the first that is large enough.
FirstFit(cs, r) ==
    {i \in DOMAIN cs : cs[i].size >= r /\ \A j \in 1 .. (i - 1) : cs[j].size < r}

\* Mutant of LastFit: the search stops at the first chunk that fits.
LastFitStopsEarly(cs, r) == FirstFit(cs, r)

\* The chunk allocate_reverse remembers: the last that is large enough.
LastFit(cs, r) ==
    {i \in DOMAIN cs : /\ cs[i].size >= r
                       /\ \A j \in DOMAIN cs : j > i => cs[j].size < r}

NoFit(cs, r) == \A i \in DOMAIN cs : cs[i].size < r

\* chunk c completely contains the r bytes at m.
Holds(c, m, r) == c.start <= m /\ m + r <= End(c)

FirstHolding(cs, m, r) ==
    {i \in DOMAIN cs : /\ Holds(cs[i], m, r)
                       /\ \A j \in 1 .. (i - 1) : ~Holds(cs[j], m, r)}

NoneHolds(cs, m, r) == \A i \in DOMAIN cs : ~Holds(cs[i], m, r)

\* Where deallocate's walk stops: the index of the first chunk above m, or
\* one past the end.
StopsAt(cs, m) ==
    {k \in 1 .. (Len(cs) + 1) :
        /\ \A j \in 1 .. (k - 1) : cs[j].start <= m
        /\ k <= Len(cs) => cs[k].start > m}

-----------------------------------------------------------------------------
(* Relinking.                                                              *)

\* Keep the first i links and those from j on, with mid linked in between.
Splice(cs, i, mid, j) == SubSeq(cs, 1, i) \o mid \o SubSeq(cs, j, Len(cs))

\* Mutant of CarveLow: an exact fit is not recognised.
CarveLowNeverUnlinks(cs, i, r) ==
    Splice(cs, i - 1, << Chunk(cs[i].start + r, cs[i].size - r) >>, i + 1)

\* allocate: unlink an exact fit, else start the chunk r bytes higher.
CarveLow(cs, i, r) ==
    LET c == cs[i]
    IN  Splice(cs, i - 1,
               IF c.size = r THEN << >> ELSE << Chunk(c.start + r, c.size - r) >>,
               i + 1)

\* Mutant of CarveHigh: the chunk is cut at its lower end.
CarveHighCutsBelow(cs, i, r) == CarveLow(cs, i, r)

\* allocate_reverse: unlink an exact fit, else end the chunk r bytes lower.
CarveHigh(cs, i, r) ==
    LET c == cs[i]
    IN  Splice(cs, i - 1,
               IF c.size = r THEN << >> ELSE << Chunk(c.start, c.size - r) >>,
               i + 1)

\* allocate_at: a chunk for what lies above the block, then truncate or
\* unlink the old one.  Both pieces are given the size c.size - r.
CarveAt(cs, i, m, r) ==
    LET c     == cs[i]
        below == IF c.start < m   THEN << Chunk(c.start, c.size - r) >> ELSE << >>
        above == IF m + r < End(c) THEN << Chunk(m + r, c.size - r) >> ELSE << >>
    IN  Splice(cs, i - 1, below \o above, i + 1)

\* Mutants of JoinsNext and JoinsPrev: the block is not merged on that side.
JoinsNextNever(cs, k, m, r) == FALSE
JoinsPrevNever(cs, k, m)    == FALSE

JoinsNext(cs, k, m, r) == k <= Len(cs) /\ cs[k].start = m + r
JoinsPrev(cs, k, m)    == k > 1 /\ End(cs[k - 1]) = m

\* Mutant of Clashes: only the chunk above is looked at.
ClashesAbove(cs, k, m, r) == k <= Len(cs) /\ cs[k].start < m + r

\* The overlaps at which deallocate gives up.
Clashes(cs, k, m, r) ==
    \/ k <= Len(cs) /\ cs[k].start < m + r
    \/ k > 1 /\ End(cs[k - 1]) > m

\* deallocate: link the block in front of index k, merged with the neighbours
\* it touches.
GiveBack(cs, k, m, r) ==
    LET next == JoinsNext(cs, k, m, r)
        prev == JoinsPrev(cs, k, m)
        low  == IF prev THEN cs[k - 1].start ELSE m
        high == IF next THEN End(cs[k]) ELSE m + r
    IN  Splice(cs, IF prev THEN k - 2 ELSE k - 1,
               << Chunk(low, high - low) >>,
               IF next THEN k + 1 ELSE k)
=============================================================================
