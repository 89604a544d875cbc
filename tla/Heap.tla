-------------------------------- MODULE Heap --------------------------------
(***************************************************************************)
(* One memory zone (class Heap, src/src/exec/memory.cpp and memory.hpp):   *)
(* its free list, its free counter, and the three allocators and the       *)
(* deallocator that AllocMem, AllocAbs, FreeMem, Allocate and Deallocate   *)
(* end in.  The addresses are those the zone manages, after the Heap       *)
(* header that create() places at its bottom.                              *)
(***************************************************************************)
EXTENDS Integers, Sequences, FiniteSets, Chunks

CONSTANTS
    Base,       \* base_: the first address of the zone
    ZoneSize,   \* size_: its length in bytes
    Requests,   \* the sizes clients ask for
    Misplaced,  \* the addresses that clients release without holding them
    FreeLimit   \* how far such releases may raise the counter: a bound

\* Any base_ and size_ may be passed to the constructor, multiples of 8 or
\* not; a zone at address 0 could not tell its first block from nullptr.
ASSUME ZoneAssumption ==
    /\ Base \in Nat \ {0}
    /\ ZoneSize \in Nat \ {0}

ASSUME RequestsAssumption == Requests \subseteq Nat

\* Any address, aligned or not, inside the zone or outside.
ASSUME MisplacedAssumption == Misplaced \subseteq Nat

VARIABLES
    chunks,     \* the free list: first, first->next, ...
    free,       \* the counter this->free
    owned,      \* what the clients hold (kept by the clients, not by Heap)
    call        \* the last call and its answer

heapVars == <<chunks, free, owned, call>>

\* What the zone promises: the abstract zone whose free addresses are the
\* ones on the free list.
Abstract == INSTANCE Arena WITH avail <- FreeBytes(chunks)

Zone    == Run(Base, ZoneSize)
Targets == Abstract!Targets

\* Mutant of Taken: the counter goes down by the size before rounding.
TakenUnrounded(op, n, at, a) ==
    /\ free' = free - n
    /\ owned' = owned \cup {[addr |-> a, size |-> n]}
    /\ Abstract!Answer(op, n, at, a)

\* An allocation of n bytes that took the block at a off the list.
Taken(op, n, at, a) ==
    /\ free' = free - RoundUp(n)
    /\ owned' = owned \cup {[addr |-> a, size |-> n]}
    /\ Abstract!Answer(op, n, at, a)

\* return nullptr.
Fails(op, n, at) ==
    /\ UNCHANGED <<chunks, free, owned>>
    /\ Abstract!Answer(op, n, at, NULL)

-----------------------------------------------------------------------------
Allocate(n) ==
    \/ /\ Refuses(free, n) \/ NoFit(chunks, RoundUp(n))
       /\ Fails("allocate", n, NULL)
    \/ /\ ~Refuses(free, n)
       /\ \E i \in FirstFit(chunks, RoundUp(n)) :
            /\ chunks' = CarveLow(chunks, i, RoundUp(n))
            /\ Taken("allocate", n, NULL, chunks[i].start)

AllocateReverse(n) ==
    \/ /\ Refuses(free, n) \/ NoFit(chunks, RoundUp(n))
       /\ Fails("allocate_reverse", n, NULL)
    \/ /\ ~Refuses(free, n)
       /\ \E i \in LastFit(chunks, RoundUp(n)) :
            /\ chunks' = CarveHigh(chunks, i, RoundUp(n))
            /\ Taken("allocate_reverse", n, NULL, End(chunks[i]) - RoundUp(n))

AllocateAt(m, n) ==
    \/ /\ m = NULL \/ Refuses(free, n) \/ NoneHolds(chunks, m, RoundUp(n))
       /\ Fails("allocate_at", n, m)
    \/ /\ m # NULL /\ ~Refuses(free, n)
       /\ \E i \in FirstHolding(chunks, m, RoundUp(n)) :
            /\ chunks' = CarveAt(chunks, i, m, RoundUp(n))
            /\ Taken("allocate_at", n, m, m)

\* The counter is raised before the list is looked at, and stays raised when
\* an overlap makes the call give up.
Deallocate(m, n) ==
    /\ \/ /\ m = NULL \/ n = 0
          /\ UNCHANGED <<chunks, free>>
       \/ /\ m # NULL /\ n # 0
          /\ free' = free + RoundUp(n)
          /\ \E k \in StopsAt(chunks, m) :
               chunks' = IF Clashes(chunks, k, m, RoundUp(n))
                         THEN chunks
                         ELSE GiveBack(chunks, k, m, RoundUp(n))
    /\ owned' = owned \ {[addr |-> m, size |-> n]}
    /\ Abstract!Answer("deallocate", n, m, NULL)

-----------------------------------------------------------------------------
\* The clients' side.  A block strictly inside a chunk is one allocate_at
\* splits wrongly (both pieces get the size c.size - r), so the clients that
\* keep the zone in order ask for blocks that share an end with their chunk.
AtAnEdge(m, n) ==
    \A i \in FirstHolding(chunks, m, RoundUp(n)) :
        m = chunks[i].start \/ m + RoundUp(n) = End(chunks[i])

Init ==
    /\ chunks = << Chunk(Base, ZoneSize) >>
    /\ free = ZoneSize
    /\ owned = {}
    /\ call = Abstract!NoCall

Obtain ==
    \E n \in Requests :
        \/ Allocate(n)
        \/ AllocateReverse(n)
        \/ \E m \in Targets : AtAnEdge(m, n) /\ AllocateAt(m, n)

Next ==
    \/ Obtain
    \/ \E b \in owned : Deallocate(b.addr, b.size)

Spec == Init /\ [][Next]_heapVars

\* Clients that ask for any 8-byte aligned address.
NextAnyTarget ==
    \/ Obtain
    \/ \E n \in Requests, m \in Targets : AllocateAt(m, n)
    \/ \E b \in owned : Deallocate(b.addr, b.size)

SpecAnyTarget == Init /\ [][NextAnyTarget]_heapVars

\* Clients that release blocks they do not hold: a second time, of another
\* size, overlapping memory that is free, beside the zone or across its end.
\* deallocate looks at its neighbours on the list and at nothing else.
NextMisuse ==
    \/ Obtain
    \/ \E m \in Misplaced, n \in Requests :
          /\ free + RoundUp(n) <= FreeLimit
          /\ Deallocate(m, n)

SpecMisuse == Init /\ [][NextMisuse]_heapVars

\* What these clients do depends on the list and the counter alone, as does
\* what is claimed of them: states that agree in both are one to TLC.
ListAndCounter == <<chunks, free>>

-----------------------------------------------------------------------------
\* The list consists of chunks of the zone; the rest is the clients'.
TypeOK ==
    /\ chunks \in Seq([start : Zone, size : 1 .. ZoneSize])
    /\ free \in Nat
    /\ owned \subseteq Abstract!Blocks
    /\ call \in Abstract!Calls

\* The free list stays sorted, disjoint and coalesced, and inside the zone,
\* through every interleaving of the three allocators (unlink, truncate,
\* split) and the merging deallocate.
FreeListSound ==
    /\ Separated(chunks)
    /\ \A i \in DOMAIN chunks : End(chunks[i]) <= Base + ZoneSize

\* No address is both free and handed out, none is handed out twice, and
\* none is lost: the free list and the clients' blocks partition the zone.
Partition ==
    /\ \A b \in owned : Abstract!Extent(b) \cap FreeBytes(chunks) = {}
    /\ \A b, c \in owned : b # c => Abstract!Extent(b) \cap Abstract!Extent(c) = {}
    /\ FreeBytes(chunks) \cup UNION {Abstract!Extent(b) : b \in owned} = Zone

\* The O(1) counter Heap::available() returns is the number of bytes that
\* the O(N) count_free() finds by walking the list.
FreeCounted == free = Cardinality(FreeBytes(chunks))

\* Fragmentation is undone: once the clients have released everything, in
\* any order, the zone is the single chunk it began as.
ReleasedIsWhole == owned = {} => chunks = << Chunk(Base, ZoneSize) >>

\* What survives misuse of deallocate: the list stays sorted, disjoint and
\* coalesced, and the counter can only be too high (the early returns leave it
\* raised), so the cheap check never refuses what the list could serve.  That
\* the list stays inside the zone does not survive it.
MisuseOnlyInflates ==
    /\ Separated(chunks)
    /\ free >= Cardinality(FreeBytes(chunks))

\* "size of the Chunk, including this header": a free chunk holds at least
\* the 8 bytes of the header that is written into it, at an aligned address.
HeadersFit ==
    \A i \in DOMAIN chunks : chunks[i].size >= 8 /\ chunks[i].start % 8 = 0

\* allocate_at's comment on splitting a chunk: the overlap of the two pieces
\* is temporary, so none is left when the call returns.
OverlapIsTemporary ==
    \A i, j \in DOMAIN chunks : i < j => End(chunks[i]) <= chunks[j].start

\* The zone implements its abstract promise: an allocator fails only when no
\* free run is long enough, allocate answers the lowest one and
\* allocate_reverse the highest.
Implements == Abstract!Spec
=============================================================================
