----------------------------- MODULE HeapProofs -----------------------------
(***************************************************************************)
(* Theorems about one memory zone, for every base, size and set of request *)
(* sizes: the free list stays sorted, disjoint and coalesced, no address   *)
(* is lost or handed out twice, the free counter is exact, and the zone    *)
(* implements the abstract one of Arena.tla.                               *)
(***************************************************************************)
EXTENDS Heap, Lemmas

\* The addresses a client's block takes.
Extent(b) == Run(b.addr, RoundUp(b.size))

\* The inductive invariant.  Each conjunct needs the others: the list stays
\* sorted through deallocate only because no block handed out overlaps it,
\* and the counter is exact only because what leaves the list was on it.
HeapInv ==
    /\ ChunkList(chunks)
    /\ FreeBytes(chunks) \subseteq Zone
    /\ owned \subseteq [addr : Zone, size : Requests]
    /\ \A b \in owned : b.size > 0 /\ Extent(b) \subseteq Zone
    /\ \A b \in owned : Extent(b) \cap FreeBytes(chunks) = {}
    /\ \A b, c \in owned : b # c => Extent(b) \cap Extent(c) = {}
    /\ Zone \subseteq FreeBytes(chunks) \cup UNION {Extent(b) : b \in owned}
    /\ free = Cardinality(FreeBytes(chunks))

\* Addresses are positive, and a run has as many addresses as its length.
LEMMA ZoneFacts ==
    /\ Zone \subseteq Nat \ {0}
    /\ IsFiniteSet(Zone)
    /\ \A a \in Nat, r \in Nat : IsFiniteSet(Run(a, r)) /\ Cardinality(Run(a, r)) = r
<1>1. Zone \subseteq Nat \ {0}
  BY ZoneAssumption DEF Zone, Run
<1>2. Base \in Int /\ Base + ZoneSize - 1 \in Int
  BY ZoneAssumption
<1>3. IsFiniteSet(Zone)
  BY <1>2, FS_Interval DEF Zone, Run
<1>4. ASSUME NEW a \in Nat, NEW r \in Nat
      PROVE  IsFiniteSet(Run(a, r)) /\ Cardinality(Run(a, r)) = r
  <2>1. a \in Int /\ a + r - 1 \in Int
    OBVIOUS
  <2>2. IsFiniteSet(Run(a, r))
        /\ Cardinality(Run(a, r)) = IF a > a + r - 1 THEN 0 ELSE (a + r - 1) - a + 1
    BY <2>1, FS_Interval DEF Run
  <2> QED BY <2>2
<1> QED BY <1>1, <1>3, <1>4

\* The helpers of the abstract zone are those of the list.
LEMMA SameHelpers ==
    /\ Abstract!Zone = Zone
    /\ Abstract!NULL = 0 /\ NULL = 0
    /\ \A b : Abstract!Extent(b) = Extent(b)
    /\ \A a, n : Abstract!Run(a, Abstract!RoundUp(n)) = Run(a, RoundUp(n))
    /\ Targets \subseteq Zone
    /\ Abstract!Blocks = [addr : Zone, size : Requests]
<1>1. Abstract!Zone = Zone
  BY DEF Abstract!Zone, Zone, Abstract!Run, Run
<1>2. \A a, n : Abstract!Run(a, Abstract!RoundUp(n)) = Run(a, RoundUp(n))
  BY DEF Abstract!Run, Abstract!RoundUp, Run, RoundUp
<1>3. \A b : Abstract!Extent(b) = Extent(b)
  BY <1>2 DEF Abstract!Extent, Extent
<1> QED BY <1>1, <1>2, <1>3 DEF Abstract!NULL, NULL, Targets, Abstract!Targets, Abstract!Blocks

\* Handing out a run of free addresses, whichever allocator found it.
LEMMA TakePreserves ==
    ASSUME HeapInv, NEW n \in Requests, n > 0, NEW a \in Zone,
           Run(a, RoundUp(n)) \subseteq FreeBytes(chunks),
           ChunkList(chunks'),
           FreeBytes(chunks') = FreeBytes(chunks) \ Run(a, RoundUp(n)),
           free' = free - RoundUp(n),
           owned' = owned \cup {[addr |-> a, size |-> n]}
    PROVE  HeapInv'
<1> DEFINE r == RoundUp(n)
           b == [addr |-> a, size |-> n]
           F == FreeBytes(chunks)
           G == FreeBytes(chunks')
<1>1. n \in Nat /\ r \in Nat /\ a \in Nat
  BY RequestsAssumption, ZoneFacts, RoundUpBounds
<1>2. Extent(b) = Run(a, r)
  BY DEF Extent
<1>3. F \subseteq Zone /\ IsFiniteSet(F)
  BY ZoneFacts, FS_Subset DEF HeapInv
<1>4. G \subseteq Zone /\ Run(a, r) \subseteq Zone
  BY <1>3
<1>5. free' = Cardinality(G)
  <2>1. F \cap Run(a, r) = Run(a, r)
    OBVIOUS
  <2>2. Cardinality(F \ Run(a, r)) = Cardinality(F) - Cardinality(F \cap Run(a, r))
    BY <1>3, FS_Difference
  <2>3. Cardinality(Run(a, r)) = r
    BY <1>1, ZoneFacts
  <2> QED BY <2>1, <2>2, <2>3 DEF HeapInv
<1>6. b \in [addr : Zone, size : Requests] /\ b.size > 0
  OBVIOUS
<1> HIDE DEF b, r
<1>7. \A c \in owned : Extent(c) \cap Extent(b) = {}
  BY <1>2 DEF HeapInv, r
<1>8. owned' = owned \cup {b}
  BY DEF b
<1>9. G = F \ Extent(b) /\ Extent(b) \subseteq Zone
  BY <1>2, <1>4 DEF r
<1>10. owned' \subseteq [addr : Zone, size : Requests]
  BY <1>6, <1>8 DEF HeapInv
<1>11. \A c \in owned' : c.size > 0 /\ Extent(c) \subseteq Zone
  BY <1>6, <1>8, <1>9 DEF HeapInv
<1>12. \A c \in owned' : Extent(c) \cap G = {}
  BY <1>8, <1>9 DEF HeapInv
<1>13. \A c, d \in owned' : c # d => Extent(c) \cap Extent(d) = {}
  BY <1>7, <1>8 DEF HeapInv
<1>14. Zone \subseteq G \cup UNION {Extent(c) : c \in owned'}
  BY <1>8, <1>9 DEF HeapInv
<1> HIDE DEF F, G
<1> QED BY <1>4, <1>5, <1>10, <1>11, <1>12, <1>13, <1>14 DEF HeapInv, G

\* Taking back a block a client holds.
LEMMA ReturnPreserves ==
    ASSUME HeapInv, NEW b \in owned,
           ChunkList(chunks'),
           FreeBytes(chunks') = FreeBytes(chunks) \cup Extent(b),
           free' = free + RoundUp(b.size),
           owned' = owned \ {b}
    PROVE  HeapInv'
<1> DEFINE F == FreeBytes(chunks)
           G == FreeBytes(chunks')
<1>1. b.addr \in Nat /\ b.size \in Nat /\ RoundUp(b.size) \in Nat
  BY RequestsAssumption, ZoneFacts, RoundUpBounds DEF HeapInv
<1>2. F \subseteq Zone /\ IsFiniteSet(F) /\ Cardinality(F) \in Nat
  BY ZoneFacts, FS_Subset, FS_CardinalityType DEF HeapInv
<1>3. F \cap Extent(b) = {} /\ Extent(b) \subseteq Zone
  BY DEF HeapInv
<1>4. free' = Cardinality(G)
  <2>1. IsFiniteSet(Extent(b)) /\ Cardinality(Extent(b)) = RoundUp(b.size)
    BY <1>1, ZoneFacts DEF Extent
  <2>2. Cardinality(F \cup Extent(b))
          = Cardinality(F) + Cardinality(Extent(b)) - Cardinality(F \cap Extent(b))
    BY <1>2, <2>1, FS_Union
  <2>3. Cardinality(F \cap Extent(b)) = 0
    BY <1>3, FS_EmptySet
  <2> QED BY <1>1, <1>2, <2>1, <2>2, <2>3 DEF HeapInv
<1>5. G = F \cup Extent(b)
  OBVIOUS
<1>6. owned' \subseteq owned
  OBVIOUS
<1>7. G \subseteq Zone
  BY <1>2, <1>3, <1>5
<1>8. \A c \in owned' : Extent(c) \cap G = {}
  BY <1>5 DEF HeapInv
<1>9. Zone \subseteq G \cup UNION {Extent(c) : c \in owned'}
  BY <1>5 DEF HeapInv
<1> HIDE DEF F, G
<1> QED BY <1>4, <1>6, <1>7, <1>8, <1>9 DEF HeapInv, G

\* The abstract zone's question "does a free run start here" is the list's.
LEMMA ServesIffHeld ==
    ASSUME HeapInv, NEW n \in Requests, NEW a \in Int
    PROVE  /\ Abstract!Serves(a, n) <=> n > 0 /\ Run(a, RoundUp(n)) \subseteq FreeBytes(chunks)
           /\ Abstract!Serves(a, n) =>
                /\ ~Refuses(free, n)
                /\ \E i \in DOMAIN chunks :
                      Holds(chunks[i], a, RoundUp(n)) /\ chunks[i].size >= RoundUp(n)
<1>1. Abstract!Serves(a, n) <=> n > 0 /\ Run(a, RoundUp(n)) \subseteq FreeBytes(chunks)
  BY SameHelpers DEF Abstract!Serves, Abstract!FreeBytes, FreeBytes, Abstract!Run, Run
<1> SUFFICES ASSUME n > 0, Run(a, RoundUp(n)) \subseteq FreeBytes(chunks)
             PROVE  /\ ~Refuses(free, n)
                    /\ \E i \in DOMAIN chunks :
                          Holds(chunks[i], a, RoundUp(n)) /\ chunks[i].size >= RoundUp(n)
  BY <1>1
<1>2. n \in Nat \ {0} /\ RoundUp(n) \in Nat \ {0} /\ RoundUp(n) >= n
  BY RequestsAssumption, RoundUpBounds
<1>3. ChunkList(chunks) /\ DOMAIN chunks = 1 .. Len(chunks)
  BY ListLinks DEF HeapInv
<1>4. \E i \in DOMAIN chunks : Holds(chunks[i], a, RoundUp(n)) /\ chunks[i].size >= RoundUp(n)
  BY <1>2, <1>3, RunInOneChunk
<1>5. a \in Nat
  <2>1. a \in Run(a, RoundUp(n))
    BY <1>2 DEF Run
  <2> QED BY <2>1, ZoneFacts DEF HeapInv
<1>6. n <= free
  <2>1. IsFiniteSet(FreeBytes(chunks)) /\ free \in Nat
    BY ZoneFacts, FS_Subset, FS_CardinalityType DEF HeapInv
  <2>2. Cardinality(Run(a, RoundUp(n))) <= free
    BY <2>1, FS_Subset DEF HeapInv
  <2>3. Cardinality(Run(a, RoundUp(n))) = RoundUp(n)
    BY <1>2, <1>5, ZoneFacts
  <2> QED BY <1>2, <2>1, <2>2, <2>3
<1>7. free \in Nat
  BY ZoneFacts, FS_Subset, FS_CardinalityType DEF HeapInv
<1> QED BY <1>2, <1>4, <1>6, <1>7 DEF Refuses

\* A block that leaves the list is one the abstract zone may hand over.
LEMMA HandOverStep ==
    ASSUME HeapInv, NEW n \in Requests, n > 0, NEW a \in Zone, NEW op, NEW at,
           Run(a, RoundUp(n)) \subseteq FreeBytes(chunks),
           FreeBytes(chunks') = FreeBytes(chunks) \ Run(a, RoundUp(n)),
           Taken(op, n, at, a)
    PROVE  Abstract!HandOver(op, n, at, a)
<1>0. a \in Int
  BY ZoneFacts
<1>1. Abstract!Serves(a, n)
  BY <1>0, ServesIffHeld
<1>2. Abstract!Run(a, Abstract!RoundUp(n)) = Run(a, RoundUp(n))
  BY SameHelpers
<1> QED BY <1>1, <1>2 DEF Abstract!HandOver, Taken

\* A failing call is one the abstract zone may decline.
LEMMA DeclineStep ==
    ASSUME NEW op, NEW n, NEW at, Fails(op, n, at)
    PROVE  Abstract!Decline(op, n, at) /\ (HeapInv => HeapInv')
<1>1. Abstract!NULL = NULL
  BY SameHelpers
<1>2. Abstract!Decline(op, n, at)
  BY <1>1 DEF Fails, Abstract!Decline
<1>3. HeapInv => HeapInv'
  BY DEF Fails, HeapInv
<1> QED BY <1>2, <1>3

\* The first address of a chunk, and the start of its last r bytes, are
\* addresses of the zone.
LEMMA ChunkInZone ==
    ASSUME HeapInv, NEW i \in DOMAIN chunks, NEW r \in Nat \ {0}, chunks[i].size >= r
    PROVE  /\ i \in 1 .. Len(chunks) /\ ChunkList(chunks)
           /\ chunks[i].start \in Zone
           /\ End(chunks[i]) - r \in Zone
           /\ \A x \in Int : Covers(chunks[i], x) => x \in Zone
<1>1. /\ ChunkList(chunks) /\ chunks \in Seq(ChunkRecords)
      /\ DOMAIN chunks = 1 .. Len(chunks)
      /\ chunks[i].start \in Nat /\ chunks[i].size \in Nat
      /\ End(chunks[i]) = chunks[i].start + chunks[i].size
  BY ListLinks DEF HeapInv
<1>2. \A x \in Int : Covers(chunks[i], x) => x \in Zone
  BY <1>1, InFree DEF HeapInv, Covers
<1>3. Covers(chunks[i], chunks[i].start) /\ Covers(chunks[i], End(chunks[i]) - r)
  BY <1>1 DEF Covers
<1>4. chunks[i].start \in Int /\ End(chunks[i]) - r \in Int
  BY <1>1
<1> QED BY <1>1, <1>2, <1>3, <1>4

\* allocate preserves the invariant and answers the lowest run that fits, or
\* declines because there is none.
LEMMA AllocateStep ==
    ASSUME HeapInv, NEW n \in Requests, Allocate(n)
    PROVE  HeapInv' /\ Abstract!AllocateLowest(n)
<1> DEFINE r == RoundUp(n)
<1>0. n \in Nat /\ r \in Nat /\ (n > 0 => r \in Nat \ {0})
  BY RequestsAssumption, RoundUpBounds
<1>1. CASE /\ Refuses(free, n) \/ NoFit(chunks, r)
           /\ Fails("allocate", n, NULL)
  <2>1. ASSUME NEW a \in Abstract!Zone PROVE ~Abstract!Serves(a, n)
    <3>1. a \in Int
      BY SameHelpers, ZoneFacts
    <3>2. ASSUME NoFit(chunks, r), NEW i \in DOMAIN chunks, chunks[i].size >= r PROVE FALSE
      <4>1. chunks[i].size \in Nat
        BY ListLinks DEF HeapInv
      <4> QED BY <1>0, <3>2, <4>1 DEF NoFit
    <3> QED BY <1>1, <3>1, <3>2, ServesIffHeld
  <2> QED BY <1>1, <2>1, DeclineStep, SameHelpers DEF Abstract!AllocateLowest
<1>2. ASSUME ~Refuses(free, n), NEW i \in FirstFit(chunks, r),
             chunks' = CarveLow(chunks, i, r),
             Taken("allocate", n, NULL, chunks[i].start)
      PROVE  HeapInv' /\ Abstract!AllocateLowest(n)
  <2> DEFINE a == chunks[i].start
  <2>1. n > 0 /\ r \in Nat \ {0}
    BY <1>0, <1>2 DEF Refuses
  <2>2. i \in DOMAIN chunks /\ chunks[i].size >= r
    BY <1>2 DEF FirstFit
  <2>3. a \in Zone /\ ChunkList(chunks) /\ i \in 1 .. Len(chunks)
    BY <2>1, <2>2, ChunkInZone
  <2>4. /\ ChunkList(chunks')
        /\ FreeBytes(chunks') = FreeBytes(chunks) \ Run(a, r)
        /\ Run(a, r) \subseteq FreeBytes(chunks)
    BY <1>2, <2>1, <2>2, <2>3, CarveLowSound
  <2>5. HeapInv'
    BY <1>2, <2>1, <2>3, <2>4, TakePreserves DEF Taken
  <2>6. Abstract!HandOver("allocate", n, NULL, a)
    BY <1>2, <2>1, <2>3, <2>4, HandOverStep
  <2>7. ASSUME NEW b \in Zone, Abstract!Serves(b, n) PROVE a <= b
    <3>1. b \in Nat
      BY ZoneFacts
    <3>2. PICK j \in DOMAIN chunks : Holds(chunks[j], b, r) /\ chunks[j].size >= r
      BY <2>7, <3>1, ServesIffHeld
    <3>3. j \in 1 .. Len(chunks) /\ Len(chunks) \in Nat /\ chunks[j].size \in Nat
          /\ chunks[i].start \in Nat /\ chunks[j].start \in Nat /\ End(chunks[i]) \in Nat
          /\ chunks[i].start < End(chunks[i])
          /\ (i < j => End(chunks[i]) < chunks[j].start)
      BY <2>3, <3>2, ListLinks
    <3>4. ~(j < i)
      <4> SUFFICES ASSUME j < i PROVE FALSE
        OBVIOUS
      <4>1. j \in 1 .. (i - 1)
        BY <2>3, <3>3
      <4>2. chunks[j].size < r
        BY <1>2, <4>1 DEF FirstFit
      <4> QED BY <1>0, <3>2, <3>3, <4>2
    <3>5. chunks[j].start <= b
      BY <3>2 DEF Holds
    <3> QED BY <2>3, <3>1, <3>3, <3>4, <3>5
  <2>8. a \in Abstract!Zone /\ Abstract!Zone = Zone /\ Abstract!NULL = NULL
    BY <2>3, SameHelpers
  <2> HIDE DEF a
  <2>9. Abstract!AllocateLowest(n)
    BY <2>6, <2>7, <2>8 DEF Abstract!AllocateLowest
  <2> QED BY <2>5, <2>9
<1> QED BY <1>1, <1>2 DEF Allocate

\* allocate_reverse preserves the invariant and answers the highest run that
\* fits, or declines because there is none.
LEMMA AllocateReverseStep ==
    ASSUME HeapInv, NEW n \in Requests, AllocateReverse(n)
    PROVE  HeapInv' /\ Abstract!AllocateHighest(n)
<1> DEFINE r == RoundUp(n)
<1>0. n \in Nat /\ r \in Nat /\ (n > 0 => r \in Nat \ {0})
  BY RequestsAssumption, RoundUpBounds
<1>1. CASE /\ Refuses(free, n) \/ NoFit(chunks, r)
           /\ Fails("allocate_reverse", n, NULL)
  <2>1. ASSUME NEW a \in Abstract!Zone PROVE ~Abstract!Serves(a, n)
    <3>1. a \in Int
      BY SameHelpers, ZoneFacts
    <3>2. ASSUME NoFit(chunks, r), NEW i \in DOMAIN chunks, chunks[i].size >= r PROVE FALSE
      <4>1. chunks[i].size \in Nat
        BY ListLinks DEF HeapInv
      <4> QED BY <1>0, <3>2, <4>1 DEF NoFit
    <3> QED BY <1>1, <3>1, <3>2, ServesIffHeld
  <2> QED BY <1>1, <2>1, DeclineStep, SameHelpers DEF Abstract!AllocateHighest
<1>2. ASSUME ~Refuses(free, n), NEW i \in LastFit(chunks, r),
             chunks' = CarveHigh(chunks, i, r),
             Taken("allocate_reverse", n, NULL, End(chunks[i]) - r)
      PROVE  HeapInv' /\ Abstract!AllocateHighest(n)
  <2> DEFINE a == End(chunks[i]) - r
  <2>1. n > 0 /\ r \in Nat \ {0}
    BY <1>0, <1>2 DEF Refuses
  <2>2. i \in DOMAIN chunks /\ chunks[i].size >= r
    BY <1>2 DEF LastFit
  <2>3. a \in Zone /\ ChunkList(chunks) /\ i \in 1 .. Len(chunks)
    BY <2>1, <2>2, ChunkInZone
  <2>4. /\ ChunkList(chunks')
        /\ FreeBytes(chunks') = FreeBytes(chunks) \ Run(a, r)
        /\ Run(a, r) \subseteq FreeBytes(chunks)
    BY <1>2, <2>1, <2>2, <2>3, CarveHighSound
  <2>5. HeapInv'
    BY <1>2, <2>1, <2>3, <2>4, TakePreserves DEF Taken
  <2>6. Abstract!HandOver("allocate_reverse", n, NULL, a)
    BY <1>2, <2>1, <2>3, <2>4, HandOverStep
  <2>7. ASSUME NEW b \in Zone, Abstract!Serves(b, n) PROVE b <= a
    <3>1. b \in Nat
      BY ZoneFacts
    <3>2. PICK j \in DOMAIN chunks : Holds(chunks[j], b, r) /\ chunks[j].size >= r
      BY <2>7, <3>1, ServesIffHeld
    <3>3. j \in 1 .. Len(chunks) /\ Len(chunks) \in Nat /\ chunks[j].size \in Nat
          /\ chunks[i].start \in Nat /\ End(chunks[j]) \in Nat /\ End(chunks[i]) \in Nat
          /\ chunks[i].start < End(chunks[i])
          /\ (j < i => End(chunks[j]) < chunks[i].start)
      BY <2>3, <3>2, ListLinks
    <3>4. ~(i < j)
      <4> SUFFICES ASSUME i < j PROVE FALSE
        OBVIOUS
      <4>1. chunks[j].size < r
        BY <1>2, <3>2 DEF LastFit
      <4> QED BY <1>0, <3>2, <3>3, <4>1
    <3>5. b + r <= End(chunks[j])
      BY <3>2 DEF Holds
    <3>6. End(chunks[j]) <= End(chunks[i])
      BY <2>3, <3>3, <3>4
    <3> QED BY <2>1, <3>1, <3>3, <3>5, <3>6
  <2>8. a \in Abstract!Zone /\ Abstract!Zone = Zone /\ Abstract!NULL = NULL
    BY <2>3, SameHelpers
  <2> HIDE DEF a
  <2>9. Abstract!AllocateHighest(n)
    BY <2>6, <2>7, <2>8 DEF Abstract!AllocateHighest
  <2> QED BY <2>5, <2>9
<1> QED BY <1>1, <1>2 DEF AllocateReverse

\* allocate_at preserves the invariant and answers the address asked for if
\* the block is free and lies at an end of its chunk, or declines.
LEMMA AllocateAtStep ==
    ASSUME HeapInv, NEW n \in Requests, NEW m \in Targets,
           AtAnEdge(m, n), AllocateAt(m, n)
    PROVE  HeapInv' /\ Abstract!AllocateThere(m, n)
<1> DEFINE r == RoundUp(n)
<1>0. /\ n \in Nat /\ r \in Nat /\ (n > 0 => r \in Nat \ {0})
      /\ m \in Zone /\ m \in Nat /\ m # NULL
  BY RequestsAssumption, RoundUpBounds, SameHelpers, ZoneFacts
<1>1. CASE /\ m = NULL \/ Refuses(free, n) \/ NoneHolds(chunks, m, r)
           /\ Fails("allocate_at", n, m)
  <2>1. ~Abstract!Serves(m, n)
    BY <1>0, <1>1, ServesIffHeld DEF NoneHolds
  <2> QED BY <1>1, <2>1, DeclineStep DEF Abstract!AllocateThere
<1>2. ASSUME ~Refuses(free, n), NEW i \in FirstHolding(chunks, m, r),
             chunks' = CarveAt(chunks, i, m, r),
             Taken("allocate_at", n, m, m)
      PROVE  HeapInv' /\ Abstract!AllocateThere(m, n)
  <2>1. n > 0 /\ r \in Nat \ {0}
    BY <1>0, <1>2 DEF Refuses
  <2>2. i \in DOMAIN chunks /\ Holds(chunks[i], m, r)
    BY <1>2 DEF FirstHolding
  <2>3. ChunkList(chunks) /\ i \in 1 .. Len(chunks)
    BY <2>2, ListLinks DEF HeapInv
  <2>4. m = chunks[i].start \/ m + r = End(chunks[i])
    BY <1>2 DEF AtAnEdge
  <2>5. /\ ChunkList(chunks')
        /\ FreeBytes(chunks') = FreeBytes(chunks) \ Run(m, r)
        /\ Run(m, r) \subseteq FreeBytes(chunks)
    BY <1>0, <1>2, <2>1, <2>2, <2>3, <2>4, CarveAtSound
  <2>6. HeapInv'
    BY <1>0, <1>2, <2>1, <2>5, TakePreserves DEF Taken
  <2>7. Abstract!HandOver("allocate_at", n, m, m)
    BY <1>0, <1>2, <2>1, <2>5, HandOverStep
  <2> QED BY <2>6, <2>7 DEF Abstract!AllocateThere
<1> QED BY <1>1, <1>2 DEF AllocateAt

\* deallocate of a block a client holds preserves the invariant and makes the
\* block's addresses free again.
LEMMA DeallocateStep ==
    ASSUME HeapInv, NEW b \in owned, Deallocate(b.addr, b.size)
    PROVE  HeapInv' /\ Abstract!Release(b)
<1> DEFINE m == b.addr
           r == RoundUp(b.size)
<1>1. /\ b \in [addr : Zone, size : Requests] /\ b.size > 0
      /\ b = [addr |-> m, size |-> b.size]
      /\ Extent(b) = Run(m, r) /\ Extent(b) \cap FreeBytes(chunks) = {}
  BY DEF HeapInv, Extent
<1>2. m \in Nat /\ m # NULL /\ b.size \in Nat /\ b.size # 0 /\ r \in Nat \ {0}
  <2>1. m \in Nat \ {0} /\ NULL = 0
    BY <1>1, ZoneFacts, SameHelpers
  <2>2. b.size \in Nat \ {0}
    <3>1. b.size \in Requests
      BY <1>1
    <3>2. b.size \in Nat
      BY <3>1, RequestsAssumption
    <3>3. b.size > 0
      BY <1>1
    <3> QED BY <3>2, <3>3
  <2>3. r \in Nat /\ r >= b.size
    BY <2>2, RoundUpBounds
  <2> QED BY <2>1, <2>2, <2>3
<1>3. /\ free' = free + r
      /\ owned' = owned \ {b}
      /\ Abstract!Answer("deallocate", b.size, m, NULL)
  BY <1>1, <1>2 DEF Deallocate
<1>4. PICK k \in StopsAt(chunks, m) :
        chunks' = IF Clashes(chunks, k, m, r) THEN chunks ELSE GiveBack(chunks, k, m, r)
  BY <1>2 DEF Deallocate
<1>5. ChunkList(chunks)
  BY DEF HeapInv
<1>6. /\ ~Clashes(chunks, k, m, r)
      /\ ChunkList(GiveBack(chunks, k, m, r))
      /\ FreeBytes(GiveBack(chunks, k, m, r)) = FreeBytes(chunks) \cup Run(m, r)
  BY <1>1, <1>2, <1>5, GiveBackSound
<1>7. /\ ChunkList(chunks')
      /\ FreeBytes(chunks') = FreeBytes(chunks) \cup Extent(b)
  BY <1>1, <1>4, <1>6
<1>8. HeapInv'
  BY <1>3, <1>7, ReturnPreserves
<1>9. Abstract!Release(b)
  <2>1. Abstract!NULL = NULL /\ Abstract!Extent(b) = Extent(b)
    BY SameHelpers
  <2> QED BY <1>3, <1>7, <2>1 DEF Abstract!Release
<1> QED BY <1>8, <1>9

\* A new zone is one chunk, all of it free.
LEMMA InitHeap == Init => HeapInv /\ Abstract!Init
<1> SUFFICES ASSUME Init PROVE HeapInv /\ Abstract!Init
  OBVIOUS
<1> DEFINE c == Chunk(Base, ZoneSize)
<1>1. /\ chunks = << c >> /\ chunks \in Seq(ChunkRecords) /\ Len(chunks) = 1
      /\ chunks[1] = c /\ DOMAIN chunks = {1}
      /\ chunks[1].start = Base /\ chunks[1].size = ZoneSize
  BY ZoneAssumption DEF Init, Chunk, ChunkRecords
<1>2. ChunkList(chunks)
  BY <1>1 DEF ChunkList, Separated
<1>3. FreeBytes(chunks) = Zone
  BY <1>1 DEF FreeBytes, Zone
<1>4. free = Cardinality(FreeBytes(chunks))
  BY <1>3, ZoneFacts, ZoneAssumption DEF Init, Zone
<1>5. HeapInv
  BY <1>2, <1>3, <1>4 DEF HeapInv, Init
<1>6. Abstract!Init
  BY <1>3, SameHelpers DEF Abstract!Init, Init, Abstract!FreeBytes, FreeBytes, Abstract!Run, Run
<1> QED BY <1>5, <1>6

\* Every step keeps the inductive invariant and is a step of the abstract
\* zone, or leaves it as it is.
LEMMA NextHeap ==
    ASSUME HeapInv, [Next]_heapVars
    PROVE  HeapInv' /\ [Abstract!Next]_(Abstract!arenaVars)
<1>0. Targets = Abstract!Targets
  BY DEF Targets
<1>1. ASSUME NEW n \in Requests, Allocate(n)
      PROVE  HeapInv' /\ Abstract!Next
  BY <1>1, AllocateStep DEF Abstract!Next
<1>2. ASSUME NEW n \in Requests, AllocateReverse(n)
      PROVE  HeapInv' /\ Abstract!Next
  BY <1>2, AllocateReverseStep DEF Abstract!Next
<1>3. ASSUME NEW n \in Requests, NEW m \in Targets, AtAnEdge(m, n), AllocateAt(m, n)
      PROVE  HeapInv' /\ Abstract!Next
  BY <1>0, <1>3, AllocateAtStep DEF Abstract!Next
<1>4. ASSUME NEW b \in owned, Deallocate(b.addr, b.size)
      PROVE  HeapInv' /\ Abstract!Next
  BY <1>4, DeallocateStep DEF Abstract!Next
<1>5. CASE UNCHANGED heapVars
  <2>1. HeapInv'
    BY <1>5 DEF heapVars, HeapInv
  <2>2. UNCHANGED Abstract!arenaVars
    BY <1>5 DEF heapVars, Abstract!arenaVars
  <2> QED BY <2>1, <2>2
<1> QED BY <1>1, <1>2, <1>3, <1>4, <1>5 DEF Next, Obtain

\* HeapInv is an invariant of the zone.
THEOREM HeapInvariant == Spec => []HeapInv
<1>1. Init => HeapInv
  BY InitHeap
<1>2. HeapInv /\ [Next]_heapVars => HeapInv'
  BY NextHeap
<1> QED BY <1>1, <1>2, PTL DEF Spec

\* The zone implements the abstract zone: an allocator fails only when no free
\* run is long enough, and answers the lowest (allocate) or the highest
\* (allocate_reverse) one there is.
THEOREM HeapImplementsArena == Spec => Implements
<1>1. Init => Abstract!Init
  BY InitHeap
<1>2. HeapInv /\ [Next]_heapVars => [Abstract!Next]_(Abstract!arenaVars)
  BY NextHeap
<1> QED BY <1>1, <1>2, HeapInvariant, PTL DEF Spec, Implements, Abstract!Spec

\* An abstract step leaves a well-formed record of the call.
LEMMA CallStep ==
    ASSUME HeapInv, Abstract!Next
    PROVE  call' \in Abstract!Calls
<1>1. ASSUME NEW op \in {"none", "allocate", "allocate_reverse", "allocate_at", "deallocate"},
             NEW n \in Requests, NEW at \in Zone \cup {NULL}, NEW a \in Zone \cup {NULL},
             Abstract!Answer(op, n, at, a)
      PROVE  call' \in Abstract!Calls
  BY <1>1, SameHelpers DEF Abstract!Answer, Abstract!Calls
<1>2. Abstract!NULL = NULL /\ Abstract!Zone = Zone /\ Abstract!Targets \subseteq Zone
  BY SameHelpers DEF Targets
<1>3. ASSUME NEW n \in Requests, Abstract!AllocateLowest(n)
      PROVE  call' \in Abstract!Calls
  BY <1>1, <1>2, <1>3 DEF Abstract!AllocateLowest, Abstract!HandOver, Abstract!Decline
<1>4. ASSUME NEW n \in Requests, Abstract!AllocateHighest(n)
      PROVE  call' \in Abstract!Calls
  BY <1>1, <1>2, <1>4 DEF Abstract!AllocateHighest, Abstract!HandOver, Abstract!Decline
<1>5. ASSUME NEW n \in Requests, NEW m \in Abstract!Targets, Abstract!AllocateThere(m, n)
      PROVE  call' \in Abstract!Calls
  BY <1>1, <1>2, <1>5 DEF Abstract!AllocateThere, Abstract!HandOver, Abstract!Decline
<1>6. ASSUME NEW b \in owned, Abstract!Release(b)
      PROVE  call' \in Abstract!Calls
  <2>1. b.addr \in Zone /\ b.size \in Requests
    BY DEF HeapInv
  <2> QED BY <1>1, <1>2, <1>6, <2>1 DEF Abstract!Release
<1> QED BY <1>3, <1>4, <1>5, <1>6 DEF Abstract!Next

\* Every recorded call has a zone's address, or nullptr, for its answer.
LEMMA CallInvariant == Spec => [](call \in Abstract!Calls)
<1>1. Init => call \in Abstract!Calls
  BY SameHelpers DEF Init, Abstract!NoCall, Abstract!Calls
<1>2. call \in Abstract!Calls /\ HeapInv /\ [Next]_heapVars => (call \in Abstract!Calls)'
  <2> SUFFICES ASSUME call \in Abstract!Calls, HeapInv, [Next]_heapVars
               PROVE  call' \in Abstract!Calls
    BY DEF Abstract!Calls, Abstract!Zone, Abstract!Run, Abstract!NULL
  <2>1. [Abstract!Next]_(Abstract!arenaVars)
    BY NextHeap
  <2>2. CASE Abstract!Next
    BY <2>2, CallStep
  <2>3. CASE UNCHANGED Abstract!arenaVars
    BY <2>3 DEF Abstract!arenaVars
  <2> QED BY <2>1, <2>2, <2>3
<1> QED BY <1>1, <1>2, HeapInvariant, PTL DEF Spec

\* What the inductive invariant says, property by property.
LEMMA InvImplies ==
    ASSUME HeapInv
    PROVE  /\ chunks \in Seq([start : Zone, size : 1 .. ZoneSize]) /\ free \in Nat
           /\ owned \subseteq Abstract!Blocks
           /\ FreeListSound /\ Partition /\ FreeCounted
<1>1. /\ ChunkList(chunks) /\ chunks \in Seq(ChunkRecords)
      /\ Len(chunks) \in Nat /\ DOMAIN chunks = 1 .. Len(chunks)
      /\ \A q \in 1 .. Len(chunks) :
            /\ chunks[q] = Chunk(chunks[q].start, chunks[q].size)
            /\ chunks[q].start \in Nat /\ chunks[q].size \in Nat \ {0}
            /\ End(chunks[q]) = chunks[q].start + chunks[q].size
  BY ListLinks DEF HeapInv
<1>2. ASSUME NEW q \in 1 .. Len(chunks)
      PROVE  chunks[q].start >= Base /\ End(chunks[q]) <= Base + ZoneSize
  <2>1. chunks[q].start \in Zone /\ End(chunks[q]) - 1 \in Zone
    <3>1. q \in DOMAIN chunks /\ 1 \in Nat \ {0} /\ chunks[q].size >= 1
      BY <1>1
    <3> QED BY <3>1, ChunkInZone
  <2>2. \A x \in Zone : x >= Base /\ x <= Base + ZoneSize - 1
    BY ZoneAssumption DEF Zone, Run
  <2>3. chunks[q].start \in Nat /\ End(chunks[q]) \in Nat
    BY <1>1
  <2>4. chunks[q].start >= Base /\ End(chunks[q]) - 1 <= Base + ZoneSize - 1
    BY <2>1, <2>2
  <2> QED BY <2>3, <2>4, ZoneAssumption
<1>3. chunks \in Seq([start : Zone, size : 1 .. ZoneSize])
  <2>1. ASSUME NEW q \in 1 .. Len(chunks)
        PROVE  chunks[q] \in [start : Zone, size : 1 .. ZoneSize]
    <3>1. chunks[q].start \in Zone /\ chunks[q].size \in 1 .. ZoneSize
      BY <1>1, <1>2, ZoneAssumption DEF Zone, Run
    <3> QED BY <1>1, <3>1 DEF Chunk
  <2> QED BY <1>1, <2>1, ElementwiseSeq
<1>4. free \in Nat
  BY ZoneFacts, FS_Subset, FS_CardinalityType DEF HeapInv
<1>5. FreeListSound
  BY <1>1, <1>2 DEF FreeListSound, ChunkList
<1>6. Partition
  <2>1. \A b : Abstract!Extent(b) = Extent(b)
    BY SameHelpers
  <2>2. UNION {Abstract!Extent(b) : b \in owned} = UNION {Extent(b) : b \in owned}
    BY <2>1
  <2>3. UNION {Extent(b) : b \in owned} \subseteq Zone
    BY DEF HeapInv
  <2> QED BY <2>1, <2>2, <2>3 DEF HeapInv, Partition
<1> QED BY <1>3, <1>4, <1>5, <1>6, SameHelpers DEF HeapInv, FreeCounted

\* Every variable keeps its type; in particular every chunk on the list is
\* one of the zone's.
THEOREM HeapTypeOK == Spec => []TypeOK
<1>1. HeapInv /\ call \in Abstract!Calls => TypeOK
  BY InvImplies DEF TypeOK
<1> QED BY <1>1, HeapInvariant, CallInvariant, PTL

\* The free list stays sorted, disjoint, coalesced and inside the zone.
THEOREM HeapFreeListSound == Spec => []FreeListSound
<1>1. HeapInv => FreeListSound
  BY InvImplies
<1> QED BY <1>1, HeapInvariant, PTL

\* No address is lost, handed out twice, or handed out while free.
THEOREM HeapPartition == Spec => []Partition
<1>1. HeapInv => Partition
  BY InvImplies
<1> QED BY <1>1, HeapInvariant, PTL

\* available() is what count_free() would count.
THEOREM HeapFreeCounted == Spec => []FreeCounted
<1>1. HeapInv => FreeCounted
  BY InvImplies
<1> QED BY <1>1, HeapInvariant, PTL

\* Once every block has been released, in any order, the zone is whole again.
THEOREM HeapReleasedIsWhole == Spec => []ReleasedIsWhole
<1>1. HeapInv => ReleasedIsWhole
  <2> SUFFICES ASSUME HeapInv, owned = {} PROVE chunks = << Chunk(Base, ZoneSize) >>
    BY DEF ReleasedIsWhole
  <2>1. FreeBytes(chunks) = Zone
    BY DEF HeapInv
  <2>2. PICK i \in 1 .. Len(chunks) : Holds(chunks[i], Base, ZoneSize)
    <3>1. Base \in Int /\ ZoneSize \in Nat \ {0} /\ Run(Base, ZoneSize) \subseteq FreeBytes(chunks)
      BY <2>1, ZoneAssumption DEF Zone
    <3> QED BY <3>1, RunInOneChunk DEF HeapInv
  <2>3. /\ chunks \in Seq([start : Zone, size : 1 .. ZoneSize]) /\ Len(chunks) \in Nat
        /\ FreeListSound /\ DOMAIN chunks = 1 .. Len(chunks)
        /\ \A q \in 1 .. Len(chunks) :
              /\ chunks[q] = Chunk(chunks[q].start, chunks[q].size)
              /\ chunks[q].start \in Zone /\ chunks[q].start \in Nat
              /\ End(chunks[q]) \in Nat /\ chunks[q].size \in Nat
              /\ End(chunks[q]) = chunks[q].start + chunks[q].size
              /\ chunks[q].start < End(chunks[q])
    <3>1. chunks \in Seq([start : Zone, size : 1 .. ZoneSize]) /\ FreeListSound
      BY InvImplies
    <3>2. \A q \in 1 .. Len(chunks) : chunks[q].start \in Zone
      <4>1. \A q \in 1 .. Len(chunks) : chunks[q] \in [start : Zone, size : 1 .. ZoneSize]
        BY <3>1, ElementOfSeq
      <4> QED BY <4>1
    <3> QED BY <3>1, <3>2, ListLinks DEF HeapInv
  <2>4. chunks[i].start = Base /\ chunks[i].size = ZoneSize
    <3>1. chunks[i].start <= Base /\ Base + ZoneSize <= End(chunks[i])
      BY <2>2 DEF Holds
    <3>2. Base <= chunks[i].start
      BY <2>3, ZoneAssumption DEF Zone, Run
    <3>3. End(chunks[i]) <= Base + ZoneSize
      BY <2>3 DEF FreeListSound
    <3>4. /\ chunks[i].start \in Nat /\ End(chunks[i]) \in Nat /\ chunks[i].size \in Nat
          /\ End(chunks[i]) = chunks[i].start + chunks[i].size
      BY <2>3
    <3> QED BY <3>1, <3>2, <3>3, <3>4, ZoneAssumption
  <2>5. ASSUME NEW q \in 1 .. Len(chunks) PROVE q = i
    <3>1. q < i => End(chunks[q]) < Base
      BY <2>3, <2>4, <2>5 DEF FreeListSound, Separated
    <3>2. i < q => Base + ZoneSize < chunks[q].start
      BY <2>3, <2>4, <2>5 DEF FreeListSound, Separated
    <3>3. Base <= chunks[q].start /\ chunks[q].start < Base + ZoneSize
      BY <2>3, ZoneAssumption, SMTT(30) DEF Zone, Run
    <3> QED BY <2>3, <3>1, <3>2, <3>3, ZoneAssumption
  <2>6. Len(chunks) = 1 /\ i = 1
    <3>1. 1 \in 1 .. Len(chunks) /\ Len(chunks) \in 1 .. Len(chunks)
      BY <2>3
    <3> QED BY <2>5, <3>1
  <2>7. chunks[1] = Chunk(Base, ZoneSize)
    BY <2>3, <2>4, <2>6
  <2> QED BY <2>3, <2>6, <2>7 DEF Chunk
<1> QED BY <1>1, HeapInvariant, PTL

-----------------------------------------------------------------------------
(* A zone of whole 8-byte units: every chunk can hold its own header.      *)

Units == {c \in [start : Int, size : Int] : c.start % 8 = 0 /\ c.size % 8 = 0}

\* The chunks and the clients' blocks begin and end between units.
UnitsInv ==
    /\ chunks \in Seq(Units)
    /\ \A b \in owned : b.addr % 8 = 0

\* What a request takes is whole units.
LEMMA RoundUpUnits == ASSUME NEW n \in Nat PROVE RoundUp(n) % 8 = 0
BY DEF RoundUp

\* Whole units put together and taken apart.
LEMMA UnitsAdd ==
    ASSUME NEW a \in Int, NEW b \in Int, a % 8 = 0, b % 8 = 0
    PROVE  (a + b) % 8 = 0 /\ (a - b) % 8 = 0
OBVIOUS

\* A chunk between units.
LEMMA UnitChunk ==
    ASSUME NEW a \in Int, NEW n \in Int, a % 8 = 0, n % 8 = 0
    PROVE  Chunk(a, n) \in Units
BY DEF Chunk, Units

\* The links of a list of units.
LEMMA UnitLinks ==
    ASSUME NEW cs \in Seq(Units), NEW i \in 1 .. Len(cs)
    PROVE  /\ cs[i].start \in Int /\ cs[i].start % 8 = 0
           /\ cs[i].size \in Int /\ cs[i].size % 8 = 0
           /\ End(cs[i]) \in Int /\ End(cs[i]) % 8 = 0
<1>1. cs[i] \in Units
  OBVIOUS
<1>2. cs[i].start \in Int /\ cs[i].size \in Int /\ cs[i].start % 8 = 0 /\ cs[i].size % 8 = 0
  BY <1>1 DEF Units
<1> QED BY <1>2, UnitsAdd DEF End

\* The three ways of carving leave whole units.
LEMMA CarvingKeepsUnits ==
    ASSUME NEW cs \in Seq(Units), NEW i \in 1 .. Len(cs),
           NEW m \in Int, NEW r \in Int, m % 8 = 0, r % 8 = 0
    PROVE  /\ CarveLow(cs, i, r) \in Seq(Units)
           /\ CarveHigh(cs, i, r) \in Seq(Units)
           /\ CarveAt(cs, i, m, r) \in Seq(Units)
<1> DEFINE c == cs[i]
<1>1. /\ c.start \in Int /\ c.start % 8 = 0 /\ c.size \in Int /\ c.size % 8 = 0
      /\ c.size - r \in Int /\ (c.size - r) % 8 = 0
      /\ c.start + r \in Int /\ (c.start + r) % 8 = 0
      /\ m + r \in Int /\ (m + r) % 8 = 0
  <2>1. c.start \in Int /\ c.start % 8 = 0 /\ c.size \in Int /\ c.size % 8 = 0
    BY UnitLinks
  <2> HIDE DEF c
  <2> QED BY <2>1, SMTT(30)
<1>2. /\ Chunk(c.start + r, c.size - r) \in Units
      /\ Chunk(c.start, c.size - r) \in Units
      /\ Chunk(m + r, c.size - r) \in Units
  BY <1>1, UnitChunk
<1>3. i - 1 \in 0 .. Len(cs) /\ i + 1 \in 1 .. (Len(cs) + 1) /\ i - 1 < i + 1
  OBVIOUS
<1>4. ASSUME NEW mid \in Seq(Units) PROVE Splice(cs, i - 1, mid, i + 1) \in Seq(Units)
  BY <1>3, SpliceLinks
<1> DEFINE low   == IF c.size = r THEN << >> ELSE << Chunk(c.start + r, c.size - r) >>
           high  == IF c.size = r THEN << >> ELSE << Chunk(c.start, c.size - r) >>
           below == IF c.start < m THEN << Chunk(c.start, c.size - r) >> ELSE << >>
           above == IF m + r < End(c) THEN << Chunk(m + r, c.size - r) >> ELSE << >>
<1>5. low \in Seq(Units) /\ high \in Seq(Units)
  BY <1>2, EmptySeq
<1>6. below \in Seq(Units) /\ above \in Seq(Units)
  BY <1>2, EmptySeq
<1>7. below \o above \in Seq(Units)
  <2> HIDE DEF below, above
  <2> QED BY <1>6, ConcatProperties
<1> HIDE DEF low, high, below, above
<1>8. CarveLow(cs, i, r) = Splice(cs, i - 1, low, i + 1)
  BY DEF CarveLow, low
<1>9. CarveHigh(cs, i, r) = Splice(cs, i - 1, high, i + 1)
  BY DEF CarveHigh, high
<1>10. CarveAt(cs, i, m, r) = Splice(cs, i - 1, below \o above, i + 1)
  BY DEF CarveAt, below, above
<1> QED BY <1>4, <1>5, <1>7, <1>8, <1>9, <1>10

\* What is given back merges into whole units.
LEMMA GivingBackKeepsUnits ==
    ASSUME NEW cs \in Seq(Units), NEW m \in Int, NEW r \in Int, m % 8 = 0, r % 8 = 0,
           NEW k \in 1 .. (Len(cs) + 1)
    PROVE  GiveBack(cs, k, m, r) \in Seq(Units)
<1> DEFINE next == JoinsNext(cs, k, m, r)
           prev == JoinsPrev(cs, k, m)
           low  == IF prev THEN cs[k - 1].start ELSE m
           high == IF next THEN End(cs[k]) ELSE m + r
           i    == IF prev THEN k - 2 ELSE k - 1
           j    == IF next THEN k + 1 ELSE k
           mid  == << Chunk(low, high - low) >>
<1>1. low \in Int /\ low % 8 = 0
  <2>1. prev => k - 1 \in 1 .. Len(cs)
    BY DEF JoinsPrev
  <2> QED BY <2>1, UnitLinks
<1>2. high \in Int /\ high % 8 = 0
  <2>1. next => k \in 1 .. Len(cs)
    BY DEF JoinsNext
  <2>2. m + r \in Int /\ (m + r) % 8 = 0
    BY UnitsAdd
  <2> QED BY <2>1, <2>2, UnitLinks
<1>3. i \in 0 .. Len(cs) /\ j \in 1 .. (Len(cs) + 1) /\ i < j
  BY DEF JoinsPrev, JoinsNext
<1>4. GiveBack(cs, k, m, r) = Splice(cs, i, mid, j)
  BY DEF GiveBack
<1> HIDE DEF low, high, i, j
<1>5. high - low \in Int /\ (high - low) % 8 = 0
  BY <1>1, <1>2, UnitsAdd
<1>6. mid \in Seq(Units)
  BY <1>1, <1>5, UnitChunk
<1> HIDE DEF mid
<1> QED BY <1>3, <1>4, <1>6, SpliceLinks

\* A zone of whole units stays one, through every step.
LEMMA UnitsStep ==
    ASSUME HeapInv, UnitsInv, [Next]_heapVars
    PROVE  UnitsInv'
<1>1. chunks \in Seq(Units) /\ DOMAIN chunks = 1 .. Len(chunks) /\ \A b \in owned : b.addr % 8 = 0
  BY DEF UnitsInv
<1>2. \A n \in Requests : n \in Nat /\ RoundUp(n) \in Nat /\ RoundUp(n) % 8 = 0
  BY RequestsAssumption, RoundUpBounds, RoundUpUnits
<1>3. ASSUME NEW n \in Requests, NEW i \in DOMAIN chunks, NEW a, a % 8 = 0,
             chunks' \in Seq(Units), owned' = owned \cup {[addr |-> a, size |-> n]}
      PROVE  UnitsInv'
  BY <1>1, <1>3 DEF UnitsInv
<1>4. ASSUME NEW op, NEW n, NEW at, Fails(op, n, at) PROVE UnitsInv'
  BY <1>1, <1>4 DEF UnitsInv, Fails
<1>5. ASSUME NEW n \in Requests, Allocate(n) PROVE UnitsInv'
  <2>1. CASE Fails("allocate", n, NULL)
    BY <1>4, <2>1
  <2>2. ASSUME NEW i \in FirstFit(chunks, RoundUp(n)),
               chunks' = CarveLow(chunks, i, RoundUp(n)),
               Taken("allocate", n, NULL, chunks[i].start)
        PROVE  UnitsInv'
    <3>1. i \in 1 .. Len(chunks)
      BY <1>1 DEF FirstFit
    <3>2. chunks[i].start \in Int /\ chunks[i].start % 8 = 0 /\ RoundUp(n) \in Int
      BY <1>1, <1>2, <3>1, UnitLinks
    <3>3. chunks' \in Seq(Units)
      BY <1>1, <1>2, <2>2, <3>1, <3>2, CarvingKeepsUnits
    <3> QED BY <1>1, <1>3, <2>2, <3>1, <3>2, <3>3 DEF Taken
  <2> QED BY <1>5, <2>1, <2>2 DEF Allocate
<1>6. ASSUME NEW n \in Requests, AllocateReverse(n) PROVE UnitsInv'
  <2>1. CASE Fails("allocate_reverse", n, NULL)
    BY <1>4, <2>1
  <2>2. ASSUME NEW i \in LastFit(chunks, RoundUp(n)),
               chunks' = CarveHigh(chunks, i, RoundUp(n)),
               Taken("allocate_reverse", n, NULL, End(chunks[i]) - RoundUp(n))
        PROVE  UnitsInv'
    <3>1. i \in 1 .. Len(chunks)
      BY <1>1 DEF LastFit
    <3>2. chunks[i].start \in Int /\ chunks[i].start % 8 = 0 /\ RoundUp(n) \in Int
          /\ End(chunks[i]) \in Int /\ End(chunks[i]) % 8 = 0
      BY <1>1, <1>2, <3>1, UnitLinks
    <3>3. (End(chunks[i]) - RoundUp(n)) % 8 = 0
      BY <1>2, <3>2, UnitsAdd
    <3>4. chunks' \in Seq(Units)
      BY <1>1, <1>2, <2>2, <3>1, <3>2, CarvingKeepsUnits
    <3> QED BY <1>1, <1>3, <2>2, <3>1, <3>3, <3>4 DEF Taken
  <2> QED BY <1>6, <2>1, <2>2 DEF AllocateReverse
<1>7. ASSUME NEW n \in Requests, NEW m \in Targets, AllocateAt(m, n) PROVE UnitsInv'
  <2>1. CASE Fails("allocate_at", n, m)
    BY <1>4, <2>1
  <2>2. m \in Int /\ m % 8 = 0
    <3>1. m \in Zone
      BY SameHelpers
    <3> QED BY <3>1, ZoneFacts DEF Targets, Abstract!Targets
  <2>3. ASSUME NEW i \in FirstHolding(chunks, m, RoundUp(n)),
               chunks' = CarveAt(chunks, i, m, RoundUp(n)),
               Taken("allocate_at", n, m, m)
        PROVE  UnitsInv'
    <3>1. i \in 1 .. Len(chunks) /\ RoundUp(n) \in Int
      BY <1>1, <1>2 DEF FirstHolding
    <3>2. chunks' \in Seq(Units)
      BY <1>1, <1>2, <2>2, <2>3, <3>1, CarvingKeepsUnits
    <3> QED BY <1>1, <1>3, <2>2, <2>3, <3>1, <3>2 DEF Taken
  <2> QED BY <1>7, <2>1, <2>3 DEF AllocateAt
<1>8. ASSUME NEW b \in owned, Deallocate(b.addr, b.size) PROVE UnitsInv'
  <2>1. owned' \subseteq owned
    BY <1>8 DEF Deallocate
  <2>2. b.addr \in Int /\ b.addr % 8 = 0 /\ b.size \in Requests
    <3>1. b.addr \in Zone /\ b.size \in Requests
      BY DEF HeapInv
    <3>2. b.addr \in Nat \ {0}
      BY <3>1, ZoneFacts, Zenon
    <3>3. b.addr % 8 = 0
      BY <1>1, Zenon
    <3> QED BY <3>1, <3>2, <3>3
  <2>3. CASE UNCHANGED chunks
    BY <1>1, <2>1, <2>3 DEF UnitsInv
  <2>4. ASSUME NEW k \in StopsAt(chunks, b.addr),
               chunks' = GiveBack(chunks, k, b.addr, RoundUp(b.size))
        PROVE  UnitsInv'
    <3>1. k \in 1 .. (Len(chunks) + 1) /\ RoundUp(b.size) \in Int
      BY <1>2, <2>2 DEF StopsAt
    <3>2. chunks' \in Seq(Units)
      BY <1>1, <1>2, <2>2, <2>4, <3>1, GivingBackKeepsUnits
    <3> QED BY <1>1, <2>1, <3>2 DEF UnitsInv
  <2> QED BY <1>8, <2>3, <2>4 DEF Deallocate
<1>9. CASE UNCHANGED heapVars
  BY <1>1, <1>9 DEF UnitsInv, heapVars
<1> QED BY <1>5, <1>6, <1>7, <1>8, <1>9 DEF Next, Obtain

\* In a zone whose base and size are multiples of 8, whatever sizes are asked
\* for, every chunk left on the list is aligned and holds its 8-byte header.
THEOREM HeadersAlwaysFit ==
    ASSUME Base % 8 = 0, ZoneSize % 8 = 0
    PROVE  Spec => []HeadersFit
<1>1. Init => UnitsInv
  <2> SUFFICES ASSUME Init PROVE UnitsInv
    OBVIOUS
  <2>1. Chunk(Base, ZoneSize) \in Units
    BY ZoneAssumption, UnitChunk
  <2> QED BY <2>1 DEF Init, UnitsInv
<1>2. HeapInv /\ UnitsInv /\ [Next]_heapVars => UnitsInv'
  BY UnitsStep
<1>3. HeapInv /\ UnitsInv => HeadersFit
  <2> SUFFICES ASSUME HeapInv, UnitsInv, NEW i \in DOMAIN chunks
               PROVE  chunks[i].size >= 8 /\ chunks[i].start % 8 = 0
    BY DEF HeadersFit
  <2>1. i \in 1 .. Len(chunks) /\ chunks[i].size \in Nat \ {0}
    BY ListLinks DEF HeapInv
  <2>2. chunks[i].size % 8 = 0 /\ chunks[i].start % 8 = 0
    BY <2>1, UnitLinks DEF UnitsInv
  <2> QED BY <2>1, <2>2
<1> QED BY <1>1, <1>2, <1>3, HeapInvariant, PTL DEF Spec

-----------------------------------------------------------------------------
(* Clients that release what they do not hold.                             *)

\* The list and an inflated counter; nothing is said of what clients hold, nor
\* of where the chunks lie.
MisuseInv ==
    /\ ChunkList(chunks)
    /\ IsFiniteSet(FreeBytes(chunks))
    /\ free \in Nat
    /\ free >= Cardinality(FreeBytes(chunks))

\* Where deallocate does not give up the block overlaps no chunk.
LEMMA NoClashDisjoint ==
    ASSUME NEW cs, ChunkList(cs), NEW m \in Nat, NEW r \in Nat \ {0},
           NEW k \in StopsAt(cs, m), ~Clashes(cs, k, m, r)
    PROVE  Run(m, r) \cap FreeBytes(cs) = {}
<1>1. /\ Len(cs) \in Nat
      /\ \A q \in 1 .. Len(cs) : /\ cs[q].start \in Nat /\ End(cs[q]) \in Nat
                                 /\ cs[q].start < End(cs[q])
      /\ \A p, q \in 1 .. Len(cs) : p < q => End(cs[p]) < cs[q].start
  BY ListLinks
<1>2. /\ k \in 1 .. (Len(cs) + 1)
      /\ k <= Len(cs) => cs[k].start >= m + r
      /\ k > 1 => End(cs[k - 1]) <= m
  <2>1. k \in 1 .. (Len(cs) + 1)
    BY DEF StopsAt
  <2>2. k <= Len(cs) => k \in 1 .. Len(cs) /\ ~(cs[k].start < m + r)
    BY <1>1, <2>1 DEF Clashes
  <2>3. k > 1 => k - 1 \in 1 .. Len(cs) /\ ~(End(cs[k - 1]) > m)
    BY <1>1, <2>1 DEF Clashes
  <2> QED BY <1>1, <2>1, <2>2, <2>3, SMTT(30)
<1> SUFFICES ASSUME NEW x \in Run(m, r), x \in FreeBytes(cs) PROVE FALSE
  OBVIOUS
<1>3. x \in Int /\ m <= x /\ x < m + r
  BY DEF Run
<1>4. PICK q \in 1 .. Len(cs) : cs[q].start <= x /\ x < End(cs[q])
  <2>1. \E q \in 1 .. Len(cs) : Covers(cs[q], x)
    BY <1>3, InFree DEF Covers, ChunkList
  <2> QED BY <2>1 DEF Covers
<1>5. CASE q < k
  <2>1. k - 1 \in 1 .. Len(cs) /\ k > 1 /\ (q = k - 1 \/ q < k - 1)
    BY <1>2, <1>5
  <2>2. End(cs[q]) <= m
    BY <1>1, <1>2, <2>1
  <2> QED BY <1>1, <1>3, <1>4, <2>2
<1>6. CASE q >= k
  <2>1. k \in 1 .. Len(cs) /\ (q = k \/ k < q)
    BY <1>2, <1>6
  <2>2. cs[q].start >= m + r
    BY <1>1, <1>2, <2>1
  <2> QED BY <1>1, <1>3, <1>4, <2>2
<1> QED BY <1>1, <1>2, <1>5, <1>6

\* Taking from the list, with the counter too high or not.
LEMMA MisuseTakes ==
    ASSUME MisuseInv, NEW n \in Nat, ~Refuses(free, n), NEW a,
           ChunkList(chunks'),
           FreeBytes(chunks') = FreeBytes(chunks) \ Run(a, RoundUp(n)),
           Run(a, RoundUp(n)) \subseteq FreeBytes(chunks), a \in Nat,
           free' = free - RoundUp(n)
    PROVE  MisuseInv'
<1> DEFINE F == FreeBytes(chunks)
           B == Run(a, RoundUp(n))
<1>1. RoundUp(n) \in Nat
  BY RoundUpBounds
<1>2. IsFiniteSet(F) /\ Cardinality(F) \in Nat
  BY FS_CardinalityType DEF MisuseInv
<1>3. Cardinality(B) = RoundUp(n)
  BY <1>1, ZoneFacts
<1>4. F \cap B = B
  OBVIOUS
<1> HIDE DEF F, B
<1>5. Cardinality(F \ B) = Cardinality(F) - RoundUp(n)
  <2>1. Cardinality(F \ B) = Cardinality(F) - Cardinality(F \cap B)
    BY <1>2, FS_Difference
  <2> QED BY <1>3, <1>4, <2>1
<1>6. IsFiniteSet(F \ B) /\ Cardinality(F \ B) \in Nat
  BY <1>2, FS_Difference, FS_CardinalityType
<1>7. free \in Nat /\ free >= Cardinality(F)
  BY DEF MisuseInv, F
<1>8. free' \in Nat /\ free' >= Cardinality(F \ B)
  BY <1>1, <1>2, <1>5, <1>6, <1>7
<1> QED BY <1>6, <1>8 DEF MisuseInv, F, B

\* Giving back, whatever the client says it returns.
LEMMA MisuseReturns ==
    ASSUME MisuseInv, NEW m \in Nat, NEW n \in Nat, Deallocate(m, n)
    PROVE  MisuseInv'
<1> DEFINE r == RoundUp(n)
           F == FreeBytes(chunks)
           B == Run(m, r)
<1>1. r \in Nat /\ (n # 0 => r \in Nat \ {0})
  BY RoundUpBounds
<1>2. IsFiniteSet(F) /\ Cardinality(F) \in Nat /\ free \in Nat /\ free >= Cardinality(F)
  BY FS_CardinalityType DEF MisuseInv
<1>3. CASE UNCHANGED <<chunks, free>>
  BY <1>3 DEF MisuseInv
<1>4. ASSUME m # NULL, n # 0, free' = free + r, NEW k \in StopsAt(chunks, m),
             chunks' = IF Clashes(chunks, k, m, r) THEN chunks ELSE GiveBack(chunks, k, m, r)
      PROVE  MisuseInv'
  <2>1. CASE Clashes(chunks, k, m, r)
    <3>1. chunks' = chunks
      BY <1>4, <2>1
    <3>2. free' \in Nat /\ free' >= Cardinality(F)
      BY <1>1, <1>2, <1>4
    <3> QED BY <3>1, <3>2 DEF MisuseInv
  <2>2. CASE ~Clashes(chunks, k, m, r)
    <3>1. r \in Nat \ {0} /\ ChunkList(chunks)
      BY <1>1, <1>4 DEF MisuseInv
    <3>2. B \cap F = {}
      BY <2>2, <3>1, NoClashDisjoint
    <3>3. ChunkList(chunks') /\ FreeBytes(chunks') = F \cup B
      BY <1>4, <2>2, <3>1, <3>2, GiveBackSound
    <3>4. IsFiniteSet(B) /\ Cardinality(B) = r
      BY <1>1, ZoneFacts
    <3> HIDE DEF F, B
    <3>5. IsFiniteSet(F \cup B)
      BY <1>2, <3>4, FS_Union
    <3>6. Cardinality(F \cup B) = Cardinality(F) + r - Cardinality(F \cap B)
      BY <1>2, <3>4, FS_Union
    <3>7. Cardinality(F \cap B) = 0
      BY <3>2, FS_EmptySet
    <3>8. free' \in Nat /\ free' >= Cardinality(F \cup B)
      BY <1>1, <1>2, <1>4, <3>6, <3>7
    <3> QED BY <3>3, <3>5, <3>8 DEF MisuseInv
  <2> QED BY <2>1, <2>2
<1> QED BY <1>3, <1>4 DEF Deallocate

\* Every step of such clients keeps the list sound and the counter no lower
\* than what is free.
LEMMA MisuseStep ==
    ASSUME MisuseInv, [NextMisuse]_heapVars
    PROVE  MisuseInv'
<1>1. /\ ChunkList(chunks) /\ DOMAIN chunks = 1 .. Len(chunks)
      /\ \A q \in 1 .. Len(chunks) :
           /\ chunks[q].start \in Nat /\ chunks[q].size \in Nat
           /\ End(chunks[q]) = chunks[q].start + chunks[q].size
  BY ListLinks DEF MisuseInv
<1>2. \A n \in Requests : n \in Nat /\ RoundUp(n) \in Nat /\ (n # 0 => RoundUp(n) \in Nat \ {0})
  BY RequestsAssumption, RoundUpBounds
<1>3. ASSUME NEW op, NEW n, NEW at, Fails(op, n, at) PROVE MisuseInv'
  BY <1>3 DEF MisuseInv, Fails
<1>4. \A m \in Targets : m \in Nat /\ m \in Zone
  <2>1. \A m \in Targets : m \in Zone
    BY SameHelpers
  <2> QED BY <2>1, ZoneFacts
<1>5. ASSUME NEW n \in Requests, Allocate(n) PROVE MisuseInv'
  <2>1. CASE Fails("allocate", n, NULL)
    BY <1>3, <2>1
  <2>2. ASSUME ~Refuses(free, n), NEW i \in FirstFit(chunks, RoundUp(n)),
               chunks' = CarveLow(chunks, i, RoundUp(n)),
               Taken("allocate", n, NULL, chunks[i].start)
        PROVE  MisuseInv'
    <3>1. i \in 1 .. Len(chunks) /\ chunks[i].size >= RoundUp(n)
      BY <1>1 DEF FirstFit
    <3>2. RoundUp(n) \in Nat \ {0} /\ n \in Nat /\ chunks[i].start \in Nat
      BY <1>1, <1>2, <2>2, <3>1 DEF Refuses
    <3>3. free' = free - RoundUp(n)
      BY <2>2 DEF Taken
    <3>4. /\ ChunkList(chunks')
          /\ FreeBytes(chunks') = FreeBytes(chunks) \ Run(chunks[i].start, RoundUp(n))
          /\ Run(chunks[i].start, RoundUp(n)) \subseteq FreeBytes(chunks)
      BY <1>1, <2>2, <3>1, <3>2, CarveLowSound
    <3> QED BY <2>2, <3>2, <3>3, <3>4, MisuseTakes
  <2> QED BY <1>5, <2>1, <2>2 DEF Allocate
<1>6. ASSUME NEW n \in Requests, AllocateReverse(n) PROVE MisuseInv'
  <2>1. CASE Fails("allocate_reverse", n, NULL)
    BY <1>3, <2>1
  <2>2. ASSUME ~Refuses(free, n), NEW i \in LastFit(chunks, RoundUp(n)),
               chunks' = CarveHigh(chunks, i, RoundUp(n)),
               Taken("allocate_reverse", n, NULL, End(chunks[i]) - RoundUp(n))
        PROVE  MisuseInv'
    <3>1. i \in 1 .. Len(chunks) /\ chunks[i].size >= RoundUp(n)
      BY <1>1 DEF LastFit
    <3>2. RoundUp(n) \in Nat \ {0} /\ n \in Nat /\ End(chunks[i]) - RoundUp(n) \in Nat
      BY <1>1, <1>2, <2>2, <3>1 DEF Refuses
    <3>3. free' = free - RoundUp(n)
      BY <2>2 DEF Taken
    <3>4. /\ ChunkList(chunks')
          /\ FreeBytes(chunks')
               = FreeBytes(chunks) \ Run(End(chunks[i]) - RoundUp(n), RoundUp(n))
          /\ Run(End(chunks[i]) - RoundUp(n), RoundUp(n)) \subseteq FreeBytes(chunks)
      BY <1>1, <2>2, <3>1, <3>2, CarveHighSound
    <3> QED BY <2>2, <3>2, <3>3, <3>4, MisuseTakes
  <2> QED BY <1>6, <2>1, <2>2 DEF AllocateReverse
<1>7. ASSUME NEW n \in Requests, NEW m \in Targets, AtAnEdge(m, n), AllocateAt(m, n)
      PROVE  MisuseInv'
  <2>1. CASE Fails("allocate_at", n, m)
    BY <1>3, <2>1
  <2>2. ASSUME ~Refuses(free, n), NEW i \in FirstHolding(chunks, m, RoundUp(n)),
               chunks' = CarveAt(chunks, i, m, RoundUp(n)),
               Taken("allocate_at", n, m, m)
        PROVE  MisuseInv'
    <3>1. i \in 1 .. Len(chunks) /\ Holds(chunks[i], m, RoundUp(n))
      BY <1>1 DEF FirstHolding
    <3>2. RoundUp(n) \in Nat \ {0} /\ n \in Nat /\ m \in Nat
      BY <1>2, <1>4, <2>2 DEF Refuses
    <3>3. free' = free - RoundUp(n)
      BY <2>2 DEF Taken
    <3>4. m = chunks[i].start \/ m + RoundUp(n) = End(chunks[i])
      BY <1>7, <2>2 DEF AtAnEdge
    <3>5. /\ ChunkList(chunks')
          /\ FreeBytes(chunks') = FreeBytes(chunks) \ Run(m, RoundUp(n))
          /\ Run(m, RoundUp(n)) \subseteq FreeBytes(chunks)
      BY <1>1, <2>2, <3>1, <3>2, <3>4, CarveAtSound
    <3> QED BY <2>2, <3>2, <3>3, <3>5, MisuseTakes
  <2> QED BY <1>7, <2>1, <2>2 DEF AllocateAt
<1>8. ASSUME NEW m \in Misplaced, NEW n \in Requests, Deallocate(m, n) PROVE MisuseInv'
  <2>1. m \in Nat /\ n \in Nat
    BY <1>2, MisplacedAssumption
  <2> QED BY <1>8, <2>1, MisuseReturns
<1>9. CASE UNCHANGED heapVars
  BY <1>9 DEF MisuseInv, heapVars
<1> QED BY <1>5, <1>6, <1>7, <1>8, <1>9 DEF NextMisuse, Obtain

\* Whatever clients release - what they hold, the same twice, another size, what
\* is free, or memory beside the zone - the list stays sorted, disjoint and
\* coalesced, and the counter is never below what it holds: the cheap check
\* refuses nothing that the list could serve.
THEOREM MisuseIsContained == SpecMisuse => []MisuseOnlyInflates
<1>1. Init => MisuseInv
  <2> SUFFICES ASSUME Init PROVE MisuseInv
    OBVIOUS
  <2>1. HeapInv /\ free = ZoneSize
    BY InitHeap DEF Init
  <2>2. IsFiniteSet(FreeBytes(chunks))
    BY <2>1, ZoneFacts, FS_Subset DEF HeapInv
  <2> QED BY <2>1, <2>2, ZoneAssumption DEF HeapInv, MisuseInv
<1>2. MisuseInv /\ [NextMisuse]_heapVars => MisuseInv'
  BY MisuseStep
<1>3. MisuseInv => MisuseOnlyInflates
  BY DEF MisuseInv, MisuseOnlyInflates, ChunkList
<1> QED BY <1>1, <1>2, <1>3, PTL DEF SpecMisuse
=============================================================================
