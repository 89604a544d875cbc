----------------------------- MODULE PoolProofs -----------------------------
(***************************************************************************)
(* Theorems about the system memory pool and AllocEntry, for every set of  *)
(* zones, requests and requirements, and for request lists of every        *)
(* length: no block is lost or handed out twice in any zone, requirements  *)
(* are honoured, and an AllocEntry that fails leaves every free list as it *)
(* was.                                                                    *)
(***************************************************************************)
EXTENDS AllocEntry, Lemmas
LOCAL INSTANCE FiniteSetsExt

-----------------------------------------------------------------------------
(* One zone.                                                               *)

\* The addresses a zone manages: all but its Heap node.
Managed(z) == Lower(z) .. (Upper(z) - 1)

\* A zone by itself: at a positive address, with room behind its Heap node.
\* What follows is of any such zones, whatever the others are.
IsZone(z) ==
    /\ z.base \in Nat \ {0} /\ z.size \in Nat /\ z.size > HeaderSize
    /\ z.priority \in -128 .. 127

IsHeap(h) ==
    /\ h = [zone |-> h.zone, chunks |-> h.chunks, free |-> h.free]
    /\ IsZone(h.zone) /\ h.chunks \in Seq(ChunkRecords) /\ h.free \in Nat

\* A zone whose free list is well formed, lies in it, and is counted right.
HeapOK(h) ==
    /\ IsHeap(h)
    /\ ChunkList(h.chunks)
    /\ FreeBytes(h.chunks) \subseteq Managed(h.zone)
    /\ h.free = Cardinality(FreeBytes(h.chunks))

\* The addresses of a zone: positive, and finitely many.
LEMMA ZoneAddresses ==
    ASSUME NEW z, IsZone(z)
    PROVE  /\ Lower(z) \in Nat \ {0} /\ Upper(z) \in Nat /\ Lower(z) < Upper(z)
           /\ z.base \in Nat /\ z.size \in Nat
           /\ Upper(z) - Lower(z) = z.size - HeaderSize
           /\ Managed(z) \subseteq Nat \ {0} /\ Managed(z) # {}
           /\ IsFiniteSet(Managed(z)) /\ Cardinality(Managed(z)) = z.size - HeaderSize
<1>1. z.base \in Nat \ {0} /\ z.size \in Nat /\ z.size > 32
  BY DEF HeaderSize, IsZone
<1>2. /\ Lower(z) \in Nat \ {0} /\ Upper(z) \in Nat /\ Lower(z) < Upper(z)
      /\ Upper(z) - Lower(z) = z.size - HeaderSize
  BY <1>1 DEF Lower, Upper, HeaderSize
<1>3. Managed(z) \subseteq Nat \ {0} /\ Lower(z) \in Managed(z)
  BY <1>2 DEF Managed
<1>4. IsFiniteSet(Managed(z)) /\ Cardinality(Managed(z)) = z.size - HeaderSize
  <2>1. /\ Lower(z) \in Int /\ Upper(z) - 1 \in Int /\ ~(Lower(z) > Upper(z) - 1)
        /\ (Upper(z) - 1) - Lower(z) + 1 = z.size - HeaderSize
    BY <1>1, <1>2 DEF HeaderSize
  <2> QED BY <2>1, FS_Interval DEF Managed
<1> QED BY <1>1, <1>2, <1>3, <1>4

\* The zones that can be added are such zones, and no two share an address.
LEMMA AddableZones ==
    /\ \A z \in Zones : IsZone(z)
    /\ \A y, z \in Zones : y # z => Managed(y) \cap Managed(z) = {}
<1>1. \A z \in Zones : z.base \in Nat \ {0} /\ z.size \in Nat /\ IsZone(z)
  BY PoolAssumption DEF IsZone
<1>2. ASSUME NEW y \in Zones, NEW z \in Zones, y # z
      PROVE  Managed(y) \cap Managed(z) = {}
  <2>1. Run(y.base, y.size) \cap Run(z.base, z.size) = {}
    BY <1>2, PoolAssumption
  <2>2. Managed(y) \subseteq Run(y.base, y.size) /\ Managed(z) \subseteq Run(z.base, z.size)
    BY <1>1 DEF Managed, Run, Lower, Upper, HeaderSize
  <2> QED BY <2>1, <2>2
<1> QED BY <1>1, <1>2

\* A run of free addresses of a zone, and how many it has.
LEMMA RunSize ==
    ASSUME NEW m \in Int, NEW r \in Nat
    PROVE  IsFiniteSet(Run(m, r)) /\ Cardinality(Run(m, r)) = r
<1>1. m + r - 1 \in Int
  OBVIOUS
<1>2. Cardinality(m .. (m + r - 1)) = IF m > m + r - 1 THEN 0 ELSE (m + r - 1) - m + 1
  BY <1>1, FS_Interval
<1>3. IsFiniteSet(m .. (m + r - 1))
  BY <1>1, FS_Interval
<1>4. (IF m > m + r - 1 THEN 0 ELSE (m + r - 1) - m + 1) = r
  OBVIOUS
<1> QED BY <1>2, <1>3, <1>4 DEF Run

\* The free counter is a natural number, no greater than the zone.
LEMMA FreeRange ==
    ASSUME NEW h, HeapOK(h)
    PROVE  /\ IsZone(h.zone) /\ h.free \in 0 .. (h.zone.size - HeaderSize)
           /\ IsFiniteSet(FreeBytes(h.chunks)) /\ Cardinality(FreeBytes(h.chunks)) \in Nat
           /\ FreeBytes(h.chunks) \subseteq Nat \ {0}
<1>1. IsZone(h.zone) /\ FreeBytes(h.chunks) \subseteq Managed(h.zone)
  BY DEF HeapOK, IsHeap
<1>2. /\ IsFiniteSet(Managed(h.zone)) /\ Managed(h.zone) \subseteq Nat \ {0}
      /\ Cardinality(Managed(h.zone)) = h.zone.size - HeaderSize
  BY <1>1, ZoneAddresses
<1>3. /\ IsFiniteSet(FreeBytes(h.chunks))
      /\ Cardinality(FreeBytes(h.chunks)) <= Cardinality(Managed(h.zone))
  BY <1>1, <1>2, FS_Subset
<1>4. Cardinality(FreeBytes(h.chunks)) \in Nat /\ Cardinality(Managed(h.zone)) \in Nat
  BY <1>2, <1>3, FS_CardinalityType
<1>5. h.free = Cardinality(FreeBytes(h.chunks))
  BY DEF HeapOK
<1> QED BY <1>1, <1>2, <1>3, <1>4, <1>5

\* A zone with another free list and counter.
LEMMA HeapExcept ==
    ASSUME NEW z, NEW cs, NEW f, NEW ds, NEW g
    PROVE  [[zone |-> z, chunks |-> cs, free |-> f] EXCEPT !.chunks = ds, !.free = g]
             = [zone |-> z, chunks |-> ds, free |-> g]
<1> DEFINE h == [zone |-> z, chunks |-> cs, free |-> f]
           e == [h EXCEPT !.chunks = ds, !.free = g]
           r == [zone |-> z, chunks |-> ds, free |-> g]
<1>1. DOMAIN e = {"zone", "chunks", "free"} /\ e = [x \in DOMAIN e |-> e[x]]
  OBVIOUS
<1>2. DOMAIN r = {"zone", "chunks", "free"} /\ r = [x \in DOMAIN r |-> r[x]]
  OBVIOUS
<1>3. e["zone"] = r["zone"] /\ e["chunks"] = r["chunks"] /\ e["free"] = r["free"]
  OBVIOUS
<1> HIDE DEF e, r
<1>4. e = r
  BY <1>1, <1>2, <1>3
<1> QED BY <1>4 DEF e, r

\* Taking a free run out of a zone's list leaves the zone sound.
LEMMA ShrunkSound ==
    ASSUME NEW h, HeapOK(h), NEW n \in Nat \ {0}, NEW m \in Int, NEW cs, ChunkList(cs),
           Run(m, RoundUp(n)) \subseteq FreeBytes(h.chunks),
           FreeBytes(cs) = FreeBytes(h.chunks) \ Run(m, RoundUp(n))
    PROVE  /\ HeapOK(Shrunk(h, cs, n)) /\ Shrunk(h, cs, n).zone = h.zone
           /\ Shrunk(h, cs, n).chunks = cs
<1> DEFINE r == RoundUp(n)
           F == FreeBytes(h.chunks)
           g == Shrunk(h, cs, n)
<1>1. r \in Nat /\ cs \in Seq(ChunkRecords)
  BY RoundUpBounds DEF ChunkList
<1>2. IsFiniteSet(F) /\ Cardinality(F) \in Nat /\ h.free = Cardinality(F)
  BY FreeRange DEF HeapOK
<1>3. IsFiniteSet(Run(m, r)) /\ Cardinality(Run(m, r)) = r /\ F \cap Run(m, r) = Run(m, r)
  BY <1>1, RunSize
<1>4. Cardinality(F \ Run(m, r)) = Cardinality(F) - Cardinality(F \cap Run(m, r))
  BY <1>2, FS_Difference
<1>5. IsFiniteSet(F \ Run(m, r)) /\ Cardinality(F \ Run(m, r)) \in Nat
  BY <1>2, FS_Subset, FS_CardinalityType
<1>6. /\ IsHeap(h) /\ DOMAIN h = {"zone", "chunks", "free"}
      /\ h = [zone |-> h.zone, chunks |-> h.chunks, free |-> h.free] /\ IsZone(h.zone)
  BY DEF HeapOK, IsHeap
<1>7. g.zone = h.zone /\ g.chunks = cs /\ g.free = h.free - r /\ DOMAIN g = DOMAIN h
  BY <1>6 DEF Shrunk
<1>8. g.free = Cardinality(FreeBytes(g.chunks)) /\ g.free \in Nat
  BY <1>2, <1>3, <1>4, <1>5, <1>7
<1>9. IsHeap(g)
  <2>1. g = [zone |-> h.zone, chunks |-> cs, free |-> h.free - r]
    <3>1. g = [h EXCEPT !.chunks = cs, !.free = h.free - r]
      BY DEF Shrunk
    <3> HIDE DEF g, r
    <3> QED BY <1>6, <3>1, HeapExcept
  <2>2. h.free - r \in Nat
    BY <1>7, <1>8
  <2> HIDE DEF g
  <2> QED BY <1>1, <1>6, <2>1, <2>2 DEF IsHeap
<1>10. FreeBytes(g.chunks) \subseteq Managed(g.zone)
  BY <1>7 DEF HeapOK
<1> HIDE DEF g
<1> QED BY <1>7, <1>8, <1>9, <1>10 DEF HeapOK, g

\* A block that a zone serves: not empty, and some chunk is large enough.
LEMMA ServedSize ==
    ASSUME NEW h, HeapOK(h), NEW n \in Nat, Serves(h, n)
    PROVE  /\ n \in Nat \ {0} /\ RoundUp(n) \in Nat \ {0}
           /\ ChunkList(h.chunks) /\ ~NoFit(h.chunks, RoundUp(n))
<1>1. n # 0 /\ ~NoFit(h.chunks, RoundUp(n))
  BY DEF Serves, Refuses
<1>2. RoundUp(n) \in Nat /\ RoundUp(n) >= n
  BY RoundUpBounds
<1> QED BY <1>1, <1>2 DEF HeapOK

\* What allocating from a zone does to it, from whichever end: the zone stays
\* sound, and the run it answers was free and is free no longer.
TakenFrom(h, t, n) ==
    /\ HeapOK(t.heap) /\ t.heap.zone = h.zone
    /\ t.addr \in Nat \ {0}
    /\ Run(t.addr, RoundUp(n)) \subseteq FreeBytes(h.chunks)
    /\ FreeBytes(t.heap.chunks) = FreeBytes(h.chunks) \ Run(t.addr, RoundUp(n))

\* Heap::allocate.
LEMMA TakenLowSound ==
    ASSUME NEW h, HeapOK(h), NEW n \in Nat, Serves(h, n)
    PROVE  TakenFrom(h, TakenLow(h, n), n)
<1> DEFINE r == RoundUp(n)
           cs == h.chunks
           i == CHOOSE i \in FirstFit(cs, r) : TRUE
           new == CarveLow(cs, i, r)
           m == cs[i].start
           g == Shrunk(h, new, n)
<1>1. n \in Nat \ {0} /\ r \in Nat \ {0} /\ ChunkList(cs) /\ ~NoFit(cs, r)
  BY ServedSize
<1>2. i \in FirstFit(cs, r)
  BY <1>1, FirstFitExists
<1>3. i \in 1 .. Len(cs) /\ cs[i].size >= r /\ m \in Nat
  BY <1>1, <1>2, ListLinks DEF FirstFit
<1>4. TakenLow(h, n) = [heap |-> g, addr |-> m]
  BY DEF TakenLow
<1> HIDE DEF r, cs, i
<1>5. /\ ChunkList(new) /\ FreeBytes(new) = FreeBytes(cs) \ Run(m, r)
      /\ Run(m, r) \subseteq FreeBytes(cs)
  BY <1>1, <1>3, CarveLowSound
<1> HIDE DEF new, m
<1>6. HeapOK(g) /\ g.zone = h.zone /\ g.chunks = new
  BY <1>1, <1>3, <1>5, ShrunkSound DEF r, cs
<1>7. m # 0
  <2>1. m \in FreeBytes(cs)
    BY <1>1, <1>3, <1>5 DEF Run
  <2> QED BY <2>1, FreeRange DEF cs
<1> HIDE DEF g
<1> QED BY <1>3, <1>4, <1>5, <1>6, <1>7 DEF TakenFrom, r, cs

\* Heap::allocate_reverse.
LEMMA TakenHighSound ==
    ASSUME NEW h, HeapOK(h), NEW n \in Nat, Serves(h, n)
    PROVE  TakenFrom(h, TakenHigh(h, n), n)
<1> DEFINE r == RoundUp(n)
           cs == h.chunks
           i == CHOOSE i \in LastFit(cs, r) : TRUE
           new == CarveHigh(cs, i, r)
           m == End(cs[i]) - r
           g == Shrunk(h, new, n)
<1>1. n \in Nat \ {0} /\ r \in Nat \ {0} /\ ChunkList(cs) /\ ~NoFit(cs, r)
  BY ServedSize
<1>2. i \in LastFit(cs, r)
  BY <1>1, LastFitExists
<1>4. TakenHigh(h, n) = [heap |-> g, addr |-> m]
  BY DEF TakenHigh
<1> HIDE DEF r, cs, i
<1>3. i \in 1 .. Len(cs) /\ cs[i].size >= r /\ m \in Nat
  <2>1. i \in 1 .. Len(cs) /\ cs[i].size >= r
    BY <1>1, <1>2, ListLinks DEF LastFit
  <2>2. cs[i].start \in Nat /\ cs[i].size \in Nat /\ End(cs[i]) = cs[i].start + cs[i].size
    BY <1>1, <2>1, ListLinks
  <2> QED BY <1>1, <2>1, <2>2
<1>5. /\ ChunkList(new) /\ FreeBytes(new) = FreeBytes(cs) \ Run(m, r)
      /\ Run(m, r) \subseteq FreeBytes(cs)
  BY <1>1, <1>3, CarveHighSound
<1> HIDE DEF new, m
<1>6. HeapOK(g) /\ g.zone = h.zone /\ g.chunks = new
  BY <1>1, <1>3, <1>5, ShrunkSound DEF r, cs
<1>7. m # 0
  <2>1. m \in FreeBytes(cs)
    BY <1>1, <1>3, <1>5 DEF Run
  <2> QED BY <2>1, FreeRange DEF cs
<1> HIDE DEF g
<1> QED BY <1>3, <1>4, <1>5, <1>6, <1>7 DEF TakenFrom, r, cs

\* Heap::deallocate of a run of the zone that is not free: it does not give
\* up, and the run is free again.
LEMMA ReturnedSound ==
    ASSUME NEW h, HeapOK(h), NEW n \in Nat \ {0}, NEW m \in Nat,
           Run(m, RoundUp(n)) \subseteq Managed(h.zone),
           Run(m, RoundUp(n)) \cap FreeBytes(h.chunks) = {}
    PROVE  /\ HeapOK(Returned(h, m, n)) /\ Returned(h, m, n).zone = h.zone
           /\ FreeBytes(Returned(h, m, n).chunks)
                = FreeBytes(h.chunks) \cup Run(m, RoundUp(n))
<1> DEFINE r == RoundUp(n)
           cs == h.chunks
           k == CHOOSE k \in StopsAt(cs, m) : TRUE
           new == GiveBack(cs, k, m, r)
           g == Returned(h, m, n)
           F == FreeBytes(cs)
           R == Run(m, r)
<1>1. r \in Nat \ {0} /\ ChunkList(cs) /\ n # 0
  BY RoundUpBounds DEF HeapOK
<1>2. k \in StopsAt(cs, m)
  BY <1>1, StopExists
<1>3. g = [h EXCEPT !.free = @ + r, !.chunks = IF Clashes(@, k, m, r) THEN @ ELSE GiveBack(@, k, m, r)]
  BY <1>1 DEF Returned
<1>4. /\ IsHeap(h) /\ DOMAIN h = {"zone", "chunks", "free"}
      /\ h = [zone |-> h.zone, chunks |-> h.chunks, free |-> h.free] /\ IsZone(h.zone)
  BY DEF HeapOK, IsHeap
<1>5. R \cap F = {} /\ R \subseteq Managed(h.zone)
  OBVIOUS
<1> HIDE DEF r, cs, k, g
<1>6. /\ ~Clashes(cs, k, m, r) /\ ChunkList(new) /\ FreeBytes(new) = F \cup R
  BY <1>1, <1>2, <1>5, GiveBackSound
<1> HIDE DEF new
<1>7. g.zone = h.zone /\ g.chunks = new /\ g.free = h.free + r
  BY <1>3, <1>4, <1>6 DEF new, cs
<1>8. IsFiniteSet(F) /\ Cardinality(F) \in Nat /\ h.free = Cardinality(F)
  BY FreeRange DEF HeapOK, cs
<1>9. IsFiniteSet(R) /\ Cardinality(R) = r
  BY <1>1, RunSize
<1> HIDE DEF R, F
<1>10. Cardinality(F \cup R) = Cardinality(F) + Cardinality(R) - Cardinality(F \cap R)
  BY <1>8, <1>9, FS_Union
<1>11. F \cap R = {} /\ Cardinality({}) = 0
  BY <1>5, FS_EmptySet
<1>12. g.free = Cardinality(FreeBytes(g.chunks)) /\ g.free \in Nat
  <2>1. FreeBytes(g.chunks) = F \cup R
    BY <1>6, <1>7
  <2>2. Cardinality(F \cup R) = Cardinality(F) + r
    <3>1. Cardinality(F \cap R) = 0
      BY <1>11
    <3>2. Cardinality(F \cup R) = Cardinality(F) + r - 0
      BY <1>9, <1>10, <3>1
    <3> QED BY <1>1, <1>8, <3>2
  <2>3. g.free = Cardinality(F) + r /\ g.free \in Nat
    BY <1>1, <1>7, <1>8
  <2> QED BY <2>1, <2>2, <2>3
<1>13. IsHeap(g)
  <2>1. g = [zone |-> h.zone, chunks |-> new, free |-> h.free + r]
    BY <1>3, <1>4, <1>6 DEF new, cs
  <2>2. h.free + r \in Nat /\ new \in Seq(ChunkRecords)
    BY <1>6, <1>7, <1>12 DEF ChunkList
  <2> QED BY <1>4, <2>1, <2>2 DEF IsHeap
<1>14. FreeBytes(g.chunks) \subseteq Managed(g.zone)
  BY <1>5, <1>6, <1>7 DEF HeapOK, F, cs
<1> QED BY <1>6, <1>7, <1>12, <1>13, <1>14 DEF HeapOK, g, F, R, r, cs

-----------------------------------------------------------------------------
(* The list of zones.                                                      *)

HeapsOf(p) == {p[i] : i \in DOMAIN p}

\* Every zone of the pool is sound, and no two share an address.
PoolOK(p) ==
    /\ p \in Seq(HeapsOf(p))
    /\ \A i \in DOMAIN p : HeapOK(p[i])
    /\ \A i, j \in DOMAIN p : i # j => Managed(p[i].zone) \cap Managed(p[j].zone) = {}

\* All free addresses, and all that the pool manages.
PoolFree(p) == UNION {FreeBytes(p[i].chunks) : i \in DOMAIN p}
PoolManaged(p) == UNION {Managed(p[i].zone) : i \in DOMAIN p}

\* No zone came, went or moved in the list.
SameZones(p, q) == DOMAIN q = DOMAIN p /\ \A i \in DOMAIN p : q[i].zone = p[i].zone

\* The addresses R lie in one zone, which provides the attributes a.
Within(p, R, a) ==
    \E i \in DOMAIN p : R \subseteq Managed(p[i].zone) /\ a \subseteq p[i].zone.attributes

\* The zones of a pool, one by one: disjoint, and positive addresses.
LEMMA PoolLinks ==
    ASSUME NEW p, PoolOK(p)
    PROVE  /\ Len(p) \in Nat /\ DOMAIN p = 1 .. Len(p)
           /\ \A i \in DOMAIN p :
                /\ HeapOK(p[i]) /\ IsHeap(p[i]) /\ IsZone(p[i].zone)
                /\ FreeBytes(p[i].chunks) \subseteq Managed(p[i].zone)
                /\ Managed(p[i].zone) \subseteq Nat \ {0}
           /\ \A i, j \in DOMAIN p : i # j => Managed(p[i].zone) \cap Managed(p[j].zone) = {}
           /\ PoolFree(p) \subseteq PoolManaged(p) /\ PoolManaged(p) \subseteq Nat \ {0}
<1>1. Len(p) \in Nat /\ DOMAIN p = 1 .. Len(p)
  BY LenProperties DEF PoolOK
<1>2. ASSUME NEW i \in DOMAIN p
      PROVE  /\ HeapOK(p[i]) /\ IsHeap(p[i]) /\ IsZone(p[i].zone)
             /\ FreeBytes(p[i].chunks) \subseteq Managed(p[i].zone)
             /\ Managed(p[i].zone) \subseteq Nat \ {0}
  <2>1. HeapOK(p[i])
    BY DEF PoolOK
  <2>2. IsHeap(p[i]) /\ IsZone(p[i].zone) /\ FreeBytes(p[i].chunks) \subseteq Managed(p[i].zone)
    BY <2>1 DEF HeapOK, IsHeap
  <2> QED BY <2>1, <2>2, ZoneAddresses
<1>3. ASSUME NEW i \in DOMAIN p, NEW j \in DOMAIN p, i # j
      PROVE  Managed(p[i].zone) \cap Managed(p[j].zone) = {}
  BY <1>3 DEF PoolOK
<1>4. PoolFree(p) \subseteq PoolManaged(p) /\ PoolManaged(p) \subseteq Nat \ {0}
  BY <1>2 DEF PoolFree, PoolManaged
<1> QED BY <1>1, <1>2, <1>3, <1>4

\* The walks of HeapList stop at the first zone that qualifies.
LEMMA FirstIsLeast ==
    ASSUME NEW S \in SUBSET Nat, S # {}
    PROVE  First(S) \in S /\ \A j \in S : First(S) <= j
<1>1. \E i \in S : \A j \in S : i <= j
  BY LeastNatural
<1> QED BY <1>1 DEF First

\* An address belongs to one zone at most, and nullptr to none.
LEMMA OnlyZone ==
    ASSUME NEW p, PoolOK(p)
    PROVE  /\ \A i \in DOMAIN p : \A m \in Managed(p[i].zone) :
                 /\ Containing(p, m) = {i} /\ First(Containing(p, m)) = i
                 /\ TypeOf(p, m) = p[i].zone.attributes
           /\ \A m \in Int : \A i \in Containing(p, m) : i \in DOMAIN p /\ m \in Managed(p[i].zone)
           /\ Containing(p, NULL) = {}
<1>1. ASSUME NEW i \in DOMAIN p, NEW m \in Int
      PROVE  Contains(p[i], m) <=> m \in Managed(p[i].zone)
  <2>1. IsZone(p[i].zone)
    BY PoolLinks
  <2>2. Lower(p[i].zone) \in Nat /\ Upper(p[i].zone) \in Nat
    BY <2>1, ZoneAddresses
  <2> QED BY <2>2 DEF Contains, Managed
<1>2. ASSUME NEW i \in DOMAIN p, NEW m \in Managed(p[i].zone)
      PROVE  /\ Containing(p, m) = {i} /\ First(Containing(p, m)) = i
             /\ TypeOf(p, m) = p[i].zone.attributes
  <2>1. m \in Int
    BY PoolLinks
  <2>2. \A j \in DOMAIN p : Contains(p[j], m) <=> j = i
    BY <1>1, <2>1, PoolLinks
  <2>3. Containing(p, m) = {i}
    BY <2>2 DEF Containing
  <2>4. {i} \in SUBSET Nat /\ {i} # {}
    BY PoolLinks
  <2>5. First({i}) = i
    BY <2>4, FirstIsLeast
  <2> QED BY <2>3, <2>5 DEF TypeOf
<1>3. \A m \in Int : \A i \in Containing(p, m) : i \in DOMAIN p /\ m \in Managed(p[i].zone)
  BY <1>1 DEF Containing
<1>4. Containing(p, NULL) = {}
  <2>1. NULL \in Int /\ NULL \notin Nat \ {0}
    BY DEF NULL
  <2> QED BY <1>3, <2>1, PoolLinks
<1> QED BY <1>2, <1>3, <1>4

\* The Heap at i is h now, and nothing else has changed.
Replaced(p, i, h, q) == q = [p EXCEPT ![i] = h]

\* Replacing a zone's Heap by another sound one for the same zone.
LEMMA ReplaceHeap ==
    ASSUME NEW p, PoolOK(p), NEW i \in DOMAIN p, NEW h, HeapOK(h), h.zone = p[i].zone,
           NEW q, Replaced(p, i, h, q)
    PROVE  /\ PoolOK(q) /\ SameZones(p, q)
           /\ PoolFree(q) = (PoolFree(p) \ FreeBytes(p[i].chunks)) \cup FreeBytes(h.chunks)
<1> DEFINE S == HeapsOf(p) \cup {h}
<1>1. h \in S /\ p \in Seq(HeapsOf(p)) /\ HeapsOf(p) \subseteq S
  BY DEF PoolOK
<1> HIDE DEF S
<1>9. p \in Seq(S) /\ Len(p) \in Nat /\ DOMAIN p = 1 .. Len(p)
  BY <1>1
<1>2. /\ q \in Seq(S) /\ DOMAIN q = DOMAIN p /\ Len(q) = Len(p)
      /\ q[i] = h /\ \A j \in DOMAIN p : j # i => q[j] = p[j]
  BY <1>1, <1>9 DEF Replaced
<1>10. q \in Seq(HeapsOf(q))
  BY <1>2 DEF HeapsOf
<1>3. SameZones(p, q)
  BY <1>2 DEF SameZones
<1>4. PoolOK(q)
  BY <1>2, <1>3, <1>10 DEF PoolOK, SameZones
<1>5. \A x : x \in PoolFree(q) <=> \E j \in DOMAIN p : x \in FreeBytes(q[j].chunks)
  BY <1>2 DEF PoolFree
<1>6. \A x : x \in PoolFree(p) <=> \E j \in DOMAIN p : x \in FreeBytes(p[j].chunks)
  BY DEF PoolFree
<1>7. ASSUME NEW j \in DOMAIN p, j # i
      PROVE  FreeBytes(q[j].chunks) = FreeBytes(p[j].chunks) \ FreeBytes(p[i].chunks)
  <2>1. FreeBytes(p[j].chunks) \cap FreeBytes(p[i].chunks) = {}
    BY <1>7, PoolLinks
  <2> QED BY <1>2, <1>7, <2>1
<1>8. PoolFree(q) = (PoolFree(p) \ FreeBytes(p[i].chunks)) \cup FreeBytes(h.chunks)
  <2>1. ASSUME NEW x
        PROVE  x \in PoolFree(q)
                 <=> x \in (PoolFree(p) \ FreeBytes(p[i].chunks)) \cup FreeBytes(h.chunks)
    BY <1>2, <1>5, <1>6, <1>7
  <2> QED BY <2>1
<1> QED BY <1>3, <1>4, <1>8

\* Taking a free run out of a zone takes it out of the pool.
LEMMA ReplaceTakes ==
    ASSUME NEW p, PoolOK(p), NEW i \in DOMAIN p, NEW h, HeapOK(h), h.zone = p[i].zone,
           NEW R, R \subseteq FreeBytes(p[i].chunks),
           FreeBytes(h.chunks) = FreeBytes(p[i].chunks) \ R,
           NEW q, Replaced(p, i, h, q)
    PROVE  /\ PoolOK(q) /\ SameZones(p, q)
           /\ R \subseteq PoolFree(p) /\ PoolFree(q) = PoolFree(p) \ R
<1> DEFINE F == FreeBytes(p[i].chunks)
<1>1. /\ PoolOK(q) /\ SameZones(p, q)
      /\ PoolFree(q) = (PoolFree(p) \ F) \cup (F \ R)
  <2>1. /\ PoolOK(q) /\ SameZones(p, q)
        /\ PoolFree(q) = (PoolFree(p) \ F) \cup FreeBytes(h.chunks)
    BY ReplaceHeap
  <2> QED BY <2>1
<1>2. F \subseteq PoolFree(p) /\ R \subseteq F
  BY DEF PoolFree
<1> HIDE DEF F
<1>3. R \subseteq PoolFree(p) /\ PoolFree(q) = PoolFree(p) \ R
  BY <1>1, <1>2
<1> QED BY <1>1, <1>3

\* Giving a run back to a zone gives it back to the pool.
LEMMA ReplaceReturns ==
    ASSUME NEW p, PoolOK(p), NEW i \in DOMAIN p, NEW h, HeapOK(h), h.zone = p[i].zone,
           NEW R, FreeBytes(h.chunks) = FreeBytes(p[i].chunks) \cup R,
           NEW q, Replaced(p, i, h, q)
    PROVE  /\ PoolOK(q) /\ SameZones(p, q) /\ PoolFree(q) = PoolFree(p) \cup R
<1> DEFINE F == FreeBytes(p[i].chunks)
<1>1. /\ PoolOK(q) /\ SameZones(p, q)
      /\ PoolFree(q) = (PoolFree(p) \ F) \cup (F \cup R)
  <2>1. /\ PoolOK(q) /\ SameZones(p, q)
        /\ PoolFree(q) = (PoolFree(p) \ F) \cup FreeBytes(h.chunks)
    BY ReplaceHeap
  <2> QED BY <2>1
<1>2. F \subseteq PoolFree(p)
  BY DEF PoolFree
<1> HIDE DEF F
<1>3. PoolFree(q) = PoolFree(p) \cup R
  BY <1>1, <1>2
<1> QED BY <1>1, <1>3

\* What taking n bytes at m out of the pool p leaves of it: q.
Took(p, q, m, n, a) ==
    /\ PoolOK(q) /\ SameZones(p, q)
    /\ m \in Nat \ {0} /\ n \in Nat \ {0}
    /\ Run(m, RoundUp(n)) \subseteq PoolFree(p)
    /\ PoolFree(q) = PoolFree(p) \ Run(m, RoundUp(n))
    /\ Within(p, Run(m, RoundUp(n)), a)

\* The zones that can serve a request, and the first of them.
LEMMA ServingLinks ==
    ASSUME NEW p, PoolOK(p), NEW n \in Nat, NEW a
    PROVE  /\ Serving(p, n, a) \in SUBSET Nat
           /\ \A i \in Serving(p, n, a) :
                 i \in DOMAIN p /\ HeapOK(p[i]) /\ Provides(p[i], a) /\ Serves(p[i], n)
           /\ Serving(p, n, a) # {} =>
                 /\ First(Serving(p, n, a)) \in Serving(p, n, a)
                 /\ \A j \in Serving(p, n, a) : First(Serving(p, n, a)) <= j
<1>1. DOMAIN p \in SUBSET Nat /\ \A i \in DOMAIN p : HeapOK(p[i])
  BY PoolLinks
<1>2. Serving(p, n, a) \in SUBSET Nat
  BY <1>1 DEF Serving
<1>3. \A i \in Serving(p, n, a) :
         i \in DOMAIN p /\ HeapOK(p[i]) /\ Provides(p[i], a) /\ Serves(p[i], n)
  BY <1>1 DEF Serving
<1> QED BY <1>2, <1>3, FirstIsLeast

\* HeapList::allocate answers an address exactly when some zone can serve the
\* request; then the run is cut from the first such zone, and otherwise
\* nothing changes.
LEMMA AllocatedSound ==
    ASSUME NEW p, PoolOK(p), NEW n \in Nat, NEW a, NEW reverse
    PROVE  /\ Serving(p, n, a) = {} =>
                Allocated(p, n, a, reverse).addr = NULL /\ Allocated(p, n, a, reverse).pool = p
           /\ Serving(p, n, a) # {} =>
                /\ Took(p, Allocated(p, n, a, reverse).pool,
                        Allocated(p, n, a, reverse).addr, n, a)
                /\ Allocated(p, n, a, reverse).addr # NULL
                /\ Allocated(p, n, a, reverse).addr
                     \in Managed(p[First(Serving(p, n, a))].zone)
<1>1. CASE Serving(p, n, a) = {}
  BY <1>1 DEF Allocated
<1>2. CASE Serving(p, n, a) # {}
  <2> DEFINE i == First(Serving(p, n, a))
             t == IF reverse THEN TakenHigh(p[i], n) ELSE TakenLow(p[i], n)
             q == [p EXCEPT ![i] = t.heap]
             R == Run(t.addr, RoundUp(n))
             F == FreeBytes(p[i].chunks)
  <2>1. i \in DOMAIN p /\ HeapOK(p[i]) /\ Provides(p[i], a) /\ Serves(p[i], n)
    BY <1>2, ServingLinks
  <2>2. Allocated(p, n, a, reverse) = [pool |-> q, addr |-> t.addr]
    BY <1>2 DEF Allocated
  <2>3. Replaced(p, i, t.heap, q)
    BY DEF Replaced
  <2> HIDE DEF i, q
  <2>4. TakenFrom(p[i], t, n)
    BY <2>1, TakenLowSound, TakenHighSound
  <2> HIDE DEF t
  <2>5. /\ HeapOK(t.heap) /\ t.heap.zone = p[i].zone
        /\ t.addr \in Nat \ {0}
        /\ R \subseteq F /\ FreeBytes(t.heap.chunks) = F \ R
    BY <2>4 DEF TakenFrom
  <2>6. n \in Nat \ {0} /\ RoundUp(n) \in Nat \ {0}
    BY <2>1, ServedSize
  <2>7. t.addr \in R
    BY <2>5, <2>6 DEF Run
  <2> HIDE DEF R
  <2>8. PoolOK(q) /\ SameZones(p, q) /\ R \subseteq PoolFree(p) /\ PoolFree(q) = PoolFree(p) \ R
    <3> DEFINE h == t.heap
    <3>1. HeapOK(h) /\ h.zone = p[i].zone /\ Replaced(p, i, h, q)
      BY <2>3, <2>5
    <3>2. R \subseteq FreeBytes(p[i].chunks) /\ FreeBytes(h.chunks) = FreeBytes(p[i].chunks) \ R
      BY <2>5
    <3> HIDE DEF h
    <3> QED BY <2>1, <3>1, <3>2, ReplaceTakes
  <2>9. R \subseteq Managed(p[i].zone)
    BY <2>1, <2>5, PoolLinks
  <2>10. Within(p, R, a)
    BY <2>1, <2>9 DEF Within, Provides
  <2>11. Took(p, q, t.addr, n, a)
    BY <2>5, <2>6, <2>8, <2>10 DEF Took, R
  <2>12. t.addr # NULL /\ t.addr \in Managed(p[i].zone)
    BY <2>5, <2>7, <2>9 DEF NULL
  <2> QED BY <1>2, <2>2, <2>11, <2>12 DEF i
<1> QED BY <1>1, <1>2

\* HeapList::deallocate of a run that lies in one zone and is not free gives
\* it back; of nullptr, it does nothing.
LEMMA DeallocatedSound ==
    ASSUME NEW p, PoolOK(p), NEW n \in Nat
    PROVE  /\ Deallocated(p, NULL, n) = p
           /\ \A m \in Nat : \A a :
                /\ n # 0 /\ Within(p, Run(m, RoundUp(n)), a)
                /\ Run(m, RoundUp(n)) \cap PoolFree(p) = {}
                => /\ PoolOK(Deallocated(p, m, n)) /\ SameZones(p, Deallocated(p, m, n))
                   /\ PoolFree(Deallocated(p, m, n)) = PoolFree(p) \cup Run(m, RoundUp(n))
<1>1. Deallocated(p, NULL, n) = p
  BY OnlyZone DEF Deallocated
<1>2. ASSUME NEW m \in Nat, NEW a, n # 0, Within(p, Run(m, RoundUp(n)), a),
             Run(m, RoundUp(n)) \cap PoolFree(p) = {}
      PROVE  /\ PoolOK(Deallocated(p, m, n)) /\ SameZones(p, Deallocated(p, m, n))
             /\ PoolFree(Deallocated(p, m, n)) = PoolFree(p) \cup Run(m, RoundUp(n))
  <2> DEFINE R == Run(m, RoundUp(n))
             q == Deallocated(p, m, n)
  <2>1. n \in Nat \ {0} /\ RoundUp(n) \in Nat \ {0}
    BY <1>2, RoundUpBounds
  <2>2. m \in R
    BY <2>1 DEF Run
  <2>3. PICK i \in DOMAIN p : R \subseteq Managed(p[i].zone)
    BY <1>2 DEF Within
  <2>4. m \in Managed(p[i].zone)
    BY <2>2, <2>3
  <2>5. Containing(p, m) # {} /\ First(Containing(p, m)) = i
    BY <2>4, OnlyZone
  <2>6. q = [p EXCEPT ![i] = Returned(@, m, n)]
    BY <2>5 DEF Deallocated
  <2> DEFINE h == Returned(p[i], m, n)
  <2>7. Replaced(p, i, h, q)
    BY <2>6 DEF Replaced
  <2>8. HeapOK(p[i]) /\ FreeBytes(p[i].chunks) \subseteq PoolFree(p)
    BY PoolLinks DEF PoolFree
  <2>9. R \cap FreeBytes(p[i].chunks) = {}
    BY <1>2, <2>8
  <2>10. HeapOK(h) /\ h.zone = p[i].zone /\ FreeBytes(h.chunks) = FreeBytes(p[i].chunks) \cup R
    BY <2>1, <2>3, <2>8, <2>9, ReturnedSound
  <2> HIDE DEF h, q, R
  <2>11. PoolOK(q) /\ SameZones(p, q) /\ PoolFree(q) = PoolFree(p) \cup R
    BY <2>7, <2>10, ReplaceReturns
  <2> QED BY <2>11 DEF q, R
<1> QED BY <1>1, <1>2

\* The free addresses determine the pool: the same zones with the same free
\* addresses have the same free lists and the same counters.
LEMMA PoolSame ==
    ASSUME NEW p, PoolOK(p), NEW q, PoolOK(q), SameZones(p, q), PoolFree(p) = PoolFree(q)
    PROVE  p = q
<1>1. /\ Len(p) \in Nat /\ DOMAIN p = 1 .. Len(p) /\ Len(q) \in Nat /\ DOMAIN q = 1 .. Len(q)
      /\ DOMAIN q = DOMAIN p /\ p \in Seq(HeapsOf(p)) /\ q \in Seq(HeapsOf(q))
  BY PoolLinks DEF PoolOK, SameZones
<1>2. ASSUME NEW i \in DOMAIN p
      PROVE  p[i] = q[i]
  <2>1. HeapOK(p[i]) /\ HeapOK(q[i]) /\ q[i].zone = p[i].zone
    BY <1>1, PoolLinks DEF SameZones
  <2>2. FreeBytes(p[i].chunks) = PoolFree(p) \cap Managed(p[i].zone)
    <3>1. \A j \in DOMAIN p : j # i => FreeBytes(p[j].chunks) \cap Managed(p[i].zone) = {}
      BY PoolLinks
    <3>2. FreeBytes(p[i].chunks) \subseteq Managed(p[i].zone)
      BY PoolLinks
    <3> QED BY <3>1, <3>2 DEF PoolFree
  <2>3. FreeBytes(q[i].chunks) = PoolFree(q) \cap Managed(q[i].zone)
    <3>1. \A j \in DOMAIN q : j # i => FreeBytes(q[j].chunks) \cap Managed(q[i].zone) = {}
      BY <1>1, PoolLinks
    <3>2. FreeBytes(q[i].chunks) \subseteq Managed(q[i].zone)
      BY <1>1, PoolLinks
    <3> QED BY <1>1, <3>1, <3>2 DEF PoolFree
  <2>4. FreeBytes(p[i].chunks) = FreeBytes(q[i].chunks)
    BY <2>1, <2>2, <2>3
  <2>5. p[i].chunks = q[i].chunks
    BY <2>1, <2>4, FreeSetDeterminesList DEF HeapOK
  <2>6. p[i].free = q[i].free
    BY <2>1, <2>4 DEF HeapOK
  <2>7. /\ p[i] = [zone |-> p[i].zone, chunks |-> p[i].chunks, free |-> p[i].free]
        /\ q[i] = [zone |-> q[i].zone, chunks |-> q[i].chunks, free |-> q[i].free]
    BY <2>1 DEF HeapOK, IsHeap
  <2> QED BY <2>1, <2>5, <2>6, <2>7
<1>3. Len(p) = Len(q)
  <2>1. ~(Len(p) < Len(q))
    <3> SUFFICES ASSUME Len(p) < Len(q) PROVE FALSE
      OBVIOUS
    <3>1. Len(q) \in 1 .. Len(q) /\ Len(q) \notin 1 .. Len(p)
      BY <1>1
    <3> QED BY <1>1, <3>1
  <2>2. ~(Len(q) < Len(p))
    <3> SUFFICES ASSUME Len(q) < Len(p) PROVE FALSE
      OBVIOUS
    <3>1. Len(p) \in 1 .. Len(p) /\ Len(p) \notin 1 .. Len(q)
      BY <1>1
    <3> QED BY <1>1, <3>1
  <2>3. Len(p) \in Nat /\ Len(q) \in Nat
    BY <1>1
  <2> QED BY <2>1, <2>2, <2>3
<1> DEFINE S == HeapsOf(p) \cup HeapsOf(q)
<1>4. p \in Seq(S) /\ q \in Seq(S)
  BY <1>1
<1> HIDE DEF S
<1> QED BY <1>1, <1>2, <1>3, <1>4, SeqEqual

\* The pool after allocate_at has cut n bytes at m out of chunk c of zone i.
CutAt(p, i, c, m, n) ==
    [p EXCEPT ![i] = Shrunk(@, CarveAt(@.chunks, c, m, RoundUp(n)), n)]

\* HeapList::allocate_at of a block that shares an end with its chunk.
LEMMA CutAtSound ==
    ASSUME NEW p, PoolOK(p), NEW m \in Nat, NEW n \in Nat, NEW i \in Containing(p, m),
           ~Refuses(p[i].free, n),
           NEW c \in FirstHolding(p[i].chunks, m, RoundUp(n)),
           m = p[i].chunks[c].start \/ m + RoundUp(n) = End(p[i].chunks[c])
    PROVE  Took(p, CutAt(p, i, c, m, n), m, n, {})
<1> DEFINE q == CutAt(p, i, c, m, n)
           cs == p[i].chunks
           r == RoundUp(n)
           new == CarveAt(cs, c, m, r)
           h == Shrunk(p[i], new, n)
           R == Run(m, r)
<1>1. n \in Nat \ {0} /\ r \in Nat \ {0}
  BY RoundUpBounds DEF Refuses
<1>2. i \in DOMAIN p /\ m \in Managed(p[i].zone) /\ HeapOK(p[i])
  BY OnlyZone, PoolLinks
<1>3. Replaced(p, i, h, q)
  BY <1>2 DEF Replaced, CutAt
<1> HIDE DEF q
<1>4. m = cs[c].start \/ m + r = End(cs[c])
  OBVIOUS
<1>5. c \in FirstHolding(cs, m, r)
  OBVIOUS
<1>6. ChunkList(cs)
  BY <1>2 DEF HeapOK
<1> HIDE DEF cs, r
<1>7. c \in 1 .. Len(cs) /\ Holds(cs[c], m, r)
  BY <1>5, <1>6, ListLinks DEF FirstHolding
<1>8. ChunkList(new) /\ FreeBytes(new) = FreeBytes(cs) \ R /\ R \subseteq FreeBytes(cs)
  BY <1>1, <1>4, <1>6, <1>7, CarveAtSound
<1> HIDE DEF new
<1>9. HeapOK(h) /\ h.zone = p[i].zone /\ h.chunks = new
  BY <1>1, <1>2, <1>8, ShrunkSound DEF cs, r
<1> HIDE DEF h, R
<1>10. /\ PoolOK(q) /\ SameZones(p, q)
       /\ R \subseteq PoolFree(p) /\ PoolFree(q) = PoolFree(p) \ R
  <2>1. R \subseteq FreeBytes(p[i].chunks) /\ FreeBytes(h.chunks) = FreeBytes(p[i].chunks) \ R
    BY <1>8, <1>9 DEF cs
  <2>2. i \in DOMAIN p /\ HeapOK(h) /\ h.zone = p[i].zone /\ Replaced(p, i, h, q)
    BY <1>2, <1>3, <1>9
  <2> QED BY <2>1, <2>2, ReplaceTakes
<1>11. R \subseteq Managed(p[i].zone)
  BY <1>2, <1>8, PoolLinks DEF cs
<1>12. Within(p, R, {})
  BY <1>2, <1>11 DEF Within
<1>13. m \in Nat \ {0}
  BY <1>2, PoolLinks
<1> QED BY <1>1, <1>10, <1>12, <1>13 DEF Took, R, r, q

\* A zone just created is sound, and all of it is free.
LEMMA NewHeapSound ==
    ASSUME NEW z, IsZone(z)
    PROVE  /\ HeapOK(NewHeap(z)) /\ NewHeap(z).zone = z
           /\ FreeBytes(NewHeap(z).chunks) = Managed(z)
<1> DEFINE a == Lower(z)
           n == z.size - HeaderSize
           cs == << Chunk(a, n) >>
           h == NewHeap(z)
<1>1. /\ a \in Nat /\ Upper(z) = a + n /\ Upper(z) \in Nat /\ n \in Nat \ {0}
      /\ Cardinality(Managed(z)) = n
  <2>1. /\ a \in Nat /\ Upper(z) \in Nat /\ a < Upper(z) /\ z.size \in Nat
        /\ Upper(z) - a = z.size - HeaderSize /\ Cardinality(Managed(z)) = n
    BY ZoneAddresses
  <2>2. HeaderSize \in Nat
    BY DEF HeaderSize
  <2> QED BY <2>1, <2>2
<1>2. h = [zone |-> z, chunks |-> cs, free |-> n]
  BY DEF NewHeap
<1> HIDE DEF n, a
<1>3. /\ cs \in Seq(ChunkRecords) /\ Len(cs) = 1
      /\ cs[1].start = a /\ cs[1].size = n /\ End(cs[1]) = a + n
  BY <1>1, OneChunk
<1> HIDE DEF cs
<1>4. DOMAIN cs = 1 .. 1
  BY <1>3, LenProperties
<1>5. ChunkList(cs)
  BY <1>3, <1>4 DEF ChunkList, Separated
<1>6. FreeBytes(cs) = Managed(z)
  <2>1. DOMAIN cs = {1}
    BY <1>4
  <2>2. FreeBytes(cs) = Run(cs[1].start, cs[1].size)
    BY <2>1 DEF FreeBytes
  <2>3. Run(a, n) = Managed(z)
    BY <1>1 DEF Run, Managed, a
  <2> QED BY <1>3, <2>2, <2>3
<1>7. IsHeap(h)
  BY <1>1, <1>2, <1>3 DEF IsHeap
<1> HIDE DEF h
<1>8. h.zone = z /\ h.chunks = cs /\ h.free = n
  BY <1>2
<1> QED BY <1>1, <1>5, <1>6, <1>7, <1>8 DEF HeapOK, h

\* Faster zones, and those added first among equals, come first in the list.
ByPriority(p) ==
    \A i, j \in DOMAIN p : i < j => p[i].zone.priority >= p[j].zone.priority

ZonesOf(p) == {p[i].zone : i \in DOMAIN p}

\* Priorities can be compared.
LEMMA ZonePriority == ASSUME NEW z, IsZone(z) PROVE z.priority \in Int
<1>1. z.priority \in -128 .. 127
  BY DEF IsZone
<1> QED BY <1>1

\* enqueue finds a place.
LEMMA PlaceExists ==
    ASSUME NEW p, PoolOK(p), NEW pri \in Int
    PROVE  InFrontOf(p, pri) # {}
<1>1. Len(p) \in Nat /\ \A q \in 1 .. Len(p) : p[q].zone.priority \in Int
  <2>1. Len(p) \in Nat /\ \A q \in 1 .. Len(p) : IsZone(p[q].zone)
    BY PoolLinks
  <2> QED BY <2>1, ZonePriority
<1> DEFINE S == {k \in 1 .. (Len(p) + 1) : k <= Len(p) => p[k].zone.priority < pri}
<1>2. Len(p) + 1 \in S /\ S \in SUBSET Nat
  BY <1>1
<1>3. PICK k \in S : \A j \in S : k <= j
  BY <1>2, LeastNatural
<1>4. \A j \in 1 .. (k - 1) : p[j].zone.priority >= pri
  <2> TAKE j \in 1 .. (k - 1)
  <2>1. j \in 1 .. Len(p) /\ ~(k <= j)
    BY <1>1
  <2> QED BY <1>1, <1>3, <2>1
<1> QED BY <1>4 DEF InFrontOf

\* The links of s are those of p with h in between, in k's place.
LinkedAt(p, h, s, k) ==
    /\ s \in Seq(HeapsOf(p) \cup {h})
    /\ DOMAIN s = 1 .. (Len(p) + 1)
    /\ s[k] = h
    /\ \A i \in 1 .. (k - 1) : s[i] = p[i]
    /\ \A i \in k .. Len(p) : s[i + 1] = p[i]

\* The links after enqueue: the new Heap in its place, the others around it
\* in their order.
LEMMA EnqueueLinks ==
    ASSUME NEW p, PoolOK(p), NEW h, IsHeap(h)
    PROVE  \E k \in 1 .. (Len(p) + 1) :
             /\ k \in InFrontOf(p, h.zone.priority)
             /\ LinkedAt(p, h, Enqueue(p, h), k)
<1> DEFINE pri == h.zone.priority
           k == CHOOSE k \in InFrontOf(p, pri) : TRUE
           mid == << h >>
           new == Splice(p, k - 1, mid, k)
           S == HeapsOf(p) \cup {h}
<1>0. h \in S /\ p \in Seq(HeapsOf(p)) /\ HeapsOf(p) \subseteq S
  BY DEF PoolOK
<1> HIDE DEF S
<1>1. p \in Seq(S) /\ Len(p) \in Nat
  BY <1>0, PoolLinks
<1>2. pri \in Int
  <2>1. IsZone(h.zone)
    BY DEF IsHeap
  <2> QED BY <2>1, ZonePriority
<1>3. k \in InFrontOf(p, pri)
  BY <1>2, PlaceExists
<1>4. Enqueue(p, h) = new
  BY DEF Enqueue
<1> HIDE DEF k, pri
<1>5. k \in 1 .. (Len(p) + 1)
  BY <1>3 DEF InFrontOf
<1>6. mid \in Seq(S) /\ Len(mid) = 1 /\ mid[1] = h
  BY <1>0
<1> HIDE DEF mid, new
<1>7. k - 1 \in 0 .. Len(p) /\ k - 1 < k /\ k - 1 \in Int
  BY <1>1, <1>5
<1>8. /\ new \in Seq(S)
      /\ Len(new) = (k - 1) + Len(mid) + (Len(p) + 1 - k)
      /\ \A q \in 1 .. (k - 1) : new[q] = p[q]
      /\ \A q \in 1 .. Len(mid) : new[(k - 1) + q] = mid[q]
      /\ \A q \in k .. Len(p) : new[(k - 1) + Len(mid) + 1 + (q - k)] = p[q]
  BY <1>1, <1>5, <1>6, <1>7, SpliceLinks, ZenonT(60) DEF new
<1>9. Len(new) = Len(p) + 1
  BY <1>1, <1>5, <1>6, <1>8
<1>10. new[k] = h
  <2>1. 1 \in 1 .. Len(mid) /\ (k - 1) + 1 = k
    BY <1>5, <1>6
  <2> QED BY <1>6, <1>8, <2>1
<1>11. ASSUME NEW q \in k .. Len(p) PROVE new[q + 1] = p[q]
  <2>1. (k - 1) + Len(mid) + 1 + (q - k) = q + 1
    BY <1>5, <1>6
  <2> QED BY <1>8, <2>1
<1>12. DOMAIN new = 1 .. (Len(p) + 1)
  BY <1>8, <1>9, LenProperties
<1>13. LinkedAt(p, h, new, k)
  BY <1>8, <1>10, <1>11, <1>12 DEF LinkedAt, S
<1> QED BY <1>3, <1>4, <1>5, <1>13 DEF pri

\* AddMemList: the new zone, all of it free, joins the pool in its place.
LEMMA EnqueueSound ==
    ASSUME NEW p, PoolOK(p), NEW z, IsZone(z), Managed(z) \cap PoolManaged(p) = {}
    PROVE  LET q == Enqueue(p, NewHeap(z))
           IN  /\ PoolOK(q)
               /\ PoolFree(q) = PoolFree(p) \cup Managed(z)
               /\ PoolManaged(q) = PoolManaged(p) \cup Managed(z)
               /\ ZonesOf(q) = ZonesOf(p) \cup {z}
               /\ \A R, a : Within(p, R, a) => Within(q, R, a)
               /\ ByPriority(p) => ByPriority(q)
<1> DEFINE h == NewHeap(z)
           q == Enqueue(p, h)
<1>1. /\ Len(p) \in Nat /\ DOMAIN p = 1 .. Len(p)
      /\ \A i \in 1 .. Len(p) : /\ HeapOK(p[i]) /\ IsZone(p[i].zone)
                                 /\ Managed(p[i].zone) \cap Managed(z) = {}
      /\ \A i, j \in 1 .. Len(p) : i # j => Managed(p[i].zone) \cap Managed(p[j].zone) = {}
  <2>1. Len(p) \in Nat /\ DOMAIN p = 1 .. Len(p)
    BY PoolLinks
  <2>2. ASSUME NEW i \in DOMAIN p PROVE Managed(p[i].zone) \cap Managed(z) = {}
    BY DEF PoolManaged
  <2> QED BY <2>1, <2>2, PoolLinks
<1>2. HeapOK(h) /\ IsHeap(h) /\ h.zone = z /\ FreeBytes(h.chunks) = Managed(z)
  BY NewHeapSound DEF HeapOK
<1> HIDE DEF h, q
<1>22. q = Enqueue(p, h)
  BY DEF q
<1>3. PICK k \in 1 .. (Len(p) + 1) :
        /\ k \in InFrontOf(p, h.zone.priority)
        /\ q \in Seq(HeapsOf(p) \cup {h})
        /\ DOMAIN q = 1 .. (Len(p) + 1)
        /\ q[k] = h
        /\ \A i \in 1 .. (k - 1) : q[i] = p[i]
        /\ \A i \in k .. Len(p) : q[i + 1] = p[i]
  <2>1. PICK k \in 1 .. (Len(p) + 1) : k \in InFrontOf(p, h.zone.priority) /\ LinkedAt(p, h, q, k)
    BY <1>2, <1>22, EnqueueLinks
  <2> QED BY <2>1 DEF LinkedAt
\* Where the Heap now at j was.
<1> DEFINE old(j) == IF j < k THEN j ELSE j - 1
<1>4. ASSUME NEW j \in 1 .. (Len(p) + 1), j # k
      PROVE  old(j) \in 1 .. Len(p) /\ q[j] = p[old(j)]
  <2>1. CASE j < k
    BY <1>1, <1>3, <2>1
  <2>2. CASE j > k
    <3>1. j - 1 \in k .. Len(p) /\ (j - 1) + 1 = j
      BY <1>1, <2>2
    <3>2. q[j] = p[j - 1]
      BY <1>3, <3>1
    <3> QED BY <1>1, <2>2, <3>1, <3>2
  <2> QED BY <1>1, <1>4, <2>1, <2>2
<1>5. ASSUME NEW i \in 1 .. Len(p)
      PROVE  \E j \in 1 .. (Len(p) + 1) : j # k /\ q[j] = p[i]
  <2>1. CASE i < k
    BY <1>1, <1>3, <2>1
  <2>2. CASE i >= k
    <3>1. i + 1 \in 1 .. (Len(p) + 1) /\ i + 1 # k /\ i \in k .. Len(p)
      BY <1>1, <2>2
    <3> QED BY <1>3, <3>1
  <2> QED BY <1>1, <2>1, <2>2
<1>6. ASSUME NEW i \in 1 .. (Len(p) + 1), NEW j \in 1 .. (Len(p) + 1), i # k, j # k, i < j
      PROVE  old(i) < old(j)
  BY <1>1, <1>6
<1> HIDE DEF old
<1>7. PoolOK(q)
  <2>1. ASSUME NEW j \in DOMAIN q PROVE HeapOK(q[j])
    BY <1>1, <1>2, <1>3, <1>4
  <2>2. ASSUME NEW i \in DOMAIN q, NEW j \in DOMAIN q, i # j, j # k
        PROVE  Managed(q[i].zone) \cap Managed(q[j].zone) = {}
    <3>1. old(j) \in 1 .. Len(p) /\ q[j] = p[old(j)]
      BY <1>3, <1>4, <2>2
    <3>2. CASE i = k
      BY <1>1, <1>2, <1>3, <3>1, <3>2
    <3>3. CASE i # k
      <4>1. old(i) \in 1 .. Len(p) /\ q[i] = p[old(i)]
        BY <1>3, <1>4, <3>3
      <4>2. i < j \/ j < i
        BY <1>1, <1>3, <2>2
      <4>3. old(i) < old(j) \/ old(j) < old(i)
        BY <1>3, <1>6, <2>2, <3>3, <4>2
      <4>4. old(i) # old(j)
        BY <1>1, <3>1, <4>1, <4>3
      <4> QED BY <1>1, <3>1, <4>1, <4>4
    <3> QED BY <3>2, <3>3
  <2>3. \A i, j \in DOMAIN q : i # j => Managed(q[i].zone) \cap Managed(q[j].zone) = {}
    <3> SUFFICES ASSUME NEW i \in DOMAIN q, NEW j \in DOMAIN q, i # j
                 PROVE  Managed(q[i].zone) \cap Managed(q[j].zone) = {}
      OBVIOUS
    <3>1. CASE j # k
      BY <2>2, <3>1
    <3>2. CASE i # k
      BY <2>2, <3>2
    <3> QED BY <3>1, <3>2
  <2>4. q \in Seq(HeapsOf(q))
    BY <1>3 DEF HeapsOf
  <2> QED BY <2>1, <2>3, <2>4 DEF PoolOK
<1>8. ASSUME NEW x
      PROVE  (\E j \in DOMAIN q : x \in FreeBytes(q[j].chunks))
               <=> (\E i \in DOMAIN p : x \in FreeBytes(p[i].chunks)) \/ x \in Managed(z)
  <2>1. ASSUME NEW j \in DOMAIN q
        PROVE  q[j] = h \/ \E i \in DOMAIN p : q[j] = p[i]
    BY <1>1, <1>3, <1>4
  <2>2. ASSUME NEW i \in DOMAIN p
        PROVE  \E j \in DOMAIN q : q[j] = p[i]
    BY <1>1, <1>3, <1>5
  <2>3. \E j \in DOMAIN q : q[j] = h
    BY <1>3
  <2> QED BY <1>2, <2>1, <2>2, <2>3, Zenon
<1>9. PoolFree(q) = PoolFree(p) \cup Managed(z)
  BY <1>8 DEF PoolFree
<1>10. ASSUME NEW x
       PROVE  (\E j \in DOMAIN q : x \in Managed(q[j].zone))
                <=> (\E i \in DOMAIN p : x \in Managed(p[i].zone)) \/ x \in Managed(z)
  BY <1>1, <1>2, <1>3, <1>4, <1>5
<1>11. PoolManaged(q) = PoolManaged(p) \cup Managed(z)
  BY <1>10 DEF PoolManaged
<1>12. ZonesOf(q) = ZonesOf(p) \cup {z}
  <2>1. ASSUME NEW j \in DOMAIN q
        PROVE  q[j] = h \/ \E i \in DOMAIN p : q[j] = p[i]
    BY <1>1, <1>3, <1>4
  <2>2. ASSUME NEW i \in DOMAIN p
        PROVE  \E j \in DOMAIN q : q[j] = p[i]
    BY <1>1, <1>3, <1>5
  <2>3. \E j \in DOMAIN q : q[j] = h
    BY <1>3
  <2> QED BY <1>2, <2>1, <2>2, <2>3 DEF ZonesOf
<1>13. \A R, a : Within(p, R, a) => Within(q, R, a)
  BY <1>1, <1>3, <1>5 DEF Within
<1>14. ASSUME ByPriority(p)
       PROVE  ByPriority(q)
  <2> SUFFICES ASSUME NEW i \in DOMAIN q, NEW j \in DOMAIN q, i < j
               PROVE  q[i].zone.priority >= q[j].zone.priority
    BY DEF ByPriority
  <2>0. /\ \A x : IsZone(x) => x.priority \in Int
        /\ \A x \in 1 .. (k - 1) : p[x].zone.priority >= z.priority
        /\ k <= Len(p) => p[k].zone.priority < z.priority
    BY <1>2, <1>3, ZonePriority DEF InFrontOf
  <2>1. CASE i = k
    <3>1. old(j) \in 1 .. Len(p) /\ q[j] = p[old(j)] /\ k <= old(j) /\ k \in 1 .. Len(p)
      BY <1>1, <1>3, <1>4, <2>1 DEF old
    <3>2. k = old(j) \/ p[k].zone.priority >= p[old(j)].zone.priority
      BY <1>1, <1>14, <3>1 DEF ByPriority
    <3>3. p[k].zone.priority < z.priority /\ p[k].zone.priority \in Int
          /\ p[old(j)].zone.priority \in Int /\ z.priority \in Int
      BY <1>1, <2>0, <3>1
    <3> QED BY <1>2, <1>3, <2>1, <3>1, <3>2, <3>3
  <2>2. CASE j = k
    <3>1. old(i) \in 1 .. (k - 1) /\ q[i] = p[old(i)]
      BY <1>1, <1>3, <1>4, <2>2 DEF old
    <3> QED BY <1>2, <1>3, <2>0, <2>2, <3>1
  <2>3. CASE i # k /\ j # k
    <3>1. /\ old(i) \in 1 .. Len(p) /\ q[i] = p[old(i)]
          /\ old(j) \in 1 .. Len(p) /\ q[j] = p[old(j)] /\ old(i) < old(j)
      BY <1>3, <1>4, <1>6, <2>3
    <3> QED BY <1>1, <1>14, <3>1 DEF ByPriority
  <2> QED BY <2>1, <2>2, <2>3
<1> QED BY <1>7, <1>9, <1>11, <1>12, <1>13, <1>14 DEF q, h

-----------------------------------------------------------------------------
(* The blocks handed out.                                                  *)

Extents(B) == UNION {Extent(b) : b \in B}

\* The blocks handed out: each lies in one zone with the attributes asked for,
\* no two share an address, none has a free one, and with the free addresses
\* they make up all that the pool manages.
BlocksOK(p, o) ==
    /\ \A b \in o : /\ b.addr \in Nat \ {0} /\ b.size \in Nat \ {0}
                    /\ Within(p, Extent(b), b.attributes)
    /\ \A b \in o : Extent(b) \cap PoolFree(p) = {}
    /\ \A b, c \in o : b # c => Extent(b) \cap Extent(c) = {}
    /\ PoolManaged(p) \subseteq PoolFree(p) \cup Extents(o)

\* A MemEntry as AllocEntry made it: its blocks do not share an address, ...
EntriesApart(l) ==
    /\ l.entries \in Seq([addr : Nat, size : Nat])
    /\ l.addr \in Nat
    /\ \A i, j \in DOMAIN l.entries :
         i # j /\ l.entries[i].addr # NULL /\ l.entries[j].addr # NULL
           => Extent(l.entries[i]) \cap Extent(l.entries[j]) = {}
    /\ \A i \in DOMAIN l.entries :
         l.entries[i].addr # NULL =>
           Extent(l.entries[i]) \cap Run(l.addr, RoundUp(MemEntryBytes(Len(l.entries)))) = {}

\* ... the client holds them, and no two MemEntries list the same block.
ListsOK(o, ls) ==
    /\ \A l \in ls : /\ l.request \in RequestLists /\ EntriesApart(l)
                     /\ BlocksOf(l) \subseteq o
    /\ \A l, k \in ls : l # k => BlocksOf(l) \cap BlocksOf(k) = {}

\* The inductive invariant.  The blocks have to be known to be apart from the
\* free lists for deallocate not to give up, the MemEntries to list blocks
\* that are held for FreeEntry not to release one twice, and the zones to be
\* in order for the first that serves to be the fastest.
PoolInv ==
    /\ PoolOK(pool) /\ ByPriority(pool) /\ ZonesOf(pool) \subseteq Zones
    /\ BlocksOK(pool, owned)
    /\ ListsOK(owned, lists)

\* A block is not empty, so blocks that share no address are different.
LEMMA ExtentNotEmpty ==
    ASSUME NEW b, b.addr \in Nat \ {0}, b.size \in Nat \ {0}
    PROVE  b.addr \in Extent(b) /\ Extent(b) # {} /\ Extent(b) \subseteq Nat \ {0}
<1>1. RoundUp(b.size) \in Nat \ {0}
  <2>1. b.size \in Nat
    OBVIOUS
  <2>2. RoundUp(b.size) \in Nat /\ RoundUp(b.size) >= b.size
    BY <2>1, RoundUpBounds
  <2> QED BY <2>2
<1> QED BY <1>1 DEF Extent, Run

\* No zone moves, so what lies in one zone still does.
LEMMA WithinStays ==
    ASSUME NEW p, NEW q, SameZones(p, q), NEW R, NEW a
    PROVE  Within(p, R, a) <=> Within(q, R, a)
BY DEF SameZones, Within

\* The zones stay when nothing but free lists and counters changes.
LEMMA ZonesStay ==
    ASSUME NEW p, NEW q, SameZones(p, q)
    PROVE  /\ PoolManaged(q) = PoolManaged(p)
           /\ ByPriority(p) => ByPriority(q)
           /\ ZonesOf(q) = ZonesOf(p)
           /\ SameZones(q, p)
BY DEF SameZones, PoolManaged, ByPriority, ZonesOf

\* ... and over two steps.
LEMMA ZonesStayTwice ==
    ASSUME NEW p, NEW q, NEW r, SameZones(p, q), SameZones(q, r)
    PROVE  SameZones(p, r)
BY DEF SameZones

\* The blocks B, cut out of the free lists, join those handed out; none of
\* them was handed out before.
LEMMA TakeBlocks ==
    ASSUME NEW p, NEW q, NEW o, NEW B, BlocksOK(p, o), SameZones(p, q),
           \A b \in B : /\ b.addr \in Nat \ {0} /\ b.size \in Nat \ {0}
                        /\ Within(p, Extent(b), b.attributes),
           \A b, c \in B : b # c => Extent(b) \cap Extent(c) = {},
           Extents(B) \subseteq PoolFree(p),
           PoolFree(q) = PoolFree(p) \ Extents(B)
    PROVE  /\ BlocksOK(q, o \cup B)
           /\ B \cap o = {}
<1>1. \A b \in B : Extent(b) \subseteq Extents(B)
  BY DEF Extents
<1>2. \A b \in o : Extent(b) \cap PoolFree(p) = {}
  BY DEF BlocksOK
<1>3. \A b \in o, c \in B : Extent(b) \cap Extent(c) = {}
  BY <1>1, <1>2
<1>4. B \cap o = {}
  <2> SUFFICES ASSUME NEW b \in B, b \in o PROVE FALSE
    OBVIOUS
  <2>1. Extent(b) \cap Extent(b) = {}
    BY <1>3
  <2> QED BY <2>1, ExtentNotEmpty
<1>5. \A b \in o \cup B : /\ b.addr \in Nat \ {0} /\ b.size \in Nat \ {0}
                           /\ Within(q, Extent(b), b.attributes)
  BY WithinStays DEF BlocksOK
<1>6. \A b \in o \cup B : Extent(b) \cap PoolFree(q) = {}
  BY <1>1, <1>2
<1>7. \A b, c \in o \cup B : b # c => Extent(b) \cap Extent(c) = {}
  <2>1. \A b, c \in o : b # c => Extent(b) \cap Extent(c) = {}
    BY DEF BlocksOK
  <2> QED BY <1>3, <2>1
<1>8. PoolManaged(q) \subseteq PoolFree(q) \cup Extents(o \cup B)
  <2>1. PoolManaged(q) = PoolManaged(p)
    BY ZonesStay
  <2>2. PoolManaged(p) \subseteq PoolFree(p) \cup Extents(o)
    BY DEF BlocksOK
  <2>3. Extents(o \cup B) = Extents(o) \cup Extents(B)
    BY DEF Extents
  <2> QED BY <2>1, <2>2, <2>3
<1> QED BY <1>4, <1>5, <1>6, <1>7, <1>8 DEF BlocksOK

\* The blocks B, put back on the free lists, leave those handed out.
LEMMA ReturnBlocks ==
    ASSUME NEW p, NEW q, NEW o, NEW B, BlocksOK(p, o), SameZones(p, q),
           B \subseteq o,
           PoolFree(q) = PoolFree(p) \cup Extents(B)
    PROVE  BlocksOK(q, o \ B)
<1>1. \A b \in o \ B : /\ b.addr \in Nat \ {0} /\ b.size \in Nat \ {0}
                        /\ Within(q, Extent(b), b.attributes)
  BY WithinStays DEF BlocksOK
<1>2. \A b, c \in o : b # c => Extent(b) \cap Extent(c) = {}
  BY DEF BlocksOK
<1>3. \A b \in o \ B : Extent(b) \cap Extents(B) = {}
  <2> TAKE b \in o \ B
  <2>1. \A c \in B : Extent(b) \cap Extent(c) = {}
    BY <1>2
  <2> QED BY <2>1 DEF Extents
<1>4. \A b \in o \ B : Extent(b) \cap PoolFree(q) = {}
  <2> TAKE b \in o \ B
  <2>1. Extent(b) \cap PoolFree(p) = {}
    BY DEF BlocksOK
  <2> QED BY <1>3, <2>1
<1>5. PoolManaged(q) \subseteq PoolFree(q) \cup Extents(o \ B)
  <2>1. PoolManaged(q) = PoolManaged(p)
    BY ZonesStay
  <2>2. PoolManaged(p) \subseteq PoolFree(p) \cup Extents(o)
    BY DEF BlocksOK
  <2>3. Extents(o) \subseteq Extents(o \ B) \cup Extents(B)
    BY DEF Extents
  <2> QED BY <2>1, <2>2, <2>3
<1> QED BY <1>1, <1>2, <1>4, <1>5 DEF BlocksOK

\* One block taken: the step AllocMem and AllocAbs have in common.
LEMMA TakeOne ==
    ASSUME NEW p, NEW q, NEW o, NEW m, NEW n, NEW a, BlocksOK(p, o), Took(p, q, m, n, a)
    PROVE  LET b == [addr |-> m, size |-> n, attributes |-> a]
           IN  BlocksOK(q, o \cup {b}) /\ b \notin o
<1> DEFINE b == [addr |-> m, size |-> n, attributes |-> a]
           B == {b}
<1>1. b.addr = m /\ b.size = n /\ b.attributes = a /\ Extent(b) = Run(m, RoundUp(n))
  BY DEF Extent
<1> HIDE DEF b
<1>2. Extents(B) = Extent(b) /\ b \in B
  BY DEF Extents
<1>3. /\ SameZones(p, q) /\ Extents(B) \subseteq PoolFree(p)
      /\ PoolFree(q) = PoolFree(p) \ Extents(B)
  BY <1>1, <1>2 DEF Took
<1>4. \A c \in B : /\ c.addr \in Nat \ {0} /\ c.size \in Nat \ {0}
                   /\ Within(p, Extent(c), c.attributes)
  BY <1>1 DEF Took
<1>5. \A c, d \in B : c # d => Extent(c) \cap Extent(d) = {}
  OBVIOUS
<1> HIDE DEF B
<1>6. BlocksOK(q, o \cup B) /\ B \cap o = {}
  BY <1>3, <1>4, <1>5, TakeBlocks
<1> QED BY <1>2, <1>6 DEF B, b

\* A new zone: nothing of it is handed out, all of it is free.
LEMMA JoinBlocks ==
    ASSUME NEW p, NEW q, NEW o, NEW M, PoolOK(p), BlocksOK(p, o),
           PoolFree(q) = PoolFree(p) \cup M, PoolManaged(q) = PoolManaged(p) \cup M,
           M \cap PoolManaged(p) = {},
           \A R, a : Within(p, R, a) => Within(q, R, a)
    PROVE  BlocksOK(q, o)
<1>1. \A b \in o : Extent(b) \subseteq PoolManaged(p)
  <2> TAKE b \in o
  <2>1. Within(p, Extent(b), b.attributes)
    BY DEF BlocksOK
  <2> QED BY <2>1 DEF Within, PoolManaged
<1>2. \A b \in o : Extent(b) \cap PoolFree(q) = {}
  <2> TAKE b \in o
  <2>1. Extent(b) \cap PoolFree(p) = {}
    BY DEF BlocksOK
  <2> QED BY <1>1, <2>1
<1> QED BY <1>2 DEF BlocksOK

-----------------------------------------------------------------------------
(* The loops of allocate_multiple and deallocate_multiple.                 *)

\* The loop over a request, turn by turn: a function with the recursion of
\* ServedSteps exists, so the one that is chosen has it.
LEMMA ServedTurns ==
    ASSUME NEW p, NEW request, NEW reverse, Len(request) \in Nat
    PROVE  LET s == ServedSteps(p, request, reverse)
           IN  /\ s[0] = [pool |-> p, entries |-> << >>, failed |-> 0]
               /\ \A k \in 1 .. Len(request) : s[k] = EntryServed(s[k - 1], request[k], reverse)
<1> DEFINE b == [pool |-> p, entries |-> << >>, failed |-> 0]
           N == Len(request)
           Loop(f, n) == f = [k \in 0 .. n |-> IF k = 0 THEN b
                                               ELSE EntryServed(f[k - 1], request[k], reverse)]
           S == {n \in Nat : \E f : Loop(f, n)}
<1>1. 0 \in S
  <2> DEFINE f == [k \in 0 .. 0 |-> b]
  <2>1. Loop(f, 0)
    OBVIOUS
  <2> QED BY <2>1
<1>2. ASSUME NEW n \in Nat, n \in S PROVE n + 1 \in S
  <2>1. PICK f : Loop(f, n)
    BY <1>2
  <2> DEFINE last == EntryServed(f[n], request[n + 1], reverse)
             g == [k \in 0 .. (n + 1) |-> IF k <= n THEN f[k] ELSE last]
  <2>2. ASSUME NEW k \in 0 .. (n + 1)
        PROVE  g[k] = IF k = 0 THEN b ELSE EntryServed(g[k - 1], request[k], reverse)
    <3> HIDE DEF b
    <3>1. CASE k = 0
      <4>1. 0 \in 0 .. n /\ 0 \in 0 .. (n + 1) /\ 0 <= n
        OBVIOUS
      <4>2. f[0] = b
        BY <2>1, <4>1
      <4>3. g[0] = f[0]
        BY <4>1
      <4> QED BY <3>1, <4>2, <4>3
    <3>2. CASE k # 0 /\ k <= n
      <4>1. k \in 0 .. n /\ k - 1 \in 0 .. (n + 1) /\ k - 1 <= n
        BY <3>2
      <4>2. f[k] = EntryServed(f[k - 1], request[k], reverse)
        BY <2>1, <3>2, <4>1
      <4>3. g[k] = f[k] /\ g[k - 1] = f[k - 1]
        BY <3>2, <4>1
      <4> QED BY <3>2, <4>2, <4>3
    <3>3. CASE k = n + 1
      <4>1. k - 1 = n /\ n \in 0 .. (n + 1) /\ k # 0 /\ ~(k <= n)
        BY <3>3
      <4>2. g[k] = last /\ g[n] = f[n]
        BY <3>3, <4>1
      <4> HIDE DEF g
      <4>3. g[k - 1] = f[n]
        BY <4>1, <4>2
      <4>4. last = EntryServed(g[k - 1], request[k], reverse)
        BY <3>3, <4>3
      <4> QED BY <4>1, <4>2, <4>4
    <3> QED BY <3>1, <3>2, <3>3
  <2>3. Loop(g, n + 1)
    <3>1. g = [k \in 0 .. (n + 1) |-> g[k]]
      OBVIOUS
    <3> HIDE DEF g
    <3> QED BY <2>2, <3>1
  <2>4. n + 1 \in Nat
    OBVIOUS
  <2> HIDE DEF Loop, g
  <2> QED BY <2>3, <2>4
<1>3. N \in S
  <2> HIDE DEF S
  <2>1. Nat \subseteq S
    BY <1>1, <1>2, SetInduction
  <2> QED BY <2>1
<1> DEFINE s == ServedSteps(p, request, reverse)
<1>4. s = CHOOSE f : Loop(f, N)
  BY DEF ServedSteps
<1>5. Loop(s, N)
  <2>1. \E f : Loop(f, N)
    BY <1>3
  <2> HIDE DEF Loop
  <2> QED BY <1>4, <2>1
<1> HIDE DEF s, b
<1>6. s[0] = b
  <2>1. 0 \in 0 .. N
    OBVIOUS
  <2> QED BY <1>5, <2>1
<1>7. ASSUME NEW k \in 1 .. N PROVE s[k] = EntryServed(s[k - 1], request[k], reverse)
  <2>1. k \in 0 .. N /\ k # 0
    OBVIOUS
  <2> QED BY <1>5, <2>1
<1> QED BY <1>6, <1>7 DEF s, b

\* The loop over a MemEntry's entries, turn by turn.
LEMMA ReleasedTurns ==
    ASSUME NEW p, NEW entries, Len(entries) \in Nat
    PROVE  LET q == ReleasedSteps(p, entries)
           IN  /\ q[0] = p
               /\ \A k \in 1 .. Len(entries) :
                     q[k] = Deallocated(q[k - 1], entries[k].addr, entries[k].size)
<1> DEFINE N == Len(entries)
           Loop(f, n) == f = [k \in 0 .. n |-> IF k = 0 THEN p
                                ELSE Deallocated(f[k - 1], entries[k].addr, entries[k].size)]
           S == {n \in Nat : \E f : Loop(f, n)}
<1>1. 0 \in S
  <2> DEFINE f == [k \in 0 .. 0 |-> p]
  <2>1. Loop(f, 0)
    OBVIOUS
  <2> QED BY <2>1
<1>2. ASSUME NEW n \in Nat, n \in S PROVE n + 1 \in S
  <2>1. PICK f : Loop(f, n)
    BY <1>2
  <2> DEFINE last == Deallocated(f[n], entries[n + 1].addr, entries[n + 1].size)
             g == [k \in 0 .. (n + 1) |-> IF k <= n THEN f[k] ELSE last]
  <2>2. ASSUME NEW k \in 0 .. (n + 1)
        PROVE  g[k] = IF k = 0 THEN p
                      ELSE Deallocated(g[k - 1], entries[k].addr, entries[k].size)
    <3>1. CASE k = 0
      <4>1. 0 \in 0 .. n /\ 0 \in 0 .. (n + 1) /\ 0 <= n
        OBVIOUS
      <4>2. f[0] = p
        BY <2>1, <4>1
      <4>3. g[0] = f[0]
        BY <4>1
      <4> QED BY <3>1, <4>2, <4>3
    <3>2. CASE k # 0 /\ k <= n
      <4>1. k \in 0 .. n /\ k - 1 \in 0 .. (n + 1) /\ k - 1 <= n
        BY <3>2
      <4>2. f[k] = Deallocated(f[k - 1], entries[k].addr, entries[k].size)
        BY <2>1, <3>2, <4>1
      <4>3. g[k] = f[k] /\ g[k - 1] = f[k - 1]
        BY <3>2, <4>1
      <4> QED BY <3>2, <4>2, <4>3
    <3>3. CASE k = n + 1
      <4>1. k - 1 = n /\ n \in 0 .. (n + 1) /\ k # 0 /\ ~(k <= n)
        BY <3>3
      <4>2. g[k] = last /\ g[n] = f[n]
        BY <3>3, <4>1
      <4> HIDE DEF g
      <4>3. g[k - 1] = f[n]
        BY <4>1, <4>2
      <4>4. last = Deallocated(g[k - 1], entries[k].addr, entries[k].size)
        BY <3>3, <4>3
      <4> QED BY <4>1, <4>2, <4>4
    <3> QED BY <3>1, <3>2, <3>3
  <2>3. Loop(g, n + 1)
    <3>1. g = [k \in 0 .. (n + 1) |-> g[k]]
      OBVIOUS
    <3> HIDE DEF g
    <3> QED BY <2>2, <3>1
  <2>4. n + 1 \in Nat
    OBVIOUS
  <2> HIDE DEF Loop, g
  <2> QED BY <2>3, <2>4
<1>3. N \in S
  <2> HIDE DEF S
  <2>1. Nat \subseteq S
    BY <1>1, <1>2, SetInduction
  <2> QED BY <2>1
<1> DEFINE q == ReleasedSteps(p, entries)
<1>4. q = CHOOSE f : Loop(f, N)
  BY DEF ReleasedSteps
<1>5. Loop(q, N)
  <2>1. \E f : Loop(f, N)
    BY <1>3
  <2> HIDE DEF Loop
  <2> QED BY <1>4, <2>1
<1> HIDE DEF q
<1>6. q[0] = p
  <2>1. 0 \in 0 .. N
    OBVIOUS
  <2> QED BY <1>5, <2>1
<1>7. ASSUME NEW k \in 1 .. N
      PROVE  q[k] = Deallocated(q[k - 1], entries[k].addr, entries[k].size)
  <2>1. k \in 0 .. N /\ k # 0
    OBVIOUS
  <2> QED BY <1>5, <2>1
<1> QED BY <1>6, <1>7 DEF q

\* What a turn of a loop may find: entries that were served, or not.
Entries == [addr : Nat, size : Nat]

\* The addresses of the first k entries of a list that were served.
Part(e, k) == UNION {Extent(e[i]) : i \in {j \in 1 .. k : e[j].addr # NULL}}

\* Entry k adds its addresses, if it was served.
LEMMA PartGrows ==
    ASSUME NEW e, NEW k \in Nat
    PROVE  /\ Part(e, 0) = {}
           /\ e[k + 1].addr = NULL => Part(e, k + 1) = Part(e, k)
           /\ e[k + 1].addr # NULL => Part(e, k + 1) = Part(e, k) \cup Extent(e[k + 1])
<1>1. Part(e, 0) = {}
  BY DEF Part
<1>2. \A x : x \in Part(e, k) <=> \E i \in 1 .. k : e[i].addr # NULL /\ x \in Extent(e[i])
  BY DEF Part
<1>3. \A x : x \in Part(e, k + 1)
              <=> \E i \in 1 .. (k + 1) : e[i].addr # NULL /\ x \in Extent(e[i])
  BY DEF Part
<1>4. \A i : i \in 1 .. (k + 1) <=> i \in 1 .. k \/ i = k + 1
  OBVIOUS
<1>5. ASSUME NEW x
      PROVE  x \in Part(e, k + 1)
               <=> x \in Part(e, k) \/ (e[k + 1].addr # NULL /\ x \in Extent(e[k + 1]))
  BY <1>2, <1>3, <1>4
<1> QED BY <1>1, <1>5

\* Entries that were served from the pool and are apart.
Releasable(p, e) ==
    /\ e \in Seq(Entries)
    /\ \A i \in DOMAIN e : e[i].addr # NULL =>
          /\ e[i].size # 0 /\ \E a : Within(p, Extent(e[i]), a)
          /\ Extent(e[i]) \cap PoolFree(p) = {}
    /\ \A i, j \in DOMAIN e : i # j /\ e[i].addr # NULL /\ e[j].addr # NULL
                                => Extent(e[i]) \cap Extent(e[j]) = {}

\* deallocate_multiple's loop puts the addresses of all served entries back,
\* and stumbles over none that was not served.
LEMMA ReleasedSound ==
    ASSUME NEW p, PoolOK(p), NEW e, Releasable(p, e)
    PROVE  /\ PoolOK(Released(p, e)) /\ SameZones(p, Released(p, e))
           /\ PoolFree(Released(p, e)) = PoolFree(p) \cup Part(e, Len(e))
<1> DEFINE N == Len(e)
           q == ReleasedSteps(p, e)
           S == {k \in Nat : /\ PoolOK(q[k]) /\ SameZones(p, q[k])
                             /\ PoolFree(q[k]) = PoolFree(p) \cup Part(e, k)}
<1>1. N \in Nat /\ DOMAIN e = 1 .. N /\ \A i \in 1 .. N : e[i].addr \in Nat /\ e[i].size \in Nat
  <2>1. e \in Seq(Entries)
    BY DEF Releasable
  <2>2. N \in Nat /\ DOMAIN e = 1 .. N
    BY <2>1, LenProperties
  <2>3. \A i \in 1 .. N : e[i] \in Entries
    BY <2>1, ElementOfSeq
  <2> QED BY <2>2, <2>3 DEF Entries
<1>2. /\ q[0] = p
      /\ \A k \in 1 .. N : q[k] = Deallocated(q[k - 1], e[k].addr, e[k].size)
  BY <1>1, ReleasedTurns
<1> HIDE DEF q
<1>3. 0 \in S
  BY <1>2, PartGrows DEF SameZones
<1>4. ASSUME NEW k \in 0 .. (N - 1), k \in S
      PROVE  k + 1 \in S
  <2> DEFINE x == e[k + 1]
             r == q[k]
             t == q[k + 1]
  <2>1. k \in Nat /\ k + 1 \in 1 .. N /\ (k + 1) - 1 = k
    BY <1>1
  <2>2. PoolOK(r) /\ SameZones(p, r) /\ PoolFree(r) = PoolFree(p) \cup Part(e, k)
    BY <1>4
  <2>3. t = Deallocated(r, x.addr, x.size) /\ x.addr \in Nat /\ x.size \in Nat
    BY <1>1, <1>2, <2>1
  <2>4. CASE x.addr = NULL
    <3>1. t = r
      BY <2>2, <2>3, <2>4, DeallocatedSound
    <3>2. Part(e, k + 1) = Part(e, k)
      BY <2>1, <2>4, PartGrows
    <3> QED BY <2>1, <2>2, <3>1, <3>2
  <2>5. CASE x.addr # NULL
    <3>1. x.size # 0 /\ Extent(x) \cap PoolFree(p) = {}
      BY <1>1, <2>1, <2>5 DEF Releasable
    <3>2. PICK a : Within(p, Extent(x), a)
      BY <1>1, <2>1, <2>5 DEF Releasable
    <3>3. Extent(x) \cap Part(e, k) = {}
      <4>1. ASSUME NEW i \in 1 .. k, e[i].addr # NULL
            PROVE  Extent(x) \cap Extent(e[i]) = {}
        <5>1. i \in DOMAIN e /\ k + 1 \in DOMAIN e /\ i # k + 1
          BY <1>1, <2>1
        <5> QED BY <2>5, <4>1, <5>1 DEF Releasable
      <4> QED BY <4>1 DEF Part
    <3>4. Within(r, Extent(x), a) /\ Extent(x) \cap PoolFree(r) = {}
      BY <2>2, <3>1, <3>2, <3>3, WithinStays
    <3>5. Extent(x) = Run(x.addr, RoundUp(x.size))
      BY DEF Extent
    <3>6. PoolOK(t) /\ SameZones(r, t) /\ PoolFree(t) = PoolFree(r) \cup Extent(x)
      <4> DEFINE m == x.addr
                 n == x.size
      <4>1. m \in Nat /\ n \in Nat /\ n # 0 /\ Within(r, Run(m, RoundUp(n)), a)
            /\ Run(m, RoundUp(n)) \cap PoolFree(r) = {}
        BY <2>3, <3>1, <3>4, <3>5
      <4>2. t = Deallocated(r, m, n) /\ Extent(x) = Run(m, RoundUp(n))
        BY <2>3, <3>5
      <4> HIDE DEF m, n, t, r, x
      <4> QED BY <2>2, <4>1, <4>2, DeallocatedSound
    <3>7. SameZones(p, t)
      BY <2>2, <3>6, ZonesStayTwice
    <3>8. PoolFree(t) = PoolFree(p) \cup Part(e, k + 1)
      BY <2>1, <2>2, <2>5, <3>6, PartGrows
    <3> QED BY <2>1, <3>6, <3>7, <3>8
  <2> QED BY <2>4, <2>5
<1> HIDE DEF S
<1>5. N \in S
  <2>1. \A k \in 0 .. N : k \in S
    BY <1>1, <1>3, <1>4, BoundedInduction
  <2> QED BY <1>1, <2>1
<1>6. Released(p, e) = q[N]
  BY DEF Released, q
<1> QED BY <1>5, <1>6 DEF S

\* deallocate_multiple: the entries and the MemEntry itself go back.
LEMMA MultipleDeallocatedSound ==
    ASSUME NEW p, PoolOK(p), NEW e, Releasable(p, e), NEW me \in Nat,
           NEW R, R = Run(me, RoundUp(MemEntryBytes(Len(e)))),
           MemEntryBytes(Len(e)) \in Nat \ {0},
           NEW a, Within(p, R, a), R \cap PoolFree(p) = {}, R \cap Part(e, Len(e)) = {}
    PROVE  /\ PoolOK(MultipleDeallocated(p, me, e)) /\ SameZones(p, MultipleDeallocated(p, me, e))
           /\ PoolFree(MultipleDeallocated(p, me, e)) = PoolFree(p) \cup Part(e, Len(e)) \cup R
<1> DEFINE r == Released(p, e)
           n == MemEntryBytes(Len(e))
           t == MultipleDeallocated(p, me, e)
<1>1. PoolOK(r) /\ SameZones(p, r) /\ PoolFree(r) = PoolFree(p) \cup Part(e, Len(e))
  BY ReleasedSound
<1>2. t = Deallocated(r, me, n)
  BY DEF MultipleDeallocated
<1>3. n \in Nat /\ n # 0 /\ R = Run(me, RoundUp(n))
  OBVIOUS
<1> HIDE DEF r, n, t
<1>4. Within(r, R, a) /\ R \cap PoolFree(r) = {}
  BY <1>1, WithinStays
<1>5. PoolOK(t) /\ SameZones(r, t) /\ PoolFree(t) = PoolFree(r) \cup R
  BY <1>1, <1>2, <1>3, <1>4, DeallocatedSound
<1>6. SameZones(p, t)
  BY <1>1, <1>5, ZonesStayTwice
<1> QED BY <1>1, <1>5, <1>6 DEF t

\* Of the first k entries, each that asked for memory and got none is followed
\* by one that asked for none.
Forgiven(e, k) ==
    \A i \in 1 .. k :
        e[i].size > 0 /\ e[i].addr = NULL => \E j \in (i + 1) .. k : e[j].size = 0

\* What allocate_multiple's loop has done to the pool p after k turns: t.  The
\* entries served so far are apart, each in a zone with its attributes, and
\* exactly their addresses have left the free lists.  A failure is remembered
\* unless an empty entry has followed it.
ServedOK(p, request, t, k) ==
    /\ PoolOK(t.pool) /\ SameZones(p, t.pool)
    /\ t.entries \in Seq(Entries) /\ Len(t.entries) = k
    /\ t.failed \in Nat
    /\ \A i \in 1 .. k :
         /\ t.entries[i].size = request[i].size
         /\ t.entries[i].addr # NULL =>
              /\ t.entries[i].size # 0
              /\ Within(p, Extent(t.entries[i]), request[i].attributes)
    /\ \A i, j \in 1 .. k :
         i # j /\ t.entries[i].addr # NULL /\ t.entries[j].addr # NULL
           => Extent(t.entries[i]) \cap Extent(t.entries[j]) = {}
    /\ Part(t.entries, k) \subseteq PoolFree(p)
    /\ PoolFree(t.pool) = PoolFree(p) \ Part(t.entries, k)
    /\ t.failed = 0 => Forgiven(t.entries, k)

\* One turn goes on from k entries to k + 1.
LEMMA TurnServes ==
    ASSUME NEW p, NEW request, NEW k \in Nat, k + 1 \in DOMAIN request,
           1 .. k \subseteq DOMAIN request,
           \A i \in DOMAIN request : request[i].size \in Nat,
           NEW s, ServedOK(p, request, s, k), NEW reverse
    PROVE  ServedOK(p, request, EntryServed(s, request[k + 1], reverse), k + 1)
<1> DEFINE e == request[k + 1]
           n == e.size
           al == Allocated(s.pool, n, e.attributes, reverse)
           x == [addr |-> al.addr, size |-> n]
           old == s.entries
           new == Append(old, x)
           failed == IF al.addr = NULL THEN n ELSE s.failed
           t == EntryServed(s, e, reverse)
<1>1. t.pool = al.pool /\ t.entries = new /\ t.failed = failed
  BY DEF EntryServed
<1>2. /\ PoolOK(s.pool) /\ SameZones(p, s.pool)
      /\ old \in Seq(Entries) /\ Len(old) = k /\ s.failed \in Nat
      /\ Part(old, k) \subseteq PoolFree(p)
      /\ PoolFree(s.pool) = PoolFree(p) \ Part(old, k)
      /\ s.failed = 0 => Forgiven(old, k)
  BY DEF ServedOK
<1>3. n \in Nat
  OBVIOUS
<1>4. \/ al.addr = NULL /\ al.pool = s.pool
      \/ al.addr # NULL /\ Took(s.pool, al.pool, al.addr, n, e.attributes)
  BY <1>2, <1>3, AllocatedSound
<1> HIDE DEF al, t, n, e
<1>5. al.addr \in Nat
  BY <1>4 DEF Took, NULL
<1>6. x \in Entries /\ x.addr = al.addr /\ x.size = n /\ Extent(x) = Run(al.addr, RoundUp(n))
  BY <1>3, <1>5 DEF Entries, Extent
<1> HIDE DEF x
<1>7. /\ new \in Seq(Entries) /\ Len(new) = k + 1 /\ new[k + 1] = x
      /\ \A i \in 1 .. k : new[i] = old[i]
  BY <1>2, <1>6, AppendProperties
<1> HIDE DEF new, old
<1>8. \A i : i \in 1 .. (k + 1) <=> i \in 1 .. k \/ i = k + 1
  OBVIOUS
<1>9. Part(new, k) = Part(old, k)
  BY <1>7 DEF Part
<1>10. failed \in Nat
  BY <1>2, <1>3
<1>11. failed = 0 => Forgiven(new, k + 1)
  <2> SUFFICES ASSUME failed = 0, NEW i \in 1 .. (k + 1), new[i].size > 0, new[i].addr = NULL
               PROVE  \E j \in (i + 1) .. (k + 1) : new[j].size = 0
    BY DEF Forgiven
  <2>1. CASE al.addr = NULL
    <3>1. new[k + 1].size = 0
      BY <1>6, <1>7, <2>1
    <3>2. k + 1 \in (i + 1) .. (k + 1)
      <4>1. i # k + 1
        BY <3>1
      <4> QED BY <4>1
    <3> QED BY <3>1, <3>2
  <2>2. CASE al.addr # NULL
    <3>1. s.failed = 0 /\ i # k + 1
      BY <1>6, <1>7, <2>2
    <3>2. i \in 1 .. k /\ old[i].size > 0 /\ old[i].addr = NULL
      BY <1>7, <3>1
    <3>3. PICK j \in (i + 1) .. k : old[j].size = 0
      BY <1>2, <3>1, <3>2 DEF Forgiven
    <3>4. j \in 1 .. k /\ j \in (i + 1) .. (k + 1)
      OBVIOUS
    <3> QED BY <1>7, <3>3, <3>4
  <2> QED BY <2>1, <2>2
<1>12. \A i \in 1 .. k :
         /\ new[i].size = request[i].size
         /\ new[i].addr # NULL =>
              /\ new[i].size # 0 /\ Within(p, Extent(new[i]), request[i].attributes)
  <2>1. \A i \in 1 .. k :
          /\ old[i].size = request[i].size
          /\ old[i].addr # NULL =>
               /\ old[i].size # 0 /\ Within(p, Extent(old[i]), request[i].attributes)
    BY DEF ServedOK, old
  <2> QED BY <1>7, <2>1
<1>13. \A i, j \in 1 .. k :
         i # j /\ new[i].addr # NULL /\ new[j].addr # NULL
           => Extent(new[i]) \cap Extent(new[j]) = {}
  <2>1. \A i, j \in 1 .. k :
          i # j /\ old[i].addr # NULL /\ old[j].addr # NULL
            => Extent(old[i]) \cap Extent(old[j]) = {}
    BY DEF ServedOK, old
  <2> QED BY <1>7, <2>1
<1>14. new[k + 1].size = request[k + 1].size
  BY <1>6, <1>7 DEF n, e
<1>15. \A i \in 1 .. k : new[i].addr # NULL => Extent(new[i]) \subseteq Part(new, k)
  BY DEF Part
<1>16. CASE al.addr = NULL /\ al.pool = s.pool
  <2>1. new[k + 1].addr = NULL
    BY <1>6, <1>7, <1>16
  <2>2. Part(new, k + 1) = Part(old, k)
    BY <1>9, <2>1, PartGrows
  <2>3. \A i \in 1 .. (k + 1) :
         /\ new[i].size = request[i].size
         /\ new[i].addr # NULL =>
              /\ new[i].size # 0 /\ Within(p, Extent(new[i]), request[i].attributes)
    BY <1>8, <1>12, <1>14, <2>1
  <2>4. \A i, j \in 1 .. (k + 1) :
         i # j /\ new[i].addr # NULL /\ new[j].addr # NULL
           => Extent(new[i]) \cap Extent(new[j]) = {}
    BY <1>8, <1>13, <2>1
  <2> HIDE DEF failed
  <2>5. ServedOK(p, request, t, k + 1)
    BY <1>1, <1>2, <1>7, <1>10, <1>11, <1>16, <2>2, <2>3, <2>4, Zenon DEF ServedOK
  <2> QED BY <2>5 DEF t, e
<1>17. CASE al.addr # NULL /\ Took(s.pool, al.pool, al.addr, n, e.attributes)
  <2> DEFINE R == Extent(x)
  <2>1. /\ PoolOK(al.pool) /\ SameZones(s.pool, al.pool) /\ n # 0
        /\ R \subseteq PoolFree(s.pool) /\ PoolFree(al.pool) = PoolFree(s.pool) \ R
        /\ Within(s.pool, R, e.attributes)
    BY <1>6, <1>17 DEF Took
  <2>2. new[k + 1].addr # NULL /\ Extent(new[k + 1]) = R /\ new[k + 1].size # 0
    BY <1>6, <1>7, <1>17, <2>1
  <2> HIDE DEF R
  <2>3. Part(new, k + 1) = Part(old, k) \cup R
    BY <1>9, <2>2, PartGrows
  <2>4. Within(p, Extent(new[k + 1]), request[k + 1].attributes) /\ SameZones(p, al.pool)
    BY <1>2, <2>1, <2>2, WithinStays, ZonesStayTwice DEF e
  <2>5. \A i \in 1 .. (k + 1) :
         /\ new[i].size = request[i].size
         /\ new[i].addr # NULL =>
              /\ new[i].size # 0 /\ Within(p, Extent(new[i]), request[i].attributes)
    BY <1>8, <1>12, <1>14, <2>2, <2>4
  <2>6. \A i \in 1 .. k : new[i].addr # NULL => Extent(new[i]) \cap R = {}
    BY <1>2, <1>9, <1>15, <2>1
  <2>7. \A i, j \in 1 .. (k + 1) :
         i # j /\ new[i].addr # NULL /\ new[j].addr # NULL
           => Extent(new[i]) \cap Extent(new[j]) = {}
    BY <1>8, <1>13, <2>2, <2>6
  <2>8. /\ Part(new, k + 1) \subseteq PoolFree(p)
        /\ PoolFree(al.pool) = PoolFree(p) \ Part(new, k + 1)
    BY <1>2, <2>1, <2>3
  <2> HIDE DEF failed
  <2>9. ServedOK(p, request, t, k + 1)
    BY <1>1, <1>7, <1>10, <1>11, <2>1, <2>4, <2>5, <2>7, <2>8, Zenon DEF ServedOK
  <2> QED BY <2>9 DEF t, e
<1> QED BY <1>4, <1>16, <1>17

\* A request is a sequence.
RequestOK(request) ==
    /\ Len(request) \in Nat /\ DOMAIN request = 1 .. Len(request)
    /\ \A i \in DOMAIN request : request[i].size \in Nat

\* The whole loop.
LEMMA LoopServes ==
    ASSUME NEW p, PoolOK(p), NEW request, RequestOK(request), NEW reverse
    PROVE  ServedOK(p, request, Served(p, request, reverse), Len(request))
<1> DEFINE N == Len(request)
           s == ServedSteps(p, request, reverse)
           S == {k \in Nat : ServedOK(p, request, s[k], k)}
<1>1. /\ N \in Nat /\ DOMAIN request = 1 .. N
      /\ \A i \in DOMAIN request : request[i].size \in Nat
  BY DEF RequestOK
<1>2. /\ s[0] = [pool |-> p, entries |-> << >>, failed |-> 0]
      /\ \A k \in 1 .. N : s[k] = EntryServed(s[k - 1], request[k], reverse)
  BY <1>1, ServedTurns
<1> HIDE DEF s
<1>3. 0 \in S
  <2> DEFINE t == s[0]
             e == t.entries
  <2>1. t.pool = p /\ e = << >> /\ t.failed = 0
    BY <1>2
  <2>2. e \in Seq(Entries) /\ Len(e) = 0
    BY <2>1, EmptySeq
  <2>3. \A i \in 1 .. 0 : FALSE
    OBVIOUS
  <2> HIDE DEF t, e
  <2>4. Part(e, 0) = {} /\ Forgiven(e, 0) /\ SameZones(p, p)
    BY <2>3, PartGrows DEF Forgiven, SameZones
  <2>5. ServedOK(p, request, t, 0)
    <3>1. PoolOK(t.pool) /\ SameZones(p, t.pool) /\ t.failed \in Nat
      BY <2>1, <2>4
    <3>2. PoolFree(t.pool) = PoolFree(p) \ Part(e, 0) /\ Part(e, 0) \subseteq PoolFree(p)
      BY <2>1, <2>4
    <3> QED BY <2>2, <2>3, <2>4, <3>1, <3>2 DEF ServedOK, e
  <2> QED BY <2>5 DEF t
<1>4. ASSUME NEW k \in 0 .. (N - 1), k \in S
      PROVE  k + 1 \in S
  <2>1. k \in Nat /\ k + 1 \in DOMAIN request /\ 1 .. k \subseteq DOMAIN request
        /\ (k + 1) - 1 = k /\ k + 1 \in 1 .. N
    BY <1>1
  <2>2. s[k + 1] = EntryServed(s[k], request[k + 1], reverse)
    BY <1>2, <2>1
  <2>3. ServedOK(p, request, s[k], k)
    BY <1>4
  <2> HIDE DEF S, N
  <2>4. ServedOK(p, request, EntryServed(s[k], request[k + 1], reverse), k + 1)
    BY <1>1, <2>1, <2>3, TurnServes
  <2> QED BY <2>1, <2>2, <2>4 DEF S
<1> HIDE DEF S
<1>5. N \in S
  <2>1. \A k \in 0 .. N : k \in S
    BY <1>1, <1>3, <1>4, BoundedInduction
  <2> QED BY <1>1, <2>1
<1>6. Served(p, request, reverse) = s[N]
  BY DEF Served, s
<1> QED BY <1>5, <1>6 DEF S

-----------------------------------------------------------------------------
(* The calls.                                                              *)

\* A MemEntry has a size.
LEMMA MemEntrySize ==
    ASSUME NEW k \in Nat
    PROVE  MemEntryBytes(k) \in Nat \ {0}
<1>1. HeadBytes \in Nat \ {0} /\ EntryBytes \in Nat
  BY EntryAssumption
<1>2. EntryBytes * k \in Nat
  BY <1>1
<1> QED BY <1>1, <1>2 DEF MemEntryBytes

\* The blocks of a MemEntry: itself and its served entries.
ListBlock(l) == [addr |-> l.addr, size |-> MemEntryBytes(Len(l.entries)), attributes |-> {"public"}]
EntryBlock(l, i) == [addr |-> l.entries[i].addr, size |-> l.entries[i].size,
               attributes |-> l.request[i].attributes]

\* BlocksOf lists the MemEntry itself and every entry that was served.
LEMMA BlocksLinks ==
    ASSUME NEW l, l.entries \in Seq(Entries)
    PROVE  /\ Len(l.entries) \in Nat /\ DOMAIN l.entries = 1 .. Len(l.entries)
           /\ ListBlock(l) \in BlocksOf(l)
           /\ \A i \in 1 .. Len(l.entries) :
                 l.entries[i].addr # NULL => EntryBlock(l, i) \in BlocksOf(l)
           /\ \A b \in BlocksOf(l) :
                 \/ b = ListBlock(l)
                 \/ \E i \in 1 .. Len(l.entries) : l.entries[i].addr # NULL /\ b = EntryBlock(l, i)
           /\ Extent(ListBlock(l)) = Run(l.addr, RoundUp(MemEntryBytes(Len(l.entries))))
           /\ \A i : Extent(EntryBlock(l, i)) = Extent(l.entries[i])
           /\ Extents(BlocksOf(l)) = Part(l.entries, Len(l.entries)) \cup Extent(ListBlock(l))
<1>1. Len(l.entries) \in Nat /\ DOMAIN l.entries = 1 .. Len(l.entries)
  BY LenProperties
<1>2. \A b : b \in BlocksOf(l) <=>
                \/ b = ListBlock(l)
                \/ \E i \in 1 .. Len(l.entries) : l.entries[i].addr # NULL /\ b = EntryBlock(l, i)
  BY <1>1, Zenon DEF BlocksOf, ListBlock, EntryBlock
<1>3. /\ Extent(ListBlock(l)) = Run(l.addr, RoundUp(MemEntryBytes(Len(l.entries))))
      /\ \A i : Extent(EntryBlock(l, i)) = Extent(l.entries[i])
  BY DEF Extent, ListBlock, EntryBlock
<1>4. ASSUME NEW x
      PROVE  x \in Extents(BlocksOf(l))
               <=> x \in Part(l.entries, Len(l.entries)) \cup Extent(ListBlock(l))
  <2>1. x \in Extents(BlocksOf(l)) <=> \E b \in BlocksOf(l) : x \in Extent(b)
    BY DEF Extents
  <2>2. x \in Part(l.entries, Len(l.entries)) <=>
          \E i \in 1 .. Len(l.entries) : l.entries[i].addr # NULL /\ x \in Extent(l.entries[i])
    BY DEF Part
  <2> QED BY <1>2, <1>3, <2>1, <2>2
<1> QED BY <1>1, <1>2, <1>3, <1>4

\* An AllocEntry that has its MemEntry: what the loop leaves.
LEMMA EntryTook ==
    ASSUME NEW p, PoolOK(p), NEW request, RequestOK(request), NEW reverse,
           MemEntryAllocated(p, Len(request)).addr # NULL
    PROVE  LET me == MemEntryAllocated(p, Len(request))
               s  == Served(me.pool, request, reverse)
           IN  /\ Took(p, me.pool, me.addr, MemEntryBytes(Len(request)), {"public"})
               /\ ServedOK(me.pool, request, s, Len(request))
               /\ SameZones(p, s.pool)
<1> DEFINE n == MemEntryBytes(Len(request))
           me == MemEntryAllocated(p, Len(request))
           s == Served(me.pool, request, reverse)
<1>1. n \in Nat /\ n # 0
  BY MemEntrySize DEF RequestOK
<1>2. me = Allocated(p, n, {"public"}, FALSE)
  BY DEF MemEntryAllocated
<1> HIDE DEF n, me, s
<1>3. me.addr # NULL
  BY DEF me
<1>4. Took(p, me.pool, me.addr, n, {"public"})
  <2>1. \A a, up : Allocated(p, n, a, up).addr # NULL
                     => Took(p, Allocated(p, n, a, up).pool, Allocated(p, n, a, up).addr, n, a)
    BY <1>1, AllocatedSound
  <2> QED BY <1>2, <1>3, <2>1
<1>5. PoolOK(me.pool) /\ SameZones(p, me.pool)
  BY <1>4 DEF Took
<1>6. ServedOK(me.pool, request, s, Len(request))
  BY <1>5, LoopServes DEF s
<1>7. SameZones(p, s.pool)
  BY <1>5, <1>6, ZonesStayTwice DEF ServedOK
<1> QED BY <1>4, <1>6, <1>7 DEF n, me, s

\* An AllocEntry that gives up releases everything it took: every list and
\* every counter is as it was.
LEMMA RollsBack ==
    ASSUME NEW p, PoolOK(p), NEW request, RequestOK(request), NEW reverse,
           MemEntryAllocated(p, Len(request)).addr # NULL
    PROVE  LET me == MemEntryAllocated(p, Len(request))
               s  == Served(me.pool, request, reverse)
           IN  MultipleDeallocated(s.pool, me.addr, s.entries) = p
<1> DEFINE N == Len(request)
           n == MemEntryBytes(N)
           me == MemEntryAllocated(p, Len(request))
           s == Served(me.pool, request, reverse)
           e == s.entries
           R == Run(me.addr, RoundUp(n))
           P == Part(e, Len(e))
           q == MultipleDeallocated(s.pool, me.addr, e)
<1>1. /\ Took(p, me.pool, me.addr, n, {"public"})
      /\ ServedOK(me.pool, request, s, N) /\ SameZones(p, s.pool)
  BY EntryTook
<1> HIDE DEF s, me, n
<1>2. /\ PoolOK(me.pool) /\ SameZones(p, me.pool) /\ me.addr \in Nat /\ n \in Nat \ {0}
      /\ R \subseteq PoolFree(p) /\ PoolFree(me.pool) = PoolFree(p) \ R
      /\ Within(p, R, {"public"})
  BY <1>1 DEF Took
<1>3. /\ PoolOK(s.pool) /\ SameZones(me.pool, s.pool)
      /\ e \in Seq(Entries) /\ Len(e) = N
      /\ P \subseteq PoolFree(me.pool) /\ PoolFree(s.pool) = PoolFree(me.pool) \ P
  BY <1>1 DEF ServedOK
<1>4. DOMAIN e = 1 .. N
  BY <1>3, LenProperties
<1> HIDE DEF R
<1>5. \A i \in 1 .. N : e[i].addr # NULL => Extent(e[i]) \subseteq P
  BY <1>3 DEF Part
<1>6. ASSUME NEW i \in 1 .. N, e[i].addr # NULL
      PROVE  /\ e[i].size # 0 /\ \E a : Within(s.pool, Extent(e[i]), a)
             /\ Extent(e[i]) \cap PoolFree(s.pool) = {}
  <2>1. e[i].size # 0 /\ Within(me.pool, Extent(e[i]), request[i].attributes)
    BY <1>1, <1>6 DEF ServedOK
  <2>2. Within(s.pool, Extent(e[i]), request[i].attributes)
    BY <1>3, <2>1, WithinStays
  <2> QED BY <1>3, <1>5, <1>6, <2>1, <2>2
<1>7. \A i, j \in 1 .. N : i # j /\ e[i].addr # NULL /\ e[j].addr # NULL
                             => Extent(e[i]) \cap Extent(e[j]) = {}
  BY <1>1 DEF ServedOK
<1> HIDE DEF e, P, q
<1>8. Releasable(s.pool, e)
  BY <1>3, <1>4, <1>6, <1>7 DEF Releasable
<1>9. /\ Within(s.pool, R, {"public"}) /\ R \cap PoolFree(s.pool) = {} /\ R \cap P = {}
  BY <1>1, <1>2, <1>3, WithinStays
<1>10. R = Run(me.addr, RoundUp(MemEntryBytes(Len(e)))) /\ MemEntryBytes(Len(e)) \in Nat \ {0}
  BY <1>2, <1>3 DEF R, n
<1>11. PoolOK(q) /\ SameZones(s.pool, q) /\ PoolFree(q) = PoolFree(s.pool) \cup P \cup R
  BY <1>2, <1>3, <1>8, <1>9, <1>10, MultipleDeallocatedSound DEF P, q
<1>12. PoolFree(q) = PoolFree(p)
  BY <1>2, <1>3, <1>11
<1>13. SameZones(p, q)
  BY <1>1, <1>11, ZonesStayTwice
<1>14. q = p
  BY <1>11, <1>12, <1>13, PoolSame
<1> QED BY <1>14 DEF q, e, s, me

\* MemEntries stay what they are while clients hold more blocks, ...
LEMMA ListsStay ==
    ASSUME NEW o, NEW ls, ListsOK(o, ls), NEW u, o \subseteq u
    PROVE  ListsOK(u, ls)
BY DEF ListsOK

\* ... and while they release blocks that no MemEntry lists.
LEMMA ListsStayWithout ==
    ASSUME NEW o, NEW ls, ListsOK(o, ls), NEW B, NEW ks, ks \subseteq ls,
           \A k \in ks : BlocksOf(k) \cap B = {}
    PROVE  ListsOK(o \ B, ks)
BY DEF ListsOK

\* A call that takes one block, or none.
LEMMA TakeStep ==
    ASSUME PoolInv, UNCHANGED lists, NEW m, NEW n, NEW a, Keep(n, a, m),
           (m = NULL /\ pool' = pool) \/ Took(pool, pool', m, n, a)
    PROVE  PoolInv'
<1>1. /\ PoolOK(pool) /\ ByPriority(pool) /\ BlocksOK(pool, owned) /\ ListsOK(owned, lists)
      /\ ZonesOf(pool) \subseteq Zones
  BY DEF PoolInv
<1>2. CASE m = NULL /\ pool' = pool
  <2>1. owned' = owned /\ pool' = pool /\ lists' = lists
    BY <1>2 DEF Keep
  <2> QED BY <1>1, <2>1 DEF PoolInv
<1>3. CASE Took(pool, pool', m, n, a)
  <2>1. PoolOK(pool') /\ SameZones(pool, pool') /\ m # NULL
    BY <1>3 DEF Took, NULL
  <2>2. owned' = owned \cup {[addr |-> m, size |-> n, attributes |-> a]}
    BY <2>1 DEF Keep
  <2>3. BlocksOK(pool', owned')
    BY <1>1, <1>3, <2>2, TakeOne
  <2>4. ByPriority(pool') /\ ZonesOf(pool') \subseteq Zones
    BY <1>1, <2>1, ZonesStay
  <2>5. ListsOK(owned', lists)
    BY <1>1, <2>2, ListsStay
  <2>6. ListsOK(owned', lists')
    BY <2>5
  <2> QED BY <2>1, <2>3, <2>4, <2>6 DEF PoolInv
<1> QED BY <1>2, <1>3

\* AddMemList of a zone that is not in the pool yet.
LEMMA AddMemListStep ==
    ASSUME PoolInv, NEW z \in Zones \ Added, AddMemList(z), UNCHANGED lists
    PROVE  PoolInv'
<1>1. /\ PoolOK(pool) /\ ByPriority(pool) /\ BlocksOK(pool, owned) /\ ListsOK(owned, lists)
      /\ ZonesOf(pool) \subseteq Zones
  BY DEF PoolInv
<1>2. pool' = Enqueue(pool, NewHeap(z)) /\ owned' = owned /\ lists' = lists
  BY DEF AddMemList
<1>3. IsZone(z) /\ Managed(z) \cap PoolManaged(pool) = {}
  <2>1. z \in Zones \ ZonesOf(pool)
    BY DEF Added, ZonesOf
  <2>2. ASSUME NEW i \in DOMAIN pool PROVE Managed(z) \cap Managed(pool[i].zone) = {}
    <3>1. pool[i].zone \in Zones /\ pool[i].zone # z
      BY <1>1, <2>1 DEF ZonesOf
    <3> QED BY <2>1, <3>1, AddableZones
  <2> QED BY <2>1, <2>2, AddableZones DEF PoolManaged
<1>4. /\ PoolOK(pool')
      /\ PoolFree(pool') = PoolFree(pool) \cup Managed(z)
      /\ PoolManaged(pool') = PoolManaged(pool) \cup Managed(z)
      /\ ZonesOf(pool') = ZonesOf(pool) \cup {z}
      /\ \A R, a : Within(pool, R, a) => Within(pool', R, a)
      /\ ByPriority(pool) => ByPriority(pool')
  BY <1>1, <1>2, <1>3, EnqueueSound, Zenon
<1>5. BlocksOK(pool', owned)
  BY <1>1, <1>3, <1>4, JoinBlocks
<1> QED BY <1>1, <1>2, <1>4, <1>5 DEF PoolInv

\* AllocMem.
LEMMA AllocMemStep ==
    ASSUME PoolInv, NEW n \in Requests, NEW a \in Wanted, NEW reverse \in BOOLEAN,
           AllocMem(n, a, reverse), UNCHANGED lists
    PROVE  PoolInv'
<1> DEFINE t == Allocated(pool, n, a, reverse)
<1>1. PoolOK(pool) /\ n \in Nat
  BY PoolAssumption DEF PoolInv
<1>2. pool' = t.pool /\ Keep(n, a, t.addr)
  BY DEF AllocMem
<1>3. (t.addr = NULL /\ t.pool = pool) \/ Took(pool, t.pool, t.addr, n, a)
  BY <1>1, AllocatedSound
<1> HIDE DEF t
<1> QED BY <1>2, <1>3, TakeStep

\* AllocAbs of a block that shares an end with its chunk.
LEMMA AllocAbsStep ==
    ASSUME PoolInv, NEW n \in Requests, NEW m \in Targets,
           AtAnEdge(m, n), AllocAbs(m, n), UNCHANGED lists
    PROVE  PoolInv'
<1>1. PoolOK(pool) /\ n \in Nat
  BY PoolAssumption DEF PoolInv
<1>2. m \in Nat
  <2>1. PICK z \in Added : m \in Run(z.base, z.size)
    BY DEF Targets
  <2>2. IsZone(z)
    BY <1>1, <2>1, PoolLinks DEF Added
  <2>3. z.base \in Nat /\ z.size \in Nat
    BY <2>2, ZoneAddresses
  <2> QED BY <2>1, <2>3 DEF Run
<1>3. CASE UNCHANGED <<pool, owned>>
  BY <1>3 DEF PoolInv
<1>4. ASSUME NEW i \in Containing(pool, m), ~Refuses(pool[i].free, n),
             NEW c \in FirstHolding(pool[i].chunks, m, RoundUp(n)),
             pool' = CutAt(pool, i, c, m, n), Keep(n, {}, m)
      PROVE  PoolInv'
  <2>1. m = pool[i].chunks[c].start \/ m + RoundUp(n) = End(pool[i].chunks[c])
    BY <1>4 DEF AtAnEdge
  <2>2. Took(pool, pool', m, n, {})
    BY <1>1, <1>2, <1>4, <2>1, CutAtSound
  <2> QED BY <1>4, <2>2, TakeStep
<1>5. \/ UNCHANGED <<pool, owned>>
      \/ \E i \in Containing(pool, m) :
           /\ ~Refuses(pool[i].free, n)
           /\ \E c \in FirstHolding(pool[i].chunks, m, RoundUp(n)) :
                pool' = CutAt(pool, i, c, m, n)
           /\ Keep(n, {}, m)
  BY Zenon DEF AllocAbs, CutAt
<1> QED BY <1>3, <1>4, <1>5

\* FreeMem of a block that is not part of a MemEntry.
LEMMA FreeMemStep ==
    ASSUME PoolInv, NEW b \in Loose, FreeMem(b), UNCHANGED lists
    PROVE  PoolInv'
<1> DEFINE q == Deallocated(pool, b.addr, b.size)
           B == {b}
<1>1. /\ PoolOK(pool) /\ ByPriority(pool) /\ BlocksOK(pool, owned) /\ ListsOK(owned, lists)
      /\ ZonesOf(pool) \subseteq Zones
  BY DEF PoolInv
<1>2. pool' = q /\ owned' = owned \ B /\ lists' = lists
  BY DEF FreeMem
<1>3. b \in owned /\ \A l \in lists : b \notin BlocksOf(l)
  BY DEF Loose
<1>4. /\ b.addr \in Nat /\ b.size \in Nat /\ b.size # 0
      /\ Within(pool, Extent(b), b.attributes) /\ Extent(b) \cap PoolFree(pool) = {}
      /\ Extent(b) = Run(b.addr, RoundUp(b.size))
  BY <1>1, <1>3 DEF BlocksOK, Extent
<1>5. PoolOK(q) /\ SameZones(pool, q) /\ PoolFree(q) = PoolFree(pool) \cup Extent(b)
  <2> DEFINE m == b.addr
             n == b.size
  <2>1. /\ m \in Nat /\ n \in Nat /\ n # 0 /\ Within(pool, Run(m, RoundUp(n)), b.attributes)
        /\ Run(m, RoundUp(n)) \cap PoolFree(pool) = {} /\ Extent(b) = Run(m, RoundUp(n))
    BY <1>4
  <2> HIDE DEF m, n
  <2>2. /\ PoolOK(Deallocated(pool, m, n)) /\ SameZones(pool, Deallocated(pool, m, n))
        /\ PoolFree(Deallocated(pool, m, n)) = PoolFree(pool) \cup Run(m, RoundUp(n))
    BY <1>1, <2>1, DeallocatedSound
  <2> QED BY <2>1, <2>2 DEF m, n
<1>6. Extents(B) = Extent(b) /\ B \subseteq owned
  BY <1>3 DEF Extents
<1>7. \A l \in lists : BlocksOf(l) \cap B = {}
  BY <1>3
<1> HIDE DEF q, B
<1>8. BlocksOK(q, owned \ B)
  BY <1>1, <1>5, <1>6, ReturnBlocks
<1>9. ByPriority(q) /\ ZonesOf(q) \subseteq Zones
  BY <1>1, <1>5, ZonesStay
<1>10. ListsOK(owned \ B, lists)
  <2>1. lists \subseteq lists
    OBVIOUS
  <2> QED BY <1>1, <1>7, <2>1, ListsStayWithout
<1> QED BY <1>2, <1>5, <1>8, <1>9, <1>10 DEF PoolInv

\* AllocEntry hands out a MemEntry and its blocks, or leaves all as it was.
LEMMA AllocEntryStep ==
    ASSUME PoolInv, NEW request \in RequestLists, AllocEntryCall(request)
    PROVE  PoolInv'
<1> DEFINE N == Len(request)
           n == MemEntryBytes(N)
           me == MemEntryAllocated(pool, N)
<1>1. /\ PoolOK(pool) /\ ByPriority(pool) /\ BlocksOK(pool, owned) /\ ListsOK(owned, lists)
      /\ ZonesOf(pool) \subseteq Zones
  BY DEF PoolInv
<1>2. RequestOK(request) /\ N \in Nat
  BY EntryAssumption DEF RequestOK
<1>3. CASE UNCHANGED <<pool, owned, lists>>
  BY <1>3 DEF PoolInv
<1>4. ASSUME me.addr # NULL, NEW reverse \in OptionsRead(request),
             NEW s, s = Served(me.pool, request, reverse),
             NEW l, l = [addr |-> me.addr, entries |-> s.entries,
                         request |-> request, reverse |-> reverse],
             pool' = s.pool, lists' = lists \cup {l}, owned' = owned \cup BlocksOf(l)
      PROVE  PoolInv'
  <2> DEFINE e == s.entries
             R == Run(me.addr, RoundUp(n))
             P == Part(e, N)
             B == BlocksOf(l)
  <2>1. /\ Took(pool, me.pool, me.addr, n, {"public"})
        /\ ServedOK(me.pool, request, s, N) /\ SameZones(pool, s.pool)
    BY <1>1, <1>2, <1>4, EntryTook
  <2> HIDE DEF me, n
  <2>2. /\ SameZones(pool, me.pool) /\ me.addr \in Nat \ {0} /\ n \in Nat \ {0}
        /\ R \subseteq PoolFree(pool) /\ PoolFree(me.pool) = PoolFree(pool) \ R
        /\ Within(pool, R, {"public"})
    BY <2>1 DEF Took
  <2>3. /\ PoolOK(s.pool) /\ e \in Seq(Entries) /\ Len(e) = N
        /\ P \subseteq PoolFree(me.pool) /\ PoolFree(s.pool) = PoolFree(me.pool) \ P
        /\ \A i, j \in 1 .. N : i # j /\ e[i].addr # NULL /\ e[j].addr # NULL
                                  => Extent(e[i]) \cap Extent(e[j]) = {}
    BY <2>1 DEF ServedOK
  <2>4. l.addr = me.addr /\ l.entries = e /\ l.request = request
    BY <1>4
  <2>5. /\ DOMAIN e = 1 .. N /\ ListBlock(l) \in B
        /\ \A b \in B : \/ b = ListBlock(l)
                        \/ \E i \in 1 .. N : e[i].addr # NULL /\ b = EntryBlock(l, i)
        /\ Extent(ListBlock(l)) = R
        /\ \A i : Extent(EntryBlock(l, i)) = Extent(e[i])
        /\ Extents(B) = P \cup R
    BY <2>3, <2>4, BlocksLinks DEF n
  <2>6. \A i \in 1 .. N : e[i].addr # NULL =>
          /\ e[i].addr \in Nat \ {0} /\ e[i].size \in Nat \ {0}
          /\ Within(pool, Extent(e[i]), request[i].attributes)
    <3> SUFFICES ASSUME NEW i \in 1 .. N, e[i].addr # NULL
                 PROVE  /\ e[i].addr \in Nat \ {0} /\ e[i].size \in Nat \ {0}
                        /\ Within(pool, Extent(e[i]), request[i].attributes)
      OBVIOUS
    <3>1. e[i].size # 0 /\ Within(me.pool, Extent(e[i]), request[i].attributes)
      BY <2>1 DEF ServedOK
    <3>2. e[i] \in Entries
      BY <2>3, <2>5, ElementOfSeq
    <3>3. Within(pool, Extent(e[i]), request[i].attributes)
      BY <2>2, <3>1, WithinStays
    <3> QED BY <3>1, <3>2, <3>3 DEF Entries, NULL
  <2>7. \A i \in 1 .. N : e[i].addr # NULL =>
          Extent(e[i]) \subseteq P /\ Extent(e[i]) \cap R = {}
    <3>1. \A i \in 1 .. N : e[i].addr # NULL => Extent(e[i]) \subseteq P
      BY DEF Part
    <3> HIDE DEF P, R
    <3> QED BY <2>2, <2>3, <3>1
  <2>8. ListBlock(l).addr = me.addr /\ ListBlock(l).size = n /\ ListBlock(l).attributes = {"public"}
    BY <2>3, <2>4 DEF ListBlock, n
  <2>9. \A i : /\ EntryBlock(l, i).addr = e[i].addr /\ EntryBlock(l, i).size = e[i].size
               /\ EntryBlock(l, i).attributes = request[i].attributes
    BY <2>4 DEF EntryBlock
  <2> HIDE DEF R, P, B, e
  <2>10. \A b \in B : /\ b.addr \in Nat \ {0} /\ b.size \in Nat \ {0}
                      /\ Within(pool, Extent(b), b.attributes)
    <3> SUFFICES ASSUME NEW b \in B
                 PROVE  /\ b.addr \in Nat \ {0} /\ b.size \in Nat \ {0}
                        /\ Within(pool, Extent(b), b.attributes)
      OBVIOUS
    <3>1. CASE b = ListBlock(l)
      BY <2>2, <2>5, <2>8, <3>1
    <3>2. ASSUME NEW i \in 1 .. N, e[i].addr # NULL, b = EntryBlock(l, i)
          PROVE  /\ b.addr \in Nat \ {0} /\ b.size \in Nat \ {0}
                 /\ Within(pool, Extent(b), b.attributes)
      BY <2>5, <2>6, <2>9, <3>2
    <3> QED BY <2>5, <3>1, <3>2
  <2>11. \A b, c \in B : b # c => Extent(b) \cap Extent(c) = {}
    <3> SUFFICES ASSUME NEW b \in B, NEW c \in B, b # c PROVE Extent(b) \cap Extent(c) = {}
      OBVIOUS
    <3>1. CASE b = ListBlock(l)
      BY <2>5, <2>7, <3>1
    <3>2. CASE c = ListBlock(l)
      BY <2>5, <2>7, <3>2
    <3>3. CASE b # ListBlock(l) /\ c # ListBlock(l)
      <4>1. PICK i \in 1 .. N : e[i].addr # NULL /\ b = EntryBlock(l, i)
        BY <2>5, <3>3
      <4>2. PICK j \in 1 .. N : e[j].addr # NULL /\ c = EntryBlock(l, j)
        BY <2>5, <3>3
      <4>3. i # j
        BY <4>1, <4>2
      <4>4. Extent(e[i]) \cap Extent(e[j]) = {}
        BY <2>3, <4>1, <4>2, <4>3 DEF e
      <4> QED BY <2>5, <4>1, <4>2, <4>4
    <3> QED BY <3>1, <3>2, <3>3
  <2>12. Extents(B) \subseteq PoolFree(pool) /\ PoolFree(s.pool) = PoolFree(pool) \ Extents(B)
    BY <2>2, <2>3, <2>5
  <2>13. BlocksOK(s.pool, owned \cup B) /\ B \cap owned = {}
    BY <1>1, <2>1, <2>10, <2>11, <2>12, TakeBlocks
  <2>14. ListsOK(owned \cup B, lists)
    BY <1>1, ListsStay
  <2>15. EntriesApart(l)
    <3>1. l.addr \in Nat /\ Run(l.addr, RoundUp(MemEntryBytes(Len(l.entries)))) = R
      BY <2>2, <2>3, <2>4 DEF R, n, e
    <3>2. /\ l.entries \in Seq(Entries) /\ DOMAIN l.entries = 1 .. N
          /\ \A i, j \in 1 .. N :
               i # j /\ l.entries[i].addr # NULL /\ l.entries[j].addr # NULL
                 => Extent(l.entries[i]) \cap Extent(l.entries[j]) = {}
      BY <2>3, <2>4, <2>5 DEF e
    <3>3. \A i \in 1 .. N : l.entries[i].addr # NULL => Extent(l.entries[i]) \cap R = {}
      BY <2>4, <2>7
    <3> QED BY <3>1, <3>2, <3>3 DEF EntriesApart, Entries
  <2>16. \A k \in lists : BlocksOf(k) \cap B = {}
    <3>1. \A k \in lists : BlocksOf(k) \subseteq owned
      BY <1>1 DEF ListsOK
    <3> QED BY <2>13, <3>1
  <2>17. ListsOK(owned \cup B, lists \cup {l})
    BY <2>4, <2>14, <2>15, <2>16 DEF ListsOK, B
  <2>18. ByPriority(s.pool) /\ ZonesOf(s.pool) \subseteq Zones
    BY <1>1, <2>1, ZonesStay
  <2> QED BY <1>4, <2>3, <2>13, <2>17, <2>18 DEF PoolInv, B
<1>5. ASSUME me.addr # NULL, NEW reverse \in OptionsRead(request),
             NEW s, s = Served(me.pool, request, reverse),
             pool' = MultipleDeallocated(s.pool, me.addr, s.entries),
             UNCHANGED <<owned, lists>>
      PROVE  PoolInv'
  <2>1. pool' = pool
    BY <1>1, <1>2, <1>5, RollsBack
  <2> QED BY <1>5, <2>1 DEF PoolInv
<1> QED BY <1>3, <1>4, <1>5 DEF AllocEntryCall

\* FreeEntry gives back what AllocEntry took, block by block.
LEMMA FreeEntryStep ==
    ASSUME PoolInv, NEW l \in lists, FreeEntry(l)
    PROVE  PoolInv'
<1> DEFINE e == l.entries
           N == Len(e)
           R == Run(l.addr, RoundUp(MemEntryBytes(N)))
           B == BlocksOf(l)
           q == MultipleDeallocated(pool, l.addr, e)
<1>1. /\ PoolOK(pool) /\ ByPriority(pool) /\ BlocksOK(pool, owned) /\ ListsOK(owned, lists)
      /\ ZonesOf(pool) \subseteq Zones
  BY DEF PoolInv
<1>2. pool' = q /\ owned' = owned \ B /\ lists' = lists \ {l}
  BY DEF FreeEntry
<1>3. EntriesApart(l) /\ B \subseteq owned
  BY <1>1 DEF ListsOK
<1>4. /\ e \in Seq(Entries) /\ l.addr \in Nat
      /\ \A i, j \in DOMAIN e : i # j /\ e[i].addr # NULL /\ e[j].addr # NULL
                                  => Extent(e[i]) \cap Extent(e[j]) = {}
      /\ \A i \in DOMAIN e : e[i].addr # NULL => Extent(e[i]) \cap R = {}
  BY <1>3 DEF EntriesApart, Entries
<1>5. /\ N \in Nat /\ DOMAIN e = 1 .. N /\ ListBlock(l) \in B
      /\ \A i \in 1 .. N : e[i].addr # NULL => EntryBlock(l, i) \in B
      /\ Extent(ListBlock(l)) = R
      /\ \A i : Extent(EntryBlock(l, i)) = Extent(e[i])
      /\ Extents(B) = Part(e, N) \cup R
  BY <1>4, BlocksLinks
<1>6. MemEntryBytes(N) \in Nat \ {0}
  BY <1>5, MemEntrySize
<1>7. \A b \in B : /\ b.size # 0 /\ Within(pool, Extent(b), b.attributes)
                   /\ Extent(b) \cap PoolFree(pool) = {}
  BY <1>1, <1>3 DEF BlocksOK
<1> HIDE DEF B, q
<1>8. ASSUME NEW i \in DOMAIN e, e[i].addr # NULL
      PROVE  /\ e[i].size # 0 /\ \E a : Within(pool, Extent(e[i]), a)
             /\ Extent(e[i]) \cap PoolFree(pool) = {}
  <2>1. EntryBlock(l, i) \in B /\ EntryBlock(l, i).size = e[i].size
    BY <1>5, <1>8 DEF EntryBlock
  <2> QED BY <1>5, <1>7, <2>1
<1>9. Releasable(pool, e)
  BY <1>4, <1>8 DEF Releasable
<1>10. Within(pool, R, ListBlock(l).attributes) /\ R \cap PoolFree(pool) = {}
  BY <1>5, <1>7
<1>11. R \cap Part(e, N) = {}
  BY <1>4, <1>5 DEF Part
<1> HIDE DEF R
<1>12. PoolOK(q) /\ SameZones(pool, q) /\ PoolFree(q) = PoolFree(pool) \cup Part(e, N) \cup R
  BY <1>1, <1>4, <1>6, <1>9, <1>10, <1>11, MultipleDeallocatedSound DEF q, R
<1>13. PoolFree(q) = PoolFree(pool) \cup Extents(B)
  BY <1>5, <1>12
<1>14. BlocksOK(q, owned \ B)
  BY <1>1, <1>3, <1>12, <1>13, ReturnBlocks DEF B
<1>15. ListsOK(owned \ B, lists \ {l})
  <2>1. \A k \in lists \ {l} : BlocksOf(k) \cap B = {}
    BY <1>1 DEF ListsOK, B
  <2>2. lists \ {l} \subseteq lists
    OBVIOUS
  <2> QED BY <1>1, <2>1, <2>2, ListsStayWithout
<1>16. ByPriority(q) /\ ZonesOf(q) \subseteq Zones
  BY <1>1, <1>12, ZonesStay
<1> QED BY <1>2, <1>12, <1>14, <1>15, <1>16 DEF PoolInv

-----------------------------------------------------------------------------
(* The theorems.                                                           *)

\* A pool without zones.
LEMMA NoZones ==
    PoolOK(<< >>) /\ ByPriority(<< >>) /\ ZonesOf(<< >>) = {} /\ DOMAIN << >> = {}
<1>1. DOMAIN << >> = {} /\ << >> \in Seq(HeapsOf(<< >>))
  OBVIOUS
<1> QED BY <1>1 DEF PoolOK, ByPriority, ZonesOf

\* An empty pool of which nothing is handed out.
LEMMA PoolInit == EntryInit => PoolInv
<1> SUFFICES ASSUME EntryInit PROVE PoolInv
  OBVIOUS
<1>1. pool = << >> /\ owned = {} /\ lists = {}
  BY DEF EntryInit, Init
<1>4. PoolOK(pool) /\ ByPriority(pool) /\ ZonesOf(pool) = {} /\ DOMAIN pool = {}
  BY <1>1, NoZones
<1>5. PoolManaged(pool) = {}
  BY <1>4 DEF PoolManaged
<1>6. BlocksOK(pool, owned)
  BY <1>1, <1>5 DEF BlocksOK
<1>7. ListsOK(owned, lists)
  BY <1>1 DEF ListsOK
<1> QED BY <1>4, <1>6, <1>7 DEF PoolInv

\* Every call keeps the invariant.
LEMMA PoolStep == PoolInv /\ [EntryNext]_entryVars => PoolInv'
<1> SUFFICES ASSUME PoolInv, [EntryNext]_entryVars PROVE PoolInv'
  OBVIOUS
<1>1. CASE UNCHANGED entryVars
  BY <1>1 DEF entryVars, PoolInv
<1>2. CASE \E z \in Zones \ Added : AddMemList(z) /\ UNCHANGED lists
  BY <1>2, AddMemListStep
<1>3. CASE \E n \in Requests, a \in Wanted, reverse \in BOOLEAN :
             AllocMem(n, a, reverse) /\ UNCHANGED lists
  BY <1>3, AllocMemStep
<1>4. CASE \E n \in Requests, m \in Targets :
             AtAnEdge(m, n) /\ AllocAbs(m, n) /\ UNCHANGED lists
  BY <1>4, AllocAbsStep
<1>5. CASE \E b \in Loose : FreeMem(b) /\ UNCHANGED lists
  BY <1>5, FreeMemStep
<1>6. CASE \E r \in RequestLists : AllocEntryCall(r)
  BY <1>6, AllocEntryStep
<1>7. CASE \E l \in lists : FreeEntry(l)
  BY <1>7, FreeEntryStep
<1> QED BY <1>1, <1>2, <1>3, <1>4, <1>5, <1>6, <1>7 DEF EntryNext

\* The invariant of the pool, over every history of AddMemList, AllocMem,
\* AllocAbs, FreeMem, AllocEntry and FreeEntry.
THEOREM PoolInvariant == EntrySpec => []PoolInv
BY PoolInit, PoolStep, PTL DEF EntrySpec

\* Zone by zone, the free list and the blocks handed out from that zone
\* partition its addresses: whatever was added, allocated and freed, in
\* whatever zones, by single calls or by MemEntries (Heap and HeapList,
\* memory.cpp).
THEOREM NothingLostAnywhere == EntrySpec => []ZonesPartitioned
<1>1. PoolInv => ZonesPartitioned
  <2> SUFFICES ASSUME PoolInv PROVE ZonesPartitioned
    OBVIOUS
  <2>1. PoolOK(pool) /\ BlocksOK(pool, owned)
    BY DEF PoolInv
  <2>2. ASSUME NEW b \in owned
        PROVE  /\ Extent(b) \subseteq PoolManaged(pool)
               /\ \E i \in DOMAIN pool : b.addr \in Managed(pool[i].zone)
                                         /\ Extent(b) \subseteq Managed(pool[i].zone)
               /\ b.addr \in Int
    <3>1. b.addr \in Nat \ {0} /\ b.size \in Nat \ {0} /\ Within(pool, Extent(b), b.attributes)
      BY <2>1 DEF BlocksOK
    <3>2. b.addr \in Extent(b)
      BY <3>1, ExtentNotEmpty
    <3> QED BY <3>1, <3>2 DEF Within, PoolManaged
  <2>3. ASSUME NEW b \in owned, NEW i \in DOMAIN pool
        PROVE  Contains(pool[i], b.addr) <=> Extent(b) \subseteq Managed(pool[i].zone)
    <3>1. Contains(pool[i], b.addr) <=> i \in Containing(pool, b.addr)
      BY DEF Containing
    <3>2. PICK j \in DOMAIN pool : b.addr \in Managed(pool[j].zone)
                                   /\ Extent(b) \subseteq Managed(pool[j].zone)
      BY <2>2
    <3>3. Containing(pool, b.addr) = {j}
      BY <2>1, <3>2, OnlyZone
    <3>4. b.addr \in Extent(b)
      <4>1. b.addr \in Nat \ {0} /\ b.size \in Nat \ {0}
        BY <2>1 DEF BlocksOK
      <4> QED BY <4>1, ExtentNotEmpty
    <3>5. i # j => Managed(pool[i].zone) \cap Managed(pool[j].zone) = {}
      BY <2>1, PoolLinks
    <3> QED BY <3>1, <3>2, <3>3, <3>4, <3>5
  <2>4. ASSUME NEW i \in DOMAIN pool
        PROVE  LET z    == pool[i].zone
                   held == {b \in owned : Contains(pool[i], b.addr)}
               IN  /\ FreeBytes(pool[i].chunks) \cup UNION {Extent(b) : b \in held}
                         = Lower(z) .. (Upper(z) - 1)
                   /\ \A b \in held : Extent(b) \cap FreeBytes(pool[i].chunks) = {}
                   /\ Separated(pool[i].chunks)
    <3> DEFINE M == Managed(pool[i].zone)
               F == FreeBytes(pool[i].chunks)
               held == {b \in owned : Contains(pool[i], b.addr)}
    <3>1. F \subseteq M /\ HeapOK(pool[i]) /\ F \subseteq PoolFree(pool)
      BY <2>1, PoolLinks DEF PoolFree
    <3>2. \A b \in held : b \in owned /\ Extent(b) \subseteq M
      BY <2>3
    <3>3. \A b \in owned : Extent(b) \cap PoolFree(pool) = {}
      BY <2>1 DEF BlocksOK
    <3>4. M \subseteq PoolFree(pool) \cup Extents(owned)
      BY <2>1 DEF BlocksOK, PoolManaged
    <3>5. ASSUME NEW x \in M, x \in PoolFree(pool) PROVE x \in F
      <4>1. PICK j \in DOMAIN pool : x \in FreeBytes(pool[j].chunks)
        BY <3>5 DEF PoolFree
      <4>2. x \in Managed(pool[j].zone)
        BY <2>1, <4>1, PoolLinks
      <4>3. i = j
        BY <2>1, <4>2, <3>5, PoolLinks
      <4> QED BY <4>1, <4>3
    <3>6. ASSUME NEW x \in M, NEW b \in owned, x \in Extent(b) PROVE b \in held
      <4>1. PICK j \in DOMAIN pool : Extent(b) \subseteq Managed(pool[j].zone)
        BY <2>2
      <4>2. i = j
        BY <2>1, <3>6, <4>1, PoolLinks
      <4> QED BY <2>3, <4>1, <4>2
    <3> HIDE DEF M, F, held
    <3>7. F \cup UNION {Extent(b) : b \in held} = M
      <4>1. ASSUME NEW x \in M PROVE x \in F \cup UNION {Extent(b) : b \in held}
        <5>1. CASE x \in PoolFree(pool)
          BY <3>5, <5>1
        <5>2. CASE x \in Extents(owned)
          BY <3>6, <5>2 DEF Extents
        <5> QED BY <3>4, <5>1, <5>2
      <4> QED BY <3>1, <3>2, <4>1
    <3>8. \A b \in held : Extent(b) \cap F = {}
      BY <3>1, <3>2, <3>3
    <3>9. Separated(pool[i].chunks)
      BY <3>1 DEF HeapOK, ChunkList
    <3> QED BY <3>7, <3>8, <3>9 DEF M, F, held, Managed
  <2>5. \A b, c \in owned : b # c => Extent(b) \cap Extent(c) = {}
    BY <2>1 DEF BlocksOK
  <2>6. ASSUME NEW b \in owned PROVE Containing(pool, b.addr) # {}
    <3>1. PICK j \in DOMAIN pool : Extent(b) \subseteq Managed(pool[j].zone)
      BY <2>2
    <3> QED BY <2>3, <3>1 DEF Containing
  <2> QED BY <2>4, <2>5, <2>6 DEF ZonesPartitioned
<1> QED BY <1>1, PoolInvariant, PTL

\* Memory asked for with requirements is, as long as it is held, in a zone
\* that TypeOfMem says has them.
THEOREM RequirementsHold == EntrySpec => []RequirementsHonoured
<1>1. PoolInv => RequirementsHonoured
  <2> SUFFICES ASSUME PoolInv, NEW b \in owned
               PROVE  b.attributes \subseteq TypeOf(pool, b.addr)
    BY DEF RequirementsHonoured
  <2>1. PoolOK(pool) /\ BlocksOK(pool, owned)
    BY DEF PoolInv
  <2>2. b.addr \in Nat \ {0} /\ b.size \in Nat \ {0} /\ Within(pool, Extent(b), b.attributes)
    BY <2>1 DEF BlocksOK
  <2>3. b.addr \in Extent(b)
    BY <2>2, ExtentNotEmpty
  <2>4. PICK i \in DOMAIN pool : b.addr \in Managed(pool[i].zone)
                                 /\ b.attributes \subseteq pool[i].zone.attributes
    BY <2>2, <2>3 DEF Within
  <2>5. TypeOf(pool, b.addr) = pool[i].zone.attributes
    BY <2>1, <2>4, OnlyZone
  <2> QED BY <2>4, <2>5
<1> QED BY <1>1, PoolInvariant, PTL

\* The zones and the MemEntries are what the code takes them for; MemEntries
\* never share a block.
THEOREM EntryTypes == EntrySpec => []EntryTypeOK
<1>1. PoolInv => EntryTypeOK
  <2> SUFFICES ASSUME PoolInv PROVE EntryTypeOK
    OBVIOUS
  <2>1. PoolOK(pool) /\ ListsOK(owned, lists) /\ ZonesOf(pool) \subseteq Zones
    BY DEF PoolInv
  <2>2. ASSUME NEW i \in DOMAIN pool
        PROVE  /\ pool[i].zone \in Zones
               /\ pool[i].free \in 0 .. (pool[i].zone.size - HeaderSize)
               /\ \A q \in DOMAIN pool[i].chunks : pool[i].chunks[q].size > 0
    <3>1. HeapOK(pool[i]) /\ pool[i].zone \in Zones
      BY <2>1, PoolLinks DEF ZonesOf
    <3>2. pool[i].free \in 0 .. (pool[i].zone.size - HeaderSize)
      BY <3>1, FreeRange
    <3>3. ChunkList(pool[i].chunks)
      BY <3>1 DEF HeapOK
    <3>4. \A q \in DOMAIN pool[i].chunks : pool[i].chunks[q].size > 0
      <4> DEFINE cs == pool[i].chunks
      <4> HIDE DEF cs
      <4>1. DOMAIN cs = 1 .. Len(cs) /\ \A q \in 1 .. Len(cs) : cs[q].size \in Nat \ {0}
        BY <3>3, ListLinks DEF cs
      <4>2. \A q \in DOMAIN cs : cs[q].size > 0
        BY <4>1
      <4> QED BY <4>2 DEF cs
    <3> QED BY <3>1, <3>2, <3>4
  <2>3. ZonesTyped
    BY <2>2 DEF ZonesTyped
  <2> QED BY <2>1, <2>3 DEF EntryTypeOK, ListsOK
<1> QED BY <1>1, PoolInvariant, PTL

-----------------------------------------------------------------------------
(* What a call answers.                                                    *)

\* A chunk of a zone is no larger than the zone's counter says is free.
LEMMA ChunkFits ==
    ASSUME NEW h, HeapOK(h), NEW q \in DOMAIN h.chunks
    PROVE  h.chunks[q].size \in Nat /\ h.chunks[q].size <= h.free
<1> DEFINE cs == h.chunks
           c == cs[q]
           R == Run(c.start, c.size)
           F == FreeBytes(cs)
<1>1. /\ IsFiniteSet(F) /\ Cardinality(F) \in Nat /\ h.free = Cardinality(F) /\ ChunkList(cs)
  BY FreeRange DEF HeapOK
<1>2. c.start \in Nat /\ c.size \in Nat
  BY <1>1, ListLinks
<1>3. R \subseteq F
  BY DEF FreeBytes
<1>4. Cardinality(R) = c.size
  BY <1>2, RunSize
<1> HIDE DEF R, F
<1>5. Cardinality(R) <= Cardinality(F)
  BY <1>1, <1>3, FS_Subset
<1> QED BY <1>1, <1>2, <1>4, <1>5

\* A zone serves a request exactly when it has a chunk large enough: the
\* counter never refuses what the list could give.
LEMMA ServesWhenItFits ==
    ASSUME NEW h, HeapOK(h), NEW n \in Nat
    PROVE  Serves(h, n) <=>
             n > 0 /\ \E q \in DOMAIN h.chunks : h.chunks[q].size >= RoundUp(n)
<1>1. \A q \in DOMAIN h.chunks : h.chunks[q].size \in Nat /\ h.chunks[q].size <= h.free
  BY ChunkFits
<1>2. RoundUp(n) \in Nat /\ RoundUp(n) >= n /\ h.free \in Nat
  <2>1. h.free \in Nat
    BY DEF HeapOK, IsHeap
  <2> QED BY <2>1, RoundUpBounds
<1>3. NoFit(h.chunks, RoundUp(n)) <=> ~\E q \in DOMAIN h.chunks : h.chunks[q].size >= RoundUp(n)
  BY <1>1, <1>2 DEF NoFit
<1>4. (\E q \in DOMAIN h.chunks : h.chunks[q].size >= RoundUp(n)) => ~(n > h.free)
  BY <1>1, <1>2
<1> QED BY <1>3, <1>4 DEF Serves, Refuses

\* The sizes AvailMem compares when it is asked for the largest chunk.
Sizes(p, a) ==
    UNION {{p[i].chunks[q].size : q \in DOMAIN p[i].chunks} :
           i \in {j \in DOMAIN p : Provides(p[j], a)}}

\* AvailMem(MEMF_LARGEST) answers the greatest of them, or 0.
LEMMA LargestLinks ==
    ASSUME NEW p, PoolOK(p), NEW a
    PROVE  /\ Largest(p, a) \in Nat
           /\ Largest(p, a) \in {0} \cup Sizes(p, a)
           /\ \A x \in Sizes(p, a) : x \in Nat /\ x <= Largest(p, a)
<1> DEFINE S == {0} \cup Sizes(p, a)
           N == Len(p)
           B == {k \in Nat : \E b \in Nat : \A i \in 1 .. k : p[i].free <= b}
<1>1. N \in Nat /\ DOMAIN p = 1 .. N /\ \A i \in 1 .. N : HeapOK(p[i]) /\ p[i].free \in Nat
  <2>1. N \in Nat /\ DOMAIN p = 1 .. N /\ \A i \in 1 .. N : HeapOK(p[i])
    BY PoolLinks
  <2> QED BY <2>1 DEF HeapOK, IsHeap
<1>2. 0 \in B
  OBVIOUS
<1>3. ASSUME NEW k \in 0 .. (N - 1), k \in B PROVE k + 1 \in B
  <2>1. PICK b \in Nat : \A i \in 1 .. k : p[i].free <= b
    BY <1>3
  <2>2. k + 1 \in 1 .. N /\ k \in Nat
    BY <1>1
  <2> DEFINE c == b + p[k + 1].free
  <2>3. c \in Nat /\ b <= c /\ p[k + 1].free <= c
    BY <1>1, <2>2
  <2> HIDE DEF c
  <2>4. ASSUME NEW i \in 1 .. (k + 1) PROVE p[i].free <= c
    <3>1. i \in 1 .. k \/ i = k + 1
      BY <2>2
    <3>2. i \in 1 .. N
      BY <1>1, <2>2
    <3> QED BY <1>1, <2>1, <2>3, <3>1, <3>2
  <2>5. \E d \in Nat : \A i \in 1 .. (k + 1) : p[i].free <= d
    BY <2>3, <2>4
  <2>6. k + 1 \in Nat
    BY <2>2
  <2> QED BY <2>5, <2>6
<1>4. N \in B
  <2> HIDE DEF B
  <2>1. \A k \in 0 .. N : k \in B
    BY <1>1, <1>2, <1>3, BoundedInduction
  <2> QED BY <1>1, <2>1
<1>5. PICK b \in Nat : \A i \in 1 .. N : p[i].free <= b
  BY <1>4
<1>6. ASSUME NEW x \in Sizes(p, a) PROVE x \in Nat /\ x <= b
  <2>1. PICK i \in DOMAIN p : \E q \in DOMAIN p[i].chunks : x = p[i].chunks[q].size
    BY DEF Sizes
  <2>2. PICK q \in DOMAIN p[i].chunks : x = p[i].chunks[q].size
    BY <2>1
  <2>3. x \in Nat /\ x <= p[i].free
    BY <1>1, <2>2, ChunkFits
  <2> QED BY <1>1, <1>5, <2>3
<1>7. S \in SUBSET Nat /\ \A x \in S : x <= b
  BY <1>6
<1>8. IsFiniteSet(S) /\ S # {} /\ S \in SUBSET Int
  <2> HIDE DEF S
  <2>1. IsFiniteSet(S)
    BY <1>7, FS_BoundedSetOfNaturals
  <2> QED BY <1>7, <2>1 DEF S
<1>9. \E m \in S : \A x \in S : x <= m
  <2> HIDE DEF S
  <2> QED BY <1>8, GreatestElement
<1>10. Largest(p, a) = CHOOSE m \in S : \A x \in S : m >= x
  BY Zenon DEF Largest, Max, Sizes
<1>11. \E m \in S : \A x \in S : m >= x
  BY <1>7, <1>9
<1>12. Largest(p, a) \in S /\ \A x \in S : Largest(p, a) >= x
  <2> HIDE DEF S
  <2> QED BY <1>10, <1>11
<1>13. Largest(p, a) \in Nat
  BY <1>7, <1>12
<1> QED BY <1>6, <1>12, <1>13

\* The forecast: the pool can serve a request exactly when it is not empty
\* and no larger than the largest chunk.
LEMMA LargestForecasts ==
    ASSUME NEW p, PoolOK(p), NEW a, NEW n \in Nat
    PROVE  Serving(p, n, a) # {} <=> n > 0 /\ RoundUp(n) <= Largest(p, a)
<1>1. RoundUp(n) \in Nat /\ RoundUp(n) >= n
  BY RoundUpBounds
<1>2. /\ Largest(p, a) \in Nat
      /\ Largest(p, a) \in {0} \cup Sizes(p, a)
      /\ \A x \in Sizes(p, a) : x \in Nat /\ x <= Largest(p, a)
  BY LargestLinks
<1>3. \A x : x \in Sizes(p, a) <=>
         \E i \in DOMAIN p : Provides(p[i], a)
                             /\ \E q \in DOMAIN p[i].chunks : x = p[i].chunks[q].size
  BY DEF Sizes
<1>4. \A i \in DOMAIN p :
         Serves(p[i], n) <=>
            n > 0 /\ \E q \in DOMAIN p[i].chunks : p[i].chunks[q].size >= RoundUp(n)
  BY PoolLinks, ServesWhenItFits
<1>5. ASSUME NEW i \in Serving(p, n, a) PROVE n > 0 /\ RoundUp(n) <= Largest(p, a)
  <2>1. i \in DOMAIN p /\ Provides(p[i], a) /\ Serves(p[i], n)
    BY DEF Serving
  <2>2. n > 0
    BY <1>4, <2>1
  <2>3. PICK q \in DOMAIN p[i].chunks : p[i].chunks[q].size >= RoundUp(n)
    BY <1>4, <2>1
  <2>4. p[i].chunks[q].size \in Sizes(p, a)
    BY <1>3, <2>1
  <2> QED BY <1>1, <1>2, <2>2, <2>3, <2>4
<1>6. ASSUME n > 0, RoundUp(n) <= Largest(p, a) PROVE Serving(p, n, a) # {}
  <2>1. Largest(p, a) # 0
    BY <1>1, <1>2, <1>6
  <2>2. Largest(p, a) \in Sizes(p, a)
    BY <1>2, <2>1
  <2>3. PICK i \in DOMAIN p : Provides(p[i], a)
                   /\ \E q \in DOMAIN p[i].chunks : Largest(p, a) = p[i].chunks[q].size
    BY <1>3, <2>2
  <2>4. \E q \in DOMAIN p[i].chunks : p[i].chunks[q].size >= RoundUp(n)
    BY <1>1, <1>2, <1>6, <2>3
  <2>5. i \in Serving(p, n, a)
    BY <1>4, <1>6, <2>3, <2>4 DEF Serving
  <2> QED BY <2>5
<1> QED BY <1>5, <1>6

\* Only AllocMem answers for AllocMem, and only AllocEntry for AllocEntry.
LEMMA WhoAnswers ==
    ASSUME EntryNext
    PROVE  /\ call'.op = "AllocMem" =>
                \E n \in Requests, a \in Wanted, reverse \in BOOLEAN : AllocMem(n, a, reverse)
           /\ call'.op = "AllocEntry" => \E r \in RequestLists : AllocEntryCall(r)
<1>1. ASSUME NEW z, AddMemList(z) PROVE call'.op = "AddMemList"
  BY <1>1 DEF AddMemList, Answer
<1>2. ASSUME NEW n, NEW a, NEW reverse, AllocMem(n, a, reverse) PROVE call'.op = "AllocMem"
  BY <1>2 DEF AllocMem, Answer
<1>3. ASSUME NEW n, NEW m, AllocAbs(m, n) PROVE call'.op = "AllocAbs"
  BY <1>3 DEF AllocAbs, Answer
<1>4. ASSUME NEW b, FreeMem(b) PROVE call'.op = "FreeMem"
  BY <1>4 DEF FreeMem, Answer
<1>5. ASSUME NEW r, AllocEntryCall(r) PROVE call'.op = "AllocEntry"
  <2>1. \E failed, m : EntryAnswer("AllocEntry", failed, m)
    BY <1>5, Zenon DEF AllocEntryCall
  <2> QED BY <2>1 DEF EntryAnswer, Answer
<1>6. ASSUME NEW l, FreeEntry(l) PROVE call'.op = "FreeEntry"
  BY <1>6 DEF FreeEntry, EntryAnswer, Answer
<1> QED BY <1>1, <1>2, <1>3, <1>4, <1>5, <1>6 DEF EntryNext

\* What AllocMem answers: an address exactly when some zone can serve the
\* request, in the first such zone.
LEMMA AllocMemAnswers ==
    ASSUME PoolInv, NEW n \in Requests, NEW a \in Wanted, NEW reverse \in BOOLEAN,
           AllocMem(n, a, reverse)
    PROVE  /\ PoolOK(pool) /\ n \in Nat
           /\ call'.size = n /\ call'.attributes = a
           /\ call'.result # NULL <=> Serving(pool, n, a) # {}
           /\ Serving(pool, n, a) # {} =>
                call'.result \in Managed(pool[First(Serving(pool, n, a))].zone)
<1> DEFINE t == Allocated(pool, n, a, reverse)
<1>1. PoolOK(pool) /\ n \in Nat
  BY PoolAssumption DEF PoolInv
<1>2. call'.size = n /\ call'.attributes = a /\ call'.result = t.addr
  BY DEF AllocMem, Answer
<1>3. /\ Serving(pool, n, a) = {} => t.addr = NULL
      /\ Serving(pool, n, a) # {} =>
           t.addr # NULL /\ t.addr \in Managed(pool[First(Serving(pool, n, a))].zone)
  BY <1>1, AllocatedSound
<1> QED BY <1>1, <1>2, <1>3

\* "Atomic allocation" (memory.cpp): an AllocEntry that fails, at whatever
\* entry, leaves every free list and every counter exactly as they were.
THEOREM FailureIsAtomic == EntrySpec => FailureLeavesNoTrace
<1>1. PoolInv /\ [EntryNext]_entryVars
        => [call'.op = "AllocEntry" /\ call'.result = NULL => pool' = pool]_entryVars
  <2> SUFFICES ASSUME PoolInv, EntryNext, call'.op = "AllocEntry", call'.result = NULL
               PROVE  pool' = pool
    OBVIOUS
  <2>1. PICK r \in RequestLists : AllocEntryCall(r)
    BY WhoAnswers
  <2>2. PoolOK(pool) /\ RequestOK(r)
    BY EntryAssumption DEF PoolInv, RequestOK
  <2> DEFINE me == MemEntryAllocated(pool, Len(r))
  <2>3. \A failed, m : EntryAnswer("AllocEntry", failed, m) => call'.result = m
    BY DEF EntryAnswer, Answer
  <2>4. \/ pool' = pool
        \/ me.addr # NULL /\ call'.result = me.addr
        \/ /\ me.addr # NULL
           /\ \E reverse \in OptionsRead(r) :
                pool' = MultipleDeallocated(Served(me.pool, r, reverse).pool, me.addr,
                                            Served(me.pool, r, reverse).entries)
    BY <2>1, <2>3, Zenon DEF AllocEntryCall
  <2>5. ASSUME me.addr # NULL, NEW reverse \in OptionsRead(r),
               pool' = MultipleDeallocated(Served(me.pool, r, reverse).pool, me.addr,
                                           Served(me.pool, r, reverse).entries)
        PROVE  pool' = pool
    BY <2>2, <2>5, RollsBack
  <2> HIDE DEF me
  <2> QED BY <2>4, <2>5
<1>2. PoolInv /\ [EntryNext]_entryVars
        => [call'.op = "AllocEntry" /\ call'.result = NULL => pool' = pool]_entryVars
  BY <1>1
<1> QED BY <1>2, PoolInvariant, PTL DEF EntrySpec, FailureLeavesNoTrace

\* AvailMem(MEMF_LARGEST) forecasts AllocMem: of that many bytes with the same
\* requirements it succeeds, of more it fails, whatever the state of the pool.
THEOREM ForecastIsExact == EntrySpec => LargestIsExact
<1>1. PoolInv /\ [EntryNext]_entryVars
        => [call'.op = "AllocMem" =>
              (call'.result # NULL <=>
                 /\ call'.size > 0
                 /\ RoundUp(call'.size) <= Largest(pool, call'.attributes))]_entryVars
  <2> SUFFICES ASSUME PoolInv, EntryNext, call'.op = "AllocMem"
               PROVE  call'.result # NULL <=>
                        /\ call'.size > 0
                        /\ RoundUp(call'.size) <= Largest(pool, call'.attributes)
    OBVIOUS
  <2>1. PICK n \in Requests, a \in Wanted, reverse \in BOOLEAN : AllocMem(n, a, reverse)
    BY WhoAnswers
  <2> QED BY <2>1, AllocMemAnswers, LargestForecasts
<1>2. [][EntryNext]_entryVars /\ []PoolInv => LargestIsExact
  <2>1. PoolInv /\ [EntryNext]_entryVars
          => [call'.op = "AllocMem" =>
                (call'.result # NULL <=>
                   /\ call'.size > 0
                   /\ RoundUp(call'.size) <= Largest(pool, call'.attributes))]_poolVars
    BY <1>1 DEF entryVars, poolVars
  <2> QED BY <2>1, PTL DEF LargestIsExact
<1> QED BY <1>2, PoolInvariant, PTL DEF EntrySpec

\* AllocMem never takes a slower zone while a faster one that qualifies has a
\* chunk large enough: the list is kept in order of priority, and the walk
\* stops at the first zone that serves.
THEOREM FastestFirst == EntrySpec => NeverSlowerThanNeeded
<1>1. ASSUME PoolInv, EntryNext, call'.op = "AllocMem", call'.result # NULL,
             NEW i \in DOMAIN pool, Provides(pool[i], call'.attributes),
             NEW q \in DOMAIN pool[i].chunks,
             pool[i].chunks[q].size >= RoundUp(call'.size)
      PROVE  \E j \in Containing(pool, call'.result) :
                pool[j].zone.priority >= pool[i].zone.priority
  <2>1. PICK n \in Requests, a \in Wanted, reverse \in BOOLEAN : AllocMem(n, a, reverse)
    BY <1>1, WhoAnswers
  <2>2. /\ PoolOK(pool) /\ n \in Nat /\ call'.size = n /\ call'.attributes = a
        /\ Serving(pool, n, a) # {}
        /\ call'.result \in Managed(pool[First(Serving(pool, n, a))].zone)
    BY <1>1, <2>1, AllocMemAnswers
  <2> DEFINE j == First(Serving(pool, n, a))
  <2>3. /\ j \in Serving(pool, n, a) /\ \A k \in Serving(pool, n, a) : j <= k
        /\ j \in DOMAIN pool /\ HeapOK(pool[j]) /\ Serves(pool[j], n)
    BY <2>2, ServingLinks
  <2>4. n > 0
    BY <2>2, <2>3, ServesWhenItFits
  <2>5. i \in Serving(pool, n, a)
    <3>1. HeapOK(pool[i])
      BY <2>2, PoolLinks
    <3>2. Serves(pool[i], n)
      BY <1>1, <2>2, <2>4, <3>1, ServesWhenItFits
    <3> QED BY <1>1, <2>2, <3>2 DEF Serving
  <2>6. call'.result \in Managed(pool[j].zone)
    BY <2>2
  <2> HIDE DEF j
  <2>7. Containing(pool, call'.result) = {j}
    BY <2>2, <2>3, <2>6, OnlyZone
  <2>8. j <= i /\ i \in Nat /\ j \in Nat
    BY <2>2, <2>3, <2>5, PoolLinks
  <2>9. pool[j].zone.priority >= pool[i].zone.priority
    <3>1. CASE j = i
      <4>1. pool[i].zone.priority \in Int
        BY <2>2, PoolLinks, ZonePriority
      <4> QED BY <3>1, <4>1
    <3>2. CASE j # i
      <4>1. j < i
        BY <2>8, <3>2
      <4> QED BY <1>1, <2>3, <4>1 DEF PoolInv, ByPriority
    <3> QED BY <3>1, <3>2
  <2> QED BY <2>7, <2>9
<1>2. PoolInv /\ [EntryNext]_entryVars
        => [call'.op = "AllocMem" /\ call'.result # NULL =>
              \A i \in DOMAIN pool :
                 /\ Provides(pool[i], call'.attributes)
                 /\ \E q \in DOMAIN pool[i].chunks :
                       pool[i].chunks[q].size >= RoundUp(call'.size)
                 => \E j \in Containing(pool, call'.result) :
                       pool[j].zone.priority >= pool[i].zone.priority]_poolVars
  BY <1>1 DEF entryVars, poolVars
<1> QED BY <1>2, PoolInvariant, PTL DEF EntrySpec, NeverSlowerThanNeeded

\* Whatever is requested, in whatever order and from whatever is free, an entry
\* that asked for memory and has no block in a MemEntry handed to a client is
\* followed by an empty one: the code takes the size of the last entry that
\* failed for the sign of a failure, and nothing else makes it forget one.
THEOREM OnlyEmptyEntriesHide == EntrySpec => []HolesBeforeEmpty
<1>1. EntryInit => HolesBeforeEmpty
  BY DEF EntryInit, HolesBeforeEmpty
<1>2. PoolInv /\ HolesBeforeEmpty /\ [EntryNext]_entryVars => HolesBeforeEmpty'
  <2> SUFFICES ASSUME PoolInv, HolesBeforeEmpty, [EntryNext]_entryVars PROVE HolesBeforeEmpty'
    OBVIOUS
  <2>1. CASE lists' \subseteq lists
    BY <2>1 DEF HolesBeforeEmpty
  <2>2. ASSUME NEW r \in RequestLists, AllocEntryCall(r) PROVE HolesBeforeEmpty'
    <3>1. PoolOK(pool) /\ RequestOK(r)
      BY EntryAssumption DEF PoolInv, RequestOK
    <3> DEFINE me == MemEntryAllocated(pool, Len(r))
    <3>2. ASSUME me.addr # NULL, NEW reverse \in OptionsRead(r),
                 NEW s, s = Served(me.pool, r, reverse), s.failed = 0,
                 NEW l, l.entries = s.entries, lists' = lists \cup {l}
          PROVE  HolesBeforeEmpty'
      <4> DEFINE e == s.entries
      <4>1. ServedOK(me.pool, r, s, Len(r))
        BY <3>1, <3>2, EntryTook
      <4> HIDE DEF me
      <4>2. /\ e \in Seq(Entries) /\ Len(e) = Len(r)
            /\ Forgiven(e, Len(r))
        BY <3>1, <3>2, <4>1 DEF ServedOK
      <4>3. DOMAIN e = 1 .. Len(r)
        BY <4>2, LenProperties
      <4>4. ASSUME NEW i \in DOMAIN e, e[i].size > 0, e[i].addr = NULL
            PROVE  \E j \in DOMAIN e : j > i /\ e[j].size = 0
        <5>1. PICK j \in (i + 1) .. Len(r) : e[j].size = 0
          BY <4>2, <4>3, <4>4 DEF Forgiven
        <5>2. j \in DOMAIN e /\ j > i
          BY <3>1, <4>3 DEF RequestOK
        <5> QED BY <5>1, <5>2
      <4>5. \A i \in DOMAIN l.entries :
               l.entries[i].size > 0 /\ l.entries[i].addr = NULL
                 => \E j \in DOMAIN l.entries : j > i /\ l.entries[j].size = 0
        BY <3>2, <4>4
      <4> QED BY <3>2, <4>5 DEF HolesBeforeEmpty
    <3>3. \/ UNCHANGED lists
          \/ /\ me.addr # NULL
             /\ \E reverse \in OptionsRead(r) :
                  /\ Served(me.pool, r, reverse).failed = 0
                  /\ lists' = lists \cup
                        {[addr |-> me.addr, entries |-> Served(me.pool, r, reverse).entries,
                          request |-> r, reverse |-> reverse]}
      BY <2>2, Zenon DEF AllocEntryCall
    <3>4. CASE UNCHANGED lists
      BY <2>1, <3>4
    <3>5. ASSUME me.addr # NULL, NEW reverse \in OptionsRead(r),
                 Served(me.pool, r, reverse).failed = 0,
                 lists' = lists \cup
                        {[addr |-> me.addr, entries |-> Served(me.pool, r, reverse).entries,
                          request |-> r, reverse |-> reverse]}
          PROVE  HolesBeforeEmpty'
      <4> DEFINE s == Served(me.pool, r, reverse)
                 l == [addr |-> me.addr, entries |-> s.entries,
                       request |-> r, reverse |-> reverse]
      <4>1. l.entries = s.entries /\ lists' = lists \cup {l} /\ s.failed = 0
        BY <3>5
      <4>2. s = Served(me.pool, r, reverse)
        OBVIOUS
      <4> HIDE DEF s, l, me
      <4> QED BY <3>2, <3>5, <4>1, <4>2
    <3> HIDE DEF me
    <3> QED BY <3>3, <3>4, <3>5
  <2>3. \/ lists' \subseteq lists
        \/ \E r \in RequestLists : AllocEntryCall(r)
    <3>1. ASSUME NEW l, FreeEntry(l) PROVE lists' \subseteq lists
      BY <3>1 DEF FreeEntry
    <3>2. CASE UNCHANGED entryVars
      BY <3>2 DEF entryVars
    <3> QED BY <3>1, <3>2 DEF EntryNext
  <2> QED BY <2>1, <2>2, <2>3
<1> QED BY <1>1, <1>2, PoolInvariant, PTL DEF EntrySpec

-----------------------------------------------------------------------------
(* AvailMem's sums.                                                        *)

\* What the loop of HeapList::available has added up after each turn.
Sums(p, a, figure, s) ==
    /\ s \in [0 .. Len(p) -> Nat]
    /\ s[0] = 0
    /\ \A k \in 1 .. Len(p) :
          s[k] = s[k - 1] + IF Provides(p[k], a) THEN figure[k] ELSE 0
    /\ AddedUp(p, a, figure) = s[Len(p)]

\* The loop runs to its end, and its sums are naturals if the figures are.
LEMMA AddedUpTurns ==
    ASSUME NEW p, Len(p) \in Nat, NEW a, NEW figure \in [1 .. Len(p) -> Nat]
    PROVE  \E s : Sums(p, a, figure, s)
<1> DEFINE N == Len(p)
           Adds(k) == IF Provides(p[k], a) THEN figure[k] ELSE 0
           Loop(f) == f = [k \in 0 .. N |-> IF k = 0 THEN 0 ELSE f[k - 1] + Adds(k)]
           s == CHOOSE f : Loop(f)
           step == [k \in 1 .. N |-> [x \in Nat |-> x + Adds(k)]]
<1>1. \A k \in 1 .. N : Adds(k) \in Nat
  OBVIOUS
<1> HIDE DEF Adds
<1>2. step \in [1 .. N -> [Nat -> Nat]]
  BY <1>1
<1>3. PICK f : f \in [0 .. N -> Nat] /\ Steps(f, N, 0, step)
  <2> HIDE DEF step
  <2> QED BY <1>2, BoundedRecursion
<1>4. Loop(f)
  <2>1. ASSUME NEW k \in 1 .. N PROVE f[k] = f[k - 1] + Adds(k)
    <3>1. f[k] = step[k][f[k - 1]] /\ f[k - 1] \in Nat
      <4> HIDE DEF step
      <4>1. k - 1 \in 0 .. N
        OBVIOUS
      <4> QED BY <1>3, <4>1 DEF Steps
    <3> QED BY <3>1
  <2>2. ASSUME NEW k \in 0 .. N PROVE f[k] = IF k = 0 THEN 0 ELSE f[k - 1] + Adds(k)
    <3>1. k = 0 \/ k \in 1 .. N
      OBVIOUS
    <3> QED BY <1>3, <2>1, <3>1 DEF Steps
  <2>3. f = [k \in 0 .. N |-> f[k]]
    BY <1>3
  <2> HIDE DEF step
  <2> QED BY <2>2, <2>3
<1>5. Loop(s)
  <2> HIDE DEF Loop
  <2> QED BY <1>4
<1>6. AddedUp(p, a, figure) = s[N]
  BY DEF AddedUp, Adds
<1>7. s[0] = 0 /\ \A k \in 1 .. N : s[k] = s[k - 1] + Adds(k)
  <2>1. \A k \in 0 .. N : s[k] = IF k = 0 THEN 0 ELSE s[k - 1] + Adds(k)
    <3> HIDE DEF s
    <3> QED BY <1>5
  <2>2. 0 \in 0 .. N /\ \A k \in 1 .. N : k \in 0 .. N /\ k # 0
    OBVIOUS
  <2> HIDE DEF s, Loop
  <2> QED BY <2>1, <2>2
<1>8. s \in [0 .. N -> Nat]
  <2> HIDE DEF s
  <2> DEFINE G == {k \in 0 .. N : s[k] \in Nat}
  <2>1. 0 \in G
    BY <1>7
  <2>2. ASSUME NEW k \in 0 .. (N - 1), k \in G PROVE k + 1 \in G
    <3>1. k + 1 \in 1 .. N /\ (k + 1) - 1 = k /\ s[k] \in Nat
      BY <2>2
    <3>2. s[k + 1] = s[k] + Adds(k + 1) /\ Adds(k + 1) \in Nat
      <4>1. s[k + 1] = s[(k + 1) - 1] + Adds(k + 1)
        BY <1>7, <3>1
      <4> QED BY <1>1, <3>1, <4>1
    <3> QED BY <3>1, <3>2
  <2> HIDE DEF G
  <2>3. \A k \in 0 .. N : k \in G
    BY <2>1, <2>2, BoundedInduction
  <2>4. \A k \in 0 .. N : s[k] \in Nat
    BY <2>3 DEF G
  <2>5. s = [k \in 0 .. N |-> s[k]]
    BY <1>5
  <2> QED BY <2>4, <2>5
<1> HIDE DEF s
<1> QED BY <1>6, <1>7, <1>8 DEF Adds, Sums

\* The union of the sets A[i] of the zones that provide the attributes.
Joined(p, a, A) == UNION {A[i] : i \in {j \in 1 .. Len(p) : Provides(p[j], a)}}

\* What is added up is the number of elements of the union, if each figure is
\* that of a set of its own.
LEMMA AddedUpCounts ==
    ASSUME NEW p, Len(p) \in Nat, NEW a, NEW A, NEW figure \in [1 .. Len(p) -> Nat],
           \A i \in 1 .. Len(p) : IsFiniteSet(A[i]) /\ Cardinality(A[i]) = figure[i],
           \A i, j \in 1 .. Len(p) : i # j => A[i] \cap A[j] = {}
    PROVE  /\ IsFiniteSet(Joined(p, a, A))
           /\ AddedUp(p, a, figure) = Cardinality(Joined(p, a, A))
<1> DEFINE N == Len(p)
           U(k) == UNION {A[i] : i \in {j \in 1 .. k : Provides(p[j], a)}}
<1>0. PICK s : Sums(p, a, figure, s)
  BY AddedUpTurns
<1>1. /\ s \in [0 .. N -> Nat]
      /\ s[0] = 0
      /\ \A k \in 1 .. N : s[k] = s[k - 1] + IF Provides(p[k], a) THEN figure[k] ELSE 0
      /\ AddedUp(p, a, figure) = s[N]
  BY <1>0 DEF Sums
<1> DEFINE G == {k \in 0 .. N : IsFiniteSet(U(k)) /\ s[k] = Cardinality(U(k))}
<1>2. 0 \in G
  <2>1. U(0) = {}
    OBVIOUS
  <2>2. 0 \in 0 .. N /\ s[0] = 0
    BY <1>1
  <2>3. IsFiniteSet({}) /\ Cardinality({}) = 0
    BY FS_EmptySet
  <2> HIDE DEF U
  <2> QED BY <2>1, <2>2, <2>3
<1>3. ASSUME NEW k \in 0 .. (N - 1), k \in G PROVE k + 1 \in G
  <2>1. /\ k + 1 \in 1 .. N /\ k \in 0 .. N /\ k + 1 \in 0 .. N
        /\ IsFiniteSet(U(k)) /\ s[k] = Cardinality(U(k))
        /\ s[k + 1] = s[k] + IF Provides(p[k + 1], a) THEN figure[k + 1] ELSE 0
    <3>1. k + 1 \in 1 .. N /\ (k + 1) - 1 = k /\ k \in 0 .. N /\ k + 1 \in 0 .. N
      OBVIOUS
    <3>2. IsFiniteSet(U(k)) /\ s[k] = Cardinality(U(k))
      BY <1>3
    <3>3. s[k + 1] = s[(k + 1) - 1] + IF Provides(p[k + 1], a) THEN figure[k + 1] ELSE 0
      BY <1>1, <3>1
    <3> HIDE DEF U, G
    <3> QED BY <3>1, <3>2, <3>3
  <2>2. \A j : j \in 1 .. (k + 1) <=> j \in 1 .. k \/ j = k + 1
    OBVIOUS
  <2>3. CASE ~Provides(p[k + 1], a)
    <3>1. \A x : x \in U(k + 1) <=> x \in U(k)
      BY <2>2, <2>3
    <3>2. U(k + 1) = U(k)
      <4> HIDE DEF U
      <4> QED BY <3>1
    <3>3. s[k + 1] = s[k]
      BY <1>1, <2>1, <2>3
    <3> HIDE DEF U
    <3> QED BY <2>1, <3>2, <3>3
  <2>4. CASE Provides(p[k + 1], a)
    <3>1. \A x : x \in U(k + 1) <=> x \in U(k) \/ x \in A[k + 1]
      BY <2>2, <2>4
    <3>2. \A x \in U(k) : x \notin A[k + 1]
      <4> SUFFICES ASSUME NEW i \in 1 .. k, NEW x \in A[i], x \in A[k + 1] PROVE FALSE
        OBVIOUS
      <4>1. i \in 1 .. N /\ i # k + 1
        BY <2>1
      <4> QED BY <2>1, <4>1
    <3>3. IsFiniteSet(A[k + 1]) /\ Cardinality(A[k + 1]) = figure[k + 1]
      BY <2>1
    <3>4. s[k + 1] = s[k] + figure[k + 1]
      BY <2>1, <2>4
    <3> HIDE DEF U, G
    <3>5. U(k + 1) = U(k) \cup A[k + 1] /\ U(k) \cap A[k + 1] = {}
      BY <3>1, <3>2
    <3>6. /\ IsFiniteSet(U(k + 1))
          /\ Cardinality(U(k + 1)) = Cardinality(U(k)) + Cardinality(A[k + 1])
                                       - Cardinality(U(k) \cap A[k + 1])
      <4>1. IsFiniteSet(U(k)) /\ IsFiniteSet(A[k + 1])
        BY <2>1, <3>3
      <4>2. /\ IsFiniteSet(U(k) \cup A[k + 1])
            /\ Cardinality(U(k) \cup A[k + 1]) = Cardinality(U(k)) + Cardinality(A[k + 1])
                                                     - Cardinality(U(k) \cap A[k + 1])
        BY <4>1, FS_Union, Zenon
      <4> QED BY <3>5, <4>2
    <3>7. Cardinality({}) = 0 /\ Cardinality(U(k)) \in Nat
      BY <2>1, FS_EmptySet, FS_CardinalityType
    <3>8. s[k + 1] = Cardinality(U(k + 1))
      <4> DEFINE c == Cardinality(U(k)) e == Cardinality(A[k + 1])
                 d == Cardinality(U(k) \cap A[k + 1]) u == Cardinality(U(k + 1))
      <4>1. u = c + (e - d)
        BY <3>6
      <4>5. c \in Nat /\ e = figure[k + 1] /\ s[k] = c
        BY <2>1, <3>3, <3>7
      <4>4. d = 0
        BY <3>5, <3>7, Zenon
      <4>2. figure[k + 1] \in Nat
        BY <2>1
      <4> HIDE DEF c, d, e, u
      <4>3. s[k + 1] = u
        BY <3>4, <4>1, <4>2, <4>4, <4>5
      <4> QED BY <4>3 DEF u
    <3> QED BY <2>1, <3>6, <3>8 DEF G
  <2> QED BY <2>3, <2>4
<1> HIDE DEF U, G
<1>4. \A k \in 0 .. N : k \in G
  BY <1>2, <1>3, BoundedInduction
<1>5. N \in 0 .. N /\ IsFiniteSet(U(N)) /\ s[N] = Cardinality(U(N))
  BY <1>4 DEF G
<1> QED BY <1>1, <1>5 DEF U, Joined

\* AvailMem tells the truth: of the zones that have the requirements, all that
\* it does not report as free is held by clients, to the byte.
THEOREM SumsAddUp == EntrySpec => []AvailAddsUp
<1>1. PoolInv => AvailAddsUp
  <2> SUFFICES ASSUME PoolInv, NEW a \in Wanted
               PROVE  Total(pool, a) - FreeSum(pool, a)
                        = Cardinality(UNION {Extent(b) : b \in {c \in owned :
                                                 a \subseteq TypeOf(pool, c.addr)}})
    BY DEF AvailAddsUp
  <2> DEFINE N == Len(pool)
             P == {j \in 1 .. N : Provides(pool[j], a)}
             A == [i \in 1 .. N |-> Managed(pool[i].zone)]
             B == [i \in 1 .. N |-> FreeBytes(pool[i].chunks)]
             sizes == [i \in DOMAIN pool |-> Upper(pool[i].zone) - Lower(pool[i].zone)]
             frees == [i \in DOMAIN pool |-> pool[i].free]
             M == UNION {A[i] : i \in P}
             F == UNION {B[i] : i \in P}
             held == {c \in owned : a \subseteq TypeOf(pool, c.addr)}
             H == UNION {Extent(b) : b \in held}
  <2>1. PoolOK(pool) /\ BlocksOK(pool, owned)
    BY DEF PoolInv
  <2>2. /\ N \in Nat /\ DOMAIN pool = 1 .. N
        /\ \A i \in 1 .. N : /\ HeapOK(pool[i]) /\ IsZone(pool[i].zone)
                             /\ B[i] \subseteq A[i]
        /\ \A i, j \in 1 .. N : i # j => A[i] \cap A[j] = {}
    <3>1. N \in Nat /\ DOMAIN pool = 1 .. N
      BY <2>1, PoolLinks
    <3>2. \A i \in 1 .. N : A[i] = Managed(pool[i].zone) /\ B[i] = FreeBytes(pool[i].chunks)
      OBVIOUS
    <3>5. /\ \A i \in DOMAIN pool : HeapOK(pool[i]) /\ IsZone(pool[i].zone)
                                    /\ FreeBytes(pool[i].chunks) \subseteq Managed(pool[i].zone)
          /\ \A i, j \in DOMAIN pool :
                i # j => Managed(pool[i].zone) \cap Managed(pool[j].zone) = {}
      BY <2>1, PoolLinks, Zenon
    <3> HIDE DEF A, B, N
    <3>3. \A i \in 1 .. N : /\ HeapOK(pool[i]) /\ IsZone(pool[i].zone)
                            /\ B[i] \subseteq A[i]
      BY <3>1, <3>2, <3>5
    <3>4. \A i, j \in 1 .. N : i # j => A[i] \cap A[j] = {}
      BY <3>1, <3>2, <3>5
    <3> QED BY <3>1, <3>3, <3>4
  <2>3. \A i \in 1 .. N : IsFiniteSet(A[i]) /\ Cardinality(A[i]) = sizes[i] /\ sizes[i] \in Nat
    <3> SUFFICES ASSUME NEW i \in 1 .. N
                 PROVE  IsFiniteSet(A[i]) /\ Cardinality(A[i]) = sizes[i] /\ sizes[i] \in Nat
      OBVIOUS
    <3>1. IsZone(pool[i].zone) /\ A[i] = Managed(pool[i].zone)
          /\ sizes[i] = Upper(pool[i].zone) - Lower(pool[i].zone)
      BY <2>2
    <3> HIDE DEF A, sizes
    <3> QED BY <3>1, ZoneAddresses, FS_CardinalityType
  <2>4. \A i \in 1 .. N : IsFiniteSet(B[i]) /\ Cardinality(B[i]) = frees[i] /\ frees[i] \in Nat
    <3> SUFFICES ASSUME NEW i \in 1 .. N
                 PROVE  IsFiniteSet(B[i]) /\ Cardinality(B[i]) = frees[i] /\ frees[i] \in Nat
      OBVIOUS
    <3>1. IsFiniteSet(B[i])
      <4>1. B[i] \subseteq A[i] /\ IsFiniteSet(A[i])
        BY <2>2, <2>3
      <4> HIDE DEF A, B
      <4> QED BY <4>1, FS_Subset
    <3>2. Cardinality(B[i]) = frees[i]
      BY <2>2 DEF HeapOK
    <3> HIDE DEF A, B, frees
    <3> QED BY <3>1, <3>2, FS_CardinalityType
  <2>5. sizes \in [1 .. N -> Nat] /\ frees \in [1 .. N -> Nat]
    BY <2>2, <2>3, <2>4
  <2>6. \A i, j \in 1 .. N : i # j => B[i] \cap B[j] = {}
    <3> HIDE DEF A, B
    <3> QED BY <2>2
  <2>7. H = M \ F
    <3>1. ASSUME NEW b \in owned
          PROVE  \E i \in 1 .. N : /\ Extent(b) \subseteq Managed(pool[i].zone)
                                   /\ b \in held <=> i \in P
                                   /\ Extent(b) \cap FreeBytes(pool[i].chunks) = {}
                                   /\ b.addr \in Extent(b)
      <4>1. b.addr \in Nat \ {0} /\ b.size \in Nat \ {0} /\ Within(pool, Extent(b), b.attributes)
            /\ Extent(b) \cap PoolFree(pool) = {}
        BY <2>1 DEF BlocksOK
      <4>2. b.addr \in Extent(b)
        BY <4>1, ExtentNotEmpty
      <4>3. PICK i \in 1 .. N : Extent(b) \subseteq Managed(pool[i].zone)
        BY <2>2, <4>1 DEF Within
      <4>4. TypeOf(pool, b.addr) = pool[i].zone.attributes
        BY <2>1, <2>2, <4>2, <4>3, OnlyZone
      <4>5. b \in held <=> i \in P
        BY <4>4 DEF Provides
      <4>6. FreeBytes(pool[i].chunks) \subseteq PoolFree(pool)
        BY <2>2 DEF PoolFree
      <4> QED BY <4>1, <4>2, <4>3, <4>5, <4>6
    <3>2. ASSUME NEW x \in H PROVE x \in M /\ x \notin F
      <4>1. PICK b \in held : x \in Extent(b)
        OBVIOUS
      <4>2. PICK i \in P : /\ Extent(b) \subseteq Managed(pool[i].zone)
                           /\ Extent(b) \cap FreeBytes(pool[i].chunks) = {}
        BY <3>1
      <4>3. x \in A[i] /\ x \notin B[i] /\ i \in 1 .. N
        BY <4>1, <4>2
      <4>4. \A j \in 1 .. N : x \in B[j] => j = i
        <5> HIDE DEF A, B
        <5> QED BY <2>2, <4>3
      <4> HIDE DEF A, B
      <4> QED BY <4>2, <4>3, <4>4
    <3>3. ASSUME NEW x \in M, x \notin F PROVE x \in H
      <4>1. PICK i \in P : x \in A[i]
        OBVIOUS
      <4>2. x \in Managed(pool[i].zone) /\ i \in 1 .. N
        BY <4>1
      <4>3. x \notin PoolFree(pool)
        <5>1. ASSUME NEW j \in 1 .. N, x \in B[j] PROVE FALSE
          <6>1. x \in A[j]
            <7> HIDE DEF A, B
            <7> QED BY <2>2, <5>1
          <6>2. j = i
            <7> HIDE DEF A, B
            <7> QED BY <2>2, <4>1, <4>2, <6>1
          <6> QED BY <3>3, <5>1, <6>2
        <5> QED BY <2>2, <5>1 DEF PoolFree
      <4>4. x \in PoolManaged(pool)
        BY <2>2, <4>2 DEF PoolManaged
      <4>5. PICK b \in owned : x \in Extent(b)
        BY <2>1, <4>3, <4>4 DEF BlocksOK, Extents
      <4>6. PICK j \in 1 .. N : Extent(b) \subseteq Managed(pool[j].zone) /\ (b \in held <=> j \in P)
        BY <3>1
      <4>7. j = i
        BY <2>2, <4>2, <4>5, <4>6
      <4> HIDE DEF held, P
      <4> QED BY <4>5, <4>6, <4>7
    <3> HIDE DEF H, M, F
    <3> QED BY <3>2, <3>3
  <2>8. F \subseteq M
    <3> HIDE DEF A, B, P
    <3>1. \A i \in P : i \in 1 .. N
      BY DEF P
    <3> QED BY <2>2, <3>1
  <2>9. IsFiniteSet(M) /\ Total(pool, a) = Cardinality(M)
    <3> HIDE DEF A, sizes
    <3>1. M = Joined(pool, a, A)
      BY DEF Joined
    <3> HIDE DEF M
    <3>2. /\ Len(pool) \in Nat /\ sizes \in [1 .. Len(pool) -> Nat]
          /\ \A i \in 1 .. Len(pool) : IsFiniteSet(A[i]) /\ Cardinality(A[i]) = sizes[i]
          /\ \A i, j \in 1 .. Len(pool) : i # j => A[i] \cap A[j] = {}
      BY <2>2, <2>3, <2>5
    <3> HIDE DEF N, P, B, frees, F, held, H
    <3>3. /\ IsFiniteSet(Joined(pool, a, A))
          /\ AddedUp(pool, a, sizes) = Cardinality(Joined(pool, a, A))
      BY <3>2, AddedUpCounts
    <3> QED BY <3>1, <3>3 DEF Total, sizes, N
  <2>10. IsFiniteSet(F) /\ FreeSum(pool, a) = Cardinality(F)
    <3>1. F = Joined(pool, a, B)
      BY DEF Joined
    <3> HIDE DEF F
    <3>2. /\ Len(pool) \in Nat /\ frees \in [1 .. Len(pool) -> Nat]
          /\ \A i \in 1 .. Len(pool) : IsFiniteSet(B[i]) /\ Cardinality(B[i]) = frees[i]
          /\ \A i, j \in 1 .. Len(pool) : i # j => B[i] \cap B[j] = {}
      BY <2>2, <2>4, <2>5, <2>6
    <3> HIDE DEF N, P, A, B, frees, sizes, M, held, H
    <3>3. /\ IsFiniteSet(Joined(pool, a, B))
          /\ AddedUp(pool, a, frees) = Cardinality(Joined(pool, a, B))
      BY <3>2, AddedUpCounts
    <3> QED BY <3>1, <3>3 DEF FreeSum, frees
  <2> HIDE DEF M, F, H
  <2>11. Cardinality(M \ F) = Cardinality(M) - Cardinality(F)
    <3>1. M \cap F = F
      BY <2>8
    <3> QED BY <2>9, <3>1, FS_Difference
  <2> QED BY <2>7, <2>9, <2>10, <2>11 DEF H
<1> QED BY <1>1, PoolInvariant, PTL

-----------------------------------------------------------------------------
(* How much is left.                                                       *)

\* A chunk of n bytes or more, in a free list and in a zone that provides a.
Fits(cs, n) == \E q \in DOMAIN cs : cs[q].size >= n
HasRoom(p, a, n) == \E i \in DOMAIN p : Provides(p[i], a) /\ Fits(p[i].chunks, n)

\* The chunks around a part that is replaced.
LEMMA SpliceChunks ==
    ASSUME NEW cs \in Seq(ChunkRecords), NEW mid \in Seq(ChunkRecords),
           NEW lo \in 0 .. Len(cs), NEW hi \in 1 .. (Len(cs) + 1), lo < hi
    PROVE  /\ Splice(cs, lo, mid, hi) \in Seq(ChunkRecords)
           /\ Len(Splice(cs, lo, mid, hi)) = lo + Len(mid) + (Len(cs) + 1 - hi)
           /\ \A q \in 1 .. lo : Splice(cs, lo, mid, hi)[q] = cs[q]
           /\ \A q \in 1 .. Len(mid) : Splice(cs, lo, mid, hi)[lo + q] = mid[q]
           /\ \A q \in hi .. Len(cs) :
                 Splice(cs, lo, mid, hi)[lo + Len(mid) + 1 + (q - hi)] = cs[q]
BY SpliceLinks, ZenonT(60)

\* An allocation takes its bytes from one end of one chunk, and what it leaves
\* there is in one piece.
LEMMA CarvingLeaves ==
    ASSUME NEW cs, ChunkList(cs), NEW i \in 1 .. Len(cs), NEW r \in Nat \ {0}, cs[i].size >= r,
           NEW m \in Nat \ {0}, Fits(cs, r + m)
    PROVE  Fits(CarveLow(cs, i, r), m) /\ Fits(CarveHigh(cs, i, r), m)
<1> DEFINE c == cs[i]
           Left(mid) == \/ c.size = r /\ mid = << >>
                        \/ c.size # r /\ \E a \in Nat : mid = << Chunk(a, c.size - r) >>
<1>1. /\ cs \in Seq(ChunkRecords) /\ DOMAIN cs = 1 .. Len(cs) /\ Len(cs) \in Nat
      /\ \A q \in 1 .. Len(cs) : cs[q].start \in Nat /\ cs[q].size \in Nat \ {0}
  BY ListLinks DEF ChunkList
<1>2. ASSUME NEW mid, Left(mid)
      PROVE  Fits(Splice(cs, i - 1, mid, i + 1), m)
  <2> DEFINE new == Splice(cs, i - 1, mid, i + 1)
  <2>1. /\ mid \in Seq(ChunkRecords) /\ Len(mid) \in Nat
        /\ c.size # r => Len(mid) = 1 /\ mid[1].size = c.size - r
    <3>1. CASE c.size = r
      BY <1>2, <3>1, NoChunk
    <3>2. CASE c.size # r
      <4>1. PICK a \in Nat : mid = << Chunk(a, c.size - r) >>
        BY <1>2, <3>2
      <4>2. c.size - r \in Nat \ {0}
        BY <1>1, <3>2
      <4>3. Chunk(a, c.size - r) \in ChunkRecords
        BY <4>2 DEF Chunk, ChunkRecords
      <4>4. mid[1] = Chunk(a, c.size - r) /\ Len(mid) = 1 /\ mid \in Seq(ChunkRecords)
        BY <4>1, <4>3
      <4> QED BY <3>2, <4>4 DEF Chunk
    <3> QED BY <3>1, <3>2
  <2>2. i - 1 \in 0 .. Len(cs) /\ i + 1 \in 1 .. (Len(cs) + 1) /\ i - 1 < i + 1
    BY <1>1
  <2>21. cs \in Seq(ChunkRecords) /\ mid \in Seq(ChunkRecords)
    BY <1>1, <2>1
  <2>22. ASSUME NEW lo \in 0 .. Len(cs), NEW hi \in 1 .. (Len(cs) + 1), lo < hi
         PROVE  /\ Splice(cs, lo, mid, hi) \in Seq(ChunkRecords)
                /\ Len(Splice(cs, lo, mid, hi)) = lo + Len(mid) + (Len(cs) + 1 - hi)
                /\ \A q \in 1 .. lo : Splice(cs, lo, mid, hi)[q] = cs[q]
                /\ \A q \in 1 .. Len(mid) : Splice(cs, lo, mid, hi)[lo + q] = mid[q]
                /\ \A q \in hi .. Len(cs) :
                      Splice(cs, lo, mid, hi)[lo + Len(mid) + 1 + (q - hi)] = cs[q]
    BY <2>21, <2>22, SpliceChunks
  <2>3. /\ new \in Seq(ChunkRecords)
        /\ Len(new) = (i - 1) + Len(mid) + (Len(cs) + 1 - (i + 1))
        /\ \A q \in 1 .. (i - 1) : new[q] = cs[q]
        /\ \A q \in 1 .. Len(mid) : new[(i - 1) + q] = mid[q]
        /\ \A q \in (i + 1) .. Len(cs) : new[(i - 1) + Len(mid) + 1 + (q - (i + 1))] = cs[q]
    BY <2>2, <2>22 DEF new
  <2> HIDE DEF new
  <2>4. DOMAIN new = 1 .. Len(new)
    BY <2>3
  <2>5. PICK q \in 1 .. Len(cs) : cs[q].size >= r + m
    BY <1>1 DEF Fits
  <2>6. CASE q < i
    <3>1. q \in 1 .. (i - 1) /\ q \in 1 .. Len(new)
      BY <1>1, <2>1, <2>3, <2>6
    <3>2. cs[q].size >= m
      BY <1>1, <2>5
    <3> QED BY <2>3, <2>4, <3>1, <3>2 DEF Fits, new
  <2>7. CASE q > i
    <3>1. q \in (i + 1) .. Len(cs) /\ (i - 1) + Len(mid) + 1 + (q - (i + 1)) \in 1 .. Len(new)
      BY <1>1, <2>1, <2>3, <2>7
    <3>2. cs[q].size >= m
      BY <1>1, <2>5
    <3> QED BY <2>3, <2>4, <3>1, <3>2 DEF Fits, new
  <2>8. CASE q = i
    <3>1. c.size # r /\ c.size - r >= m
      BY <1>1, <2>5, <2>8
    <3>2. 1 \in 1 .. Len(mid) /\ (i - 1) + 1 \in 1 .. Len(new) /\ mid[1].size >= m
      BY <1>1, <2>1, <2>3, <3>1
    <3> QED BY <2>3, <2>4, <3>2 DEF Fits, new
  <2> QED BY <2>6, <2>7, <2>8
<1>3. \E mid : Left(mid) /\ CarveLow(cs, i, r) = Splice(cs, i - 1, mid, i + 1)
  <2>1. c.start + r \in Nat
    BY <1>1
  <2> QED BY <2>1 DEF CarveLow
<1>4. \E mid : Left(mid) /\ CarveHigh(cs, i, r) = Splice(cs, i - 1, mid, i + 1)
  <2>1. c.start \in Nat
    BY <1>1
  <2> QED BY <2>1 DEF CarveHigh
<1> HIDE DEF Left
<1> QED BY <1>2, <1>3, <1>4

\* The same of one zone.
LEMMA TakingLeaves ==
    ASSUME NEW h, HeapOK(h), NEW n \in Nat, Serves(h, n), NEW reverse,
           NEW m \in Nat \ {0}, Fits(h.chunks, RoundUp(n) + m)
    PROVE  LET t == IF reverse THEN TakenHigh(h, n) ELSE TakenLow(h, n)
           IN  Fits(t.heap.chunks, m) /\ t.heap.zone = h.zone
<1> DEFINE r == RoundUp(n)
           cs == h.chunks
           i == CHOOSE i \in FirstFit(cs, r) : TRUE
           l == CHOOSE l \in LastFit(cs, r) : TRUE
<1>1. n \in Nat \ {0} /\ r \in Nat \ {0} /\ ChunkList(cs) /\ ~NoFit(cs, r)
  BY ServedSize
<1>2. i \in FirstFit(cs, r) /\ l \in LastFit(cs, r)
  BY <1>1, FirstFitExists, LastFitExists
<1>3. /\ i \in 1 .. Len(cs) /\ cs[i].size >= r
      /\ l \in 1 .. Len(cs) /\ cs[l].size >= r
  BY <1>1, <1>2, ListLinks DEF FirstFit, LastFit
<1>4. /\ TakenLow(h, n) = [heap |-> Shrunk(h, CarveLow(cs, i, r), n), addr |-> cs[i].start]
      /\ TakenHigh(h, n) = [heap |-> Shrunk(h, CarveHigh(cs, l, r), n), addr |-> End(cs[l]) - r]
  BY DEF TakenLow, TakenHigh
<1> HIDE DEF r, cs, i, l
<1>5. Fits(CarveLow(cs, i, r), m) /\ Fits(CarveHigh(cs, l, r), m)
  BY <1>1, <1>3, CarvingLeaves DEF r, cs
<1>6. ASSUME NEW new
      PROVE  Shrunk(h, new, n).chunks = new /\ Shrunk(h, new, n).zone = h.zone
  BY HeapExcept DEF Shrunk, HeapOK, IsHeap
<1> QED BY <1>4, <1>5, <1>6

\* Where there is room for two, one is served, and the room for the other is
\* still there.
LEMMA RoomServes ==
    ASSUME NEW p, PoolOK(p), NEW n \in Nat \ {0}, NEW a, NEW reverse,
           NEW m \in Nat, HasRoom(p, a, RoundUp(n) + m)
    PROVE  /\ Allocated(p, n, a, reverse).addr # NULL
           /\ m > 0 => HasRoom(Allocated(p, n, a, reverse).pool, a, m)
<1>1. PICK i \in DOMAIN p : Provides(p[i], a) /\ Fits(p[i].chunks, RoundUp(n) + m)
  BY DEF HasRoom
<1>2. \A j \in DOMAIN p : HeapOK(p[j])
  BY PoolLinks
<1>3. RoundUp(n) \in Nat
  BY RoundUpBounds
<1>4. Serves(p[i], n)
  <2>1. HeapOK(p[i])
    BY <1>2
  <2>2. \A q \in DOMAIN p[i].chunks : p[i].chunks[q].size \in Nat
    BY <2>1, ChunkFits
  <2>3. \E q \in DOMAIN p[i].chunks : p[i].chunks[q].size >= RoundUp(n)
    BY <1>1, <1>3, <2>2 DEF Fits
  <2> QED BY <2>1, <2>3, ServesWhenItFits
<1>5. i \in Serving(p, n, a)
  BY <1>1, <1>4 DEF Serving
<1>6. Allocated(p, n, a, reverse).addr # NULL
  BY <1>5, AllocatedSound
<1>7. ASSUME m > 0
      PROVE  HasRoom(Allocated(p, n, a, reverse).pool, a, m)
  <2> DEFINE j == First(Serving(p, n, a))
             t == IF reverse THEN TakenHigh(p[j], n) ELSE TakenLow(p[j], n)
             q == [p EXCEPT ![j] = t.heap]
  <2>1. j \in DOMAIN p /\ HeapOK(p[j]) /\ Provides(p[j], a) /\ Serves(p[j], n)
    BY <1>5, ServingLinks
  <2>2. Allocated(p, n, a, reverse).pool = q
    BY <1>5 DEF Allocated
  <2> HIDE DEF j
  <2>3. DOMAIN q = DOMAIN p /\ q[j] = t.heap /\ \A l \in DOMAIN p : l # j => q[l] = p[l]
    BY <2>1
  <2>4. Fits(p[j].chunks, RoundUp(n) + m) => Fits(t.heap.chunks, m) /\ t.heap.zone = p[j].zone
    BY <1>7, <2>1, TakingLeaves
  <2> HIDE DEF t, q
  <2>5. CASE i = j
    <3>1. Fits(q[j].chunks, m) /\ Provides(q[j], a)
      BY <1>1, <2>1, <2>3, <2>4, <2>5 DEF Provides
    <3> QED BY <2>1, <2>2, <2>3, <3>1 DEF HasRoom
  <2>6. CASE i # j
    <3>1. \A k \in DOMAIN p[i].chunks : p[i].chunks[k].size \in Nat
      BY <1>2, ChunkFits
    <3>2. Fits(p[i].chunks, m)
      BY <1>1, <1>3, <3>1 DEF Fits
    <3>3. q[i] = p[i]
      BY <2>3, <2>6
    <3> QED BY <1>1, <2>2, <2>3, <3>2, <3>3 DEF HasRoom
  <2> QED BY <2>5, <2>6
<1> QED BY <1>6, <1>7

\* A zone that is added has room for all it manages, and what room there was
\* is there still.
LEMMA RoomAdded ==
    ASSUME NEW p, PoolOK(p), NEW z, IsZone(z), NEW a \in SUBSET z.attributes
    PROVE  HasRoom(Enqueue(p, NewHeap(z)), a, z.size - HeaderSize)
<1> DEFINE h == NewHeap(z)
           q == Enqueue(p, h)
<1>1. /\ h.zone = z /\ h.chunks = << Chunk(Lower(z), z.size - HeaderSize) >>
      /\ z.size - HeaderSize \in Nat
  BY DEF NewHeap, IsZone, HeaderSize
<1>2. Fits(h.chunks, z.size - HeaderSize) /\ Provides(h, a)
  <2>1. 1 \in DOMAIN h.chunks /\ h.chunks[1] = Chunk(Lower(z), z.size - HeaderSize)
    BY <1>1
  <2>2. h.chunks[1].size >= z.size - HeaderSize
    BY <1>1, <2>1 DEF Chunk
  <2> QED BY <1>1, <2>1, <2>2 DEF Fits, Provides
<1> HIDE DEF h
<1>3. \E l \in DOMAIN q : q[l] = h
  <2>1. IsHeap(h)
    BY NewHeapSound DEF HeapOK, h
  <2>2. PICK l \in 1 .. (Len(p) + 1) : LinkedAt(p, h, q, l)
    BY <2>1, EnqueueLinks
  <2> QED BY <2>2 DEF LinkedAt
<1> QED BY <1>2, <1>3 DEF HasRoom, h

\* Room for more is room for less.
LEMMA LessRoom ==
    ASSUME NEW p, PoolOK(p), NEW n \in Nat, NEW m \in Nat, m <= n, NEW a, HasRoom(p, a, n)
    PROVE  HasRoom(p, a, m)
<1>1. PICK i \in DOMAIN p : Provides(p[i], a) /\ Fits(p[i].chunks, n)
  BY DEF HasRoom
<1>2. HeapOK(p[i])
  BY PoolLinks
<1>3. \A q \in DOMAIN p[i].chunks : p[i].chunks[q].size \in Nat
  BY <1>2, ChunkFits
<1>4. Fits(p[i].chunks, m)
  BY <1>1, <1>3 DEF Fits
<1> QED BY <1>1, <1>4 DEF HasRoom
=============================================================================
