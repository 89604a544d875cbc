------------------------------- MODULE MemPool -------------------------------
(***************************************************************************)
(* The system memory pool: class HeapList (src/src/exec/memory.cpp) and    *)
(* the exec.library calls that use it (src/exec.yml): AddMemList, AllocMem,*)
(* AllocAbs, FreeMem, AvailMem and TypeOfMem.  Each call but AddMemList    *)
(* runs between Forbid and Permit, so it is one step here; AddMemList      *)
(* links the zone in one step too, and ExecList.tla looks inside it.       *)
(***************************************************************************)
EXTENDS Integers, Sequences, FiniteSets, Chunks
LOCAL INSTANCE FiniteSetsExt

CONSTANTS
    Zones,      \* what AddMemList can be given: base, size, attributes, priority
    Requests,   \* sizes asked for
    Wanted      \* requirements asked for: sets of attributes

\* sizeof(Heap): create() places the node itself at the bottom of its zone.
HeaderSize == 32

\* The zones do not overlap and have room behind their Heap node.
ASSUME PoolAssumption ==
    /\ \A z \in Zones : /\ z.base \in Nat \ {0} /\ z.base % 8 = 0
                        /\ z.size \in Nat /\ z.size % 8 = 0 /\ z.size > HeaderSize
                        /\ z.priority \in -128 .. 127
    /\ \A y, z \in Zones : y # z => Run(y.base, y.size) \cap Run(z.base, z.size) = {}
    /\ Requests \subseteq Nat

VARIABLES
    pool,       \* the list of Heaps, in link order
    owned,      \* the blocks clients hold, with the requirements they stated
    call        \* the last call and its answer

poolVars == <<pool, owned, call>>

-----------------------------------------------------------------------------
(* One Heap as a value.                                                    *)

Lower(z) == z.base + HeaderSize
Upper(z) == z.base + z.size

\* Heap::create.
NewHeap(z) ==
    [zone   |-> z,
     chunks |-> << Chunk(Lower(z), z.size - HeaderSize) >>,
     free   |-> z.size - HeaderSize]

Contains(h, m) == Lower(h.zone) <= m /\ m < Upper(h.zone)

\* Mutant of Provides: any attribute in common will do.
ProvidesSome(h, a) == a = {} \/ h.zone.attributes \cap a # {}

Provides(h, a) == a \subseteq h.zone.attributes

\* The Heap's allocators answer an address, not nullptr.
Serves(h, n) == ~Refuses(h.free, n) /\ ~NoFit(h.chunks, RoundUp(n))

Shrunk(h, cs, n) == [h EXCEPT !.chunks = cs, !.free = @ - RoundUp(n)]

\* Heap::allocate and Heap::allocate_reverse on a Heap that serves n.
TakenLow(h, n) ==
    LET i == CHOOSE i \in FirstFit(h.chunks, RoundUp(n)) : TRUE
    IN  [heap |-> Shrunk(h, CarveLow(h.chunks, i, RoundUp(n)), n),
         addr |-> h.chunks[i].start]

TakenHigh(h, n) ==
    LET i == CHOOSE i \in LastFit(h.chunks, RoundUp(n)) : TRUE
    IN  [heap |-> Shrunk(h, CarveHigh(h.chunks, i, RoundUp(n)), n),
         addr |-> End(h.chunks[i]) - RoundUp(n)]

\* Heap::deallocate.
Returned(h, m, n) ==
    IF n = 0 THEN h
    ELSE LET k == CHOOSE k \in StopsAt(h.chunks, m) : TRUE
         IN  [h EXCEPT !.free   = @ + RoundUp(n),
                       !.chunks = IF Clashes(@, k, m, RoundUp(n))
                                  THEN @ ELSE GiveBack(@, k, m, RoundUp(n))]

-----------------------------------------------------------------------------
(* HeapList.                                                               *)

\* enqueue: the place in front of the first node of lower priority.
InFrontOf(p, pri) ==
    {k \in 1 .. (Len(p) + 1) :
        /\ \A j \in 1 .. (k - 1) : p[j].zone.priority >= pri
        /\ k <= Len(p) => p[k].zone.priority < pri}

Enqueue(p, h) ==
    LET k == CHOOSE k \in InFrontOf(p, h.zone.priority) : TRUE
    IN  Splice(p, k - 1, << h >>, k)

Serving(p, n, a) == {i \in DOMAIN p : Provides(p[i], a) /\ Serves(p[i], n)}

\* The first index of a set of list positions.
First(S) == CHOOSE i \in S : \A j \in S : i <= j

\* Mutant of Allocated: the walk goes on after a zone has answered.
AllocatedLast(p, n, a, reverse) ==
    IF Serving(p, n, a) = {} THEN [pool |-> p, addr |-> NULL]
    ELSE LET i == CHOOSE i \in Serving(p, n, a) : \A j \in Serving(p, n, a) : i >= j
             t == IF reverse THEN TakenHigh(p[i], n) ELSE TakenLow(p[i], n)
         IN  [pool |-> [p EXCEPT ![i] = t.heap], addr |-> t.addr]

\* HeapList::allocate: the first zone in the list that provides the
\* attributes and can serve the size.
Allocated(p, n, a, reverse) ==
    IF Serving(p, n, a) = {} THEN [pool |-> p, addr |-> NULL]
    ELSE LET i == First(Serving(p, n, a))
             t == IF reverse THEN TakenHigh(p[i], n) ELSE TakenLow(p[i], n)
         IN  [pool |-> [p EXCEPT ![i] = t.heap], addr |-> t.addr]

Containing(p, m) == {i \in DOMAIN p : Contains(p[i], m)}

\* Mutant of Deallocated: a zone's upper end is not looked at.
DeallocatedAbove(p, m, n) ==
    LET Above == {i \in DOMAIN p : Lower(p[i].zone) <= m}
    IN  IF Above = {} THEN p
        ELSE [p EXCEPT ![First(Above)] = Returned(@, m, n)]

\* HeapList::deallocate: the first zone that contains the address, if any.
Deallocated(p, m, n) ==
    IF Containing(p, m) = {} THEN p
    ELSE [p EXCEPT ![First(Containing(p, m))] = Returned(@, m, n)]

\* The loop of HeapList::available: what it reads of every zone, by its place
\* in the list, added up over the zones that provide the attributes.
AddedUp(p, a, figure) ==
    LET s[k \in 0 .. Len(p)] ==
            IF k = 0 THEN 0
            ELSE s[k - 1] + IF Provides(p[k], a) THEN figure[k] ELSE 0
    IN  s[Len(p)]

\* HeapList::available, by option.
Total(p, a) == AddedUp(p, a, [i \in DOMAIN p |-> Upper(p[i].zone) - Lower(p[i].zone)])

\* Mutant of Largest: the maximum starts again at every zone.
LargestOfLast(p, a) ==
    LET S == {i \in DOMAIN p : Provides(p[i], a)}
        i == CHOOSE i \in S : \A j \in S : i >= j
    IN  IF S = {} THEN 0
        ELSE Max({0} \cup {p[i].chunks[q].size : q \in DOMAIN p[i].chunks})

Largest(p, a) ==
    Max({0} \cup UNION {{p[i].chunks[q].size : q \in DOMAIN p[i].chunks} :
                        i \in {j \in DOMAIN p : Provides(p[j], a)}})

\* Mutant of FreeSum: the zones are not filtered by their attributes.
FreeSumOfAll(p, a) == AddedUp(p, {}, [i \in DOMAIN p |-> p[i].free])

FreeSum(p, a) == AddedUp(p, a, [i \in DOMAIN p |-> p[i].free])

\* HeapList::type; MEMF_ANY for an address in no zone.
TypeOf(p, m) ==
    IF Containing(p, m) = {} THEN {}
    ELSE p[First(Containing(p, m))].zone.attributes

-----------------------------------------------------------------------------
(* The calls.                                                              *)

Answer(op, n, a, at, m) ==
    call' = [op |-> op, size |-> n, attributes |-> a, at |-> at, result |-> m]

\* A client keeps what it was given, or nothing.
Keep(n, a, m) ==
    owned' = IF m = NULL THEN owned
             ELSE owned \cup {[addr |-> m, size |-> n, attributes |-> a]}

AddMemList(z) ==
    /\ pool' = Enqueue(pool, NewHeap(z))
    /\ UNCHANGED owned
    /\ Answer("AddMemList", 0, {}, z.base, NULL)

AllocMem(n, a, reverse) ==
    LET t == Allocated(pool, n, a, reverse)
    IN  /\ pool' = t.pool
        /\ Keep(n, a, t.addr)
        /\ Answer("AllocMem", n, a, NULL, t.addr)

\* HeapList::allocate_at asks the zone that contains the address, and no other.
AllocAbs(m, n) ==
    \/ /\ \A i \in Containing(pool, m) :
            \/ Refuses(pool[i].free, n)
            \/ NoneHolds(pool[i].chunks, m, RoundUp(n))
       /\ UNCHANGED <<pool, owned>>
       /\ Answer("AllocAbs", n, {}, m, NULL)
    \/ \E i \in Containing(pool, m) :
         /\ i = First(Containing(pool, m))
         /\ ~Refuses(pool[i].free, n)
         /\ \E c \in FirstHolding(pool[i].chunks, m, RoundUp(n)) :
              pool' = [pool EXCEPT ![i] =
                          Shrunk(@, CarveAt(@.chunks, c, m, RoundUp(n)), n)]
         /\ Keep(n, {}, m)
         /\ Answer("AllocAbs", n, {}, m, m)

FreeMem(b) ==
    /\ pool' = Deallocated(pool, b.addr, b.size)
    /\ owned' = owned \ {b}
    /\ Answer("FreeMem", b.size, {}, b.addr, NULL)

-----------------------------------------------------------------------------
\* As in Heap.tla: the block shares an end with the chunk it is cut from.
AtAnEdge(m, n) ==
    \A i \in Containing(pool, m) :
        \A c \in FirstHolding(pool[i].chunks, m, RoundUp(n)) :
            \/ m = pool[i].chunks[c].start
            \/ m + RoundUp(n) = End(pool[i].chunks[c])

Added == {pool[i].zone : i \in DOMAIN pool}

\* Addresses clients ask for: the multiples of 8 of the zones they added.
Targets == UNION {{x \in Run(z.base, z.size) : x % 8 = 0} : z \in Added}

Init ==
    /\ pool = << >>
    /\ owned = {}
    /\ call = [op |-> "none", size |-> 0, attributes |-> {}, at |-> NULL, result |-> NULL]

Next ==
    \/ \E z \in Zones \ Added : AddMemList(z)
    \/ \E n \in Requests, a \in Wanted, reverse \in BOOLEAN : AllocMem(n, a, reverse)
    \/ \E n \in Requests, m \in Targets : AtAnEdge(m, n) /\ AllocAbs(m, n)
    \/ \E b \in owned : FreeMem(b)

Spec == Init /\ [][Next]_poolVars

-----------------------------------------------------------------------------
Extent(b) == Run(b.addr, RoundUp(b.size))

\* The zones of the pool were added, their counters and chunks are in range.
ZonesTyped ==
    \A i \in DOMAIN pool :
        /\ pool[i].zone \in Zones
        /\ pool[i].free \in 0 .. (pool[i].zone.size - HeaderSize)
        /\ \A q \in DOMAIN pool[i].chunks : pool[i].chunks[q].size > 0

\* Zone by zone, the free list and the blocks handed out from that zone
\* partition the addresses it manages: a block goes back to the zone it came
\* from, none straddles two, and nothing leaks by way of MemEntries.
ZonesPartitioned ==
    /\ \A i \in DOMAIN pool :
         LET z    == pool[i].zone
             held == {b \in owned : Contains(pool[i], b.addr)}
         IN  /\ FreeBytes(pool[i].chunks) \cup UNION {Extent(b) : b \in held}
                   = Lower(z) .. (Upper(z) - 1)
             /\ \A b \in held : Extent(b) \cap FreeBytes(pool[i].chunks) = {}
             /\ Separated(pool[i].chunks)
    /\ \A b, c \in owned : b # c => Extent(b) \cap Extent(c) = {}
    /\ \A b \in owned : Containing(pool, b.addr) # {}

\* Memory asked for with requirements lies in a zone that TypeOfMem says has
\* them, whatever was added, allocated or freed since.
RequirementsHonoured ==
    \A b \in owned : b.attributes \subseteq TypeOf(pool, b.addr)

\* AvailMem's sums: what is not free is held, in the zones that qualify.
AvailAddsUp ==
    \A a \in Wanted :
        Total(pool, a) - FreeSum(pool, a)
          = Cardinality(UNION {Extent(b) : b \in {c \in owned :
                                                   a \subseteq TypeOf(pool, c.addr)}})

\* AvailMem(MEMF_LARGEST) is the caller's forecast: AllocMem of that many
\* bytes with the same requirements succeeds, and of more fails.
LargestIsExact ==
    [][call'.op = "AllocMem" =>
         (call'.result # NULL <=>
            /\ call'.size > 0
            /\ RoundUp(call'.size) <= Largest(pool, call'.attributes))]_poolVars

\* AllocMem never takes a slower zone while a faster one that qualifies has a
\* chunk large enough.
NeverSlowerThanNeeded ==
    [][call'.op = "AllocMem" /\ call'.result # NULL =>
         \A i \in DOMAIN pool :
            /\ Provides(pool[i], call'.attributes)
            /\ \E q \in DOMAIN pool[i].chunks :
                  pool[i].chunks[q].size >= RoundUp(call'.size)
            => \E j \in Containing(pool, call'.result) :
                  pool[j].zone.priority >= pool[i].zone.priority]_poolVars
=============================================================================
