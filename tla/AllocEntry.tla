------------------------------ MODULE AllocEntry ------------------------------
(***************************************************************************)
(* AllocEntry and FreeEntry: several allocations that succeed or fail as   *)
(* one (HeapList::allocate_multiple and its helpers,                       *)
(* src/src/exec/memory.cpp).  Like the pool's other calls they run between *)
(* Forbid and Permit.                                                      *)
(***************************************************************************)
EXTENDS MemPool

CONSTANTS
    RequestLists,   \* sequences of [size, attributes, reverse]
    HeadBytes,      \* what the code allows for a MemEntry without its entries ...
    EntryBytes      \* ... and for each of them

ASSUME EntryAssumption ==
    /\ \A r \in RequestLists : /\ Len(r) \in Nat /\ DOMAIN r = 1 .. Len(r)
                               /\ \A i \in DOMAIN r : r[i].size \in Nat
    /\ HeadBytes \in Nat \ {0}
    /\ EntryBytes \in Nat

VARIABLE lists      \* the MemEntries that clients hold

entryVars == <<pool, owned, call, lists>>

\* The code's estimate of a MemEntry's size.
MemEntryBytes(count) == HeadBytes + EntryBytes * count

\* What the ABI gives it: a Node of 14 bytes, the count, and an address and a
\* size for each entry.
SizeOfMemEntry(count) == 16 + 8 * count

\* Mutant of MemEntryAllocated: the block is looked up but not taken.
MemEntryAllocatedShared(p, count) ==
    [Allocated(p, MemEntryBytes(count), {"public"}, FALSE) EXCEPT !.pool = p]

\* allocate_mementry.
MemEntryAllocated(p, count) == Allocated(p, MemEntryBytes(count), {"public"}, FALSE)

\* The options used for every entry are those of the second.  A request of
\* fewer entries has no second: what is read there is anything.
OptionsRead(request) ==
    IF Len(request) >= 2 THEN {request[2].reverse} ELSE BOOLEAN

\* Mutant of EntryServed: a failure is forgotten when a later entry succeeds.
EntryServedForgetful(s, e, reverse) ==
    LET t == Allocated(s.pool, e.size, e.attributes, reverse)
    IN  [pool    |-> t.pool,
         entries |-> Append(s.entries, [addr |-> t.addr, size |-> e.size]),
         failed  |-> IF t.addr = NULL THEN e.size ELSE 0]

\* One turn of the loop over a request, for its entry e.
EntryServed(s, e, reverse) ==
    LET t == Allocated(s.pool, e.size, e.attributes, reverse)
    IN  [pool    |-> t.pool,
         entries |-> Append(s.entries, [addr |-> t.addr, size |-> e.size]),
         failed  |-> IF t.addr = NULL THEN e.size ELSE s.failed]

\* The loop, from nothing served on.  It goes on after a failure; "failed" is
\* the size of the last entry that could not be served.
ServedSteps(p, request, reverse) ==
    LET s[k \in 0 .. Len(request)] ==
            IF k = 0 THEN [pool |-> p, entries |-> << >>, failed |-> 0]
            ELSE EntryServed(s[k - 1], request[k], reverse)
    IN  s

Served(p, request, reverse) == ServedSteps(p, request, reverse)[Len(request)]

\* The loop of deallocate_multiple: every entry, served or not, ...
ReleasedSteps(p, entries) ==
    LET q[k \in 0 .. Len(entries)] ==
            IF k = 0 THEN p ELSE Deallocated(q[k - 1], entries[k].addr, entries[k].size)
    IN  q

Released(p, entries) == ReleasedSteps(p, entries)[Len(entries)]

\* Mutant of MultipleDeallocated: the MemEntry itself is not released.
MultipleDeallocatedLeaks(p, me, entries) == Released(p, entries)

\* ... then the MemEntry.
MultipleDeallocated(p, me, entries) ==
    Deallocated(Released(p, entries), me, MemEntryBytes(Len(entries)))

\* The blocks that make up the MemEntry l and what it lists.
BlocksOf(l) ==
    {[addr |-> l.addr, size |-> MemEntryBytes(Len(l.entries)), attributes |-> {"public"}]}
    \cup {[addr |-> l.entries[i].addr, size |-> l.entries[i].size,
           attributes |-> l.request[i].attributes] :
          i \in {j \in DOMAIN l.entries : l.entries[j].addr # NULL}}

-----------------------------------------------------------------------------
\* The answer: the size that failed (with bit 31 set), or the MemEntry.
EntryAnswer(op, failed, m) == Answer(op, failed, {}, NULL, m)

AllocEntryCall(request) ==
    LET me == MemEntryAllocated(pool, Len(request))
    IN  \/ /\ me.addr = NULL
           /\ EntryAnswer("AllocEntry", MemEntryBytes(Len(request)), NULL)
           /\ UNCHANGED <<pool, owned, lists>>
        \/ /\ me.addr # NULL
           /\ \E reverse \in OptionsRead(request) :
                LET s == Served(me.pool, request, reverse)
                    l == [addr |-> me.addr, entries |-> s.entries,
                          request |-> request, reverse |-> reverse]
                IN  \/ /\ s.failed = 0
                       /\ pool' = s.pool
                       /\ lists' = lists \cup {l}
                       /\ owned' = owned \cup BlocksOf(l)
                       /\ EntryAnswer("AllocEntry", 0, me.addr)
                    \/ /\ s.failed # 0
                       /\ pool' = MultipleDeallocated(s.pool, me.addr, s.entries)
                       /\ EntryAnswer("AllocEntry", s.failed, NULL)
                       /\ UNCHANGED <<owned, lists>>

FreeEntry(l) ==
    /\ pool' = MultipleDeallocated(pool, l.addr, l.entries)
    /\ owned' = owned \ BlocksOf(l)
    /\ lists' = lists \ {l}
    /\ EntryAnswer("FreeEntry", 0, NULL)

-----------------------------------------------------------------------------
EntryInit == Init /\ lists = {}

\* A client does not release with FreeMem what it got from AllocEntry.
Loose == owned \ UNION {BlocksOf(l) : l \in lists}

EntryNext ==
    \/ \E z \in Zones \ Added : AddMemList(z) /\ UNCHANGED lists
    \/ \E n \in Requests, a \in Wanted, reverse \in BOOLEAN :
         AllocMem(n, a, reverse) /\ UNCHANGED lists
    \/ \E n \in Requests, m \in Targets :
         AtAnEdge(m, n) /\ AllocAbs(m, n) /\ UNCHANGED lists
    \/ \E b \in Loose : FreeMem(b) /\ UNCHANGED lists
    \/ \E r \in RequestLists : AllocEntryCall(r)
    \/ \E l \in lists : FreeEntry(l)

EntrySpec == EntryInit /\ [][EntryNext]_entryVars

-----------------------------------------------------------------------------
\* The zones are typed, and the MemEntries clients hold are lists of blocks
\* they hold.
EntryTypeOK ==
    /\ ZonesTyped
    /\ \A l \in lists : l.request \in RequestLists /\ BlocksOf(l) \subseteq owned
    /\ \A l, k \in lists : l # k => BlocksOf(l) \cap BlocksOf(k) = {}

\* "Atomic allocation": an AllocEntry that fails, at whatever entry and after
\* however many were served from whichever zones, leaves every free list and
\* every counter exactly as they were.
FailureLeavesNoTrace ==
    [][call'.op = "AllocEntry" /\ call'.result = NULL => pool' = pool]_entryVars

\* "Atomic allocation of multiple requests": a MemEntry handed to a client should
\* list a block for every entry that asked for memory.  What holds: a failed entry goes unnoticed only if an entry of size 0,
\* which fails too, follows it.  Neither success behind a failure nor a failure
\* behind a success hides one.
HolesBeforeEmpty ==
    \A l \in lists : \A i \in DOMAIN l.entries :
        l.entries[i].size > 0 /\ l.entries[i].addr = NULL
          => \E j \in DOMAIN l.entries : j > i /\ l.entries[j].size = 0
=============================================================================
