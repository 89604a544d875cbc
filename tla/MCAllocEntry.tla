----------------------------- MODULE MCAllocEntry -----------------------------
(***************************************************************************)
(* A pool in the proportions of an Amiga 500 with two small expansions,    *)
(* fast memory tried first and chip memory last, and requests of up to two *)
(* entries: they fit in one zone, need two, or fail at the MemEntry, at    *)
(* the first or at the second entry.                                       *)
(***************************************************************************)
EXTENDS AllocEntry

MCZones ==
    { [base |-> 8,   size |-> 72,  attributes |-> {"public", "chip"}, priority |-> -10],
      [base |-> 80,  size |-> 48,  attributes |-> {"public", "fast"}, priority |-> 0],
      [base |-> 128, size |-> 40,  attributes |-> {"public", "fast"}, priority |-> 0] }

MCRequests == {0, 12}

MCWanted == {{}, {"chip"}, {"public", "fast"}}

Entry(n, a, r) == [size |-> n, attributes |-> a, reverse |-> r]

\* Requests with an empty entry in front, and with one behind another entry,
\* which makes the code forget that the other failed.
MCRequestLists ==
    { << >> } \cup
    { << Entry(8, {}, FALSE) >>, << Entry(40, {"fast"}, FALSE) >>,
      << Entry(0, {}, FALSE), Entry(24, {}, FALSE) >>,
      << Entry(24, {"chip"}, FALSE), Entry(0, {}, FALSE) >> } \cup
    { << Entry(m, a, r), Entry(n, b, r) >> :
        m \in {12, 24}, n \in {8}, a \in {{}}, b \in {{}, {"fast"}}, r \in BOOLEAN }

\* A MemEntry lies in the block that is allocated for it, which it would not
\* with the sizes that the code computes.
ASSUME MCFits ==
    \A r \in MCRequestLists :
        /\ SizeOfMemEntry(Len(r)) <= RoundUp(MemEntryBytes(Len(r)))
        /\ ~(SizeOfMemEntry(Len(r)) <= RoundUp(2 + 4 * Len(r)))
=============================================================================
