------------------------------- MODULE ExecList -------------------------------
(***************************************************************************)
(* The doubly linked lists of exec.library (src/src/exec/list.hpp and      *)
(* list.cpp), store by store.  The nodes hold the links; a list is two     *)
(* marker nodes overlaid on one structure, so no operation treats the ends *)
(* as special cases.  An interrupt, or a task that preempts the one at     *)
(* work, may walk the list from the head between any two stores.           *)
(***************************************************************************)
EXTENDS Integers, Sequences, FiniteSets

CONSTANTS
    Nodes,      \* the nodes there are
    Priority,   \* their priorities: a function
    HEAD,       \* the start-of-list marker: &head
    TAIL,       \* the end-of-list marker: &tail
    NONE        \* nullptr, or a link never written

ASSUME ListAssumption ==
    /\ IsFiniteSet(Nodes)
    /\ Priority \in [Nodes -> -128 .. 127]
    /\ Cardinality({HEAD, TAIL, NONE}) = 3
    /\ Nodes \cap {HEAD, TAIL, NONE} = {}

VARIABLES
    next, prev, \* the links of every node
    job,        \* the operation at work on the list
    todo        \* the stores it still has to make

vars == <<next, prev, job, todo>>

\* A store to one link of one node.
Next_(n, v) == [link |-> "next", of |-> n, value |-> v]
Prev_(n, v) == [link |-> "prev", of |-> n, value |-> v]

-----------------------------------------------------------------------------
(* Walking.                                                                *)

\* The nodes a walker comes to, one after the other, from the node it is at.
Walk(link, from) ==
    LET step[i \in 0 .. (Cardinality(Nodes) + 1)] ==
            IF i = 0 THEN link[from]
            ELSE IF step[i - 1] \in Nodes THEN link[step[i - 1]] ELSE step[i - 1]
    IN  step

\* The walk gets to the marker and does not go round in circles.
Arrives(link, from, marker) ==
    \E i \in 0 .. (Cardinality(Nodes) + 1) : Walk(link, from)[i] = marker

\* The nodes between two markers, in the order of the walk.
Chain(link, from, marker) ==
    LET w   == Walk(link, from)
        len == CHOOSE i \in DOMAIN w : w[i] = marker /\ \A j \in 0 .. (i - 1) : w[j] # marker
    IN  [i \in 1 .. len |-> w[i - 1]]

Forward  == Chain(next, HEAD, TAIL)
Listed   == {Forward[i] : i \in DOMAIN Forward}

-----------------------------------------------------------------------------
(* The stores of each operation, in the order of the source.  A chained    *)
(* assignment a = b = v stores to b first.                                 *)

\* Mutant of UnshiftStores: the list is entered before the node is linked.
UnshiftStoresHeadFirst(n) ==
    << Next_(HEAD, n), Next_(n, next[HEAD]), Prev_(n, HEAD), Prev_(next[HEAD], n) >>

UnshiftStores(n) ==
    << Next_(n, next[HEAD]), Prev_(n, HEAD), Prev_(next[HEAD], n), Next_(HEAD, n) >>

PushStores(n) ==
    << Prev_(n, prev[TAIL]), Next_(n, TAIL), Next_(prev[TAIL], n), Prev_(TAIL, n) >>

InsertAfterStores(n, at) ==
    << Prev_(n, at), Next_(n, next[at]), Next_(at, n), Prev_(next[at], n) >>

\* Mutant of InsertBeforeStores: the old neighbour is not linked back.
InsertBeforeStoresOneWay(n, at) ==
    << Next_(n, at), Prev_(n, prev[at]), Next_(prev[at], n) >>

InsertBeforeStores(n, at) ==
    << Next_(n, at), Prev_(n, prev[at]), Prev_(at, n), Next_(prev[at], n) >>

\* Mutant of RemoveStores: the removed node is linked to itself.
RemoveStoresLoops(n) ==
    << Next_(prev[n], next[n]), Prev_(next[n], prev[n]), Next_(n, n) >>

RemoveStores(n) == << Next_(prev[n], next[n]), Prev_(next[n], prev[n]) >>

\* Mutant of FirstSlower: the search stops at an equal priority too.
FirstSlowerOrEqual(n) ==
    {m \in Listed : /\ Priority[m] <= Priority[n]
                    /\ \A i \in DOMAIN Forward :
                         (\E j \in DOMAIN Forward : i < j /\ Forward[j] = m)
                           => Priority[Forward[i]] > Priority[n]}

\* The first node of lower priority, at which enqueue stops.
FirstSlower(n) ==
    {m \in Listed : /\ Priority[m] < Priority[n]
                    /\ \A i \in DOMAIN Forward :
                         (\E j \in DOMAIN Forward : i < j /\ Forward[j] = m)
                           => Priority[Forward[i]] >= Priority[n]}

-----------------------------------------------------------------------------
NoJob == [op |-> "none"]

\* The operation r is called, and has the stores ss to make.
Begin(r, ss) ==
    /\ job' = r
    /\ todo' = ss
    /\ UNCHANGED <<next, prev>>

Unlisted == Nodes \ Listed

Unshift == \E n \in Unlisted : Begin([op |-> "unshift", node |-> n], UnshiftStores(n))

Push == \E n \in Unlisted : Begin([op |-> "push", node |-> n], PushStores(n))

InsertAfter ==
    \E n \in Unlisted, at \in Listed :
        Begin([op |-> "insert_after", node |-> n, at |-> at], InsertAfterStores(n, at))

InsertBefore ==
    \E n \in Unlisted, at \in Listed :
        Begin([op |-> "insert_before", node |-> n, at |-> at], InsertBeforeStores(n, at))

\* insert_before the first node of lower priority, or push.
Enqueue ==
    \E n \in Unlisted :
        \/ \E at \in FirstSlower(n) :
              Begin([op |-> "enqueue", node |-> n], InsertBeforeStores(n, at))
        \/ /\ FirstSlower(n) = {}
           /\ Begin([op |-> "enqueue", node |-> n], PushStores(n))

Remove == \E n \in Listed : Begin([op |-> "remove", node |-> n], RemoveStores(n))

IsEmpty == next[HEAD] = TAIL

\* shift and pop answer nullptr, and do nothing, if the list is empty.
Shift == ~IsEmpty /\ Begin([op |-> "shift"], RemoveStores(next[HEAD]))

Pop == ~IsEmpty /\ Begin([op |-> "pop"], RemoveStores(prev[TAIL]))

\* The next store of the operation at work.
Store ==
    /\ todo # << >>
    /\ LET s == Head(todo)
       IN  \/ /\ s.link = "next"
              /\ next' = [next EXCEPT ![s.of] = s.value]
              /\ UNCHANGED prev
           \/ /\ s.link = "prev"
              /\ prev' = [prev EXCEPT ![s.of] = s.value]
              /\ UNCHANGED next
    /\ todo' = Tail(todo)
    /\ job' = IF Len(todo) = 1 THEN NoJob ELSE job

\* MinList(): the markers point at each other.
Init ==
    /\ next = [n \in Nodes \cup {HEAD, TAIL} |-> IF n = HEAD THEN TAIL ELSE NONE]
    /\ prev = [n \in Nodes \cup {HEAD, TAIL} |-> IF n = TAIL THEN HEAD ELSE NONE]
    /\ job = NoJob
    /\ todo = << >>

\* One writer at a time: whoever changes a list others use holds it with
\* Forbid or Disable.
Next ==
    \/ /\ todo = << >>
       /\ Unshift \/ Push \/ InsertAfter \/ InsertBefore \/ Enqueue \/ Remove \/ Shift \/ Pop
    \/ Store

Spec == Init /\ [][Next]_vars

-----------------------------------------------------------------------------
\* Between any two stores of any operation, a walk from the head gets to the
\* end-of-list marker, coming to no node twice.
ForwardArrives ==
    /\ Arrives(next, HEAD, TAIL)
    /\ Cardinality(Listed) = Len(Forward)

\* Whenever no operation is at work, the list read backwards is the list read
\* forwards, reversed: remove and pop may rely on prev.
BackwardMirrors ==
    todo = << >> =>
        /\ Arrives(prev, TAIL, HEAD)
        /\ LET back == Chain(prev, TAIL, HEAD)
           IN  /\ Len(back) = Len(Forward)
               /\ \A i \in DOMAIN back : back[i] = Forward[Len(Forward) + 1 - i]

\* A walker that stood on a node when it was removed still gets to the end.
RemovedStillLeads ==
    \A n \in Nodes : next[n] # NONE => Arrives(next, n, TAIL)

\* The store of an operation that a walker from the head can notice, the one
\* to the next link of the node in front, is still to be made.
Unnoticed ==
    \E i \in DOMAIN todo :
        /\ todo[i].link = "next"
        /\ "node" \in DOMAIN job => todo[i].of # job.node

Abstract ==
    INSTANCE NodeList WITH seq <- Forward, request <- IF Unnoticed THEN job ELSE NoJob

\* To walkers from the head every operation is one instantaneous change of a
\* sequence: unshift, push and the inserts put the node where they say, and
\* enqueue behind all nodes of its priority or a higher one.
Implements == Abstract!Spec
=============================================================================
