------------------------------- MODULE NodeList -------------------------------
(***************************************************************************)
(* What a list of exec.library promises whoever walks it from the head: a  *)
(* sequence of nodes that changes by one operation at a time, each taking  *)
(* effect at one instant between its call and its return.                  *)
(***************************************************************************)
EXTENDS Integers, Sequences

CONSTANTS
    Nodes,      \* the nodes there are
    Priority    \* their priorities: a function

VARIABLES
    seq,        \* the nodes in the list, from the head
    request     \* the operation called and not yet in effect

listVars == <<seq, request>>

NoRequest == [op |-> "none"]

Listed  == {seq[i] : i \in DOMAIN seq}
IndexOf(n) == CHOOSE i \in DOMAIN seq : seq[i] = n

\* Node n comes to stand at position k.
Insert(n, k) == seq' = SubSeq(seq, 1, k - 1) \o << n >> \o SubSeq(seq, k, Len(seq))

Delete(k) == seq' = SubSeq(seq, 1, k - 1) \o SubSeq(seq, k + 1, Len(seq))

-----------------------------------------------------------------------------
\* A node is put into a list it is not in, next to a node that is, and taken
\* out of one it is in.
Legal(r) ==
    \/ r.op \in {"unshift", "push", "enqueue"} /\ r.node \notin Listed
    \/ r.op \in {"insert_after", "insert_before"} /\ r.node \notin Listed /\ r.at \in Listed
    \/ r.op = "remove" /\ r.node \in Listed
    \/ r.op \in {"shift", "pop"} /\ seq # << >>

Requests ==
    [op : {"unshift", "push", "enqueue", "remove"}, node : Nodes]
    \cup [op : {"insert_after", "insert_before"}, node : Nodes, at : Nodes]
    \cup [op : {"shift", "pop"}]

Call(r) ==
    /\ request = NoRequest
    /\ Legal(r)
    /\ request' = r
    /\ UNCHANGED seq

\* enqueue: behind the nodes of its own priority or a higher one.
Enqueued(n) ==
    \E k \in 1 .. (Len(seq) + 1) :
        /\ \A i \in 1 .. (k - 1) : Priority[seq[i]] >= Priority[n]
        /\ k <= Len(seq) => Priority[seq[k]] < Priority[n]
        /\ Insert(n, k)

Effect ==
    /\ \/ request.op = "unshift"       /\ Insert(request.node, 1)
       \/ request.op = "push"          /\ Insert(request.node, Len(seq) + 1)
       \/ request.op = "insert_after"  /\ Insert(request.node, IndexOf(request.at) + 1)
       \/ request.op = "insert_before" /\ Insert(request.node, IndexOf(request.at))
       \/ request.op = "enqueue"       /\ Enqueued(request.node)
       \/ request.op = "remove"        /\ Delete(IndexOf(request.node))
       \/ request.op = "shift"         /\ Delete(1)
       \/ request.op = "pop"           /\ Delete(Len(seq))
    /\ request' = NoRequest

Init == seq = << >> /\ request = NoRequest

Next == Effect \/ \E r \in Requests : Call(r)

Spec == Init /\ [][Next]_listVars
=============================================================================
