-------------------------------- MODULE Arena --------------------------------
(***************************************************************************)
(* What a memory zone promises its clients, with no free list: a set of    *)
(* free addresses, the blocks handed out, and for every call the answer it *)
(* must give.  An allocation fails only when no run of free addresses is   *)
(* long enough; allocate answers the lowest such run, allocate_reverse     *)
(* ("the highest address possible") the highest, and allocate_at the one   *)
(* asked for or none.                                                      *)
(***************************************************************************)
EXTENDS Integers, Chunks

CONSTANTS
    Base,       \* first address of the zone
    ZoneSize,   \* its length in bytes
    Requests    \* the sizes clients ask for

VARIABLES
    avail,      \* the free addresses
    owned,      \* the blocks clients hold: address and the size asked for
    call        \* the last call: its name, size, address asked for, answer

arenaVars == <<avail, owned, call>>

Zone == Run(Base, ZoneSize)

\* The blocks that can be asked for at a fixed address.
Targets == {a \in Zone : a % 8 = 0}

Blocks == [addr : Zone, size : Requests]

\* The addresses block b takes, its rounding included.
Extent(b) == Run(b.addr, RoundUp(b.size))

Calls == [op     : {"none", "allocate", "allocate_reverse", "allocate_at", "deallocate"},
          size   : Requests \cup {0},
          at     : Zone \cup {NULL},
          result : Zone \cup {NULL}]

NoCall == [op |-> "none", size |-> 0, at |-> NULL, result |-> NULL]

\* The call op(at, n) is answered with a.
Answer(op, n, at, a) ==
    call' = [op |-> op, size |-> n, at |-> at, result |-> a]

-----------------------------------------------------------------------------
\* Address a starts a free run that serves a request of n bytes.
Serves(a, n) == n > 0 /\ Run(a, RoundUp(n)) \subseteq avail

HandOver(op, n, at, a) ==
    /\ Answer(op, n, at, a)
    /\ Serves(a, n)
    /\ avail' = avail \ Run(a, RoundUp(n))
    /\ owned' = owned \cup {[addr |-> a, size |-> n]}

Decline(op, n, at) ==
    /\ Answer(op, n, at, NULL)
    /\ UNCHANGED <<avail, owned>>

AllocateLowest(n) ==
    \/ \E a \in Zone : /\ HandOver("allocate", n, NULL, a)
                       /\ \A b \in Zone : Serves(b, n) => a <= b
    \/ /\ Decline("allocate", n, NULL)
       /\ \A a \in Zone : ~Serves(a, n)

AllocateHighest(n) ==
    \/ \E a \in Zone : /\ HandOver("allocate_reverse", n, NULL, a)
                       /\ \A b \in Zone : Serves(b, n) => b <= a
    \/ /\ Decline("allocate_reverse", n, NULL)
       /\ \A a \in Zone : ~Serves(a, n)

AllocateThere(m, n) ==
    \/ HandOver("allocate_at", n, m, m)
    \/ /\ Decline("allocate_at", n, m)
       /\ ~Serves(m, n)

Release(b) ==
    /\ Answer("deallocate", b.size, b.addr, NULL)
    /\ avail' = avail \cup Extent(b)
    /\ owned' = owned \ {b}

Init ==
    /\ avail = Zone
    /\ owned = {}
    /\ call = NoCall

Next ==
    \/ \E n \in Requests : \/ AllocateLowest(n)
                           \/ AllocateHighest(n)
                           \/ \E m \in Targets : AllocateThere(m, n)
    \/ \E b \in owned : Release(b)

Spec == Init /\ [][Next]_arenaVars
=============================================================================
