------------------------------- MODULE RomTags -------------------------------
(***************************************************************************)
(* Resident modules at boot: the ROM is scanned for ROMTags, which are     *)
(* deduplicated by name into a priority queue (ResidentArray::BuilderList),*)
(* flattened into an array, and initialised in its order                   *)
(* (src/src/exec/library.cpp, called from startup2 in execbase.cpp).       *)
(***************************************************************************)
EXTENDS Integers, Sequences, FiniteSets

CONSTANTS
    RomSize,    \* the ROM has the addresses 1 to RomSize
    Roms        \* the ROMs to boot from: at every address a tag or Filler

Filler == [tag |-> FALSE]

\* A word is the start of a ROMTag if it holds the match word and a pointer
\* to itself.  What becomes of one that a scan takes for a tag by mistake is
\* not modelled: every module ends behind its tag.
IsRom(r) ==
    /\ DOMAIN r = 1 .. RomSize
    /\ \A a \in DOMAIN r :
         \/ r[a] = Filler
         \/ /\ r[a].tag
            /\ r[a].end \in Nat /\ r[a].end > a
            /\ r[a].version \in Nat /\ r[a].priority \in Int

ASSUME RomAssumption == RomSize \in Nat /\ \A r \in Roms : IsRom(r)

\* startup2: initialise(RTF_COLDSTART, 34).
MinVersion == 34

VARIABLES
    rom,        \* the ROM
    p,          \* search: the address looked at
    builder,    \* the BuilderList: nodes with a name, a priority, a resident
    count,      \* BuilderList::count
    array,      \* the ResidentArray, without its NULL
    room,       \* the entries it was allocated with
    k,          \* initialise: the index of the next entry
    inited,     \* the residents whose initialise was called, in order
    phase       \* where startup2 is

romVars == <<rom, p, builder, count, array, room, k, inited, phase>>

Resident(a) == rom[a]

-----------------------------------------------------------------------------
Named(name) == {i \in DOMAIN builder : builder[i].name = name}

\* Mutant of Enqueue: push.
EnqueueLast(node) == builder' = Append(builder, node)

\* enqueue: in front of the first node of lower priority.
Enqueue(node) ==
    \E i \in 1 .. (Len(builder) + 1) :
        /\ \A j \in 1 .. (i - 1) : builder[j].priority >= node.priority
        /\ i <= Len(builder) => builder[i].priority < node.priority
        /\ builder' = SubSeq(builder, 1, i - 1) \o << node >>
                        \o SubSeq(builder, i, Len(builder))

\* Mutant of Supersedes: the first tag found stays.
SupersedesNever(a, node) == FALSE

\* The new tag replaces the one the node has: a node keeps its priority, that
\* of the first tag of the name.
Supersedes(a, node) ==
    \/ Resident(a).version > Resident(node.resident).version
    \/ Resident(a).priority > node.priority

\* Mutant of Add: a duplicate is counted too.
AddCountsAll(a) ==
    /\ \/ /\ Named(Resident(a).name) = {}
          /\ Enqueue([name |-> Resident(a).name, priority |-> Resident(a).priority,
                      resident |-> a])
       \/ \E i \in Named(Resident(a).name) :
            builder' = IF Supersedes(a, builder[i])
                       THEN [builder EXCEPT ![i].resident = a]
                       ELSE builder
    /\ count' = count + 1

\* BuilderList::add.
Add(a) ==
    \/ /\ Named(Resident(a).name) = {}
       /\ Enqueue([name |-> Resident(a).name, priority |-> Resident(a).priority,
                   resident |-> a])
       /\ count' = count + 1
    \/ \E i \in Named(Resident(a).name) :
         /\ builder' = IF Supersedes(a, builder[i])
                       THEN [builder EXCEPT ![i].resident = a]
                       ELSE builder
         /\ UNCHANGED count

-----------------------------------------------------------------------------
\* Mutant of SearchTag: the scan goes on inside the module.
SearchTagOnward ==
    /\ phase = "search" /\ p <= RomSize /\ rom[p].tag
    /\ Add(p)
    /\ p' = p + 1
    /\ UNCHANGED <<rom, array, room, k, inited, phase>>

\* A tag: add it, and go on behind its module.
SearchTag ==
    /\ phase = "search" /\ p <= RomSize /\ rom[p].tag
    /\ Add(p)
    /\ p' = rom[p].end
    /\ UNCHANGED <<rom, array, room, k, inited, phase>>

SearchOn ==
    /\ phase = "search" /\ p <= RomSize /\ ~rom[p].tag
    /\ p' = p + 1
    /\ UNCHANGED <<rom, builder, count, array, room, k, inited, phase>>

SearchEnds ==
    /\ phase = "search" /\ p > RomSize
    /\ phase' = "flatten"
    /\ UNCHANGED <<rom, p, builder, count, array, room, k, inited>>

\* flatten: an array of count entries ...
FlattenBegins ==
    /\ phase = "flatten"
    /\ room' = count
    /\ phase' = "copy"
    /\ UNCHANGED <<rom, p, builder, count, array, k, inited>>

\* ... takes the residents of the list's nodes, which are deleted one by one ...
FlattenNode ==
    /\ phase = "copy" /\ builder # << >>
    /\ array' = Append(array, Head(builder).resident)
    /\ builder' = Tail(builder)
    /\ UNCHANGED <<rom, p, count, room, k, inited, phase>>

\* ... and a NULL behind the last.
FlattenEnds ==
    /\ phase = "copy" /\ builder = << >>
    /\ phase' = "initialise"
    /\ UNCHANGED <<rom, p, builder, count, array, room, k, inited>>

Eligible(a) == Resident(a).coldstart /\ Resident(a).version >= MinVersion

Skip ==
    /\ phase = "initialise" /\ k <= Len(array) /\ ~Eligible(array[k])
    /\ k' = k + 1
    /\ UNCHANGED <<rom, p, builder, count, array, room, inited, phase>>

\* Resident::initialise.  A module that initialises itself is called.  For
\* one that asks for RTF_AUTOINIT a library is made, which may fail for want
\* of memory; if the library says it is a library, a device or a resource,
\* AddLibrary, AddDevice or AddResource is called.  None of the three has an
\* implementation: their vectors hold an illegal instruction, and the
\* exception handler that startup.asm installs stops the machine.
Initialise ==
    /\ phase = "initialise" /\ k <= Len(array) /\ Eligible(array[k])
    /\ inited' = Append(inited, array[k])
    /\ k' = k + 1
    /\ \/ phase' = phase
       \/ Resident(array[k]).autoinit /\ phase' = "stopped"
    /\ UNCHANGED <<rom, p, builder, count, array, room>>

InitialiseEnds ==
    /\ phase = "initialise" /\ k > Len(array)
    /\ phase' = "idle"
    /\ UNCHANGED <<rom, p, builder, count, array, room, k, inited>>

-----------------------------------------------------------------------------
Init ==
    /\ rom \in Roms
    /\ p = 1
    /\ builder = << >> /\ count = 1
    /\ array = << >> /\ room = 0
    /\ k = 1
    /\ inited = << >>
    /\ phase = "search"

Next ==
    \/ SearchTag \/ SearchOn \/ SearchEnds
    \/ FlattenBegins \/ FlattenNode \/ FlattenEnds
    \/ Skip \/ Initialise \/ InitialiseEnds

\* Nothing else runs: interrupts are off and there is one task.
Spec == Init /\ [][Next]_romVars /\ WF_romVars(Next)

-----------------------------------------------------------------------------
\* The tags a scan comes to: the first of the ROM, then the first behind the
\* module of each.
Reached ==
    LET at[a \in 1 .. RomSize] ==
            /\ rom[a].tag
            /\ \A b \in 1 .. (a - 1) : at[b] => rom[b].end <= a
    IN  {a \in 1 .. RomSize : at[a]}

\* The first tag of a name that the scan comes to.
FirstOf(name) ==
    CHOOSE a \in Reached :
        /\ Resident(a).name = name
        /\ \A b \in Reached : Resident(b).name = name => a <= b

\* The first tag's priority gives the module its place; a later tag of the
\* name with a higher one replaces whatever is there, newer or not.
Place(a)  == Resident(FirstOf(Resident(a).name)).priority
Raises(a) == Resident(a).priority > Place(a)

\* a prevails over b, of the same name: over one before it by being newer, or
\* because a tag behind that and not behind a raises the priority; over one
\* behind it that neither is newer nor raises the priority.
Prevails(a, b) ==
    \/ /\ b < a
       /\ \/ Resident(b).version < Resident(a).version
          \/ \E c \in Reached :
               Resident(c).name = Resident(a).name /\ b < c /\ c <= a /\ Raises(c)
    \/ a < b /\ Resident(b).version <= Resident(a).version /\ ~Raises(b)

\* What is taken of every name.  Where tags of one name have one priority that
\* is the newest, and of equal versions the first.  Of others it should be, by
\* the comment in add, the newest, and of equal versions the one of the
\* highest priority; it is not if an older tag raises the priority.
Taken ==
    {a \in Reached :
        \A b \in Reached \ {a} : Resident(b).name = Resident(a).name => Prevails(a, b)}

\* Those that startup2 asks to be initialised.
Due == {a \in Taken : Resident(a).coldstart /\ Resident(a).version >= MinVersion}

\* No store of flatten is behind the end of the array: the residents and the
\* NULL fit, and leave nothing over, however many duplicates were met.
ArrayFits ==
    /\ phase = "copy" => Len(array) + Len(builder) < room
    /\ phase \in {"initialise", "idle", "stopped"} => room = Len(array) + 1

\* No module is found inside another one's code.
NothingInsideModules ==
    \A i \in DOMAIN builder : builder[i].resident \in Reached

\* Modules are initialised in the order of their places, wherever their other
\* tags are in the ROM and whichever of them was taken.
PriorityOrder ==
    \A i, j \in DOMAIN inited : i < j => Place(inited[i]) >= Place(inited[j])

\* The module taken of each name has been initialised once if it is of the
\* class and version asked for, and nothing else has.
DueInitialised ==
    /\ {inited[i] : i \in DOMAIN inited} = Due
    /\ Len(inited) = Cardinality(Due)

\* The scan, the flattening and the initialisation come to an end: either
\* what was due has been initialised, or the machine was stopped by a library
\* that was made for a module that asks for RTF_AUTOINIT.
BootCompletes ==
    <>(\/ phase = "idle" /\ DueInitialised
       \/ phase = "stopped" /\ Resident(inited[Len(inited)]).autoinit)
=============================================================================
