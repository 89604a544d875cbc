---------------------------------- MODULE Boot ----------------------------------
(***************************************************************************)
(* Bringing exec up: ExecBase::startup and ExecBase::startup2              *)
(* (src/src/exec/execbase.cpp) as a composition.  The ranges RamProbe finds*)
(* become the zones of a MemPool on the stack; the supervisor stack and    *)
(* ExecBase are taken from it; its zones move to the MemPool in ExecBase,  *)
(* from which the first task, the nodes and the array of RomTags and the   *)
(* libraries of its residents are taken, some of them by way of new and    *)
(* delete (src/src/exec/new.cpp).  Addresses and sizes are the real ones.  *)
(***************************************************************************)
EXTENDS RamProbe, FiniteSets

CONSTANTS
    Lowest,         \* where the windows of RamProbe begin: bank to address ...
    StepSize,       \* ... and how many bytes its steps are
    ExecBaseBytes,  \* an ExecBase with its jump table, rounded up
    TaskBytes,      \* sizeof(Task)
    LibraryBytes,   \* a library that a resident asks for, with its jump table
    RomSize, Roms,  \* as in RomTags
    Systems         \* machines with their ROMs

ASSUME BootAssumption ==
    /\ \A bank \in {"chip", "slow", "a3000"} :
         Lowest[bank] \in Nat /\ StepSize[bank] \in Nat \ {0}
    /\ {ExecBaseBytes, TaskBytes, LibraryBytes} \subseteq Nat \ {0}
    /\ Systems \subseteq Machines \X Roms

VARIABLES
    heaplist,   \* the zones startup knows, on its stack
    pool,       \* the zones in ExecBase
    owned,      \* the blocks taken from either, as in MemPool
    call,       \* the last call of either
    bootinfo,   \* chipmem_top and slowmem_top, as ExecBase records them
    kept,       \* the blocks of what startup and startup2 make for good
    nodeAt,     \* the nodes of the BuilderList: name of the resident to address
    stage,      \* where startup is, and whether what follows is defined
    rom, p, builder, count, array, room, k, inited, romPhase    \* as in RomTags

Stack == INSTANCE MemPool
            WITH pool <- heaplist, Zones <- {}, Requests <- {}, Wanted <- {}
Pool  == INSTANCE MemPool WITH Zones <- {}, Requests <- {}, Wanted <- {}
Rom   == INSTANCE RomTags WITH phase <- romPhase

\* The ROMs are such as RomTags takes.
ASSUME RomsAssumption == RomSize \in Nat /\ \A r \in Roms : Rom!IsRom(r)

memVars == <<heaplist, pool, owned, call>>
romVars == <<rom, p, builder, count, array, room, k, inited, romPhase>>
madeVars == <<bootinfo, kept, nodeAt>>
bootVars == <<probeVars, memVars, romVars, madeVars, stage>>

NULL == 0

\* The initial stack, and startup's heaplist with it, ends here.
FirstPage == 4096

SupervisorStack == 6 * 1024
ExecStack       == 4096

\* A BuilderNode: a Node and a pointer.
NodeBytes == 18

-----------------------------------------------------------------------------
(* The zones.                                                              *)

Address(bank, i) == Lowest[bank] + i * StepSize[bank]

AttributesOf(bank) ==
    CASE bank = "chip"  -> {"public", "chip", "local", "dma24", "kick"}
      [] bank = "slow"  -> {"public", "local", "dma24", "kick"}
      [] bank = "a3000" -> {"public", "fast", "local", "kick"}

PriorityOf(bank) == CASE bank = "chip" -> -10 [] bank = "slow" -> 0 [] bank = "a3000" -> 30

\* Chip RAM without its first page; the other banks as they are.
RangeOf(bank, r) ==
    <<IF bank = "chip" THEN FirstPage ELSE Address(bank, r[1]), Address(bank, r[2])>>

ZoneOf(bank, r) ==
    [base       |-> RangeOf(bank, r)[1],
     size       |-> RangeOf(bank, r)[2] - RangeOf(bank, r)[1],
     attributes |-> AttributesOf(bank),
     priority   |-> PriorityOf(bank)]

Empty(r) == r[1] >= r[2]

\* The windows follow each other, and a bank of one step has room for a Heap
\* node, Chip RAM behind its first page.
ASSUME WindowAssumption ==
    /\ Address("chip", ChipWindow) <= Lowest["slow"]
    /\ Address("slow", SlowWindow) <= Lowest["a3000"]
    /\ \A bank \in {"slow", "a3000"} : StepSize[bank] > Pool!HeaderSize
    /\ StepSize["chip"] > FirstPage + Pool!HeaderSize

\* startup adds a bank to its list, if there is any of it.
AddBank(bank, here, then) ==
    /\ stage = here /\ stage' = then
    /\ IF Empty(found[bank]) /\ bank # "chip"
       THEN UNCHANGED <<heaplist, owned, call>>
       ELSE Stack!AddMemList(ZoneOf(bank, found[bank]))
    /\ UNCHANGED <<probeVars, pool, romVars, madeVars>>

Probe ==
    /\ stage = "probe"
    /\ Next
    /\ stage' = IF phase' = "done" THEN "add_a3000" ELSE stage
    /\ UNCHANGED <<memVars, romVars, madeVars>>

-----------------------------------------------------------------------------
(* What startup allocates.                                                 *)

\* Nobody looks whether there was memory: what is built at NULL destroys the
\* exception vectors, and anything may follow.
OrWild(then) == stage' = IF call'.result = NULL THEN "wild" ELSE then

\* The block just allocated is there to stay.
Stays == kept' = kept \cup {call'.result}

\* The supervisor stack comes from the top; without one startup stops.
MakeStack ==
    /\ stage = "stack"
    /\ Stack!AllocMem(SupervisorStack, {"public"}, TRUE)
    /\ Stays
    /\ stage' = IF call'.result = NULL THEN "stopped" ELSE "execbase"
    /\ UNCHANGED <<probeVars, pool, romVars, bootinfo, nodeAt>>

\* Library::operator new adds the size of the jump table to whatever it is
\* given, so that startup's test for NULL never finds one.
MakeExecBase ==
    /\ stage = "execbase"
    /\ Stack!AllocMem(ExecBaseBytes, {"public"}, FALSE)
    /\ Stays
    /\ bootinfo' = [chipmem_top |-> Address("chip", found["chip"][2]),
                    slowmem_top |-> IF Empty(found["slow"]) THEN NULL
                                    ELSE Address("slow", found["slow"][2])]
    /\ OrWild("move")
    /\ UNCHANGED <<probeVars, pool, romVars, nodeAt>>

\* Mutant of MoveZone: add does not look at the priority.
MoveZoneInFront ==
    /\ stage = "move" /\ heaplist # << >>
    /\ pool' = << Head(heaplist) >> \o pool
    /\ heaplist' = Tail(heaplist)
    /\ UNCHANGED <<probeVars, owned, call, romVars, madeVars, stage>>

\* The constructor of ExecBase's own list takes the zones from startup's.
MoveZone ==
    /\ stage = "move" /\ heaplist # << >>
    /\ pool' = Pool!Enqueue(pool, Head(heaplist))
    /\ heaplist' = Tail(heaplist)
    /\ UNCHANGED <<probeVars, owned, call, romVars, madeVars, stage>>

MoveEnds ==
    /\ stage = "move" /\ heaplist = << >>
    /\ stage' = "task"
    /\ UNCHANGED <<probeVars, memVars, romVars, madeVars>>

\* Task::operator new.
MakeTask ==
    /\ stage = "task"
    /\ Pool!AllocMem(TaskBytes, {"public"}, FALSE)
    /\ Stays
    /\ OrWild("exec_stack")
    /\ UNCHANGED <<probeVars, heaplist, romVars, bootinfo, nodeAt>>

-----------------------------------------------------------------------------
(* new and delete, which remember the size in front of the object.         *)

\* Mutant of Prefix: the size is kept elsewhere.
PrefixNone == 0

Prefix == 8

New(n) == Pool!AllocMem(n + Prefix, {"public"}, FALSE)

Object == call'.result + Prefix

BlockOf(addr) == CHOOSE b \in owned : b.addr = addr - Prefix

\* Mutant of Delete: the object's address is released, not the block's.
DeleteObject(addr) ==
    /\ pool' = Pool!Deallocated(pool, addr, BlockOf(addr).size)
    /\ owned' = owned \ {BlockOf(addr)}
    /\ UNCHANGED call

Delete(addr) == Pool!FreeMem(BlockOf(addr))

\* What deallocate may write at the start of a block, and a node's next.
Overwritten(block) == block.addr .. (block.addr + 7)
NextOf(node) == node .. (node + 3)

MakeExecStack ==
    /\ stage = "exec_stack"
    /\ New(ExecStack)
    /\ Stays
    /\ OrWild("startup2")
    /\ UNCHANGED <<probeVars, heaplist, romVars, bootinfo, nodeAt>>

-----------------------------------------------------------------------------
(* startup2, in user mode.                                                 *)

\* A tag: a node is made for it if its name is new.
ScanTag ==
    /\ stage = "startup2"
    /\ Rom!SearchTag
    /\ IF Rom!Named(rom[p].name) # {}
       THEN UNCHANGED <<pool, owned, call, nodeAt, stage>>
       ELSE /\ New(NodeBytes)
            /\ nodeAt' = [n \in DOMAIN nodeAt \cup {rom[p].name} |->
                             IF n = rom[p].name THEN Object ELSE nodeAt[n]]
            /\ OrWild(stage)
    /\ UNCHANGED <<probeVars, heaplist, bootinfo, kept>>

MakeArray ==
    /\ stage = "startup2"
    /\ Rom!FlattenBegins
    /\ New(4 * count)
    /\ Stays
    /\ OrWild(stage)
    /\ UNCHANGED <<probeVars, heaplist, bootinfo, nodeAt>>

\* Mutant of FlattenNode: the node is not deleted.
FlattenNodeKept ==
    /\ stage = "startup2"
    /\ Rom!FlattenNode
    /\ UNCHANGED <<probeVars, memVars, madeVars, stage>>

\* A node is deleted, and then the iterator goes on by its link to the next.
FlattenNode ==
    /\ stage = "startup2"
    /\ Rom!FlattenNode
    /\ LET node == nodeAt[Head(builder).name]
       IN  /\ Delete(node)
           /\ stage' = IF Overwritten(BlockOf(node)) \cap NextOf(node) = {}
                       THEN stage ELSE "wild"
    /\ UNCHANGED <<probeVars, heaplist, madeVars>>

\* make_library is asked for a library, and answers NULL without memory: then
\* there is nothing to add.
MakeLibrary ==
    /\ stage = "startup2"
    /\ Rom!Initialise /\ rom[array[k]].autoinit
    /\ New(LibraryBytes)
    /\ IF call'.result = NULL THEN romPhase' = "initialise" /\ UNCHANGED kept ELSE Stays
    /\ UNCHANGED <<probeVars, heaplist, bootinfo, nodeAt, stage>>

\* The other steps of startup2 take no memory; a module that initialises
\* itself is external.
GoOnStartup2 ==
    /\ stage = "startup2"
    /\ \/ Rom!SearchOn \/ Rom!SearchEnds
       \/ Rom!FlattenEnds
       \/ Rom!Skip \/ Rom!InitialiseEnds
       \/ Rom!Initialise /\ ~rom[array[k]].autoinit
    /\ UNCHANGED <<probeVars, memVars, madeVars, stage>>

-----------------------------------------------------------------------------
BootInit ==
    /\ Init /\ Rom!Init
    /\ <<machine, rom>> \in Systems
    /\ heaplist = << >> /\ pool = << >> /\ owned = {}
    /\ call = [op |-> "none", size |-> 0, attributes |-> {}, at |-> NULL, result |-> NULL]
    /\ bootinfo = [chipmem_top |-> NULL, slowmem_top |-> NULL]
    /\ kept = {} /\ nodeAt = << >>
    /\ stage = "probe"

BootNext ==
    \/ Probe
    \/ AddBank("a3000", "add_a3000", "add_slow")
    \/ AddBank("slow", "add_slow", "add_chip")
    \/ AddBank("chip", "add_chip", "stack")
    \/ MakeStack \/ MakeExecBase \/ MoveZone \/ MoveEnds \/ MakeTask \/ MakeExecStack
    \/ ScanTag \/ MakeArray \/ FlattenNode \/ MakeLibrary \/ GoOnStartup2

\* The processor runs, and nothing else does: interrupts and DMA are off, and
\* there is one task.
BootSpec == BootInit /\ [][BootNext]_bootVars /\ WF_bootVars(BootNext)

-----------------------------------------------------------------------------
\* The memory the machine has.
Has(bank) ==
    CASE bank = "chip" -> <<0, machine.chip>> [] bank = "slow" -> <<0, machine.slow>>
      [] bank = "a3000" -> machine.fast

\* The zones it should become, fastest first.
OfBank(bank) == IF Empty(Has(bank)) THEN << >> ELSE << ZoneOf(bank, Has(bank)) >>
AllZones == OfBank("a3000") \o OfBank("slow") \o OfBank("chip")

\* Once ExecBase has its list, it manages all the memory of the machine but
\* the page the initial stack is in, fastest first, with what each bank is
\* good for, and nothing is left on startup's stack; and ExecBase tells where
\* Chip RAM and Slow RAM end, or that there is no Slow RAM.
HandedOver ==
    stage \in {"task", "exec_stack", "startup2"} =>
        /\ heaplist = << >>
        /\ [i \in DOMAIN pool |-> pool[i].zone] = AllZones
        /\ bootinfo.chipmem_top = Address("chip", machine.chip)
        /\ bootinfo.slowmem_top
             = IF machine.slow = 0 THEN NULL ELSE Address("slow", machine.slow)

\* What a zone should consist of: its free chunks and the blocks taken from
\* it, from their first address up to the one behind their last.
Parts(h) ==
    {[free |-> TRUE, from |-> c.start, to |-> c.start + c.size] :
        c \in {h.chunks[q] : q \in DOMAIN h.chunks}}
    \cup
    {[free |-> FALSE, from |-> b.addr, to |-> b.addr + Pool!RoundUp(b.size)] :
        b \in {b \in owned : Pool!Contains(h, b.addr)}}

\* From the first zone on, in whichever list a zone is, what boot has taken
\* and what is free lie in it side by side and make up the whole of it: no
\* two overlap, one is at the bottom, and behind each is another or the end.
NothingOverlaps ==
    \A h \in {heaplist[i] : i \in DOMAIN heaplist} \cup {pool[i] : i \in DOMAIN pool} :
        /\ \A d, e \in Parts(h) : d # e => d.to <= e.from \/ e.to <= d.from
        /\ \E e \in Parts(h) : e.from = Pool!Lower(h.zone)
        /\ \A e \in Parts(h) :
             /\ Pool!Lower(h.zone) <= e.from /\ e.from < e.to /\ e.to <= Pool!Upper(h.zone)
             /\ e.to = Pool!Upper(h.zone) \/ \E d \in Parts(h) : d.from = e.to

\* No machine is so small that an allocation startup does not look at fails,
\* and flatten never follows the link of a deleted node that the heap has
\* written over.
NeverWild == stage # "wild"

\* What startup and startup2 allocate before the residents are initialised,
\* with a ROM that has residents of n names.
Demand(n) ==
    Pool!RoundUp(SupervisorStack) + Pool!RoundUp(ExecBaseBytes)
    + Pool!RoundUp(TaskBytes) + Pool!RoundUp(ExecStack + Prefix)
    + n * Pool!RoundUp(NodeBytes + Prefix) + Pool!RoundUp(4 * (n + 1) + Prefix)

Names(r) == {r[a].name : a \in {a \in DOMAIN r : r[a].tag}}

\* Machines whose Chip RAM alone is enough for their ROM.
EnoughChip ==
    \A s \in Systems :
        Address("chip", s[1].chip) - FirstPage - Pool!HeaderSize
          >= Demand(Cardinality(Names(s[2])))

\* When there is nothing left to initialise, the blocks in use are the two
\* stacks, ExecBase, the task, the array and the libraries: every node that
\* the scan allocated has been given back, superseded residents or not.
NothingLeft ==
    romPhase \in {"idle", "stopped"} =>
        /\ Len(array) + 1 = count
        /\ {b.addr : b \in owned} = kept

\* On every machine, with every ROM, boot comes to its idle loop or is stopped
\* by a library that was made for a resident.
BootEnds == <>(stage = "startup2" /\ romPhase \in {"idle", "stopped"})
=============================================================================
