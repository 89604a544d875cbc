# Formal models of openkick's exec.library

openkick reimplements the Kickstart ROM of the Amiga; what exists of it is the
core of `exec.library`: memory pools, lists, resident modules, libraries, and
the boot code that brings them up. This directory holds TLA+ models of that
core, the TLC configurations that check them, and proofs that TLAPS checks.

    tlc -config Heap.cfg Heap            # check a run; PROJECT.json lists them all
    tlapm HeapProofs.tla                 # check the proofs of a module

Paths below are relative to the repository; `memory.cpp` stands for
`src/exec/memory.cpp` and so on.

## 1. Inventory

| Component | State | Operations | Hard parts | Correct if |
|---|---|---|---|---|
| **Memory zone** `Heap` (memory.cpp) | free list of `Chunk`s inside the free memory itself; counter `free` | `allocate`, `allocate_reverse`, `allocate_at`, `deallocate` | long mixes of split, truncate, unlink, merge; rounding; misuse | no byte lost or handed out twice; list sorted, disjoint, coalesced; counter exact; answers as promised |
| **Memory pool** `HeapList` (memory.cpp, exec.yml) | priority-ordered list of zones | AddMemList, AllocMem, AllocAbs, FreeMem, AvailMem, TypeOfMem | zones added at any time; requirements; which zone a block goes back to | best zone that qualifies; AvailMem tells the truth |
| **AllocEntry** (memory.cpp) | `MemEntry` lists | AllocEntry, FreeEntry | failure half-way; sizes estimated by formula | all or nothing |
| **Lists** (list.hpp, list.cpp) | `next`/`prev` of nodes, two overlaid markers | unshift, push, insert_after/before, enqueue, remove, shift, pop | interrupts and tasks that walk a list between two stores | a walker always gets to the end; each operation is one atomic change |
| **Resident modules** (library.cpp, execbase.cpp) | `BuilderList`, `ResidentArray` | search, add, flatten, initialise | duplicates of other versions and priorities; tags inside modules; array sized by a separate count | each name once, the newest version, in priority order |
| **Library jump tables** (library.cpp, exec.yml) | vectors, `flags`, `sum` | make_library, MakeFunctions, SetFunction, SumLibrary | mark and sum updated at different moments; no Forbid in MakeFunctions; table and structure are both optional | the checksum alert is raised only for real tampering |
| **InitStruct** `PackedStruct` (library.cpp) | position in a table and in a structure | unpack | fields read relative to a moving pointer | the structure is what the commands describe |
| **Memory probes** (execbase.cpp) | memory, bus, INTENA | is_repeat, is_writable, is_24bit, probe_chip/slow/a3000_ram | aliased addresses; a bus that remembers; custom chips in place of RAM | exactly the RAM there is; contents kept |
| **Debugger** (debugger.cpp, exec.yml) | format's position and arguments, serial registers | RawDoFmt, RawPutChar, RawMayGetChar | a device beside the processor; arguments of several widths | what is sent is what the format means, once and complete; what is received is lost only to an overrun |
| **ExecBase startup** (execbase.cpp, startup.asm) | the pool on the stack and the one in ExecBase, first task, residents | startup, startup2 | a heap list that changes place after blocks were taken from it; allocations nobody looks at; three ways to allocate | all RAM ends up in ExecBase's list; what boot made lies apart; the scan's nodes are given back |
| **Nesting** (execbase.cpp) | `idnestcnt`, INTENA | Disable, Enable | interrupts between counter and register | interrupts on exactly when nobody disables |
| **new/delete** (new.cpp) | 8 byte prefix of a block | new, delete | size remembered in the block | what is released is what was allocated |
| Arithmetic, strings (gcc.asm, libc.cpp) | – | multiply, divide, strcmp, bzero | – | gcc.asm is not called by a build for the 68020, which the Makefile asks for |
| Tasks, ports, semaphores, I/O (todo.hpp, message.hpp, exec.yml) | – | declarations and empty bodies | – | nothing to model at this commit |
| Build tools, register definitions, stubs | – | – | – | not part of the running system |

How they interact: `startup` probes memory, makes a `HeapList` of what it found,
allocates from it, and moves it into `ExecBase`. Every list (zones, residents
under construction, libraries) is an exec list; `HeapList::add` and
`BuilderList::add` use `enqueue`. `startup2` scans the ROM for residents;
initialising one may make a library, which takes memory from the pool. Clients
enter through the jump table generated from exec.yml; most pool calls run
between Forbid and Permit, AddMemList and MakeFunctions do not.

Two facts about this commit matter for reading the models. The body of
`List::enqueue` in list.cpp:48-59 is inside `#if 0` and there is no other, so the
program does not link; the models use that body. `Permit`, `Alert`, `AddLibrary`,
`AddDevice` and `AddResource` have no implementation: Permit is taken to end what
Forbid began, the others execute the illegal instruction in their vector, which
stops the machine. PROJECT.json lists under "hazards" what in this code is hard
to test, at the line where it bites.

## 2. Modules

| Module | Models | Correspondence |
|---|---|---|
| `Chunks` | list surgery of `Heap` | a free list is the sequence of `[start, size]` in link order; `CarveLow`, `CarveHigh`, `CarveAt`, `GiveBack` are the relinking of the four operations, `FirstFit`, `LastFit`, `FirstHolding`, `StopsAt` the loops that search |
| `Arena` | abstract zone | a set of free addresses and what each call must answer; no list |
| `Heap` | one zone | `chunks`, `free` are `first`, `free`; `owned` and `call` record what the clients hold and the last answer |
| `MemPool` | `HeapList` and its exec calls | `pool` is the list of zones, each with its attributes, list and counter |
| `AllocEntry` | AllocEntry, FreeEntry | extends `MemPool`, whose calls its next-state relation has too; `ServedSteps` and `ReleasedSteps` are the two loops over the entries, turn by turn |
| `NodeList` | abstract list | a sequence changed by one atomic effect between call and return |
| `ExecList` | lists, store by store | `next`, `prev` are the links; `todo` the stores the operation at work has still to make, in source order |
| `RomTags` | ROM scan to initialisation | `builder`, `count`, `array` are those of the code; `p`, `k` the loop positions; `Place` and `Prevails` say without the list what add makes of the tags of one name |
| `RamProbe` | the three probes | memory cells behind an address decoder, a bus that keeps the last value, INTENA; one step per loop round |
| `Boot` | startup, startup2, new and delete | extends `RamProbe`; `Stack` and `Pool` are two instances of `MemPool` (the list on startup's stack and `ExecBase::heap_list`), `Rom` one of `RomTags`; `stage` is the place in startup, `owned` what has been allocated from either list, `kept` what of it is for good, `nodeAt` the addresses of the scan's nodes |
| `Nesting` | Disable, Enable | `frames` is the stack of interrupted code: the task and the handlers on top of it, each between two calls or at one of the steps `++`, store to INTENA, `--`, store to INTENA, with the counter it has loaded; `calls` counts the Disables whose Enable has not been called |
| `InitStruct` | PackedStruct::unpack | `input`, `target` are the code's pointers; `Meant` is what the commands describe, written without them |
| `LibraryVectors` | jump table and checksum | `vectors`, `changed`, `sum`; `words` is half of `neg_size`, `below` the memory below the table; `made` which of its optional parts make_library was given; `making` the stores MakeFunctions has left; `tampered`, `raced` are history |
| `Formatter` | parts of `Formatter::format` | operators for reading a directive, fetching its argument, rendering it |
| `FormatMeaning` | what a format promises | formats as structured values; a reference rendering that parses nothing |
| `Debugger` | RawDoFmt with RawPutChar, RawMayGetChar, the port | `pattern`, `at`, `data`, `arg`, `directive` are format's variables; `txBuffer`, `shifter`, `rxBuffer`, `rbf` the port; `printed`, `received`, `overruns`, `got` are history |
| `MC*` | constants for TLC | |
| `Lemmas`, `*Proofs` | proofs | see section 4 |

Abstractions. A block's contents are not modelled (MEMF_CLEAR is therefore left
out), a chunk's header is (its place and size are the chunk). Names are strings,
attributes sets of strings. Addresses are numbers and sizes do not wrap: no zone
reaches the top of the address space. In `LibraryVectors` an address is its two
words, since the checksum adds words. In `RamProbe` addresses are counted in
probe steps and a cell has the four words that the probes touch; `Boot` turns them
into real addresses, and its sizes are those of the code. Of a table in
`InitStruct` the bytes are numbers, big-endian as the processor has them. In `Formatter` a
character is a string of length 1 and an argument one or two 16 bit words;
unsigned longs of 2^31 and more are left out. The meaning of a format in `FormatMeaning` is
written without a parser and without division by the base, so the two share only
the set of digits and the characters of "c" arguments. `Readable` says of one
format what the theorems of the debugger start from: each of its directives, read
where it stands, is read to its end, takes its arguments and renders as it means.

## 3. Runs

Passing:

* **heap** – one zone of 48 bytes at 8, requests of 0, 8, 12 and 24 bytes. Six
  units of 8 bytes are enough for two blocks with free memory before, between and
  behind them, so every combination of merges and of exact, low and high cuts
  occurs. Besides the invariants it checks that `Heap` implements `Arena`. Clients
  ask allocate_at only for blocks that share an end with their chunk (`AtAnEdge`),
  see *heap_any_target*.
* **heap_misuse** – a zone of 32 bytes at 16, whose clients release any of 13
  addresses, aligned or not, from 0 to behind the zone, with any of four sizes,
  held or not: twice, too long, over what is free, beside the zone or across its
  end. deallocate never compares with the zone's bounds, and neither does the
  model: memory outside gets linked, and what the property says is that the
  list stays a list. `FreeLimit` bounds the counter at two zone sizes; the
  blocks of the clients do not matter here and are hidden by the view. What others
  write into memory that they no longer hold is not modelled.
* **alloc_entry** – the pool and AllocEntry together: three zones of 40, 16 and 8
  bytes behind their nodes, two of equal priority, two attributes, added at any
  time among AllocMem from either end, AllocAbs, FreeMem, AllocEntry and
  FreeEntry. AllocMem asks for 0 bytes or 12, of which the zones hold two, one and
  none; the requests of AllocEntry have up to two entries and fail at the
  MemEntry, at the first, at the second, or not at all, with what they need in
  one zone or in several, an empty entry before or behind another among them.
  `HolesBeforeEmpty` says what holds of the promise of the comment: only an empty
  entry, see below, hides a failure. `LargestIsExact`
  ties AvailMem to AllocMem. `HeadBytes` and `EntryBytes` are what the structure
  needs (16, 8) so that every store stays in its block, as an ASSUME of
  `MCAllocEntry` checks; what the code computes (2, 4) is too little, see below.
* **exec_list** – four nodes, two of equal priority; all eight operations. Longer
  lists add nothing to an operation that touches two neighbours.
* **rom_tags** – every ROM of four words with modules of one or two words, so a
  tag may lie inside a module, at the end, or in one that reaches past the ROM.
  Of one name there are two versions, and a tag that supersedes by its priority,
  which is higher than that of other modules. `Due` says what the code takes of
  each name (`Taken`), and `PriorityOrder` in which order: by the first tag of the
  name. That this is not what the comments ask for is a disagreement listed
  below.
* **boot** – the whole of startup and startup2 on machines with Chip RAM that
  repeats or not, Slow RAM in front of the custom chips or of nothing, A3000 RAM
  anywhere in its window, and memory that happens to hold the very values the
  tests write. The windows are 6, 3 and 8 steps of 256, 4 and 256 KB, where the
  code has 40, 384 and 7744: enough for every relation between a bank, its
  repetitions and the end of its window, for a bank smaller than the
  supervisor stack, and for A3000 RAM that is larger than the Chip window. Three ROMs: four residents of
  which two have one name, two that ask for a library, none; the orders
  that ROMs can have are *rom_tags*' question. `NothingOverlaps` and
  `NothingLeft` follow every block from the first zone to the idle loop, across
  the move of the zones; `NeverWild` says that no allocation that nobody checks
  can fail, and that flatten's iterator, which stands on a node that has just
  been deleted, still finds its link: deallocate writes 8 bytes at the start of
  the block, and those are the prefix that new keeps in front of the node. An
  ASSUME of `MCBoot` shows that the machines and ROMs of the run satisfy `EnoughChip`,
  the condition under which the proof has `NeverWild`.
* **nesting** – one task and four levels of handlers, which may interrupt each
  other, and Disable itself, between any two steps; up to six Disables
  outstanding. The counter is a signed byte; the model's goes from -6 to 5, so
  that the bound `Depth` <= `Half` is met exactly (one Disable more and it wraps).
  The counter is loaded and stored in separate steps: right also for a compiler
  that does not increment in memory, since a handler leaves the counter as it
  found it.
* **library_vectors** – libraries made with and without a table and with and
  without a structure; tables of one vector and of two, addresses whose words add
  up to the same sum or to 0. What make_library leaves unset is chosen: the mark,
  a sum of 0, of 16 bits and of more, and a neg_size that covers no vector, one,
  two, or memory below the table, which changes too. `SumFollows` and
  `NoFalseAlarm` speak of the `Guarded` libraries: those with a structure, and
  those with a table whose neg_size happens to stay in it. A structure's neg_size
  is taken to reach no further than the table, and its sum to be 0, as unpack's
  clearing leaves it. Of the others see *library_unguarded*. ExecBase is made
  by operator new (library.cpp:512-519) from a table alone: what holds of it is
  what holds of a library with a table and no structure.
* **debugger** – every type of directive with the flags, widths and values that
  matter to it (digits around group boundaries, negative longs, null strings,
  fields shorter and longer than the width) between two literals, and scripts of
  several directives and calls, patterns that break off inside a directive
  among them; two characters arrive at any time, enough for
  one overrun before and one during RawMayGetChar. An ASSUME of `MCDebugger` finds
  all of these formats `Readable`, and another that pointers and negative words,
  which the formats of the run do not have, are not: see below.

CHECK_DEADLOCK is off where the system stops: after boot (`RomTags`, `Boot`),
after an alert (`LibraryVectors`) and at the end of a table (`InitStruct`).

Violations: what a comment says and the code does not do.

* **heap_any_target** – memory.cpp:241 calls the overlap of the two halves of a
  split chunk temporary; the sizes given at 244 and 248 make it permanent when
  allocate_at cuts strictly inside a chunk.
* **library_unguarded** – of make_library's parameters the table and the structure
  are optional (library.cpp:86, 434, 437), and nothing else writes the flags, the
  sum and neg_size of the library. Without both, the first SumLibrary compares
  what memory held with what it finds and stops the machine. The same happens
  with a table alone, once its mark is gone, if the neg_size left over reaches
  below the table and somebody writes there.
* **init_struct** – unpack never steps over the command byte (library.cpp:114). A
  command that states a gap is read right, because the gap's field is counted
  from the command; one without a gap copies its own byte as the first value, and
  so does a repetition, against the comments at 117, 126 and 135. With tables of
  the first kind alone the property holds.

Other disagreements met while modelling. The models reproduce these, but no run is
spent on them:

* an older resident of higher priority replaces a newer one (library.cpp:308-310),
  though the comment calls the priority a tie-breaker between equal versions, and
  the account of the startup (execbase.cpp:396) says "higher version, then higher
  priority"; for example, a "dos" of version 34 and priority 60 behind one of
  version 35 and priority 0. `Taken` describes what the code does;
* a replaced resident leaves its place to its successor, whatever priority that
  has (library.cpp:310); `PriorityOrder` speaks of the place;
* `%p` prints 0x and the digits that the value needs, 0x0 for a null pointer; the
  comment at debugger.cpp:153 says "pointer-length hex string, with 0x prefix
  and grouping". The zero fill that the type sets has no effect without a width
  (and with one the zeros come in front of the 0x), and hexadecimal digits are
  never grouped. `FormatMeaning` says what the comment does, and `MCUnreadable`
  that this is not what is printed;
* the sign of a "d" is tested in bit 31, also of a 16 bit argument that was loaded
  without its sign (debugger.cpp:182): a short -1 is printed as 65535. No comment says
  otherwise; `FormatMeaning` takes a word of type d to be signed, as a long is, and
  `MCUnreadable` shows the difference;
* a library without LIBF_SUMUSED is summed all the same, since `!flags & X` is
  `(!flags) & X` (library.cpp:455, against the comment at 454);
* startup's test for an ExecBase without memory (execbase.cpp:485) is never true,
  because Library::operator new adds the jump table's size to NULL
  (library.cpp:515-516);
* `%08x` pads with blanks, because a width switches zero fill off
  (debugger.cpp:139), and `%.3s` limits nothing, because the limit starts as ~0
  (144); the formats of the run have neither;
* a zone whose size is not a multiple of 8 comes to hold a chunk too small for
  its header (memory.cpp:160; `HeadersFit` in such a zone);
* the block for a MemEntry has 2 + 4n bytes (memory.cpp:589); the structure takes
  16 + 8n, so count and the entries are stored behind the block. "Probably
  should do sizeof()" says the comment (588); `MCFits` computes both;
* AllocEntry remembers a failure by the size of the entry (memory.cpp:562). An
  entry of size 0 fails too and makes it forget an earlier one: a MemEntry with a
  hole is handed out, against the "Atomic allocation of multiple requests" of the
  comment at 538. `HolesBeforeEmpty` allows that and nothing else;
* every entry is allocated by the options of the second (memory.cpp:557,
  `OptionsRead`), also where there is no second;
* probe_slow_ram does not restore the words at INTENA's place (execbase.cpp:235;
  `ContentsKept` leaves Slow RAM out), and the description of probe_a3000_ram
  (282) predates the call of is_24bit.

Outside the models: `assume_aligned(64)` (memory.hpp:74) although results are
multiples of 8; the first task is put into `task_ready`, which is for tasks that
are not running (execbase.cpp:507, execbase.hpp:116); chain pointers in resident
arrays are looked for in the address of the slot, not in its contents
(library.cpp:347, 365); the commands 0x70 to 0x7f of a PackedStruct are never
passed (library.cpp:143); getc, which nothing calls, waits on a value it read
once (debugger.cpp:41); gcc.asm's division is wrong, but not called by a build
for the 68020.

Fairness. Safety needs none. `RomTags` and `Boot` assume WF(Next): interrupts and
DMA are off, there is one task and nothing else on the machine, so the processor
goes on whenever it can. `Debugger` assumes WF of the code that is inside
RawDoFmt, whose only wait is a busy one, and WF of the port's sending: hardware
that shifts out what it holds. It assumes neither that a call of RawDoFmt is made
nor that a character arrives. It has one caller: RawPutChar excludes nobody, and
two tasks that print at once can lose characters. `Nesting` states none: handlers
may come for ever.

## 4. Proofs

The theorems hold for every value of the constants that the ASSUMEs of the
models allow; what a theorem assumes beyond them is in its statement, and named
here. Hardly an invariant of section 3 is inductive as it stands. Each proof
therefore has one that is, with a lemma for every action, and the theorems follow
from it. PROJECT.json lists them under "theorems".

| Proof module | Proves | By way of |
|---|---|---|
| `Lemmas` | what several proofs need: induction, sets of addresses, list surgery | |
| `HeapProofs` | `TypeOK`, `FreeListSound`, `Partition`, `FreeCounted`, `ReleasedIsWhole`, `HeadersFit`, `MisuseOnlyInflates`; `Heap` implements `Arena` | `HeapInv`, `UnitsInv`, `MisuseInv` |
| `PoolProofs` | `ZonesPartitioned`, `AvailAddsUp`, `RequirementsHonoured`, `EntryTypeOK`, `HolesBeforeEmpty`; the action properties `FailureLeavesNoTrace`, `LargestIsExact`, `NeverSlowerThanNeeded` | `PoolInv` |
| `ExecListProofs` | `ForwardArrives`, `BackwardMirrors`, `RemovedStillLeads`; `ExecList` implements `NodeList` | `ListInv` |
| `RomTagsProofs` | `ArrayFits`, `NothingInsideModules`, `PriorityOrder`, and what is initialised in the end | `RomInv`, `OrderInv` |
| `LibraryProofs` | `TypeOK`, `SumFollows`, `NoFalseAlarm` | `SumInv` |
| `ProcessorProofs` | `DisabledMeansOff`, `CountTellsNesting`; the debugger's `ReceivedAccounted`, `LineFollowsFormat`, `TypeOK` | `NestingInv`, `ReceiveInv`, `PrintInv` |
| `BootProofs` | `FoundExact`, `ContentsKept`, `HandedOver`, `NothingOverlaps`, `NothingLeft`, `NeverWild` | `ProbeInv`, `BootInv`, `UsedInv`, `RoomInv` |

**Induction.** An induction theorem that takes a predicate as a parameter is of
no use to the provers at hand. `Lemmas` proves induction over sets instead, from
the least element of a set of naturals: what a loop has done after `k` turns is
shown by way of the set of the `k` for which it holds. This is how the theorems
reach the loops that the models write as recursive functions: the loops of
AllocEntry and FreeEntry over their entries, the sums of AvailMem, the
checksum, walks along a list, the scan of a ROM.

**One zone** (`HeapInv`, any base, size and requests). `deallocate` keeps the list
sorted and disjoint only because the block comes from a client and so overlaps
no chunk; the counter is exact only because what `allocate` takes was wholly on
the list; and the list stays coalesced (a gap between any two chunks) only because
deallocate merges on both sides. Coalescing is also what the refinement needs: a run of
free addresses lies in one chunk (`RunInOneChunk`), so "no chunk is large enough"
means "no free run is", and the lowest chunk that fits starts the lowest run.
`SpliceSound` says when replacing a stretch of a sound list by another leaves it
sound, and the `...Sound` lemmas apply it to the four operations. `HeadersAlwaysFit`
assumes that base and size of the zone are multiples of 8 (of others it is wrong,
see section 3) and carries along that chunks and blocks are (`UnitsInv`).
`MisuseIsContained` has to do without anything about blocks, and without the bounds
of the zone: any address is released with any size (`Misplaced`, `FreeLimit` are
arbitrary). deallocate gives up where what is released overlaps its neighbours,
and where it does not give up, it overlaps no chunk at all
(`NoClashDisjoint`), because the list is sorted. It is the list that is contained,
not memory: that chunks lie in the zone is `FreeListSound`, which needs clients that
release what they hold.

**The pool** (`PoolInv`). In every zone what holds of one zone; every block lies in
a single zone that has what was asked for, apart from all others and from all
free memory; and every MemEntry lists blocks that are held, none of them listed
elsewhere, which is why FreeEntry releases nothing twice. That a failed AllocEntry
leaves no trace needs more than that each block is released again: the lists have
to be as they were, link for link. `FreeSetDeterminesList` gives that, since a
sound list is determined by the set of its free addresses, and releasing in another
order than that of allocation restores that set. `OnlyEmptyEntriesHide` has no
hypothesis on the requests: the size that the loop remembers is 0 again after a
failure only if an empty entry came behind it (`Forgiven`).
`SumsAddUp` counts: the addresses of the zones that qualify are the union of what is
free there and of what is held there, and neither meets the other. What boot needs of
the pool is proved here too, for any zones: where one chunk has room for two
requests, the first is answered and the room for the second is still there
(`RoomServes`), whichever zone served it.

**Lists** (`ListInv`). Between two stores there are two lists, the one that the
`next` links make now and the one they will make when all stores are made. A
store to a `next` link either prepares a node that no walker can reach, or is the
last such store and turns the one list into the other (`Orderly`): that store is
the atomic change, and what it does is what the operation was asked for
(`Promised`, `Asked`). `NoCircle` and `LeadsOn` say of removed nodes, which keep
their old links, that these lead back into the list. With it `ExecList` implements
`NodeList`, enqueue's place by priority included.

**Residents** (`RomInv`). The scan stands behind every module it has come to, and
`count` is one more than the nodes that there are, at each replacement of an
older resident too. `OrderInv` says that the nodes and the part of the array
already filled hold, together and in this order, one tag of each name that was
passed, the one that prevails over the others, by descending place. A tag that
raises the priority of the first of its name prevails over all before it; after the
last such tag the newest does, and of equal versions the first. That this is
what comparing only with the node's present tag comes to is `Overtakes`, and
that no two tags of a name prevail, so that what is initialised is
all that is due, is `KeptApart`. All of it holds of every ROM, whatever versions and
priorities its tags have. `InitialisedExactly` is the safety part of `BootCompletes`: what it says
of the state in which boot arrives, not that it arrives.

**Libraries** (`TypeInv`, `SumInv`, any tables, memory and way of making a library).
Of a guarded library the sum covers words of its own table only (`Fits`), so what
others write below it does not matter (`ChecksumOwn`). While MakeFunctions has stores to make the table is
marked, unless another task summed it meanwhile (`MakingMarked`); without that a
store could make an unmarked sum stale.

**Nesting** (`NestingInv`, any width of the counter, depth and number of levels).
A frame that was interrupted is inside no Disable of its own, or interrupts would
have been off; so the value it has loaded is the one the counter has again
when the handlers above it have returned. `NestingAssumption` says that nobody
nests deeper than the counter can hold.

**Boot** (`ProbeInv`, `BootInv`, any windows, memory and contents). The tests of a
probe write, compare and restore; each leaves every cell of Chip and A3000 RAM as
it found it, aliases included, and answers rightly whatever the memory held and the
bus remembers. The probe of A3000 RAM looks for its start and then for its end;
`FastSoFar` says how far it has come, so that it passes neither. `BootInv` says of each stage which zones the
list on the stack has and which have gone over to ExecBase (`ListsOnTheWay`). Of
allocations made on the way it needs only that they move no zone.
`MachineAssumption` says what machines there are: Chip RAM that repeats in whole
copies, one stretch of A3000 RAM, none of it where the bus has 24 bits.

**What boot allocates** (`UsedInv`, any machine and ROM). It consists of two parts.
`MemInv`: in the two lists together, the one on the stack and the one in ExecBase,
every zone is made up of its free list and of the blocks in it, and no block lies
in two zones. This is the pool's invariant without clients, carried across the move, which changes neither
free lists nor blocks. `HeldInv`: each block has an owner. It is one that startup
keeps, or the node of a resident that is still on the builder's list. Hence
`NothingOverlaps` and `NothingLeft`. They rest on `WindowAssumption` (the banks'
windows lie apart, and what a probe finds is larger than a zone's header) and
`RomsAssumption` (the ROMs are ROMs in the sense of `RomTags`).

**Whether there is memory** (`RoomInv`). The code never asks, so `NeverWild` cannot
hold of every machine. `MemorySuffices` assumes `EnoughChip`: Chip RAM, less the first
page and the zone's header, holds what startup allocates before the residents are
initialised, each size rounded up, with a node for every name in the ROM. `RoomInv` says
that until then some chunk has room for all that is still needed. It stays so:
Fast RAM goes first and may serve some, all or none of it; an allocation
that goes elsewhere leaves the chunk alone, and one that comes from it takes no more
than was counted for it. The nodes are counted by name, since a duplicate takes none.

**The debugger** (`ReceiveInv`, `PrintInv`). What RawMayGetChar has read and not yet
acknowledged is still marked new, though another character may have taken its place;
so what it answers is older than what the port holds (`CharactersAccounted`, with no
hypothesis). For what is printed, `PrintInv` says how far format has come: after the
first `i` parts of a format, what the port has sent and holds, followed by what has been
handed to output and not been put, is what these parts mean. Literal parts that
follow each other are put in one round (`TextRuns`), a newline half put is the one
whose carriage return has been (`ToSend`). `LineIsWhatFormatsMean` assumes
`ScriptsReadable`, that each directive by itself is rendered as it means. This
cannot be assumed of all directives (`%p`, `%08x`, section 3). What the theorem adds is
all that a single directive does not show: texts and directives in any number and
order, the argument pointer from one to the next, carriage returns, and the port. For
formats without numbers and widths the hypothesis itself is proved (`PlainShows`,
`PlainReadable`), whatever texts, strings and addresses they have, so `TextIsPrinted`
has none of it. For numbers it stays with TLC: digits come out of a recursion
(`Numeral`, `Accumulate`) and no prover at hand can compare two such definitions for
all values. `DebuggerTypes` is about parsing (`ParseInv`): of patterns it assumes no
more than that they are C strings (`PatternsEnd`), whatever directives, unknown types
and ends in the middle of one they have. A directive ends behind its type, and
behind the last character of the pattern if it takes the NUL for one
(`DirectiveEnds`).

Before it was proved, what TLC can evaluate of each invariant was checked on small
instances of its model.

Only model-checked:

* `ScriptsReadable` for numeric directives and those with a width: the scripts of the
  run have one for every combination of flags, width and value listed in `MCDebugger`;
* `InitStruct`, whose property the code violates, like those of the other violations;
* liveness (`BootCompletes`, `BootEnds`, `AllSent`): the prover has no rule for
  fairness.

Every other invariant and every action property of a passing run is a theorem.

## 5. Plan

The modules were written in the order of section 2, each with its run before its
proofs. What is left:

1. `Readable` for numbers: that `Numeral` spells what `Places` does, for every
   value and base, by induction over the digits, and that `Accumulate` reads back a
   width. With it `TextIsPrinted` would extend to all formats but those that
   section 3 names.
2. Permit, Alert and the calls of todo.hpp, when they have an implementation.

## 6. Not modelled

Tasks, ports, semaphores, messages and I/O are declarations and empty bodies. Of
Forbid there is the increment of `tdnestcnt`, of Permit nothing; so the models of
calls that run between them take them for one step. CPU identification
(probe_cpu.asm) works by taking exceptions on purpose. gcc.asm and libc.cpp are
leaf functions without state. find_name of lists and of resident arrays only
reads. Register and type declarations, the stub headers and the build scripts
hold no behaviour of the running system.
