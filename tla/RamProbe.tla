------------------------------- MODULE RamProbe -------------------------------
(***************************************************************************)
(* Finding out at boot what memory the machine has: startup_memory's       *)
(* probes of Chip, Slow and A3000 RAM (src/src/exec/execbase.cpp).  They   *)
(* run in this order with interrupts and DMA off, so nothing else touches  *)
(* memory; each iteration of a loop is one step.  Addresses are counted in *)
(* steps of the probe; memory at an address is the words the probe uses.   *)
(***************************************************************************)
EXTENDS Integers, Sequences

CONSTANTS
    ChipWindow,     \* where the search for Chip RAM ends
    ChipRepeat,     \* Chip RAM repeats up to here: address lines not decoded
    SlowWindow,     \* the same for Slow RAM ...
    FastWindow,     \* ... and for A3000 RAM
    Machines        \* chip, slow: sizes; fast: its first and last address + 1;
                    \* custom: the custom chips show where there is no Slow RAM;
                    \* is24: the address bus has 24 bits;
                    \* content: what is in memory when the probes start

ASSUME MachineAssumption ==
    /\ ChipWindow \in Nat /\ ChipRepeat \in 1 .. ChipWindow
    /\ SlowWindow \in Nat /\ FastWindow \in Nat \ {0}
    /\ \A m \in Machines :
         /\ m.chip \in 1 .. ChipWindow
         /\ m.chip <= ChipRepeat => ChipRepeat % m.chip = 0
         /\ m.slow \in 0 .. SlowWindow
         /\ m.fast \in (0 .. FastWindow) \X (0 .. FastWindow) /\ m.fast[1] <= m.fast[2]
         /\ m.is24 => m.fast[1] = m.fast[2]

VARIABLES
    machine,    \* what there is
    mem,        \* what it holds, and INTENA
    bus,        \* the value last seen on the data bus
    phase,      \* the probe at work
    pos,        \* new_end, or new_start
    found       \* the ranges found: bank to <<start, end>>

probeVars == <<machine, mem, bus, phase, pos, found>>

\* The values in memory and on the bus: those the tests write or look for, and
\* for every word of a cell one of its own.
Const(v) == << v >>
patA == Const("aaaaaaaa")
pat5 == Const("55555555")
Zero == Const("0")
All  == Const("3fff")       \* every interrupt source, the master bit not set
SetAll == Const("bfff")

-----------------------------------------------------------------------------
(* The machine (external): which cell answers at an address.               *)

Nothing == <<"nothing", 0>>
Custom  == <<"custom", 0>>

\* The cell of Chip RAM at address i, if any.
ChipCell(i) ==
    IF i < machine.chip \/ i < ChipRepeat THEN <<"chip", i % machine.chip>> ELSE Nothing

\* On a 24 bit bus the A3000 range is the bottom of the address space again.
Cell(bank, i) ==
    CASE bank = "chip"  -> ChipCell(i)
      [] bank = "slow"  -> IF i < machine.slow THEN <<"slow", i>>
                           ELSE IF machine.custom THEN Custom ELSE Nothing
      [] bank = "a3000" -> IF machine.is24 THEN ChipCell(i)
                           ELSE IF machine.fast[1] <= i /\ i < machine.fast[2]
                           THEN <<"a3000", i>> ELSE Nothing

RamCells == ({"chip"} \X (0 .. ChipWindow)) \cup ({"slow"} \X (0 .. SlowWindow))
            \cup ({"a3000"} \X (0 .. FastWindow))

\* The words the probes touch at an address: p[0], p[1], INTENAR and INTENA.
Words == {"p0", "p1", "intenar", "intena"}

\* The bus and the memory together, as the accesses change them.
State == [mem |-> mem, bus |-> bus]

\* Reading where nothing answers gives what is left on the bus.  At the
\* custom chips the interrupt mask is read at one place and written at
\* another; the other words are registers that hold nothing.
Value(s, a, w) ==
    IF a = Nothing \/ (a = Custom /\ w # "intenar") THEN s.bus
    ELSE IF a = Custom THEN s.mem[Custom]["intena"]
    ELSE s.mem[a][w]

Put(s, a, w, v) ==
    [bus |-> v,
     mem |-> IF a = Nothing \/ (a = Custom /\ w # "intena") THEN s.mem
             ELSE [s.mem EXCEPT ![a][w] = v]]

Seen(s, v) == [s EXCEPT !.bus = v]

\* INTENA's bit 15 says whether the other bits are set or cleared.
PutIntena(s, a, v) ==
    IF a = Custom
    THEN Put(s, a, "intena", IF v = SetAll THEN All ELSE Zero)
    ELSE Put(s, a, "intena", v)

-----------------------------------------------------------------------------
(* The tests.                                                              *)

\* is_repeat of two different addresses.
IsRepeat(s, a, b) ==
    LET v1 == Value(s, a, "p0")
        v2 == Value(Seen(s, v1), b, "p0")
        t  == Put(Put(Seen(s, v2), a, "p0", patA), b, "p0", pat5)
        aliased == Value(t, a, "p0") = pat5
    IN  [yes |-> aliased, after |-> Put(Put(t, a, "p0", v1), b, "p0", v2)]

\* Mutant of IsWritable: the second word is not put back.
IsWritableHalfRestored(s, a) ==
    LET v1 == Value(s, a, "p0")
        t  == Put(Put(Seen(s, v1), a, "p0", patA), a, "p1", pat5)
    IN  [yes |-> Value(t, a, "p0") = patA, after |-> Put(t, a, "p0", v1)]

\* is_writable: a pattern, its inverse behind it so that the bus does not
\* still carry the pattern, and the same with the two exchanged.
IsWritable(s, a) ==
    LET v1   == Value(s, a, "p0")
        v2   == Value(Seen(s, v1), a, "p1")
        t    == Put(Put(Seen(s, v2), a, "p0", patA), a, "p1", pat5)
        once == Value(t, a, "p0") = patA
        u    == IF once THEN Put(Put(Seen(t, patA), a, "p0", pat5), a, "p1", patA) ELSE t
        good == once /\ Value(u, a, "p0") = pat5
    IN  [yes |-> good, after |-> Put(Put(u, a, "p0", v1), a, "p1", v2)]

\* The INTENA dance of probe_slow_ram: are these the custom chips?
IsCustom(s, a) ==
    LET t == PutIntena(s, a, All)
        u == PutIntena(Seen(t, Value(t, a, "intenar")), a, SetAll)
    IN  IF Value(t, a, "intenar") = Zero
        THEN [yes |-> Value(u, a, "intenar") = All,
              after |-> Seen(u, Value(u, a, "intenar"))]
        ELSE [yes |-> FALSE, after |-> Seen(t, Value(t, a, "intenar"))]

-----------------------------------------------------------------------------
(* The probes.                                                             *)

Leave(s) == mem' = s.mem /\ bus' = s.bus

\* Mutant of GoOn: the address is not advanced.
GoOnStays(s) == Leave(s) /\ pos' = pos /\ UNCHANGED <<machine, phase, found>>

\* The loop goes on with the next address.
GoOn(s) == Leave(s) /\ pos' = pos + 1 /\ UNCHANGED <<machine, phase, found>>

\* The probe of this bank ends with the range from start to end, and the next
\* one begins.
Finish(s, bank, start, end, then) ==
    /\ Leave(s)
    /\ found' = [found EXCEPT ![bank] = <<start, end>>]
    /\ phase' = then
    /\ pos' = 0
    /\ UNCHANGED machine

\* Mutant of ProbeChip: aliases of the first location are not looked for.
ProbeChipNoAlias ==
    /\ phase = "chip"
    /\ \/ pos >= ChipWindow /\ Finish(State, "chip", 0, pos, "slow")
       \/ /\ pos < ChipWindow
          /\ LET w == IsWritable(State, Cell("chip", pos))
             IN  IF w.yes THEN GoOn(w.after)
                 ELSE Finish(w.after, "chip", 0, pos, "slow")

\* One round of probe_chip_ram.  An address does not repeat itself.
ProbeChip ==
    /\ phase = "chip"
    /\ \/ pos >= ChipWindow /\ Finish(State, "chip", 0, pos, "slow")
       \/ /\ pos < ChipWindow
          /\ LET w == IsWritable(State, Cell("chip", pos))
                 r == IF pos = 0 THEN [yes |-> FALSE, after |-> w.after]
                      ELSE IsRepeat(w.after, Cell("chip", 0), Cell("chip", pos))
             IN  \/ ~w.yes /\ Finish(w.after, "chip", 0, pos, "slow")
                 \/ w.yes /\ r.yes /\ Finish(r.after, "chip", 0, pos, "slow")
                 \/ w.yes /\ ~r.yes /\ GoOn(r.after)

\* One round of probe_slow_ram.
ProbeSlow ==
    /\ phase = "slow"
    /\ \/ pos >= SlowWindow /\ Finish(State, "slow", 0, pos, "is24")
       \/ /\ pos < SlowWindow
          /\ LET c == IsCustom(State, Cell("slow", pos))
                 w == IsWritable(c.after, Cell("slow", pos))
             IN  \/ c.yes /\ Finish(c.after, "slow", 0, pos, "is24")
                 \/ ~c.yes /\ ~w.yes /\ Finish(w.after, "slow", 0, pos, "is24")
                 \/ ~c.yes /\ w.yes /\ GoOn(w.after)

\* is_24bit, and probe_a3000_ram's answer to it.
Probe24Bit ==
    /\ phase = "is24"
    /\ LET w == IsWritable(State, Cell("a3000", 0))
           r == IsRepeat(w.after, Cell("chip", 0), Cell("a3000", 0))
       IN  \/ w.yes /\ r.yes /\ Finish(r.after, "a3000", 0, 0, "done")
           \/ /\ Leave(IF w.yes THEN r.after ELSE w.after)
              /\ ~(w.yes /\ r.yes)
              /\ phase' = "first"
              /\ UNCHANGED <<machine, pos, found>>

\* probe_a3000_ram: find the first address that responds.
ProbeFirst ==
    /\ phase = "first"
    /\ LET w == IsWritable(State, Cell("a3000", pos))
       IN  \/ /\ pos >= FastWindow \/ w.yes
              /\ Leave(IF pos < FastWindow THEN w.after ELSE State)
              /\ found' = [found EXCEPT !["a3000"] = <<pos, pos>>]
              /\ phase' = "last"
              /\ UNCHANGED <<machine, pos>>
           \/ pos < FastWindow /\ ~w.yes /\ GoOn(w.after)

\* ... and from there the first that does not.
ProbeLast ==
    /\ phase = "last"
    /\ LET w     == IsWritable(State, Cell("a3000", pos))
           start == found["a3000"][1]
       IN  \/ pos >= FastWindow /\ Finish(State, "a3000", start, pos, "done")
           \/ pos < FastWindow /\ ~w.yes /\ Finish(w.after, "a3000", start, pos, "done")
           \/ pos < FastWindow /\ w.yes /\ GoOn(w.after)

-----------------------------------------------------------------------------
\* What the words of a cell hold at first: something of their own, or one of
\* the values the tests use.
Contents(content, a) ==
    [w \in Words |-> IF a = Custom THEN Zero
                     ELSE IF content = Const("own") THEN <<a[1], a[2], w>> ELSE content]

Init ==
    /\ machine \in Machines
    /\ mem = [a \in RamCells \cup {Custom} |-> Contents(machine.content, a)]
    /\ bus = Zero
    /\ phase = "chip"
    /\ pos = 0
    /\ found = [bank \in {"chip", "slow", "a3000"} |-> <<0, 0>>]

Next == ProbeChip \/ ProbeSlow \/ Probe24Bit \/ ProbeFirst \/ ProbeLast

-----------------------------------------------------------------------------
\* What Chip RAM there is is found, and none twice, on machines on which it
\* repeats and on those on which it does not.
ChipExact == phase # "chip" => found["chip"] = <<0, machine.chip>>

\* Slow RAM is found up to the custom chips or up to where nothing answers,
\* whatever it holds and whatever is left on the bus.
SlowExact == phase \notin {"chip", "slow"} => found["slow"] = <<0, machine.slow>>

\* A3000 RAM is found wherever in its window it lies; on a machine with a 24
\* bit bus, on which Chip RAM shows there, none is.
A3000Exact ==
    phase = "done" =>
        LET r == found["a3000"]
        IN  IF machine.fast[1] = machine.fast[2] THEN r[1] = r[2] ELSE r = machine.fast

\* Each probe finds exactly the memory of its kind that the machine has.
FoundExact == ChipExact /\ SlowExact /\ A3000Exact

\* "This temporarily corrupts": between the rounds, Chip and A3000 RAM hold
\* what they held before, aliases included.
ContentsKept ==
    \A a \in RamCells : a[1] # "slow" => mem[a] = Contents(machine.content, a)
=============================================================================
