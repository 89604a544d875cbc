--------------------------------- MODULE MCBoot ---------------------------------
(***************************************************************************)
(* Machines with a Chip RAM of a quarter, a half and all of the range in   *)
(* which it repeats, and with more; with every amount of Slow RAM before   *)
(* the custom chips or before nothing; with A3000 RAM at either end of its *)
(* window, in the middle, all over it and not at all.  Slow RAM of one     *)
(* step is smaller than the supervisor stack.  Memory holds the values the *)
(* tests write on a machine whose Chip RAM repeats and on one whose does   *)
(* not; the other ROMs are booted on a few of these machines.              *)
(***************************************************************************)
EXTENDS Boot

MCMachines ==
    {m \in [chip : {1, 2, 4, 5, 6}, slow : 0 .. 3, custom : BOOLEAN, is24 : BOOLEAN,
            fast : {<<0, 0>>, <<0, 3>>, <<0, 8>>, <<1, 7>>, <<5, 8>>, <<7, 8>>},
            content : {Const("own"), Zero, All, patA, pat5}] :
        /\ m.is24 => m.fast[1] = m.fast[2]
        /\ m.content # Const("own") => m.chip \in {2, 5}}

\* 0, 0xc00000 and 0x07000000; 256 kilobytes, 4 and 256 again.
MCLowest   == [chip |-> 0, slow |-> 12582912, a3000 |-> 117440512]
MCStepSize == [chip |-> 262144, slow |-> 4096, a3000 |-> 262144]

MCRomSize == 4

Tag(name, version, auto, end) ==
    [tag |-> TRUE, name |-> name, version |-> version, priority |-> 0,
     coldstart |-> TRUE, autoinit |-> auto, end |-> end]

Filler_ == [tag |-> FALSE]

\* Three residents, the second name again in a newer version; one that asks for
\* a library in front of another; none.
Duplicates ==
    << Tag("dos", 34, FALSE, 2), Tag("disk", 34, FALSE, 3),
       Tag("disk", 35, FALSE, 4), Tag("timer", 34, FALSE, 5) >>
Automatic  == << Filler_, Tag("timer", 34, TRUE, 3), Tag("dos", 34, TRUE, 4), Filler_ >>
Bare       == << Filler_, Filler_, Filler_, Filler_ >>

MCRoms == { Duplicates, Automatic, Bare }

MCSystems ==
    (MCMachines \X { Duplicates })
    \cup ({m \in MCMachines : m.content = Const("own") /\ m.chip = 2 /\ m.custom} \X MCRoms)

\* Chip RAM of one step is enough for these ROMs.
ASSUME MCEnough == EnoughChip
=============================================================================
