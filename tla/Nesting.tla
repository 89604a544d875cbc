-------------------------------- MODULE Nesting --------------------------------
(***************************************************************************)
(* Disable and Enable (ExecBase::disable and ExecBase::enable,             *)
(* src/src/exec/execbase.cpp) as a task and interrupt handlers use them.   *)
(* Each changes the counter idnestcnt and then the master bit of INTENA,   *)
(* and an interrupt that is allowed may come between any two steps.  The   *)
(* counter is loaded in one step and stored in another, since the compiler *)
(* is free to use several instructions.  Who calls them is external:       *)
(* nothing in the repository does yet.                                     *)
(***************************************************************************)
EXTENDS Integers, Sequences, FiniteSets

CONSTANTS
    Half,       \* the counter goes from -Half to Half - 1: 128 for an int8_t
    Depth,      \* how often Disable may be called before Enable, by all
    Levels      \* interrupt levels: how many handlers may interrupt each other

\* Nobody nests so deep that the counter wraps.
ASSUME NestingAssumption ==
    /\ Half \in Nat \ {0}
    /\ Depth \in 1 .. Half
    /\ Levels \in Nat

VARIABLES
    idnestcnt,  \* the counter
    master,     \* INTENA's master bit: interrupts are enabled
    frames,     \* the task and the handlers that interrupted it, the last one
                \* running: where each is, the counter it loaded, and how many
                \* of its Disables have returned whose Enable it has not called
    calls       \* the Disables called by all of them whose Enable none has called

nestingVars == <<idnestcnt, master, frames, calls>>

Top == Len(frames)
Running == frames[Top]

Frame(pc, loaded, held) == [pc |-> pc, loaded |-> loaded, held |-> held]

\* What fits in the counter.
Wrap(n) == ((n + Half) % (2 * Half)) - Half

\* The frames that are at one of the given places.
At(places) == {i \in DOMAIN frames : frames[i].pc \in places}

\* The frame at the top goes on: changes of its own.
Becomes(f) == frames' = [frames EXCEPT ![Top] = f]

-----------------------------------------------------------------------------
(* ++idnestcnt; custom->intena(0x4000);                                    *)

DisableCall ==
    /\ Running.pc = "runs" /\ calls < Depth
    /\ Becomes(Frame("++", idnestcnt, Running.held))
    /\ calls' = calls + 1
    /\ UNCHANGED <<idnestcnt, master>>

DisableCount ==
    /\ Running.pc = "++"
    /\ idnestcnt' = Wrap(Running.loaded + 1)
    /\ Becomes(Frame("mask", 0, Running.held))
    /\ UNCHANGED <<master, calls>>

\* Mutant of DisableMask: only the first Disable turns interrupts off, as
\* if the counter could not have been raised by an interrupted Disable.
DisableMaskFirst ==
    /\ Running.pc = "mask"
    /\ master' = (master /\ idnestcnt # 0)
    /\ Becomes(Frame("runs", 0, Running.held + 1))
    /\ UNCHANGED <<idnestcnt, calls>>

DisableMask ==
    /\ Running.pc = "mask"
    /\ master' = FALSE
    /\ Becomes(Frame("runs", 0, Running.held + 1))
    /\ UNCHANGED <<idnestcnt, calls>>

-----------------------------------------------------------------------------
(* if(--idnestcnt < 0) custom->intena(0xc000);                             *)

EnableCall ==
    /\ Running.pc = "runs" /\ Running.held > 0
    /\ Becomes(Frame("--", idnestcnt, Running.held - 1))
    /\ calls' = calls - 1
    /\ UNCHANGED <<idnestcnt, master>>

\* Mutant of EnableCount: the value compared is that before the decrement.
EnableCountLate ==
    /\ Running.pc = "--"
    /\ idnestcnt' = Wrap(Running.loaded - 1)
    /\ Becomes(Frame(IF idnestcnt < 0 THEN "unmask" ELSE "runs", 0, Running.held))
    /\ UNCHANGED <<master, calls>>

EnableCount ==
    /\ Running.pc = "--"
    /\ idnestcnt' = Wrap(Running.loaded - 1)
    /\ Becomes(Frame(IF idnestcnt' < 0 THEN "unmask" ELSE "runs", 0, Running.held))
    /\ UNCHANGED <<master, calls>>

EnableMask ==
    /\ Running.pc = "unmask"
    /\ master' = TRUE
    /\ Becomes(Frame("runs", 0, Running.held))
    /\ UNCHANGED <<idnestcnt, calls>>

-----------------------------------------------------------------------------
\* An interrupt of a higher level, wherever the running code is.
Interrupt ==
    /\ master /\ Top <= Levels
    /\ frames' = Append(frames, Frame("runs", 0, 0))
    /\ UNCHANGED <<idnestcnt, master, calls>>

\* A handler returns when it has enabled what it disabled.
Return ==
    /\ Top > 1 /\ Running.pc = "runs" /\ Running.held = 0
    /\ frames' = SubSeq(frames, 1, Top - 1)
    /\ UNCHANGED <<idnestcnt, master, calls>>

-----------------------------------------------------------------------------
\* startup.asm turns interrupts off and the constructor of ExecBase sets the
\* counter to 0: the boot code holds one Disable.
NestingInit ==
    /\ idnestcnt = 0
    /\ master = FALSE
    /\ frames = << Frame("runs", 0, 1) >>
    /\ calls = 1

NestingNext ==
    \/ DisableCall \/ DisableCount \/ DisableMask
    \/ EnableCall \/ EnableCount \/ EnableMask
    \/ Interrupt \/ Return

NestingSpec == NestingInit /\ [][NestingNext]_nestingVars

-----------------------------------------------------------------------------
\* Between the return of a Disable and the call of its Enable no interrupt
\* comes, however many handlers nested a Disable and an Enable of their own
\* into it before the master bit was cleared.
DisabledMeansOff ==
    \A i \in DOMAIN frames : frames[i].held > 0 => ~master /\ i = Top

\* "-1 for enabled, 0 upwards for disabled": at every moment, also where a
\* handler has interrupted the code between its load and its store, the
\* counter is one less than the Disables it has been raised for, those that are
\* at the load and the store left out and the one whose Enable is there still
\* in; and while nobody is inside Disable or Enable, the master bit is set just if there are
\* none, so that interrupts do not stay off for good.
CountTellsNesting ==
    /\ idnestcnt = calls - Cardinality(At({"++"})) + Cardinality(At({"--"})) - 1
    /\ At({"runs"}) = DOMAIN frames => (master <=> idnestcnt < 0)
=============================================================================
