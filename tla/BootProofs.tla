------------------------------ MODULE BootProofs ------------------------------
(***************************************************************************)
(* Theorems about booting, for every machine and every ROM: whatever       *)
(* memory there is, in windows of every size, and whatever it holds, the   *)
(* probes of RamProbe find it all and put back what they write; ExecBase   *)
(* comes to manage it, fastest first, with no byte lost and no two blocks  *)
(* on one another; what the residents' nodes took is given back; where     *)
(* Chip RAM is enough for the ROM, no allocation fails; and boot does      *)
(* nothing but what RamProbe and RomTags say.                              *)
(***************************************************************************)
EXTENDS Boot, SequenceTheorems, FiniteSetTheorems, TLAPS

-----------------------------------------------------------------------------
(* The memory and the accesses of the tests.                               *)

Cells == RamCells \cup {Custom}

\* What every cell holds, word by word.
IsStore(m) == m = [a \in Cells |-> [w \in Words |-> m[a][w]]]

IsState(s) == s = [mem |-> s.mem, bus |-> s.bus] /\ IsStore(s.mem)

\* What is in the words is all there is to a store.
LEMMA SameStore ==
    ASSUME NEW m, NEW n, IsStore(m), IsStore(n),
           \A a \in Cells : \A w \in Words : m[a][w] = n[a][w]
    PROVE  m = n
<1>1. ASSUME NEW a \in Cells PROVE [w \in Words |-> m[a][w]] = [w \in Words |-> n[a][w]]
  OBVIOUS
<1>2. [a \in Cells |-> [w \in Words |-> m[a][w]]] = [a \in Cells |-> [w \in Words |-> n[a][w]]]
  BY <1>1
<1> QED BY <1>2 DEF IsStore

\* The places that are no memory are told from those that are.
LEMMA NoMemory ==
    Nothing \notin RamCells /\ Custom \notin RamCells /\ Nothing # Custom /\ Custom \in Cells
BY DEF Nothing, Custom, RamCells, Cells

\* The values the tests write and compare are different.
LEMMA Patterns == patA # pat5 /\ All # Zero /\ All # SetAll
BY DEF patA, pat5, All, Zero, SetAll, Const

\* A value that was on the bus does not touch memory.
LEMMA SeenKeeps ==
    ASSUME NEW s, IsState(s), NEW v
    PROVE  IsState(Seen(s, v)) /\ Seen(s, v).mem = s.mem /\ Seen(s, v).bus = v
<1>1. s = [mem |-> s.mem, bus |-> s.bus]
  BY DEF IsState
<1>2. [s EXCEPT !.bus = v] = [mem |-> s.mem, bus |-> v]
  BY <1>1
<1> QED BY <1>2 DEF Seen, IsState

\* A write to a cell of RAM, or to INTENA at the custom chips, changes that
\* word alone.
LEMMA PutCell ==
    ASSUME NEW s, IsState(s), NEW a \in Cells, NEW w \in Words, NEW v,
           a = Custom => w = "intena"
    PROVE  /\ IsState(Put(s, a, w, v))
           /\ Put(s, a, w, v).bus = v
           /\ \A b \in Cells : \A x \in Words :
                 Put(s, a, w, v).mem[b][x] = IF b = a /\ x = w THEN v ELSE s.mem[b][x]
<1> DEFINE t == Put(s, a, w, v)
           m == [s.mem EXCEPT ![a][w] = v]
<1>1. a # Nothing
  BY NoMemory DEF Cells
<1>2. t = [bus |-> v, mem |-> m]
  BY <1>1 DEF Put
<1>3. s.mem = [b \in Cells |-> [x \in Words |-> s.mem[b][x]]]
  BY DEF IsState, IsStore
<1>4. \A b \in Cells : \A x \in Words : m[b][x] = IF b = a /\ x = w THEN v ELSE s.mem[b][x]
  BY <1>3
<1>5. m = [b \in Cells |-> [x \in Words |-> m[b][x]]]
  BY <1>3
<1> HIDE DEF m, t
<1>6. t.bus = v /\ t.mem = m /\ t = [mem |-> t.mem, bus |-> t.bus]
  BY <1>2
<1> QED BY <1>4, <1>5, <1>6 DEF t, IsState, IsStore

\* Where there is no memory a write is only seen on the bus.
LEMMA PutNowhere ==
    ASSUME NEW s, IsState(s), NEW a, NEW w \in Words, NEW v,
           a = Nothing \/ (a = Custom /\ w # "intena")
    PROVE  /\ IsState(Put(s, a, w, v)) /\ Put(s, a, w, v).mem = s.mem
           /\ Put(s, a, w, v).bus = v
<1>1. Put(s, a, w, v) = [bus |-> v, mem |-> s.mem]
  BY DEF Put
<1> QED BY <1>1 DEF IsState

-----------------------------------------------------------------------------
(* The tests.                                                              *)

\* is_writable finds RAM writable and leaves it as it was.
LEMMA WritableRam ==
    ASSUME NEW s, IsState(s), NEW a \in RamCells
    PROVE  /\ IsWritable(s, a).yes
           /\ IsState(IsWritable(s, a).after) /\ IsWritable(s, a).after.mem = s.mem
<1> DEFINE v1 == Value(s, a, "p0")
           v2 == Value(Seen(s, v1), a, "p1")
           r  == Put(Seen(s, v2), a, "p0", patA)
           t  == Put(r, a, "p1", pat5)
           x  == Put(Seen(t, patA), a, "p0", pat5)
           y  == Put(x, a, "p1", patA)
           z  == Put(y, a, "p0", v1)
           e  == Put(z, a, "p1", v2)
<1>1. a # Nothing /\ a # Custom /\ a \in Cells
      /\ "p0" \in Words /\ "p1" \in Words /\ "p0" # "p1"
  BY NoMemory DEF Cells, Words
<1>2. \A q, w : Value(q, a, w) = q.mem[a][w]
  BY <1>1 DEF Value
<1>3. v1 = s.mem[a]["p0"] /\ v2 = s.mem[a]["p1"]
  BY <1>2, SeenKeeps
<1> HIDE DEF v1, v2
<1>4. IsState(Seen(s, v2)) /\ Seen(s, v2).mem = s.mem
  BY SeenKeeps
<1>5. /\ IsState(r)
      /\ \A b \in Cells : \A w \in Words :
            r.mem[b][w] = IF b = a /\ w = "p0" THEN patA ELSE s.mem[b][w]
  BY <1>1, <1>4, PutCell
<1> HIDE DEF r
<1>6. /\ IsState(t)
      /\ \A b \in Cells : \A w \in Words :
            t.mem[b][w] = IF b = a /\ w = "p1" THEN pat5 ELSE r.mem[b][w]
  BY <1>1, <1>5, PutCell
<1> HIDE DEF t
<1>7. Value(t, a, "p0") = patA
  BY <1>1, <1>2, <1>5, <1>6
<1>8. IsState(Seen(t, patA)) /\ Seen(t, patA).mem = t.mem
  BY <1>6, SeenKeeps
<1>9. /\ IsState(x)
      /\ \A b \in Cells : \A w \in Words :
            x.mem[b][w] = IF b = a /\ w = "p0" THEN pat5 ELSE t.mem[b][w]
  BY <1>1, <1>8, PutCell
<1> HIDE DEF x
<1>10. /\ IsState(y)
       /\ \A b \in Cells : \A w \in Words :
             y.mem[b][w] = IF b = a /\ w = "p1" THEN patA ELSE x.mem[b][w]
  BY <1>1, <1>9, PutCell
<1> HIDE DEF y
<1>11. Value(y, a, "p0") = pat5
  BY <1>1, <1>2, <1>9, <1>10
<1>12. /\ IsState(z)
       /\ \A b \in Cells : \A w \in Words :
             z.mem[b][w] = IF b = a /\ w = "p0" THEN v1 ELSE y.mem[b][w]
  BY <1>1, <1>10, PutCell
<1> HIDE DEF z
<1>13. /\ IsState(e)
       /\ \A b \in Cells : \A w \in Words :
             e.mem[b][w] = IF b = a /\ w = "p1" THEN v2 ELSE z.mem[b][w]
  BY <1>1, <1>12, PutCell
<1> HIDE DEF e
<1>14. \A b \in Cells : \A w \in Words : e.mem[b][w] = s.mem[b][w]
  BY <1>3, <1>5, <1>6, <1>9, <1>10, <1>12, <1>13
<1>15. e.mem = s.mem
  BY <1>13, <1>14, SameStore DEF IsState
<1>16. IsWritable(s, a) = [yes |-> TRUE, after |-> e]
  BY <1>7, <1>11 DEF IsWritable, v1, v2, r, t, x, y, z, e
<1> QED BY <1>13, <1>15, <1>16

\* Nothing but RAM passes for writable: what was written first is no longer on
\* the bus when it is read.
LEMMA WritableNowhere ==
    ASSUME NEW s, IsState(s), NEW a, a = Nothing \/ a = Custom
    PROVE  /\ ~IsWritable(s, a).yes
           /\ IsState(IsWritable(s, a).after) /\ IsWritable(s, a).after.mem = s.mem
<1> DEFINE v1 == Value(s, a, "p0")
           v2 == Value(Seen(s, v1), a, "p1")
           r  == Put(Seen(s, v2), a, "p0", patA)
           t  == Put(r, a, "p1", pat5)
           z  == Put(t, a, "p0", v1)
           e  == Put(z, a, "p1", v2)
<1>1. /\ "p0" \in Words /\ "p1" \in Words
      /\ \A w \in {"p0", "p1"} : a = Nothing \/ (a = Custom /\ w # "intena")
      /\ \A q : Value(q, a, "p0") = q.bus
  BY DEF Words, Value
<1> HIDE DEF v1, v2
<1>2. IsState(Seen(s, v2)) /\ Seen(s, v2).mem = s.mem
  BY SeenKeeps
<1>3. IsState(r) /\ r.mem = s.mem
  BY <1>1, <1>2, PutNowhere
<1> HIDE DEF r
<1>4. IsState(t) /\ t.mem = s.mem /\ t.bus = pat5
  BY <1>1, <1>3, PutNowhere
<1> HIDE DEF t
<1>5. IsState(z) /\ z.mem = s.mem
  BY <1>1, <1>4, PutNowhere
<1> HIDE DEF z
<1>6. IsState(e) /\ e.mem = s.mem
  BY <1>1, <1>5, PutNowhere
<1> HIDE DEF e
<1>7. Value(t, a, "p0") # patA
  BY <1>1, <1>4, Patterns
<1>8. IsWritable(s, a) = [yes |-> FALSE, after |-> e]
  BY <1>7 DEF IsWritable, v1, v2, r, t, z, e
<1> QED BY <1>6, <1>8

\* is_repeat tells two cells of RAM from one at two addresses, and restores
\* what either holds.
LEMMA RepeatRam ==
    ASSUME NEW s, IsState(s), NEW a \in RamCells, NEW b \in RamCells
    PROVE  /\ IsRepeat(s, a, b).yes <=> a = b
           /\ IsState(IsRepeat(s, a, b).after) /\ IsRepeat(s, a, b).after.mem = s.mem
<1> DEFINE v1 == Value(s, a, "p0")
           v2 == Value(Seen(s, v1), b, "p0")
           r  == Put(Seen(s, v2), a, "p0", patA)
           t  == Put(r, b, "p0", pat5)
           z  == Put(t, a, "p0", v1)
           e  == Put(z, b, "p0", v2)
<1>1. /\ a # Nothing /\ a # Custom /\ a \in Cells
      /\ b # Nothing /\ b # Custom /\ b \in Cells
      /\ "p0" \in Words
  BY NoMemory DEF Cells, Words
<1>2. \A q, w : Value(q, a, w) = q.mem[a][w] /\ Value(q, b, w) = q.mem[b][w]
  BY <1>1 DEF Value
<1>3. v1 = s.mem[a]["p0"] /\ v2 = s.mem[b]["p0"]
  BY <1>2, SeenKeeps
<1> HIDE DEF v1, v2
<1>4. IsState(Seen(s, v2)) /\ Seen(s, v2).mem = s.mem
  BY SeenKeeps
<1>5. /\ IsState(r)
      /\ \A c \in Cells : \A w \in Words :
            r.mem[c][w] = IF c = a /\ w = "p0" THEN patA ELSE s.mem[c][w]
  BY <1>1, <1>4, PutCell
<1> HIDE DEF r
<1>6. /\ IsState(t)
      /\ \A c \in Cells : \A w \in Words :
            t.mem[c][w] = IF c = b /\ w = "p0" THEN pat5 ELSE r.mem[c][w]
  BY <1>1, <1>5, PutCell
<1> HIDE DEF t
<1>7. Value(t, a, "p0") = pat5 <=> a = b
  BY <1>1, <1>2, <1>5, <1>6, Patterns
<1>8. /\ IsState(z)
      /\ \A c \in Cells : \A w \in Words :
            z.mem[c][w] = IF c = a /\ w = "p0" THEN v1 ELSE t.mem[c][w]
  BY <1>1, <1>6, PutCell
<1> HIDE DEF z
<1>9. /\ IsState(e)
      /\ \A c \in Cells : \A w \in Words :
            e.mem[c][w] = IF c = b /\ w = "p0" THEN v2 ELSE z.mem[c][w]
  BY <1>1, <1>8, PutCell
<1> HIDE DEF e
<1>10. \A c \in Cells : \A w \in Words : e.mem[c][w] = s.mem[c][w]
  BY <1>3, <1>5, <1>6, <1>8, <1>9
<1>11. e.mem = s.mem
  BY <1>9, <1>10, SameStore DEF IsState
<1>12. IsRepeat(s, a, b) = [yes |-> (Value(t, a, "p0") = pat5), after |-> e]
  BY DEF IsRepeat, v1, v2, r, t, z, e
<1>13. /\ IsRepeat(s, a, b).yes = (Value(t, a, "p0") = pat5)
       /\ IsRepeat(s, a, b).after = e
  BY <1>12
<1> QED BY <1>7, <1>9, <1>11, <1>13, Zenon

\* A store is given by its cells as well as by its words.
LEMMA SameCell ==
    ASSUME NEW m, NEW n, IsStore(m), IsStore(n), NEW a \in Cells,
           \A w \in Words : m[a][w] = n[a][w]
    PROVE  m[a] = n[a]
<1>1. m[a] = [w \in Words |-> m[a][w]]
  BY DEF IsStore
<1>2. n[a] = [w \in Words |-> n[a][w]]
  BY DEF IsStore
<1> QED BY <1>1, <1>2

\* Slow RAM, whatever it holds, does not pass for the custom chips; the word
\* at INTENA's place is lost.
LEMMA CustomIsNotRam ==
    ASSUME NEW s, IsState(s), NEW a \in RamCells
    PROVE  /\ ~IsCustom(s, a).yes
           /\ IsState(IsCustom(s, a).after)
           /\ \A b \in Cells \ {a} : IsCustom(s, a).after.mem[b] = s.mem[b]
<1> DEFINE t  == PutIntena(s, a, All)
           v  == Value(t, a, "intenar")
           u  == PutIntena(Seen(t, v), a, SetAll)
           x  == Value(u, a, "intenar")
<1>1. /\ a # Nothing /\ a # Custom /\ a \in Cells
      /\ "intena" \in Words /\ "intenar" \in Words /\ "intena" # "intenar"
  BY NoMemory DEF Cells, Words
<1>2. \A q : Value(q, a, "intenar") = q.mem[a]["intenar"]
  BY <1>1 DEF Value
<1>3. \A q, y : PutIntena(q, a, y) = Put(q, a, "intena", y)
  BY <1>1 DEF PutIntena
<1>4. /\ IsState(t)
      /\ \A b \in Cells : \A w \in Words :
            t.mem[b][w] = IF b = a /\ w = "intena" THEN All ELSE s.mem[b][w]
  BY <1>1, <1>3, PutCell
<1> HIDE DEF t
<1>5. IsState(Seen(t, v)) /\ Seen(t, v).mem = t.mem
  BY <1>4, SeenKeeps
<1> HIDE DEF v
<1>6. /\ IsState(u)
      /\ \A b \in Cells : \A w \in Words :
            u.mem[b][w] = IF b = a /\ w = "intena" THEN SetAll ELSE t.mem[b][w]
  BY <1>1, <1>3, <1>5, PutCell
<1> HIDE DEF u
<1>7. x = v
  BY <1>1, <1>2, <1>6 DEF v
<1> HIDE DEF x
<1>8. IsState(Seen(u, x)) /\ Seen(u, x).mem = u.mem
  BY <1>6, SeenKeeps
<1>9. \A b \in Cells \ {a} : t.mem[b] = s.mem[b] /\ u.mem[b] = s.mem[b]
  <2>1. TAKE b \in Cells \ {a}
  <2>2. \A w \in Words : t.mem[b][w] = s.mem[b][w] /\ u.mem[b][w] = s.mem[b][w]
    BY <1>4, <1>6
  <2> QED BY <2>2, <1>4, <1>6, SameCell DEF IsState
<1>10. CASE v = Zero
  <2>1. IsCustom(s, a) = [yes |-> (x = All), after |-> Seen(u, x)]
    BY <1>10 DEF IsCustom, t, v, u, x
  <2>2. IsCustom(s, a).yes = (x = All) /\ IsCustom(s, a).after = Seen(u, x)
    BY <2>1
  <2>3. x # All
    BY <1>7, <1>10, Patterns
  <2> QED BY <1>8, <1>9, <2>2, <2>3
<1>11. CASE v # Zero
  <2>1. IsCustom(s, a) = [yes |-> FALSE, after |-> Seen(t, v)]
    BY <1>11 DEF IsCustom, t, v
  <2> QED BY <1>5, <1>9, <2>1
<1> QED BY <1>10, <1>11

\* Where nothing answers there are no custom chips either.
LEMMA CustomIsNotNothing ==
    ASSUME NEW s, IsState(s)
    PROVE  /\ ~IsCustom(s, Nothing).yes
           /\ IsState(IsCustom(s, Nothing).after)
           /\ IsCustom(s, Nothing).after.mem = s.mem
<1> DEFINE t == PutIntena(s, Nothing, All)
           v == Value(t, Nothing, "intenar")
<1>1. "intena" \in Words /\ \A q : Value(q, Nothing, "intenar") = q.bus
  BY DEF Words, Value
<1>2. t = Put(s, Nothing, "intena", All)
  BY NoMemory DEF PutIntena
<1>3. IsState(t) /\ t.mem = s.mem /\ t.bus = All
  BY <1>1, <1>2, PutNowhere
<1> HIDE DEF t
<1>4. v # Zero
  BY <1>1, <1>3, Patterns
<1>5. IsCustom(s, Nothing) = [yes |-> FALSE, after |-> Seen(t, v)]
  BY <1>4 DEF IsCustom, t, v
<1>6. IsState(Seen(t, v)) /\ Seen(t, v).mem = t.mem
  BY <1>3, SeenKeeps
<1> QED BY <1>3, <1>5, <1>6

\* The custom chips are recognised.
LEMMA CustomIsSeen ==
    ASSUME NEW s, IsState(s)
    PROVE  /\ IsCustom(s, Custom).yes
           /\ IsState(IsCustom(s, Custom).after)
           /\ \A b \in RamCells : IsCustom(s, Custom).after.mem[b] = s.mem[b]
<1> DEFINE t  == PutIntena(s, Custom, All)
           v  == Value(t, Custom, "intenar")
           u  == PutIntena(Seen(t, v), Custom, SetAll)
           x  == Value(u, Custom, "intenar")
<1>1. /\ Custom # Nothing /\ Custom \in Cells /\ Custom \notin RamCells
      /\ RamCells \subseteq Cells /\ "intena" \in Words
  BY NoMemory DEF Cells, Words
<1>2. \A q : Value(q, Custom, "intenar") = q.mem[Custom]["intena"]
  BY <1>1 DEF Value
<1>3. t = Put(s, Custom, "intena", Zero)
  BY Patterns DEF PutIntena
<1>4. /\ IsState(t)
      /\ \A b \in Cells : \A w \in Words :
            t.mem[b][w] = IF b = Custom /\ w = "intena" THEN Zero ELSE s.mem[b][w]
  BY <1>1, <1>3, PutCell
<1> HIDE DEF t
<1>5. v = Zero
  BY <1>1, <1>2, <1>4
<1> HIDE DEF v
<1>6. IsState(Seen(t, v)) /\ Seen(t, v).mem = t.mem
  BY <1>4, SeenKeeps
<1>7. u = Put(Seen(t, v), Custom, "intena", All)
  BY DEF PutIntena
<1>8. /\ IsState(u)
      /\ \A b \in Cells : \A w \in Words :
            u.mem[b][w] = IF b = Custom /\ w = "intena" THEN All ELSE t.mem[b][w]
  BY <1>1, <1>6, <1>7, PutCell
<1> HIDE DEF u
<1>9. x = All
  BY <1>1, <1>2, <1>8
<1> HIDE DEF x
<1>10. IsState(Seen(u, x)) /\ Seen(u, x).mem = u.mem
  BY <1>8, SeenKeeps
<1>11. IsCustom(s, Custom) = [yes |-> (x = All), after |-> Seen(u, x)]
  BY <1>5 DEF IsCustom, t, v, u, x
<1>12. IsCustom(s, Custom).yes = (x = All) /\ IsCustom(s, Custom).after = Seen(u, x)
  BY <1>11
<1>13. \A b \in RamCells : u.mem[b] = s.mem[b]
  <2>1. TAKE b \in RamCells
  <2>2. \A w \in Words : u.mem[b][w] = s.mem[b][w]
    BY <1>1, <1>4, <1>8
  <2> QED BY <1>1, <1>8, <2>2, SameCell DEF IsState
<1> QED BY <1>9, <1>10, <1>12, <1>13

-----------------------------------------------------------------------------
(* What the probes find.                                                   *)

Phases == {"chip", "slow", "is24", "first", "last", "done"}

\* How far the search for A3000 RAM has come: not past its start before the
\* first address is found, and not past its end afterwards; without any, the
\* first address is the end of the window.
FastSoFar ==
    LET lo == machine.fast[1]  hi == machine.fast[2]
    IN  /\ phase \in {"first", "last"} => ~machine.is24
        /\ phase = "first" => pos <= FastWindow /\ (lo < hi => pos <= lo)
        /\ phase = "last" =>
              /\ found["a3000"] = IF lo < hi THEN <<lo, lo>> ELSE <<FastWindow, FastWindow>>
              /\ IF lo < hi THEN lo <= pos /\ pos <= hi ELSE pos = FastWindow

\* What a probe can find: nothing, or from here to there.
Ranges == [{"chip", "slow", "a3000"} -> Nat \X Nat]

ProbeInv ==
    /\ machine \in Machines
    /\ IsStore(mem) /\ ContentsKept
    /\ phase \in Phases /\ pos \in Nat
    /\ found \in Ranges
    /\ phase = "chip" => pos <= machine.chip
    /\ phase = "slow" => pos <= machine.slow
    /\ phase = "is24" => pos = 0
    /\ FastSoFar
    /\ FoundExact

\* What MachineAssumption says of the machine at work.
LEMMA MachineTypes ==
    ASSUME machine \in Machines
    PROVE  /\ ChipWindow \in Nat /\ SlowWindow \in Nat /\ FastWindow \in Nat \ {0}
           /\ ChipRepeat \in 1 .. ChipWindow /\ machine.chip \in 1 .. ChipWindow
           /\ machine.slow \in 0 .. SlowWindow
           /\ machine.fast = <<machine.fast[1], machine.fast[2]>>
           /\ machine.fast[1] \in 0 .. FastWindow
           /\ machine.fast[2] \in machine.fast[1] .. FastWindow
           /\ machine.is24 => machine.fast[1] = machine.fast[2]
BY MachineAssumption

\* Chip RAM answers at its own addresses, with its first location at the
\* address behind its end if it repeats there, and else not.
LEMMA ChipCells ==
    ASSUME machine \in Machines, NEW i \in Nat, i <= machine.chip
    PROVE  /\ i < machine.chip => Cell("chip", i) = <<"chip", i>>
           /\ i = machine.chip /\ i < ChipRepeat => Cell("chip", i) = <<"chip", 0>>
           /\ i = machine.chip /\ ~(i < ChipRepeat) => Cell("chip", i) = Nothing
           /\ i < machine.chip => <<"chip", i>> \in RamCells
<1>1. machine.chip \in Nat \ {0} /\ machine.chip <= ChipWindow
      /\ ChipWindow \in Nat /\ SlowWindow \in Nat /\ ChipRepeat \in Nat
  BY MachineTypes
<1>2. Cell("chip", i) = ChipCell(i)
  BY DEF Cell
<1>3. i < machine.chip => i % machine.chip = i
  BY <1>1
<1>4. i = machine.chip => i % machine.chip = 0
  BY <1>1
<1>5. i < machine.chip => <<"chip", i>> \in RamCells
  BY <1>1 DEF RamCells
<1> HIDE DEF Nothing
<1> QED BY <1>1, <1>2, <1>3, <1>4, <1>5 DEF ChipCell

\* The cells of Slow RAM, and what is behind it.
LEMMA SlowCells ==
    ASSUME machine \in Machines, NEW i \in Nat, i <= machine.slow
    PROVE  /\ i < machine.slow => Cell("slow", i) = <<"slow", i>> /\ <<"slow", i>> \in RamCells
           /\ i = machine.slow => Cell("slow", i) \in {Custom, Nothing}
<1>1. machine.slow \in 0 .. SlowWindow /\ ChipWindow \in Nat /\ SlowWindow \in Nat
  BY MachineTypes
<1>2. i < machine.slow => <<"slow", i>> \in RamCells
  BY <1>1 DEF RamCells
<1>3. Cell("slow", i) = IF i < machine.slow THEN <<"slow", i>>
                        ELSE IF machine.custom THEN Custom ELSE Nothing
  BY DEF Cell
<1> QED BY <1>1, <1>2, <1>3

\* The cells of A3000 RAM, where the bus is wide enough to reach it.
LEMMA FastCells ==
    ASSUME machine \in Machines, ~machine.is24, NEW i \in Nat
    PROVE  IF machine.fast[1] <= i /\ i < machine.fast[2]
           THEN Cell("a3000", i) = <<"a3000", i>> /\ <<"a3000", i>> \in RamCells
           ELSE Cell("a3000", i) = Nothing
<1>1. machine.fast[2] \in Nat /\ machine.fast[2] <= FastWindow /\ FastWindow \in Nat
  BY MachineTypes
<1>2. i < machine.fast[2] => <<"a3000", i>> \in RamCells
  BY <1>1 DEF RamCells
<1>3. Cell("a3000", i) = IF machine.fast[1] <= i /\ i < machine.fast[2]
                         THEN <<"a3000", i>> ELSE Nothing
  BY DEF Cell
<1> QED BY <1>2, <1>3

\* As far as the probes are concerned.
LEMMA ProbesBegin == Init => ProbeInv
<1> SUFFICES ASSUME Init PROVE ProbeInv
  OBVIOUS
<1>1. mem = [a \in Cells |-> Contents(machine.content, a)]
  BY DEF Init, Cells
<1>2. \A a \in Cells : Contents(machine.content, a) =
         [w \in Words |-> Contents(machine.content, a)[w]]
  BY DEF Contents
<1>3. IsStore(mem)
  BY <1>1, <1>2 DEF IsStore
<1>4. ContentsKept
  BY <1>1 DEF ContentsKept, Cells
<1>5. machine \in Machines /\ phase = "chip" /\ pos = 0
      /\ found \in Ranges
  BY DEF Init, Ranges
<1>6. 0 <= machine.chip
  BY <1>5, MachineTypes
<1> QED BY <1>3, <1>4, <1>5, <1>6
        DEF ProbeInv, FastSoFar, FoundExact, ChipExact, SlowExact, A3000Exact, Phases

\* A round that leaves memory and bus as a test did keeps memory sound, if no
\* cell of Chip or A3000 RAM is other than it was.
LEMMA LeaveKeeps ==
    ASSUME ProbeInv, NEW s, IsState(s), Leave(s), machine' = machine,
           \A b \in RamCells : b[1] # "slow" => s.mem[b] = mem[b]
    PROVE  IsStore(mem') /\ ContentsKept'
<1>1. mem' = s.mem /\ IsStore(s.mem)
  BY DEF Leave, IsState
<1>2. IsStore(mem')
  BY <1>1
<1>3. ContentsKept'
  BY <1>1 DEF ProbeInv, ContentsKept, Contents, RamCells, Words
<1> QED BY <1>2, <1>3

\* What is in memory when a round begins.
LEMMA Before ==
    ASSUME ProbeInv
    PROVE  IsState(State) /\ State.mem = mem
BY DEF ProbeInv, IsState, State

\* The probe of Chip RAM.
LEMMA ProbeChipFinds == ProbeInv /\ ProbeChip => ProbeInv'
<1> SUFFICES ASSUME ProbeInv, ProbeChip PROVE ProbeInv'
  OBVIOUS
<1> DEFINE c == Cell("chip", pos)
           w == IsWritable(State, c)
           r == IF pos = 0 THEN [yes |-> FALSE, after |-> w.after]
                ELSE IsRepeat(w.after, Cell("chip", 0), c)
<1>1. /\ machine \in Machines /\ phase = "chip" /\ pos \in Nat /\ pos <= machine.chip
      /\ found \in Ranges
  BY DEF ProbeInv, ProbeChip
<1>2. /\ machine.chip \in 1 .. ChipWindow /\ ChipWindow \in Nat
  BY <1>1, MachineTypes
<1>3. IsState(State) /\ State.mem = mem
  BY Before
<1>4. /\ 0 \in Nat /\ 0 < machine.chip /\ 0 <= machine.chip
  BY <1>2
<1>5. Cell("chip", 0) = <<"chip", 0>> /\ <<"chip", 0>> \in RamCells
      /\ Cell("chip", 0) \in RamCells
  BY <1>1, <1>4, ChipCells
<1>6. ASSUME NEW s, IsState(s), s.mem = mem, Finish(s, "chip", 0, machine.chip, "slow")
      PROVE  ProbeInv'
  <2>1. /\ Leave(s) /\ phase' = "slow" /\ pos' = 0 /\ machine' = machine
        /\ found' = [found EXCEPT !["chip"] = <<0, machine.chip>>]
    BY <1>6 DEF Finish
  <2>2. IsStore(mem') /\ ContentsKept'
    BY <1>6, <2>1, LeaveKeeps
  <2>3. /\ found' \in Ranges
        /\ found'["chip"] = <<0, machine.chip>>
    BY <1>1, <1>2, <2>1 DEF Ranges
  <2>4. 0 <= machine.slow /\ 0 \in Nat
    BY <1>1, MachineTypes
  <2> QED BY <1>1, <2>1, <2>2, <2>3, <2>4
          DEF ProbeInv, FastSoFar, FoundExact, ChipExact, SlowExact, A3000Exact, Phases
<1>7. ASSUME NEW s, IsState(s), s.mem = mem, GoOn(s), pos < machine.chip
      PROVE  ProbeInv'
  <2>1. /\ Leave(s) /\ phase' = "chip" /\ pos' = pos + 1 /\ machine' = machine /\ found' = found
    BY <1>1, <1>7 DEF GoOn
  <2>2. IsStore(mem') /\ ContentsKept'
    BY <1>7, <2>1, LeaveKeeps
  <2>3. pos + 1 \in Nat /\ pos + 1 <= machine.chip
    BY <1>1, <1>2, <1>7
  <2> QED BY <1>1, <2>1, <2>2, <2>3
          DEF ProbeInv, FastSoFar, FoundExact, ChipExact, SlowExact, A3000Exact, Phases
<1>8. CASE pos < machine.chip
  <2>1. c = <<"chip", pos>> /\ c \in RamCells
    BY <1>1, <1>8, ChipCells
  <2>2. w.yes /\ IsState(w.after) /\ w.after.mem = mem
    BY <1>3, <2>1, WritableRam
  <2>3. ~r.yes /\ IsState(r.after) /\ r.after.mem = mem
    <3>1. CASE pos = 0
      BY <2>2, <3>1
    <3>2. CASE pos # 0
      <4>1. r = IsRepeat(w.after, Cell("chip", 0), c)
        BY <3>2
      <4>2. Cell("chip", 0) # c
        BY <1>5, <2>1, <3>2
      <4> HIDE DEF c, w, r
      <4>3. /\ IsRepeat(w.after, Cell("chip", 0), c).yes <=> Cell("chip", 0) = c
            /\ IsState(IsRepeat(w.after, Cell("chip", 0), c).after)
            /\ IsRepeat(w.after, Cell("chip", 0), c).after.mem = w.after.mem
        <5>1. IsState(w.after)
          BY <2>2
        <5>2. c \in RamCells
          BY <2>1
        <5>3. Cell("chip", 0) \in RamCells
          BY <1>5
        <5> HIDE DEF c, w
        <5> QED BY <5>1, <5>2, <5>3, RepeatRam, SMT
      <4> QED BY <2>2, <4>1, <4>2, <4>3
    <3> QED BY <3>1, <3>2
  <2>4. GoOn(r.after)
    <3>1. pos < ChipWindow /\ ~(pos >= ChipWindow)
      BY <1>1, <1>2, <1>8
    <3>2. (~w.yes /\ Finish(w.after, "chip", 0, pos, "slow"))
          \/ (w.yes /\ r.yes /\ Finish(r.after, "chip", 0, pos, "slow"))
          \/ (w.yes /\ ~r.yes /\ GoOn(r.after))
      BY <3>1 DEF ProbeChip
    <3> HIDE DEF w, r
    <3> QED BY <2>2, <2>3, <3>2
  <2> HIDE DEF r, w
  <2> QED BY <1>7, <1>8, <2>3, <2>4
<1>9. CASE pos = machine.chip
  <2>1. CASE pos >= ChipWindow
    <3>1. Finish(State, "chip", 0, machine.chip, "slow")
      BY <1>1, <1>2, <1>9, <2>1 DEF ProbeChip
    <3> QED BY <1>3, <1>6, <3>1
  <2>2. CASE pos < ChipWindow
    <3>1. (~w.yes /\ Finish(w.after, "chip", 0, pos, "slow"))
          \/ (w.yes /\ r.yes /\ Finish(r.after, "chip", 0, pos, "slow"))
          \/ (w.yes /\ ~r.yes /\ GoOn(r.after))
      BY <1>1, <1>2, <2>2 DEF ProbeChip
    <3>2. CASE pos < ChipRepeat
      <4>1. c = <<"chip", 0>> /\ c \in RamCells
        BY <1>1, <1>5, <1>9, <3>2, ChipCells
      <4>2. w.yes /\ IsState(w.after) /\ w.after.mem = mem
        BY <1>3, <4>1, WritableRam
      <4>3. r = IsRepeat(w.after, Cell("chip", 0), c)
        BY <1>2, <1>9
      <4> HIDE DEF w, r, c
      <4>4. r.yes /\ IsState(r.after) /\ r.after.mem = mem
        BY <1>5, <4>1, <4>2, <4>3, RepeatRam, SMTT(30)
      <4> QED BY <1>6, <1>9, <3>1, <4>2, <4>4
    <3>3. CASE ~(pos < ChipRepeat)
      <4>1. c = Nothing
        BY <1>1, <1>9, <3>3, ChipCells
      <4>2. ~w.yes /\ IsState(w.after) /\ w.after.mem = mem
        BY <1>3, <4>1, WritableNowhere
      <4> HIDE DEF w, r, c
      <4> QED BY <1>6, <1>9, <3>1, <4>2
    <3> QED BY <3>2, <3>3
  <2> QED BY <1>1, <1>2, <2>1, <2>2
<1> QED BY <1>1, <1>2, <1>8, <1>9

\* The probe of Slow RAM.
LEMMA ProbeSlowFinds == ProbeInv /\ ProbeSlow => ProbeInv'
<1> SUFFICES ASSUME ProbeInv, ProbeSlow PROVE ProbeInv'
  OBVIOUS
<1> DEFINE a == Cell("slow", pos)
           c == IsCustom(State, a)
           w == IsWritable(c.after, a)
<1>1. /\ machine \in Machines /\ phase = "slow" /\ pos \in Nat /\ pos <= machine.slow
      /\ found \in Ranges
      /\ found["chip"] = <<0, machine.chip>>
  BY DEF ProbeInv, ProbeSlow, FoundExact, ChipExact
<1>2. machine.slow \in 0 .. SlowWindow /\ SlowWindow \in Nat
  BY <1>1, MachineTypes
<1>3. IsState(State) /\ State.mem = mem
  BY Before
<1>4. ASSUME NEW s, IsState(s), Finish(s, "slow", 0, machine.slow, "is24"),
             \A b \in RamCells : b[1] # "slow" => s.mem[b] = mem[b]
      PROVE  ProbeInv'
  <2>1. /\ Leave(s) /\ phase' = "is24" /\ pos' = 0 /\ machine' = machine
        /\ found' = [found EXCEPT !["slow"] = <<0, machine.slow>>]
    BY <1>4 DEF Finish
  <2>2. IsStore(mem') /\ ContentsKept'
    BY <1>4, <2>1, LeaveKeeps
  <2>3. /\ found' \in Ranges
        /\ found'["slow"] = <<0, machine.slow>>
        /\ found'["chip"] = <<0, machine.chip>>
    BY <1>1, <1>2, <2>1 DEF Ranges
  <2>4. 0 \in Nat
    OBVIOUS
  <2> QED BY <1>1, <2>1, <2>2, <2>3, <2>4
          DEF ProbeInv, FastSoFar, FoundExact, ChipExact, SlowExact, A3000Exact, Phases
<1>5. ASSUME NEW s, IsState(s), GoOn(s), pos < machine.slow,
             \A b \in RamCells : b[1] # "slow" => s.mem[b] = mem[b]
      PROVE  ProbeInv'
  <2>1. /\ Leave(s) /\ phase' = "slow" /\ pos' = pos + 1 /\ machine' = machine /\ found' = found
    BY <1>1, <1>5 DEF GoOn
  <2>2. IsStore(mem') /\ ContentsKept'
    BY <1>5, <2>1, LeaveKeeps
  <2>3. pos + 1 \in Nat /\ pos + 1 <= machine.slow
    BY <1>1, <1>2, <1>5
  <2> QED BY <1>1, <2>1, <2>2, <2>3
          DEF ProbeInv, FastSoFar, FoundExact, ChipExact, SlowExact, A3000Exact, Phases
<1>6. CASE pos >= SlowWindow
  <2>1. pos = machine.slow /\ ~(pos < SlowWindow)
    BY <1>1, <1>2, <1>6
  <2>2. Finish(State, "slow", 0, machine.slow, "is24")
    BY <2>1 DEF ProbeSlow
  <2> QED BY <1>3, <1>4, <2>2
<1>7. CASE pos < SlowWindow
  <2>1. \/ c.yes /\ Finish(c.after, "slow", 0, pos, "is24")
        \/ ~c.yes /\ ~w.yes /\ Finish(w.after, "slow", 0, pos, "is24")
        \/ ~c.yes /\ w.yes /\ GoOn(w.after)
    BY <1>1, <1>2, <1>7 DEF ProbeSlow
  <2>2. CASE pos < machine.slow
    <3>1. a = <<"slow", pos>> /\ a \in RamCells
      BY <1>1, <2>2, SlowCells
    <3>2. /\ ~c.yes /\ IsState(c.after)
          /\ \A b \in Cells \ {a} : c.after.mem[b] = mem[b]
      BY <1>3, <3>1, CustomIsNotRam
    <3> HIDE DEF c
    <3>3. w.yes /\ IsState(w.after) /\ w.after.mem = c.after.mem
      BY <3>1, <3>2, WritableRam
    <3> HIDE DEF w, a
    <3>4. \A b \in RamCells : b[1] # "slow" => w.after.mem[b] = mem[b]
      BY <3>1, <3>2, <3>3 DEF Cells
    <3> QED BY <1>5, <2>1, <2>2, <3>2, <3>3, <3>4
  <2>3. CASE pos = machine.slow
    <3>1. a \in {Custom, Nothing}
      BY <1>1, <2>3, SlowCells
    <3>2. CASE a = Custom
      <4>1. /\ c.yes /\ IsState(c.after)
            /\ \A b \in RamCells : c.after.mem[b] = mem[b]
        BY <1>3, <3>2, CustomIsSeen
      <4> HIDE DEF c, w, a
      <4> QED BY <1>4, <2>1, <2>3, <4>1
    <3>3. CASE a = Nothing
      <4>1. ~c.yes /\ IsState(c.after) /\ c.after.mem = mem
        BY <1>3, <3>3, CustomIsNotNothing
      <4> HIDE DEF c
      <4>2. ~w.yes /\ IsState(w.after) /\ w.after.mem = mem
        BY <3>3, <4>1, WritableNowhere
      <4> HIDE DEF w, a
      <4> QED BY <1>4, <2>1, <2>3, <4>1, <4>2
    <3> QED BY <3>1, <3>2, <3>3
  <2> QED BY <1>1, <1>2, <2>2, <2>3
<1> QED BY <1>1, <1>2, <1>6, <1>7

\* On a 24 bit bus the first location of the window is that of Chip RAM; on a
\* wider one it is not, memory or none.
LEMMA Probe24BitDecides == ProbeInv /\ Probe24Bit => ProbeInv'
<1> SUFFICES ASSUME ProbeInv, Probe24Bit PROVE ProbeInv'
  OBVIOUS
<1> DEFINE a == Cell("a3000", 0)
           first == Cell("chip", 0)
           w == IsWritable(State, a)
           r == IsRepeat(w.after, first, a)
<1>1. /\ machine \in Machines /\ phase = "is24" /\ pos = 0
      /\ found \in Ranges
      /\ found["chip"] = <<0, machine.chip>> /\ found["slow"] = <<0, machine.slow>>
  BY DEF ProbeInv, Probe24Bit, FoundExact, ChipExact, SlowExact
<1>2. /\ 0 \in Nat /\ 0 < machine.chip /\ 0 <= machine.chip
      /\ machine.fast[1] \in Nat /\ machine.fast[2] \in Nat /\ FastWindow \in Nat
      /\ machine.is24 => machine.fast[1] = machine.fast[2]
  BY <1>1, MachineTypes
<1>3. IsState(State) /\ State.mem = mem
  BY Before
<1>4. first = <<"chip", 0>> /\ first \in RamCells
  BY <1>1, <1>2, ChipCells
<1>5. \/ w.yes /\ r.yes /\ Finish(r.after, "a3000", 0, 0, "done")
      \/ /\ Leave(IF w.yes THEN r.after ELSE w.after)
         /\ ~(w.yes /\ r.yes)
         /\ phase' = "first" /\ machine' = machine /\ pos' = pos /\ found' = found
  BY DEF Probe24Bit
<1>6. ASSUME NEW s, IsState(s), s.mem = mem, Leave(s), ~machine.is24,
             phase' = "first", machine' = machine, pos' = pos, found' = found
      PROVE  ProbeInv'
  <2>1. IsStore(mem') /\ ContentsKept'
    BY <1>6, LeaveKeeps
  <2>2. 0 <= FastWindow /\ 0 <= machine.fast[1]
    BY <1>2
  <2> QED BY <1>1, <1>2, <1>6, <2>1, <2>2
          DEF ProbeInv, FastSoFar, FoundExact, ChipExact, SlowExact, A3000Exact, Phases
<1>7. CASE machine.is24
  <2>1. a = first
    BY <1>7 DEF Cell
  <2>2. w.yes /\ IsState(w.after) /\ w.after.mem = mem
    BY <1>3, <1>4, <2>1, WritableRam
  <2> HIDE DEF w, a, first
  <2>3. r.yes /\ IsState(r.after) /\ r.after.mem = mem
    BY <1>4, <2>1, <2>2, RepeatRam
  <2> HIDE DEF r
  <2>4. Finish(r.after, "a3000", 0, 0, "done")
    BY <1>5, <2>2, <2>3
  <2>5. /\ Leave(r.after) /\ phase' = "done" /\ pos' = 0 /\ machine' = machine
        /\ found' = [found EXCEPT !["a3000"] = <<0, 0>>]
    BY <2>4 DEF Finish
  <2>6. IsStore(mem') /\ ContentsKept'
    BY <2>3, <2>5, LeaveKeeps
  <2>7. /\ found' \in Ranges
        /\ found'["a3000"][1] = 0 /\ found'["a3000"][2] = 0
        /\ found'["chip"] = <<0, machine.chip>> /\ found'["slow"] = <<0, machine.slow>>
    BY <1>1, <1>2, <2>5 DEF Ranges
  <2> QED BY <1>1, <1>2, <1>7, <2>5, <2>6, <2>7
          DEF ProbeInv, FastSoFar, FoundExact, ChipExact, SlowExact, A3000Exact, Phases
<1>8. CASE ~machine.is24
  <2>1. CASE machine.fast[1] <= 0 /\ 0 < machine.fast[2]
    <3>1. a = <<"a3000", 0>> /\ a \in RamCells
      BY <1>1, <1>2, <1>8, <2>1, FastCells
    <3>2. w.yes /\ IsState(w.after) /\ w.after.mem = mem
      BY <1>3, <3>1, WritableRam
    <3>3. first # a
      BY <1>4, <3>1
    <3> HIDE DEF w, a, first
    <3>4. ~r.yes /\ IsState(r.after) /\ r.after.mem = mem
      BY <1>4, <3>1, <3>2, <3>3, RepeatRam
    <3> HIDE DEF r
    <3> QED BY <1>5, <1>6, <1>8, <3>2, <3>4
  <2>2. CASE ~(machine.fast[1] <= 0 /\ 0 < machine.fast[2])
    <3>1. a = Nothing
      BY <1>1, <1>2, <1>8, <2>2, FastCells
    <3>2. ~w.yes /\ IsState(w.after) /\ w.after.mem = mem
      BY <1>3, <3>1, WritableNowhere
    <3> HIDE DEF w, a, first, r
    <3> QED BY <1>5, <1>6, <1>8, <3>2
  <2> QED BY <2>1, <2>2
<1> QED BY <1>7, <1>8

\* The search for the first address of A3000 RAM, which there may not be.
LEMMA ProbeFirstFinds == ProbeInv /\ ProbeFirst => ProbeInv'
<1> SUFFICES ASSUME ProbeInv, ProbeFirst PROVE ProbeInv'
  OBVIOUS
<1> DEFINE a  == Cell("a3000", pos)
           w  == IsWritable(State, a)
           lo == machine.fast[1]
           hi == machine.fast[2]
<1>1. /\ machine \in Machines /\ phase = "first" /\ pos \in Nat /\ pos <= FastWindow
      /\ ~machine.is24 /\ (lo < hi => pos <= lo)
      /\ found \in Ranges
      /\ found["chip"] = <<0, machine.chip>> /\ found["slow"] = <<0, machine.slow>>
  BY DEF ProbeInv, ProbeFirst, FastSoFar, FoundExact, ChipExact, SlowExact
<1>2. lo \in Nat /\ hi \in Nat /\ lo <= hi /\ hi <= FastWindow /\ FastWindow \in Nat
  BY <1>1, MachineTypes
<1>3. IsState(State) /\ State.mem = mem
  BY Before
<1>4. /\ IsState(w.after) /\ w.after.mem = mem
      /\ w.yes <=> lo <= pos /\ pos < hi
  <2>1. CASE lo <= pos /\ pos < hi
    <3>1. a \in RamCells
      BY <1>1, <2>1, FastCells
    <3> HIDE DEF a, lo, hi
    <3> QED BY <1>3, <2>1, <3>1, WritableRam
  <2>2. CASE ~(lo <= pos /\ pos < hi)
    <3>1. a = Nothing
      BY <1>1, <2>2, FastCells
    <3> HIDE DEF a, lo, hi
    <3> QED BY <1>3, <2>2, <3>1, WritableNowhere
  <2> QED BY <2>1, <2>2
<1>5. \/ /\ pos >= FastWindow \/ w.yes
         /\ Leave(IF pos < FastWindow THEN w.after ELSE State)
         /\ found' = [found EXCEPT !["a3000"] = <<pos, pos>>]
         /\ phase' = "last" /\ machine' = machine /\ pos' = pos
      \/ pos < FastWindow /\ ~w.yes /\ GoOn(w.after)
  BY DEF ProbeFirst
<1> HIDE DEF w
<1>6. CASE pos >= FastWindow \/ w.yes
  <2>1. /\ Leave(IF pos < FastWindow THEN w.after ELSE State)
        /\ found' = [found EXCEPT !["a3000"] = <<pos, pos>>]
        /\ phase' = "last" /\ machine' = machine /\ pos' = pos
    BY <1>1, <1>2, <1>5, <1>6
  <2>2. PICK s : s = IF pos < FastWindow THEN w.after ELSE State
    OBVIOUS
  <2>3. IsState(s) /\ s.mem = mem /\ Leave(s)
    BY <1>3, <1>4, <2>1, <2>2
  <2>4. IsStore(mem') /\ ContentsKept'
    BY <2>1, <2>3, LeaveKeeps
  <2>5. /\ found' \in Ranges
        /\ found'["a3000"] = <<pos, pos>>
        /\ found'["chip"] = <<0, machine.chip>> /\ found'["slow"] = <<0, machine.slow>>
    BY <1>1, <1>2, <2>1 DEF Ranges
  <2>6. IF lo < hi THEN pos = lo ELSE pos = FastWindow
    BY <1>1, <1>2, <1>4, <1>6
  <2>7. FastSoFar'
    BY <1>1, <1>2, <2>1, <2>5, <2>6 DEF FastSoFar
  <2> QED BY <1>1, <2>1, <2>4, <2>5, <2>7
          DEF ProbeInv, FoundExact, ChipExact, SlowExact, A3000Exact, Phases
<1>7. CASE ~(pos >= FastWindow \/ w.yes)
  <2>1. GoOn(w.after)
    BY <1>5, <1>7
  <2>2. /\ Leave(w.after) /\ phase' = "first" /\ pos' = pos + 1
        /\ machine' = machine /\ found' = found
    BY <1>1, <2>1 DEF GoOn
  <2>3. IsStore(mem') /\ ContentsKept'
    BY <1>4, <2>2, LeaveKeeps
  <2>4. pos + 1 \in Nat /\ pos + 1 <= FastWindow /\ (lo < hi => pos + 1 <= lo)
    BY <1>1, <1>2, <1>4, <1>7
  <2>5. FastSoFar'
    BY <1>1, <2>2, <2>4 DEF FastSoFar
  <2> QED BY <1>1, <2>2, <2>3, <2>4, <2>5
          DEF ProbeInv, FoundExact, ChipExact, SlowExact, A3000Exact, Phases
<1> QED BY <1>6, <1>7

\* The search for its end.
LEMMA ProbeLastFinds == ProbeInv /\ ProbeLast => ProbeInv'
<1> SUFFICES ASSUME ProbeInv, ProbeLast PROVE ProbeInv'
  OBVIOUS
<1> DEFINE a  == Cell("a3000", pos)
           w  == IsWritable(State, a)
           lo == machine.fast[1]
           hi == machine.fast[2]
           start == found["a3000"][1]
<1>1. /\ machine \in Machines /\ phase = "last" /\ pos \in Nat /\ ~machine.is24
      /\ found \in Ranges
      /\ found["chip"] = <<0, machine.chip>> /\ found["slow"] = <<0, machine.slow>>
      /\ found["a3000"] = IF lo < hi THEN <<lo, lo>> ELSE <<FastWindow, FastWindow>>
      /\ IF lo < hi THEN lo <= pos /\ pos <= hi ELSE pos = FastWindow
  BY DEF ProbeInv, ProbeLast, FastSoFar, FoundExact, ChipExact, SlowExact
<1>2. lo \in Nat /\ hi \in Nat /\ lo <= hi /\ hi <= FastWindow /\ FastWindow \in Nat
  BY <1>1, MachineTypes
<1>3. IsState(State) /\ State.mem = mem
  BY Before
<1>4. start = IF lo < hi THEN lo ELSE FastWindow
  BY <1>1
<1>5. /\ IsState(w.after) /\ w.after.mem = mem
      /\ w.yes <=> lo <= pos /\ pos < hi
  <2>1. CASE lo <= pos /\ pos < hi
    <3>1. a \in RamCells
      BY <1>1, <2>1, FastCells
    <3> HIDE DEF a, lo, hi
    <3> QED BY <1>3, <2>1, <3>1, WritableRam
  <2>2. CASE ~(lo <= pos /\ pos < hi)
    <3>1. a = Nothing
      BY <1>1, <2>2, FastCells
    <3> HIDE DEF a, lo, hi
    <3> QED BY <1>3, <2>2, <3>1, WritableNowhere
  <2> QED BY <2>1, <2>2
<1>6. \/ pos >= FastWindow /\ Finish(State, "a3000", start, pos, "done")
      \/ pos < FastWindow /\ ~w.yes /\ Finish(w.after, "a3000", start, pos, "done")
      \/ pos < FastWindow /\ w.yes /\ GoOn(w.after)
  BY DEF ProbeLast
<1> HIDE DEF w, start
<1>7. ASSUME NEW s, IsState(s), s.mem = mem, Finish(s, "a3000", start, pos, "done"),
             IF lo < hi THEN pos = hi ELSE pos = FastWindow
      PROVE  ProbeInv'
  <2>1. /\ Leave(s) /\ phase' = "done" /\ pos' = 0 /\ machine' = machine
        /\ found' = [found EXCEPT !["a3000"] = <<start, pos>>]
    BY <1>7 DEF Finish
  <2>2. IsStore(mem') /\ ContentsKept'
    BY <1>7, <2>1, LeaveKeeps
  <2>3. /\ found' \in Ranges
        /\ found'["a3000"] = <<start, pos>>
        /\ found'["chip"] = <<0, machine.chip>> /\ found'["slow"] = <<0, machine.slow>>
    <3>1. start \in Nat
      BY <1>2, <1>4
    <3> QED BY <1>1, <2>1, <3>1 DEF Ranges
  <2>4. lo < hi => <<start, pos>> = machine.fast
    BY <1>1, <1>4, <1>7, MachineTypes
  <2>5. A3000Exact'
    BY <1>1, <1>2, <1>4, <1>7, <2>1, <2>3, <2>4 DEF A3000Exact
  <2>6. 0 \in Nat
    OBVIOUS
  <2> QED BY <1>1, <2>1, <2>2, <2>3, <2>5, <2>6
          DEF ProbeInv, FastSoFar, FoundExact, ChipExact, SlowExact, Phases
<1>8. CASE pos >= FastWindow
  <2>1. IF lo < hi THEN pos = hi ELSE pos = FastWindow
    BY <1>1, <1>2, <1>8
  <2>2. Finish(State, "a3000", start, pos, "done")
    BY <1>1, <1>2, <1>6, <1>8
  <2> QED BY <1>3, <1>7, <2>1, <2>2
<1>9. CASE pos < FastWindow /\ ~w.yes
  <2>1. IF lo < hi THEN pos = hi ELSE pos = FastWindow
    BY <1>1, <1>2, <1>5, <1>9
  <2>2. Finish(w.after, "a3000", start, pos, "done")
    BY <1>1, <1>2, <1>6, <1>9
  <2> QED BY <1>5, <1>7, <2>1, <2>2
<1>10. CASE pos < FastWindow /\ w.yes
  <2>1. GoOn(w.after)
    BY <1>1, <1>2, <1>6, <1>10
  <2>2. /\ Leave(w.after) /\ phase' = "last" /\ pos' = pos + 1
        /\ machine' = machine /\ found' = found
    BY <1>1, <2>1 DEF GoOn
  <2>3. IsStore(mem') /\ ContentsKept'
    BY <1>5, <2>2, LeaveKeeps
  <2>4. pos + 1 \in Nat /\ lo < hi /\ lo <= pos + 1 /\ pos + 1 <= hi
    BY <1>1, <1>2, <1>5, <1>10
  <2>5. FastSoFar'
    BY <1>1, <2>2, <2>4 DEF FastSoFar
  <2> QED BY <1>1, <2>2, <2>3, <2>4, <2>5
          DEF ProbeInv, FoundExact, ChipExact, SlowExact, A3000Exact, Phases
<1> QED BY <1>1, <1>2, <1>8, <1>9, <1>10

\* A step of one of the probes.
LEMMA ProbesGoOn == ProbeInv /\ Next => ProbeInv'
BY ProbeChipFinds, ProbeSlowFinds, Probe24BitDecides, ProbeFirstFinds, ProbeLastFinds DEF Next

\* Nothing else in boot touches what the probes look at.
LEMMA ProbesAlone == BootNext => Probe \/ probeVars' = probeVars
BY DEF BootNext, AddBank, MakeStack, MakeExecBase, MoveZone, MoveEnds, MakeTask,
       MakeExecStack, ScanTag, MakeArray, FlattenNode, MakeLibrary, GoOnStartup2, probeVars

LEMMA ProbeStep == ProbeInv /\ [BootNext]_bootVars => ProbeInv'
<1> SUFFICES ASSUME ProbeInv, [BootNext]_bootVars PROVE ProbeInv'
  OBVIOUS
<1>1. CASE Probe
  BY <1>1, ProbesGoOn DEF Probe
<1>2. CASE probeVars' = probeVars
  BY <1>2 DEF probeVars, ProbeInv, FastSoFar, FoundExact, ChipExact, SlowExact, A3000Exact,
              ContentsKept, Contents, IsStore, Ranges
<1>3. Probe \/ probeVars' = probeVars
  BY ProbesAlone DEF bootVars
<1> QED BY <1>1, <1>2, <1>3

\* What the probes find and hold at every moment.
THEOREM ProbeInvariant == BootSpec => []ProbeInv
<1>1. BootInit => ProbeInv
  BY ProbesBegin DEF BootInit
<1> QED BY <1>1, ProbeStep, PTL DEF BootSpec

\* Whatever memory a machine has, and whatever it holds, each probe of startup
\* finds exactly the memory of its kind.
THEOREM ProbesFindAll == BootSpec => []FoundExact
<1>1. ProbeInv => FoundExact
  BY DEF ProbeInv
<1> QED BY <1>1, ProbeInvariant, PTL

\* The probes put back what they write, so between their rounds Chip and
\* A3000 RAM hold what they held before.
THEOREM ProbesRestore == BootSpec => []ContentsKept
<1>1. ProbeInv => ContentsKept
  BY DEF ProbeInv
<1> QED BY <1>1, ProbeInvariant, PTL

-----------------------------------------------------------------------------
(* What becomes of what they find.                                         *)

\* A heap as the lists link it: three fields, of which the zone never changes.
IsHeap(h) == h = [zone |-> h.zone, chunks |-> h.chunks, free |-> h.free]

IsList(list) ==
    /\ list \in Seq({list[i] : i \in DOMAIN list})
    /\ \A i \in DOMAIN list : IsHeap(list[i])

\* A list of heaps of these zones, in this order.
HasZones(list, zones) ==
    /\ IsList(list)
    /\ Len(list) = Len(zones)
    /\ \A i \in 1 .. Len(list) : list[i].zone = zones[i]

\* Cutting and giving back memory leave the zones and their order alone.
LEMMA SameZones ==
    ASSUME NEW list, NEW zones, HasZones(list, zones),
           NEW i, NEW h, i \in DOMAIN list => IsHeap(h) /\ h.zone = list[i].zone
    PROVE  HasZones([list EXCEPT ![i] = h], zones)
<1> DEFINE S == {list[j] : j \in DOMAIN list}
           new == [list EXCEPT ![i] = h]
           T == {new[j] : j \in DOMAIN new}
<1>1. list \in Seq(S) /\ Len(list) \in Nat /\ DOMAIN list = 1 .. Len(list)
  BY DEF HasZones, IsList
<1>2. \A j \in DOMAIN list : IsHeap(list[j])
  BY DEF HasZones, IsList
<1>3. \A j \in 1 .. Len(list) : list[j].zone = zones[j]
  BY DEF HasZones
<1>4. /\ DOMAIN new = 1 .. Len(list)
      /\ \A j \in 1 .. Len(list) : new[j] = IF j = i THEN h ELSE list[j]
      /\ new = [j \in 1 .. Len(list) |-> new[j]]
  BY <1>1
<1>5. \A j \in DOMAIN new : IsHeap(new[j]) /\ new[j].zone = zones[j]
  BY <1>1, <1>2, <1>3, <1>4
<1> HIDE DEF new
<1>6. new \in [1 .. Len(list) -> T]
  BY <1>4
<1> HIDE DEF T
<1>7. new \in Seq(T) /\ Len(new) = Len(list)
  BY <1>1, <1>4, <1>6, SeqDef
<1> QED BY <1>4, <1>5, <1>7 DEF HasZones, IsList, new, T

\* A zone that is added behind the others.
LEMMA AddedZone ==
    ASSUME NEW list, NEW zones, zones \in Seq({zones[i] : i \in DOMAIN zones}),
           HasZones(list, zones), NEW h, IsHeap(h)
    PROVE  HasZones(Append(list, h), Append(zones, h.zone))
<1> DEFINE S == {list[j] : j \in DOMAIN list}
           new == Append(list, h)
           T == {new[j] : j \in DOMAIN new}
<1>1. list \in Seq(S) /\ Len(list) \in Nat /\ DOMAIN list = 1 .. Len(list)
  BY DEF HasZones, IsList
<1>2. /\ \A j \in DOMAIN list : IsHeap(list[j])
      /\ \A j \in 1 .. Len(list) : list[j].zone = zones[j]
      /\ Len(zones) = Len(list)
  BY DEF HasZones, IsList
<1>3. /\ Len(new) = Len(list) + 1 /\ DOMAIN new = 1 .. Len(new)
      /\ \A j \in 1 .. Len(list) : new[j] = list[j]
      /\ new[Len(list) + 1] = h
      /\ new = [j \in 1 .. Len(new) |-> new[j]]
  <2>1. list \in Seq(S \cup {h}) /\ h \in S \cup {h}
    BY <1>1
  <2>2. new \in Seq(S \cup {h})
    BY <2>1, AppendProperties
  <2> HIDE DEF S
  <2>3. Len(new) = Len(list) + 1 /\ (\A j \in 1 .. Len(list) : new[j] = list[j])
        /\ new[Len(list) + 1] = h
    BY <2>1, AppendProperties
  <2> HIDE DEF new
  <2> QED BY <2>2, <2>3
<1>4. /\ Len(Append(zones, h.zone)) = Len(list) + 1
      /\ \A j \in 1 .. Len(list) : Append(zones, h.zone)[j] = zones[j]
      /\ Append(zones, h.zone)[Len(list) + 1] = h.zone
  <2> DEFINE Z == {zones[j] : j \in DOMAIN zones}
  <2>1. zones \in Seq(Z \cup {h.zone}) /\ h.zone \in Z \cup {h.zone}
    OBVIOUS
  <2> HIDE DEF Z
  <2> QED BY <1>1, <1>2, <2>1
<1> HIDE DEF new
<1>5. \A j \in 1 .. Len(new) : IsHeap(new[j]) /\ new[j].zone = Append(zones, h.zone)[j]
  <2> SUFFICES ASSUME NEW j \in 1 .. Len(new)
               PROVE  IsHeap(new[j]) /\ new[j].zone = Append(zones, h.zone)[j]
    OBVIOUS
  <2>1. CASE j \in 1 .. Len(list)
    BY <1>1, <1>2, <1>3, <1>4, <2>1
  <2>2. CASE j = Len(list) + 1
    BY <1>3, <1>4, <2>2
  <2>3. j \in 1 .. Len(list) \/ j = Len(list) + 1
    BY <1>1, <1>3
  <2> QED BY <2>1, <2>2, <2>3
<1>6. new \in [1 .. Len(new) -> T] /\ Len(new) \in Nat
  BY <1>1, <1>3
<1> HIDE DEF T
<1>7. new \in Seq(T)
  BY <1>6, SeqDef
<1> QED BY <1>1, <1>3, <1>4, <1>5, <1>7 DEF HasZones, IsList, new, T

\* A list without its first zone.
LEMMA ZonesBehind ==
    ASSUME NEW list, list # << >>, NEW Z, NEW zones \in Seq(Z), HasZones(list, zones)
    PROVE  /\ zones # << >> /\ IsHeap(Head(list)) /\ Head(list).zone = Head(zones)
           /\ HasZones(Tail(list), Tail(zones))
<1> DEFINE S == {list[j] : j \in DOMAIN list}
           new == Tail(list)
           T == {new[j] : j \in DOMAIN new}
<1>1. list \in Seq(S) /\ Len(list) \in Nat /\ DOMAIN list = 1 .. Len(list)
  BY DEF HasZones, IsList
<1>2. /\ \A j \in 1 .. Len(list) : IsHeap(list[j]) /\ list[j].zone = zones[j]
      /\ Len(zones) = Len(list)
  BY <1>1 DEF HasZones, IsList
<1>3. Len(list) # 0
  BY <1>1, EmptySeq
<1>4. zones # << >>
  BY <1>2, <1>3
<1>5. Head(list) = list[1] /\ Head(zones) = zones[1] /\ 1 \in 1 .. Len(list)
  BY <1>1, <1>3, <1>4
<1>6. new \in Seq(S) /\ Len(new) = Len(list) - 1
      /\ \A j \in 1 .. Len(new) : new[j] = list[j + 1]
  BY <1>1, HeadTailProperties
<1>7. Len(Tail(zones)) = Len(list) - 1
      /\ \A j \in 1 .. Len(Tail(zones)) : Tail(zones)[j] = zones[j + 1]
  BY <1>2, <1>4, HeadTailProperties
<1> HIDE DEF S
<1>8. DOMAIN new = 1 .. Len(new) /\ Len(new) \in Nat /\ new \in [1 .. Len(new) -> S]
  BY <1>6, LenProperties
<1> HIDE DEF new
<1>9. \A j \in 1 .. Len(new) : IsHeap(new[j]) /\ new[j].zone = Tail(zones)[j]
  <2> SUFFICES ASSUME NEW j \in 1 .. Len(new)
               PROVE  IsHeap(new[j]) /\ new[j].zone = Tail(zones)[j]
    OBVIOUS
  <2>1. j + 1 \in 1 .. Len(list)
    BY <1>1, <1>6, <1>8
  <2>2. new[j] = list[j + 1] /\ Tail(zones)[j] = zones[j + 1]
    BY <1>6, <1>7
  <2> QED BY <1>2, <2>1, <2>2
<1>10. new \in [1 .. Len(new) -> T]
  BY <1>8
<1> HIDE DEF T
<1>11. new \in Seq(T)
  BY <1>8, <1>10, SeqDef
<1>12. HasZones(new, Tail(zones))
  BY <1>6, <1>7, <1>8, <1>9, <1>11 DEF HasZones, IsList, T
<1> QED BY <1>2, <1>4, <1>5, <1>12 DEF new

\* A heap with another free list and counter is of the same zone.
OfSameZone(g, h) ==
    \E cs, m : \/ g = [h EXCEPT !.chunks = cs, !.free = m]
              \/ g = [h EXCEPT !.free = m, !.chunks = cs]

LEMMA SameZone ==
    ASSUME NEW h, IsHeap(h), NEW g, OfSameZone(g, h)
    PROVE  IsHeap(g) /\ g.zone = h.zone
<1>0. PICK cs, m : \/ g = [h EXCEPT !.chunks = cs, !.free = m]
                  \/ g = [h EXCEPT !.free = m, !.chunks = cs]
  BY DEF OfSameZone
<1>1. PICK x, y, z : h = [zone |-> x, chunks |-> y, free |-> z]
  BY DEF IsHeap
<1> DEFINE cut == [h EXCEPT !.chunks = cs]
           told == [h EXCEPT !.free = m]
<1>2. /\ cut = [zone |-> x, chunks |-> cs, free |-> z]
      /\ told = [zone |-> x, chunks |-> y, free |-> m]
  BY <1>1
<1>3. g = [cut EXCEPT !.free = m] \/ g = [told EXCEPT !.chunks = cs]
  BY <1>0
<1> HIDE DEF cut, told
<1>4. /\ [cut EXCEPT !.free = m] = [zone |-> x, chunks |-> cs, free |-> m]
      /\ [told EXCEPT !.chunks = cs] = [zone |-> x, chunks |-> cs, free |-> m]
  BY <1>2
<1>5. g = [zone |-> x, chunks |-> cs, free |-> m]
  BY <1>3, <1>4
<1> QED BY <1>1, <1>5 DEF IsHeap

\* No zone is taken off or put on a list by allocating from it.
LEMMA AllocatedSameZones ==
    ASSUME NEW list, NEW zones, HasZones(list, zones), NEW n, NEW a, NEW reverse
    PROVE  /\ HasZones(Stack!Allocated(list, n, a, reverse).pool, zones)
           /\ HasZones(Pool!Allocated(list, n, a, reverse).pool, zones)
<1>1. \A i \in DOMAIN list : IsHeap(list[i])
  BY DEF HasZones, IsList
<1>3. ASSUME NEW i \in DOMAIN list
      PROVE  /\ IsHeap(Stack!TakenLow(list[i], n).heap) /\ IsHeap(Stack!TakenHigh(list[i], n).heap)
             /\ Stack!TakenLow(list[i], n).heap.zone = list[i].zone
             /\ Stack!TakenHigh(list[i], n).heap.zone = list[i].zone
             /\ IsHeap(Pool!TakenLow(list[i], n).heap) /\ IsHeap(Pool!TakenHigh(list[i], n).heap)
             /\ Pool!TakenLow(list[i], n).heap.zone = list[i].zone
             /\ Pool!TakenHigh(list[i], n).heap.zone = list[i].zone
  <2>1. \A cs : /\ OfSameZone(Stack!Shrunk(list[i], cs, n), list[i])
                /\ OfSameZone(Pool!Shrunk(list[i], cs, n), list[i])
    BY DEF Stack!Shrunk, Pool!Shrunk, OfSameZone
  <2>2. \A g : OfSameZone(g, list[i]) => IsHeap(g) /\ g.zone = list[i].zone
    BY <1>1, SameZone
  <2> QED BY <2>1, <2>2 DEF Stack!TakenLow, Stack!TakenHigh, Pool!TakenLow, Pool!TakenHigh
<1>4. HasZones(Stack!Allocated(list, n, a, reverse).pool, zones)
  <2>1. CASE Stack!Serving(list, n, a) = {}
    BY <2>1 DEF Stack!Allocated
  <2>2. CASE Stack!Serving(list, n, a) # {}
    <3> DEFINE i == Stack!First(Stack!Serving(list, n, a))
               t == IF reverse THEN Stack!TakenHigh(list[i], n) ELSE Stack!TakenLow(list[i], n)
    <3>1. Stack!Allocated(list, n, a, reverse).pool = [list EXCEPT ![i] = t.heap]
      BY <2>2 DEF Stack!Allocated
    <3> HIDE DEF i
    <3>2. i \in DOMAIN list => IsHeap(t.heap) /\ t.heap.zone = list[i].zone
      BY <1>3
    <3> HIDE DEF t
    <3>3. HasZones([list EXCEPT ![i] = t.heap], zones)
      BY <3>2, SameZones
    <3> QED BY <3>1, <3>3
  <2> QED BY <2>1, <2>2
<1>5. HasZones(Pool!Allocated(list, n, a, reverse).pool, zones)
  <2>1. CASE Pool!Serving(list, n, a) = {}
    BY <2>1 DEF Pool!Allocated
  <2>2. CASE Pool!Serving(list, n, a) # {}
    <3> DEFINE i == Pool!First(Pool!Serving(list, n, a))
               t == IF reverse THEN Pool!TakenHigh(list[i], n) ELSE Pool!TakenLow(list[i], n)
    <3>1. Pool!Allocated(list, n, a, reverse).pool = [list EXCEPT ![i] = t.heap]
      BY <2>2 DEF Pool!Allocated
    <3> HIDE DEF i
    <3>2. i \in DOMAIN list => IsHeap(t.heap) /\ t.heap.zone = list[i].zone
      BY <1>3
    <3> HIDE DEF t
    <3>3. HasZones([list EXCEPT ![i] = t.heap], zones)
      BY <3>2, SameZones
    <3> QED BY <3>1, <3>3
  <2> QED BY <2>1, <2>2
<1> QED BY <1>4, <1>5

\* Nor by giving a block back.
LEMMA DeallocatedSameZones ==
    ASSUME NEW list, NEW zones, HasZones(list, zones), NEW m, NEW n
    PROVE  HasZones(Pool!Deallocated(list, m, n), zones)
<1>1. CASE Pool!Containing(list, m) = {}
  BY <1>1 DEF Pool!Deallocated
<1>2. CASE Pool!Containing(list, m) # {}
  <2> DEFINE i == Pool!First(Pool!Containing(list, m))
             h == list[i]
  <2>1. Pool!Deallocated(list, m, n) = [list EXCEPT ![i] = Pool!Returned(h, m, n)]
    BY <1>2 DEF Pool!Deallocated
  <2> HIDE DEF i
  <2>2. i \in DOMAIN list => IsHeap(Pool!Returned(h, m, n)) /\ Pool!Returned(h, m, n).zone = h.zone
    <3> SUFFICES ASSUME i \in DOMAIN list
                 PROVE  IsHeap(Pool!Returned(h, m, n)) /\ Pool!Returned(h, m, n).zone = h.zone
      OBVIOUS
    <3>1. IsHeap(h)
      BY DEF HasZones, IsList
    <3> HIDE DEF h
    <3>2. CASE n = 0
      BY <3>1, <3>2 DEF Pool!Returned
    <3>3. CASE n # 0
      <4>1. OfSameZone(Pool!Returned(h, m, n), h)
        BY <3>3 DEF Pool!Returned, OfSameZone
      <4> QED BY <3>1, <4>1, SameZone
    <3> QED BY <3>2, <3>3
  <2>3. HasZones([list EXCEPT ![i] = Pool!Returned(h, m, n)], zones)
    BY <2>2, SameZones
  <2> QED BY <2>1, <2>3
<1> QED BY <1>1, <1>2

\* A zone no faster than the others goes behind them.
LEMMA EnqueuedLast ==
    ASSUME NEW list, NEW Z, NEW zones \in Seq(Z), HasZones(list, zones),
           NEW h, IsHeap(h), h.zone.priority \in Int,
           \A i \in 1 .. Len(zones) :
              zones[i].priority \in Int /\ zones[i].priority >= h.zone.priority
    PROVE  /\ HasZones(Stack!Enqueue(list, h), Append(zones, h.zone))
           /\ HasZones(Pool!Enqueue(list, h), Append(zones, h.zone))
           /\ Pool!Enqueue(list, h) = Append(list, h)
<1> DEFINE S == {list[j] : j \in DOMAIN list} \cup {h}
           l == Len(list)
<1>1. list \in Seq(S) /\ l \in Nat /\ DOMAIN list = 1 .. l /\ h \in S
  BY DEF HasZones, IsList
<1>2. \A j \in 1 .. l : list[j].zone.priority \in Int
                        /\ list[j].zone.priority >= h.zone.priority
  BY DEF HasZones
<1> HIDE DEF S
<1>3. SubSeq(list, 1, l) = list /\ SubSeq(list, l + 1, l) = << >>
  BY <1>1, SubSeqFull, SubSeqEmpty
<1>4. SubSeq(list, 1, (l + 1) - 1) \o << h >> \o SubSeq(list, l + 1, l) = Append(list, h)
  <2>1. (l + 1) - 1 = l
    BY <1>1
  <2>2. Append(list, h) = list \o << h >> /\ Append(list, h) \in Seq(S)
    BY <1>1, AppendProperties, AppendIsConcat
  <2>3. Append(list, h) \o << >> = Append(list, h)
    BY <2>2, ConcatEmptySeq
  <2> QED BY <1>3, <2>1, <2>2, <2>3
<1>5. HasZones(Append(list, h), Append(zones, h.zone))
  <2>1. zones \in Seq({zones[i] : i \in DOMAIN zones})
    OBVIOUS
  <2> QED BY <2>1, AddedZone
<1>6. Stack!InFrontOf(list, h.zone.priority) = {l + 1}
  BY <1>1, <1>2 DEF Stack!InFrontOf
<1>7. Pool!InFrontOf(list, h.zone.priority) = {l + 1}
  BY <1>1, <1>2 DEF Pool!InFrontOf
<1>8. (CHOOSE j \in {l + 1} : TRUE) = l + 1
  OBVIOUS
<1>9. Stack!Enqueue(list, h) = Append(list, h)
  BY <1>4, <1>6, <1>8 DEF Stack!Enqueue, Stack!Splice
<1>10. Pool!Enqueue(list, h) = Append(list, h)
  BY <1>4, <1>7, <1>8 DEF Pool!Enqueue, Pool!Splice
<1> QED BY <1>5, <1>9, <1>10

-----------------------------------------------------------------------------
(* From the probes to ExecBase.                                            *)

FoundZones == {ZoneOf(bank, Has(bank)) : bank \in {"chip", "slow", "a3000"}}

\* The lists on the way: startup's grows bank by bank, then its zones go over
\* to ExecBase's one by one, and stay there.
ListsOnTheWay ==
    /\ stage \in {"probe", "add_a3000"} => HasZones(heaplist, << >>)
    /\ stage = "add_slow" => HasZones(heaplist, OfBank("a3000"))
    /\ stage = "add_chip" => HasZones(heaplist, OfBank("a3000") \o OfBank("slow"))
    /\ stage \in {"stack", "execbase"} => HasZones(heaplist, AllZones)
    /\ stage \in {"probe", "add_a3000", "add_slow", "add_chip", "stack", "execbase"} =>
          pool = << >>
    /\ stage = "move" =>
          \E moved, left \in Seq(FoundZones) :
             /\ moved \o left = AllZones
             /\ HasZones(pool, moved) /\ HasZones(heaplist, left)
    /\ stage \in {"task", "exec_stack", "startup2"} =>
          heaplist = << >> /\ HasZones(pool, AllZones)

\* What ExecBase records is what the machine has.
Recorded ==
    stage \in {"move", "task", "exec_stack", "startup2"} =>
        /\ bootinfo.chipmem_top = Address("chip", machine.chip)
        /\ bootinfo.slowmem_top
             = IF machine.slow = 0 THEN NULL ELSE Address("slow", machine.slow)

BootInv ==
    /\ ProbeInv
    /\ stage # "probe" => phase = "done"
    /\ ListsOnTheWay
    /\ Recorded

\* The zones there are, one for each bank that is not empty, and in the order
\* of their priorities.
LEMMA ZonesInOrder ==
    ASSUME machine \in Machines
    PROVE  /\ \A bank \in {"chip", "slow", "a3000"} : OfBank(bank) \in Seq(FoundZones)
           /\ AllZones \in Seq(FoundZones)
           /\ \A z \in FoundZones : z.priority \in Int
           /\ \A i, j \in 1 .. Len(AllZones) :
                 i < j => AllZones[i].priority >= AllZones[j].priority
           /\ \A bank \in {"chip", "slow", "a3000"} :
                 \A i \in 1 .. Len(OfBank(bank)) : OfBank(bank)[i].priority = PriorityOf(bank)
<1> DEFINE Z(bank) == ZoneOf(bank, Has(bank))
<1>1. \A bank \in {"chip", "slow", "a3000"} :
         /\ Z(bank) \in FoundZones
         /\ OfBank(bank) = IF Empty(Has(bank)) THEN << >> ELSE << Z(bank) >>
  BY DEF FoundZones, OfBank
<1>2. \A bank \in {"chip", "slow", "a3000"} : Z(bank).priority = PriorityOf(bank)
  BY DEF ZoneOf
<1>3. PriorityOf("chip") = -10 /\ PriorityOf("slow") = 0 /\ PriorityOf("a3000") = 30
  BY DEF PriorityOf
<1>4. \A z \in FoundZones : z.priority \in Int
  BY <1>2, <1>3 DEF FoundZones
<1> HIDE DEF Z
<1>5. \A bank \in {"chip", "slow", "a3000"} :
         /\ OfBank(bank) \in Seq(FoundZones)
         /\ \A i \in 1 .. Len(OfBank(bank)) : OfBank(bank)[i].priority = PriorityOf(bank)
  <2> TAKE bank \in {"chip", "slow", "a3000"}
  <2>1. Z(bank) \in FoundZones /\ Z(bank).priority = PriorityOf(bank)
    BY <1>1, <1>2
  <2>2. OfBank(bank) = << >> \/ OfBank(bank) = << Z(bank) >>
    BY <1>1
  <2>3. << >> \in Seq(FoundZones) /\ << Z(bank) >> \in Seq(FoundZones)
    BY <2>1
  <2>4. Len(<< >>) = 0 /\ Len(<< Z(bank) >>) = 1 /\ << Z(bank) >>[1] = Z(bank)
    OBVIOUS
  <2> HIDE DEF Z
  <2>5. CASE OfBank(bank) = << >>
    <3>1. 1 .. Len(OfBank(bank)) = {}
      BY <2>4, <2>5
    <3> QED BY <2>3, <2>5, <3>1
  <2>6. CASE OfBank(bank) = << Z(bank) >>
    <3>1. 1 .. Len(OfBank(bank)) = {1}
      BY <2>4, <2>6
    <3> QED BY <2>1, <2>3, <2>4, <2>6, <3>1
  <2> QED BY <2>2, <2>5, <2>6
<1>6. AllZones \in Seq(FoundZones)
  BY <1>5, ConcatProperties DEF AllZones
<1>7. \A i, j \in 1 .. Len(AllZones) :
         i < j => AllZones[i].priority >= AllZones[j].priority
  <2> DEFINE F == OfBank("a3000")  S == OfBank("slow")  C == OfBank("chip")
  <2>1. /\ F = << >> \/ F = << Z("a3000") >>
        /\ S = << >> \/ S = << Z("slow") >>
        /\ C = << >> \/ C = << Z("chip") >>
    BY <1>1
  <2>2. /\ Z("a3000").priority = 30 /\ Z("slow").priority = 0 /\ Z("chip").priority = -10
        /\ Z("a3000") \in FoundZones /\ Z("slow") \in FoundZones /\ Z("chip") \in FoundZones
    BY <1>1, <1>2, <1>3
  <2>3. AllZones = F \o S \o C
    BY DEF AllZones
  <2> HIDE DEF F, S, C
  <2> QED BY <2>1, <2>2, <2>3, SMTT(40)
<1> QED BY <1>4, <1>5, <1>6, <1>7

\* When the probes are done, what they found are the banks there are.
LEMMA FoundIsThere ==
    ASSUME ProbeInv, phase = "done", NEW bank \in {"chip", "slow", "a3000"}
    PROVE  /\ Empty(found[bank]) <=> Empty(Has(bank))
           /\ ~Empty(Has(bank)) => found[bank] = Has(bank)
           /\ ~Empty(Has("chip")) /\ (Empty(Has("slow")) <=> machine.slow = 0)
<1>1. /\ machine \in Machines /\ found \in Ranges
      /\ found["chip"] = <<0, machine.chip>> /\ found["slow"] = <<0, machine.slow>>
      /\ IF machine.fast[1] = machine.fast[2] THEN found["a3000"][1] = found["a3000"][2]
         ELSE found["a3000"] = machine.fast
  BY DEF ProbeInv, FoundExact, ChipExact, SlowExact, A3000Exact
<1>2. /\ machine.chip \in Nat \ {0} /\ machine.slow \in Nat
      /\ machine.fast[1] \in Nat /\ machine.fast[2] \in Nat
      /\ machine.fast[1] <= machine.fast[2]
  BY <1>1, MachineTypes
<1>3. /\ Has("chip") = <<0, machine.chip>> /\ Has("slow") = <<0, machine.slow>>
      /\ Has("a3000") = machine.fast
  BY DEF Has
<1>4. found["a3000"][1] \in Nat /\ found["a3000"][2] \in Nat
  BY <1>1 DEF Ranges
<1>5. CASE bank = "a3000"
  BY <1>1, <1>2, <1>3, <1>4, <1>5 DEF Empty
<1>6. CASE bank # "a3000"
  BY <1>1, <1>2, <1>3, <1>6 DEF Empty
<1> QED BY <1>5, <1>6

\* Before anything is added there is nothing.
LEMMA NoZones == HasZones(<< >>, << >>)
<1>1. << >> \in Seq({<< >>[i] : i \in DOMAIN << >>}) /\ DOMAIN << >> = {} /\ Len(<< >>) = 0
  OBVIOUS
<1> QED BY <1>1 DEF HasZones, IsList

\* A bank is added to those before it, if there is any of it, behind the
\* faster ones.
LEMMA BankAdded ==
    ASSUME BootInv, NEW bank \in {"chip", "slow", "a3000"}, NEW here, NEW then,
           AddBank(bank, here, then), stage # "probe",
           NEW zones \in Seq(FoundZones), HasZones(heaplist, zones),
           \A i \in 1 .. Len(zones) : zones[i].priority >= PriorityOf(bank)
    PROVE  HasZones(heaplist', zones \o OfBank(bank))
<1> DEFINE z == ZoneOf(bank, Has(bank))
<1>1. ProbeInv /\ phase = "done" /\ machine \in Machines
  BY DEF BootInv, ProbeInv
<1>2. /\ Empty(found[bank]) <=> Empty(Has(bank))
      /\ ~Empty(Has(bank)) => found[bank] = Has(bank)
      /\ ~Empty(Has("chip"))
  BY <1>1, FoundIsThere
<1>3. CASE Empty(Has(bank))
  <2>1. heaplist' = heaplist
    BY <1>2, <1>3 DEF AddBank
  <2>2. OfBank(bank) = << >>
    BY <1>3 DEF OfBank
  <2>3. zones \o << >> = zones
    BY ConcatEmptySeq
  <2> QED BY <2>1, <2>2, <2>3
<1>4. CASE ~Empty(Has(bank))
  <2>1. Stack!AddMemList(z)
    BY <1>2, <1>4 DEF AddBank
  <2> DEFINE h == Stack!NewHeap(z)
  <2>2. heaplist' = Stack!Enqueue(heaplist, h)
    BY <2>1 DEF Stack!AddMemList
  <2>3. IsHeap(h) /\ h.zone = z
    BY DEF Stack!NewHeap, IsHeap
  <2>4. z \in FoundZones /\ z.priority = PriorityOf(bank)
    BY DEF FoundZones, ZoneOf
  <2>5. \A y \in FoundZones : y.priority \in Int
    BY <1>1, ZonesInOrder
  <2>6. \A i \in 1 .. Len(zones) : zones[i] \in FoundZones
    OBVIOUS
  <2> HIDE DEF h, z
  <2>7. HasZones(Stack!Enqueue(heaplist, h), Append(zones, z))
    BY <2>3, <2>4, <2>5, <2>6, EnqueuedLast
  <2>8. OfBank(bank) = << z >>
    BY <1>4 DEF OfBank, z
  <2>9. Append(zones, z) = zones \o << z >>
    BY <2>4, AppendIsConcat
  <2> QED BY <2>2, <2>7, <2>8, <2>9
<1> QED BY <1>3, <1>4

\* What the machine has does not change when the probes are over.
LEMMA SameMachine ==
    ASSUME probeVars' = probeVars
    PROVE  /\ machine' = machine /\ phase' = phase /\ found' = found
           /\ AllZones' = AllZones /\ FoundZones' = FoundZones
           /\ \A bank \in {"chip", "slow", "a3000"} : OfBank(bank)' = OfBank(bank)
           /\ Recorded /\ bootinfo' = bootinfo /\ stage # "execbase"
              /\ (stage' \in {"move", "task", "exec_stack", "startup2"} =>
                     stage \in {"move", "task", "exec_stack", "startup2"})
              => Recorded'
<1>1. machine' = machine /\ phase' = phase /\ found' = found
  BY DEF probeVars
<1>2. \A bank : Has(bank)' = Has(bank)
  BY <1>1 DEF Has
<1>3. \A bank : OfBank(bank)' = OfBank(bank)
  BY <1>2 DEF OfBank
<1> QED BY <1>1, <1>2, <1>3 DEF AllZones, FoundZones, Recorded

\* The banks are added one after the other.
LEMMA AddingKeepsLists ==
    ASSUME BootInv,
           \/ AddBank("a3000", "add_a3000", "add_slow")
           \/ AddBank("slow", "add_slow", "add_chip")
           \/ AddBank("chip", "add_chip", "stack")
    PROVE  ListsOnTheWay' /\ Recorded'
<1> DEFINE fast == OfBank("a3000")  slow == OfBank("slow")  chip == OfBank("chip")
<1>1. /\ probeVars' = probeVars /\ pool' = pool /\ bootinfo' = bootinfo
      /\ pool = << >> /\ machine \in Machines
  BY DEF AddBank, madeVars, BootInv, ListsOnTheWay, ProbeInv
<1>2. AllZones' = AllZones /\ fast' = fast /\ slow' = slow
  BY <1>1, SameMachine
<1>3. /\ fast \in Seq(FoundZones) /\ slow \in Seq(FoundZones) /\ chip \in Seq(FoundZones)
      /\ \A i \in 1 .. Len(fast) : fast[i].priority = 30
      /\ \A i \in 1 .. Len(slow) : slow[i].priority = 0
  <2>1. PriorityOf("slow") = 0 /\ PriorityOf("a3000") = 30
    BY DEF PriorityOf
  <2> QED BY <1>1, <2>1, ZonesInOrder
<1>4. AllZones = fast \o slow \o chip
  BY DEF AllZones
<1>5. PriorityOf("chip") = -10 /\ PriorityOf("slow") = 0 /\ PriorityOf("a3000") = 30
  BY DEF PriorityOf
<1> HIDE DEF fast, slow, chip
<1>6. CASE AddBank("a3000", "add_a3000", "add_slow")
  <2>1. stage = "add_a3000" /\ stage' = "add_slow" /\ HasZones(heaplist, << >>)
    BY <1>6 DEF AddBank, BootInv, ListsOnTheWay
  <2>2. << >> \in Seq(FoundZones) /\ 1 .. Len(<< >>) = {}
    OBVIOUS
  <2>3. HasZones(heaplist', << >> \o fast)
    BY <1>6, <2>1, <2>2, BankAdded DEF fast
  <2>4. << >> \o fast = fast
    BY <1>3, ConcatEmptySeq
  <2> QED BY <1>1, <1>2, <2>1, <2>3, <2>4 DEF ListsOnTheWay, Recorded, fast
<1>7. CASE AddBank("slow", "add_slow", "add_chip")
  <2>1. stage = "add_slow" /\ stage' = "add_chip" /\ HasZones(heaplist, fast)
    BY <1>7 DEF AddBank, BootInv, ListsOnTheWay, fast
  <2>2. \A i \in 1 .. Len(fast) : fast[i].priority >= PriorityOf("slow")
    BY <1>3, <1>5
  <2>3. HasZones(heaplist', fast \o slow)
    BY <1>3, <1>7, <2>1, <2>2, BankAdded DEF slow
  <2> QED BY <1>1, <1>2, <2>1, <2>3 DEF ListsOnTheWay, Recorded, fast, slow
<1>8. CASE AddBank("chip", "add_chip", "stack")
  <2>1. stage = "add_chip" /\ stage' = "stack" /\ HasZones(heaplist, fast \o slow)
    BY <1>8 DEF AddBank, BootInv, ListsOnTheWay, fast, slow
  <2>2. fast \o slow \in Seq(FoundZones) /\ Len(fast \o slow) = Len(fast) + Len(slow)
        /\ \A i \in 1 .. Len(fast) + Len(slow) :
              (fast \o slow)[i] = IF i <= Len(fast) THEN fast[i] ELSE slow[i - Len(fast)]
    BY <1>3, ConcatProperties
  <2>3. \A i \in 1 .. Len(fast \o slow) : (fast \o slow)[i].priority >= PriorityOf("chip")
    <3> SUFFICES ASSUME NEW i \in 1 .. Len(fast \o slow)
                 PROVE  (fast \o slow)[i].priority >= PriorityOf("chip")
      OBVIOUS
    <3>1. Len(fast) \in Nat /\ Len(slow) \in Nat
      BY <1>3
    <3>2. CASE i <= Len(fast)
      BY <1>3, <1>5, <2>2, <3>1, <3>2
    <3>3. CASE ~(i <= Len(fast))
      <4>1. i - Len(fast) \in 1 .. Len(slow)
        BY <2>2, <3>1, <3>3
      <4> QED BY <1>3, <1>5, <2>2, <3>3, <4>1
    <3> QED BY <3>2, <3>3
  <2>4. HasZones(heaplist', AllZones)
    BY <1>4, <1>8, <2>1, <2>2, <2>3, BankAdded DEF chip
  <2> QED BY <1>1, <1>2, <2>1, <2>4 DEF ListsOnTheWay, Recorded
<1> QED BY <1>6, <1>7, <1>8

\* startup's own blocks come out of its list, and then ExecBase's list starts
\* to take its zones.
LEMMA MakingKeepsLists ==
    ASSUME BootInv, MakeStack \/ MakeExecBase
    PROVE  ListsOnTheWay' /\ Recorded'
<1>1. probeVars' = probeVars /\ pool' = pool
  BY DEF MakeStack, MakeExecBase
<1>2. /\ AllZones' = AllZones /\ FoundZones' = FoundZones /\ machine' = machine
      /\ found' = found
  BY <1>1, SameMachine
<1>3. \A list : (\E n, a, reverse : list = Stack!Allocated(heaplist, n, a, reverse).pool)
                   /\ HasZones(heaplist, AllZones) => HasZones(list, AllZones)
  BY AllocatedSameZones
<1>4. \E n, a, reverse : heaplist' = Stack!Allocated(heaplist, n, a, reverse).pool
  BY DEF MakeStack, MakeExecBase, Stack!AllocMem
<1>5. stage \in {"stack", "execbase"}
  BY DEF MakeStack, MakeExecBase
<1>6. pool = << >> /\ HasZones(heaplist, AllZones) /\ machine \in Machines
  BY <1>5 DEF BootInv, ListsOnTheWay, ProbeInv
<1>7. HasZones(heaplist', AllZones)
  BY <1>3, <1>4, <1>6
<1>8. CASE MakeStack
  <2>1. stage' = "stopped" \/ stage' = "execbase"
    BY <1>8 DEF MakeStack
  <2> QED BY <1>1, <1>2, <1>6, <1>7, <2>1 DEF ListsOnTheWay, Recorded
<1>9. CASE MakeExecBase
  <2>1. stage' = "wild" \/ stage' = "move"
    BY <1>9 DEF MakeExecBase, OrWild
  <2>2. << >> \in Seq(FoundZones) /\ AllZones \in Seq(FoundZones)
    BY <1>6, ZonesInOrder, EmptySeq
  <2>3. << >> \o AllZones = AllZones
    BY <2>2, ConcatEmptySeq
  <2>4. ListsOnTheWay'
    BY <1>1, <1>2, <1>6, <1>7, <2>1, <2>2, <2>3, NoZones DEF ListsOnTheWay
  <2>5. /\ bootinfo'.chipmem_top = Address("chip", found["chip"][2])
        /\ bootinfo'.slowmem_top = IF Empty(found["slow"]) THEN NULL
                                   ELSE Address("slow", found["slow"][2])
    BY <1>9 DEF MakeExecBase
  <2>6. ProbeInv /\ phase = "done"
    BY <1>5 DEF BootInv
  <2>7. /\ found["chip"] = <<0, machine.chip>> /\ found["slow"] = <<0, machine.slow>>
    BY <2>6 DEF ProbeInv, FoundExact, ChipExact, SlowExact
  <2>8. Empty(found["slow"]) <=> machine.slow = 0
    BY <2>6, FoundIsThere
  <2>9. Recorded'
    BY <1>2, <2>5, <2>7, <2>8 DEF Recorded, Address
  <2> QED BY <2>4, <2>9
<1> QED BY <1>8, <1>9

\* A zone that goes over to ExecBase's list comes behind those that went
\* before it.
LEMMA MovingKeepsLists ==
    ASSUME BootInv, MoveZone \/ MoveEnds
    PROVE  /\ ListsOnTheWay' /\ Recorded'
           /\ MoveZone => pool' = Append(pool, Head(heaplist))
<1>1. probeVars' = probeVars /\ bootinfo' = bootinfo /\ stage = "move"
  BY DEF MoveZone, MoveEnds, madeVars
<1>2. /\ AllZones' = AllZones /\ FoundZones' = FoundZones /\ machine' = machine
      /\ Recorded'
  BY <1>1, SameMachine DEF BootInv
<1>3. machine \in Machines
  BY DEF BootInv, ProbeInv
<1>4. PICK moved, left \in Seq(FoundZones) :
         moved \o left = AllZones /\ HasZones(pool, moved) /\ HasZones(heaplist, left)
  BY <1>1 DEF BootInv, ListsOnTheWay
<1>5. CASE MoveZone
  <2>1. /\ heaplist # << >> /\ heaplist' = Tail(heaplist) /\ stage' = "move"
        /\ pool' = Pool!Enqueue(pool, Head(heaplist))
    BY <1>5 DEF MoveZone
  <2> DEFINE h == Head(heaplist)
             now == Append(moved, Head(left))
             then == Tail(left)
  <2>2. /\ left # << >> /\ IsHeap(h) /\ h.zone = Head(left)
        /\ HasZones(Tail(heaplist), then)
    BY <1>4, <2>1, ZonesBehind
  <2>3. Head(left) \in FoundZones /\ then \in Seq(FoundZones)
        /\ left = << Head(left) >> \o then
    <3>1. Head(left) \in FoundZones /\ then \in Seq(FoundZones)
      BY <2>2, HeadTailProperties
    <3> QED BY <2>2, <3>1
  <2>4. now \in Seq(FoundZones) /\ now = moved \o << Head(left) >>
    BY <2>3, AppendProperties, AppendIsConcat
  <2>5. now \o then = AllZones
    <3>1. << Head(left) >> \in Seq(FoundZones)
      BY <2>3
    <3> HIDE DEF then, now
    <3>2. (moved \o << Head(left) >>) \o then = moved \o (<< Head(left) >> \o then)
      BY <2>3, <3>1, ConcatAssociative
    <3> QED BY <1>4, <2>3, <2>4, <3>2
  <2>6. \A i \in 1 .. Len(moved) : moved[i].priority \in Int
                                   /\ moved[i].priority >= Head(left).priority
    <3> SUFFICES ASSUME NEW i \in 1 .. Len(moved)
                 PROVE  moved[i].priority \in Int /\ moved[i].priority >= Head(left).priority
      OBVIOUS
    <3>1. Len(moved) \in Nat /\ moved[i] \in FoundZones
      OBVIOUS
    <3>2. Len(left) \in Nat /\ Len(left) # 0 /\ Head(left) = left[1]
      BY <2>2, EmptySeq
    <3>3. /\ Len(AllZones) = Len(moved) + Len(left)
          /\ \A j \in 1 .. Len(moved) + Len(left) :
                AllZones[j] = IF j <= Len(moved) THEN moved[j] ELSE left[j - Len(moved)]
      BY <1>4, ConcatProperties
    <3> DEFINE j == Len(moved) + 1
    <3>4. /\ i \in 1 .. Len(AllZones) /\ j \in 1 .. Len(AllZones) /\ i < j
          /\ i <= Len(moved) /\ ~(j <= Len(moved)) /\ j - Len(moved) = 1
      BY <3>1, <3>2, <3>3
    <3> HIDE DEF j
    <3>5. AllZones[i] = moved[i] /\ AllZones[j] = left[1]
      BY <3>3, <3>4
    <3>6. AllZones[i].priority >= AllZones[j].priority
      BY <1>3, <3>4, ZonesInOrder
    <3>7. moved[i].priority \in Int
      BY <1>3, <3>1, ZonesInOrder
    <3> QED BY <3>2, <3>5, <3>6, <3>7
  <2>7. Head(left).priority \in Int
    BY <1>3, <2>3, ZonesInOrder
  <2> HIDE DEF h, then
  <2>8. /\ HasZones(Pool!Enqueue(pool, h), Append(moved, h.zone))
        /\ Pool!Enqueue(pool, h) = Append(pool, h)
    BY <1>4, <2>2, <2>6, <2>7, EnqueuedLast
  <2>9. HasZones(pool', now) /\ HasZones(heaplist', then)
    BY <2>1, <2>2, <2>8 DEF h
  <2> HIDE DEF now
  <2>10. ListsOnTheWay'
    BY <1>2, <2>1, <2>3, <2>4, <2>5, <2>9 DEF ListsOnTheWay
  <2>11. pool' = Append(pool, Head(heaplist))
    BY <2>1, <2>8 DEF h
  <2> QED BY <1>2, <2>10, <2>11
<1>6. CASE MoveEnds
  <2>1. heaplist = << >> /\ heaplist' = heaplist /\ pool' = pool /\ stage' = "task"
    BY <1>6 DEF MoveEnds, memVars
  <2>2. left = << >>
    <3>1. Len(left) = 0
      BY <1>4, <2>1, EmptySeq DEF HasZones
    <3> QED BY <3>1, EmptySeq
  <2>3. moved = AllZones
    BY <1>4, <2>2, ConcatEmptySeq
  <2>4. ListsOnTheWay'
    BY <1>2, <1>4, <2>1, <2>3 DEF ListsOnTheWay
  <2>5. ~MoveZone
    BY <2>1 DEF MoveZone
  <2> QED BY <1>2, <2>4, <2>5
<1> QED BY <1>5, <1>6

\* What is allocated and released afterwards comes out of ExecBase's zones and
\* goes back into them.
LEMMA RunningKeepsLists ==
    ASSUME BootInv,
           \/ MakeTask \/ MakeExecStack
           \/ ScanTag \/ MakeArray \/ FlattenNode \/ MakeLibrary \/ GoOnStartup2
    PROVE  ListsOnTheWay' /\ Recorded'
<1>1. /\ probeVars' = probeVars /\ bootinfo' = bootinfo /\ heaplist' = heaplist
      /\ stage \in {"task", "exec_stack", "startup2"}
  BY DEF MakeTask, MakeExecStack, ScanTag, MakeArray, FlattenNode, MakeLibrary,
         GoOnStartup2, memVars, madeVars
<1>2. /\ heaplist = << >> /\ HasZones(pool, AllZones)
      /\ AllZones' = AllZones /\ FoundZones' = FoundZones /\ Recorded'
  BY <1>1, SameMachine DEF BootInv, ListsOnTheWay
<1>3. stage' \in {"task", "exec_stack", "startup2", "wild"}
  BY DEF MakeTask, MakeExecStack, ScanTag, MakeArray, FlattenNode, MakeLibrary,
         GoOnStartup2, OrWild
<1>4. \/ pool' = pool
      \/ \E n, a, reverse : pool' = Pool!Allocated(pool, n, a, reverse).pool
      \/ \E m, n : pool' = Pool!Deallocated(pool, m, n)
  <2>1. CASE MakeTask
    BY <2>1 DEF MakeTask, Pool!AllocMem
  <2>2. CASE MakeExecStack
    BY <2>2 DEF MakeExecStack, New, Pool!AllocMem
  <2>3. CASE ScanTag
    BY <2>3 DEF ScanTag, New, Pool!AllocMem
  <2>4. CASE MakeArray
    BY <2>4 DEF MakeArray, New, Pool!AllocMem
  <2>5. CASE FlattenNode
    BY <2>5 DEF FlattenNode, Delete, Pool!FreeMem
  <2>6. CASE MakeLibrary
    BY <2>6 DEF MakeLibrary, New, Pool!AllocMem
  <2>7. CASE GoOnStartup2
    BY <2>7 DEF GoOnStartup2, memVars
  <2> QED BY <2>1, <2>2, <2>3, <2>4, <2>5, <2>6, <2>7
<1>5. HasZones(pool', AllZones)
  BY <1>2, <1>4, AllocatedSameZones, DeallocatedSameZones
<1> QED BY <1>1, <1>2, <1>3, <1>5 DEF ListsOnTheWay

LEMMA BootBegins == BootInit => BootInv
<1> SUFFICES ASSUME BootInit PROVE BootInv
  OBVIOUS
<1>1. ProbeInv
  BY ProbesBegin DEF BootInit
<1>2. stage = "probe" /\ heaplist = << >> /\ pool = << >>
  BY DEF BootInit
<1> QED BY <1>1, <1>2, NoZones DEF BootInv, ListsOnTheWay, Recorded

LEMMA BootStep == BootInv /\ [BootNext]_bootVars => BootInv'
<1> SUFFICES ASSUME BootInv, [BootNext]_bootVars PROVE BootInv'
  OBVIOUS
<1>1. ProbeInv'
  BY ProbeStep DEF BootInv
<1>2. CASE Probe
  <2>1. /\ stage = "probe" /\ heaplist' = heaplist /\ pool' = pool
        /\ stage' = IF phase' = "done" THEN "add_a3000" ELSE stage
    BY <1>2 DEF Probe, memVars
  <2>2. HasZones(heaplist, << >>) /\ pool = << >>
    BY <2>1 DEF BootInv, ListsOnTheWay
  <2> QED BY <1>1, <2>1, <2>2 DEF BootInv, ListsOnTheWay, Recorded
<1>3. CASE UNCHANGED bootVars
  <2>1. probeVars' = probeVars
    BY <1>3 DEF bootVars
  <2>2. /\ AllZones' = AllZones /\ FoundZones' = FoundZones /\ phase' = phase
        /\ \A bank \in {"chip", "slow", "a3000"} : OfBank(bank)' = OfBank(bank)
        /\ machine' = machine
    BY <2>1, SameMachine
  <2>3. stage' = stage /\ heaplist' = heaplist /\ pool' = pool /\ bootinfo' = bootinfo
    BY <1>3 DEF bootVars, memVars, madeVars
  <2> QED BY <1>1, <2>2, <2>3 DEF BootInv, ListsOnTheWay, Recorded, Address
<1>4. CASE BootNext /\ ~Probe
  <2>1. ListsOnTheWay' /\ Recorded'
    BY <1>4, AddingKeepsLists, MakingKeepsLists, MovingKeepsLists, RunningKeepsLists
       DEF BootNext
  <2>2. stage # "probe"
    BY <1>4 DEF BootNext, AddBank, MakeStack, MakeExecBase, MoveZone, MoveEnds, MakeTask,
                MakeExecStack, ScanTag, MakeArray, FlattenNode, MakeLibrary, GoOnStartup2
  <2>3. phase' = phase
    BY <1>4, ProbesAlone, SameMachine
  <2> QED BY <1>1, <2>1, <2>2, <2>3 DEF BootInv
<1> QED BY <1>2, <1>3, <1>4

THEOREM BootInvariant == BootSpec => []BootInv
BY BootBegins, BootStep, PTL DEF BootSpec

\* Whatever the machine has, ExecBase comes to manage all of it, fastest bank
\* first, with nothing left on startup's stack, and tells where it ends.
THEOREM MemoryHandedOver == BootSpec => []HandedOver
<1>1. BootInv => HandedOver
  <2> SUFFICES ASSUME BootInv, stage \in {"task", "exec_stack", "startup2"}
               PROVE  /\ heaplist = << >>
                      /\ [i \in DOMAIN pool |-> pool[i].zone] = AllZones
    BY DEF HandedOver, BootInv, Recorded
  <2>1. heaplist = << >> /\ HasZones(pool, AllZones)
    BY DEF BootInv, ListsOnTheWay
  <2>2. /\ Len(pool) \in Nat /\ DOMAIN pool = 1 .. Len(pool) /\ Len(pool) = Len(AllZones)
        /\ \A i \in 1 .. Len(pool) : pool[i].zone = AllZones[i]
    BY <2>1 DEF HasZones, IsList
  <2>3. AllZones \in Seq(FoundZones)
    BY ZonesInOrder DEF BootInv, ProbeInv
  <2>4. AllZones \in [1 .. Len(AllZones) -> FoundZones]
    BY <2>3, LenProperties
  <2> QED BY <2>1, <2>2, <2>4
<1> QED BY <1>1, BootInvariant, PTL

-----------------------------------------------------------------------------
(* The components of boot, and what is proved of each by itself.           *)

\* What PoolProofs says of a pool of whatever zones, and RomTagsProofs of a ROM.
Any == INSTANCE PoolProofs
          WITH Zones <- {}, Requests <- {}, Wanted <- {}, RequestLists <- {},
               HeadBytes <- 1, EntryBytes <- 0, lists <- {}
Tags == INSTANCE RomTagsProofs WITH phase <- romPhase

-----------------------------------------------------------------------------
(* The blocks.                                                             *)

\* The two lists are handled by the operators that PoolProofs is about.
LEMMA SameRounding ==
    /\ \A n : Pool!RoundUp(n) = Any!RoundUp(n)
    /\ \A z : Pool!Lower(z) = Any!Lower(z) /\ Pool!Upper(z) = Any!Upper(z)
    /\ \A h, m : Pool!Contains(h, m) = Any!Contains(h, m)
BY DEF Pool!RoundUp, Any!RoundUp, Pool!Lower, Any!Lower, Pool!Upper, Any!Upper,
       Pool!Contains, Any!Contains, Pool!HeaderSize, Any!HeaderSize

LEMMA SameAllocated ==
    ASSUME NEW list, NEW n, NEW a, NEW reverse
    PROVE  /\ Pool!Allocated(list, n, a, reverse) = Any!Allocated(list, n, a, reverse)
           /\ Stack!Allocated(list, n, a, reverse) = Any!Allocated(list, n, a, reverse)
<1>1. Pool!Allocated(list, n, a, reverse) = Any!Allocated(list, n, a, reverse)
  BY DEF Pool!Allocated, Any!Allocated, Pool!Serving, Any!Serving, Pool!First, Any!First,
         Pool!TakenHigh, Any!TakenHigh, Pool!TakenLow, Any!TakenLow,
         Pool!Provides, Any!Provides, Pool!Serves, Any!Serves, Pool!NULL, Any!NULL,
         Pool!Refuses, Any!Refuses, Pool!NoFit, Any!NoFit, Pool!RoundUp, Any!RoundUp,
         Pool!Shrunk, Any!Shrunk, Pool!FirstFit, Any!FirstFit, Pool!LastFit, Any!LastFit,
         Pool!CarveLow, Any!CarveLow, Pool!CarveHigh, Any!CarveHigh,
         Pool!Splice, Any!Splice, Pool!Chunk, Any!Chunk, Pool!End, Any!End
<1>2. Stack!Allocated(list, n, a, reverse) = Any!Allocated(list, n, a, reverse)
  BY DEF Stack!Allocated, Any!Allocated, Stack!Serving, Any!Serving, Stack!First, Any!First,
         Stack!TakenHigh, Any!TakenHigh, Stack!TakenLow, Any!TakenLow,
         Stack!Provides, Any!Provides, Stack!Serves, Any!Serves, Stack!NULL, Any!NULL,
         Stack!Refuses, Any!Refuses, Stack!NoFit, Any!NoFit, Stack!RoundUp, Any!RoundUp,
         Stack!Shrunk, Any!Shrunk, Stack!FirstFit, Any!FirstFit, Stack!LastFit, Any!LastFit,
         Stack!CarveLow, Any!CarveLow, Stack!CarveHigh, Any!CarveHigh,
         Stack!Splice, Any!Splice, Stack!Chunk, Any!Chunk, Stack!End, Any!End
<1> QED BY <1>1, <1>2

LEMMA SameDeallocated ==
    ASSUME NEW list, NEW m, NEW n
    PROVE  Pool!Deallocated(list, m, n) = Any!Deallocated(list, m, n)
BY DEF Pool!Deallocated, Any!Deallocated, Pool!Containing, Any!Containing,
       Pool!Contains, Any!Contains, Pool!Lower, Any!Lower, Pool!Upper, Any!Upper,
       Pool!HeaderSize, Any!HeaderSize, Pool!First, Any!First,
       Pool!Returned, Any!Returned, Pool!StopsAt, Any!StopsAt, Pool!Clashes, Any!Clashes,
       Pool!RoundUp, Any!RoundUp, Pool!GiveBack, Any!GiveBack,
       Pool!JoinsNext, Any!JoinsNext, Pool!JoinsPrev, Any!JoinsPrev,
       Pool!Splice, Any!Splice, Pool!Chunk, Any!Chunk, Pool!End, Any!End

LEMMA SameEnqueue ==
    ASSUME NEW list, NEW z
    PROVE  Stack!Enqueue(list, Stack!NewHeap(z)) = Any!Enqueue(list, Any!NewHeap(z))
BY DEF Stack!Enqueue, Any!Enqueue, Stack!InFrontOf, Any!InFrontOf,
       Stack!Splice, Any!Splice, Stack!NewHeap, Any!NewHeap, Stack!Chunk, Any!Chunk,
       Stack!Lower, Any!Lower, Stack!HeaderSize, Any!HeaderSize

\* More steps are no fewer bytes.
LEMMA MoreSteps ==
    ASSUME NEW i \in Nat, NEW w \in Nat, i <= w, NEW s \in Nat
    PROVE  i * s \in Nat /\ w * s \in Nat /\ i * s <= w * s
<1>1. (w - i) \in Nat
  OBVIOUS
<1>2. (w - i) * s \in Nat /\ i * s \in Nat /\ w * s \in Nat
  BY <1>1
<1>3. (w - i) * s = w * s - i * s
  OBVIOUS
<1> QED BY <1>2, <1>3

\* What the machine has are zones behind each other.
LEMMA BankZones ==
    ASSUME machine \in Machines
    PROVE  /\ \A bank \in {"chip", "slow", "a3000"} :
                 ~Empty(Has(bank)) => Any!IsZone(ZoneOf(bank, Has(bank)))
           /\ \A y, z \in FoundZones : y # z => Any!Managed(y) \cap Any!Managed(z) = {}
           /\ Any!Upper(ZoneOf("chip", Has("chip"))) - Any!Lower(ZoneOf("chip", Has("chip")))
                = Address("chip", machine.chip) - FirstPage - Pool!HeaderSize
<1> DEFINE c == ZoneOf("chip", Has("chip"))
           s == ZoneOf("slow", Has("slow"))
           f == ZoneOf("a3000", Has("a3000"))
           lc == Lowest["chip"]  ls == Lowest["slow"]  lf == Lowest["a3000"]
           sc == StepSize["chip"]  ss == StepSize["slow"]  sf == StepSize["a3000"]
<1>1. /\ machine.chip \in Nat /\ machine.chip >= 1 /\ machine.chip <= ChipWindow
      /\ machine.slow \in Nat /\ machine.slow <= SlowWindow
      /\ machine.fast[1] \in Nat /\ machine.fast[2] \in Nat
      /\ machine.fast[1] <= machine.fast[2]
      /\ ChipWindow \in Nat /\ SlowWindow \in Nat
  BY MachineTypes, MachineAssumption
<1>2. /\ lc \in Nat /\ ls \in Nat /\ lf \in Nat /\ sc \in Nat /\ ss \in Nat /\ sf \in Nat
      /\ lc + ChipWindow * sc <= ls /\ ls + SlowWindow * ss <= lf
      /\ ss > 32 /\ sf > 32 /\ sc > 4096 + 32
  BY BootAssumption, WindowAssumption DEF Address, FirstPage, Pool!HeaderSize
<1>3. /\ c.base = 4096 /\ c.size = (lc + machine.chip * sc) - 4096 /\ c.priority = -10
      /\ s.base = ls + 0 * ss /\ s.size = (ls + machine.slow * ss) - (ls + 0 * ss)
      /\ s.priority = 0
      /\ f.base = lf + machine.fast[1] * sf
      /\ f.size = (lf + machine.fast[2] * sf) - (lf + machine.fast[1] * sf)
      /\ f.priority = 30
  <2>1. /\ Has("chip") = <<0, machine.chip>> /\ Has("slow") = <<0, machine.slow>>
        /\ Has("a3000") = machine.fast
    BY DEF Has
  <2>2. PriorityOf("chip") = -10 /\ PriorityOf("slow") = 0 /\ PriorityOf("a3000") = 30
    BY DEF PriorityOf
  <2>3. /\ RangeOf("chip", Has("chip"))[1] = 4096
        /\ RangeOf("chip", Has("chip"))[2] = lc + machine.chip * sc
        /\ RangeOf("slow", Has("slow"))[1] = ls + 0 * ss
        /\ RangeOf("slow", Has("slow"))[2] = ls + machine.slow * ss
        /\ RangeOf("a3000", Has("a3000"))[1] = lf + machine.fast[1] * sf
        /\ RangeOf("a3000", Has("a3000"))[2] = lf + machine.fast[2] * sf
    BY <2>1 DEF RangeOf, Address, FirstPage
  <2> HIDE DEF lc, ls, lf, sc, ss, sf
  <2> QED BY <2>2, <2>3 DEF ZoneOf
<1>4. /\ machine.chip * sc \in Nat /\ 1 * sc <= machine.chip * sc
      /\ machine.chip * sc <= ChipWindow * sc /\ ChipWindow * sc \in Nat
  BY <1>1, <1>2, MoreSteps
<1>5. /\ machine.slow * ss \in Nat /\ machine.slow * ss <= SlowWindow * ss
      /\ SlowWindow * ss \in Nat
      /\ machine.slow >= 1 => 1 * ss <= machine.slow * ss
  BY <1>1, <1>2, MoreSteps
<1>6. /\ machine.fast[1] * sf \in Nat /\ machine.fast[2] * sf \in Nat
      /\ machine.fast[1] < machine.fast[2] => machine.fast[1] * sf + sf <= machine.fast[2] * sf
  <2>1. machine.fast[1] < machine.fast[2] => (machine.fast[1] + 1) * sf <= machine.fast[2] * sf
    BY <1>1, <1>2, MoreSteps
  <2>2. (machine.fast[1] + 1) * sf = machine.fast[1] * sf + sf
    BY <1>1, <1>2
  <2>3. machine.fast[1] * sf \in Nat /\ machine.fast[2] * sf \in Nat
    BY <1>1, <1>2, MoreSteps
  <2> QED BY <2>1, <2>2, <2>3
<1>7. /\ 0 * ss = 0 /\ 1 * ss = ss /\ 1 * sc = sc
  BY <1>2
<1> DEFINE nc == machine.chip * sc  ns == machine.slow * ss
           nf == machine.fast[1] * sf  mf == machine.fast[2] * sf
           wc == ChipWindow * sc  ws == SlowWindow * ss
<1>8. /\ ~Empty(Has("chip"))
      /\ ~Empty(Has("slow")) => machine.slow >= 1
      /\ ~Empty(Has("a3000")) => machine.fast[1] < machine.fast[2]
  BY <1>1 DEF Has, Empty
<1>9. Any!IsZone(c) /\ Any!Upper(c) - Any!Lower(c) = lc + nc - 4096 - 32
      /\ Any!Managed(c) \subseteq 4096 .. (ls - 1)
  <2>1. nc \in Nat /\ sc <= nc /\ nc <= wc /\ wc \in Nat /\ lc + wc <= ls
        /\ c.base = 4096 /\ c.size = lc + nc - 4096 /\ c.priority = -10
    BY <1>2, <1>3, <1>4, <1>7
  <2> HIDE DEF c, nc, wc, lc, ls, sc
  <2> QED BY <1>2, <2>1 DEF Any!IsZone, Any!HeaderSize, Any!Lower, Any!Upper, Any!Managed
<1>10. (~Empty(Has("slow")) => Any!IsZone(s)) /\ Any!Managed(s) \subseteq ls .. (lf - 1)
  <2>1. ns \in Nat /\ ns <= ws /\ ws \in Nat /\ ls + ws <= lf
        /\ s.base = ls /\ s.size = ns /\ s.priority = 0 /\ ls > 0
        /\ (~Empty(Has("slow")) => ss <= ns)
    BY <1>2, <1>3, <1>4, <1>5, <1>7, <1>8
  <2> HIDE DEF s, ns, ws, ls, lf, ss
  <2> QED BY <1>2, <2>1 DEF Any!IsZone, Any!HeaderSize, Any!Lower, Any!Upper, Any!Managed
<1>11. (~Empty(Has("a3000")) => Any!IsZone(f))
       /\ \A m \in Any!Managed(f) : m \in Int /\ m >= lf
  <2>1. nf \in Nat /\ mf \in Nat
        /\ f.base = lf + nf /\ f.size = (lf + mf) - (lf + nf) /\ f.priority = 30 /\ lf > 0
        /\ (~Empty(Has("a3000")) => nf + sf <= mf)
    BY <1>2, <1>3, <1>4, <1>5, <1>6, <1>7, <1>8
  <2> HIDE DEF f, nf, mf, lf, sf
  <2> QED BY <1>2, <2>1 DEF Any!IsZone, Any!HeaderSize, Any!Lower, Any!Upper, Any!Managed
<1>12. \A y, z \in FoundZones : y # z => Any!Managed(y) \cap Any!Managed(z) = {}
  <2>1. FoundZones = {c, s, f}
    BY DEF FoundZones
  <2>2. /\ Any!Managed(c) \cap Any!Managed(s) = {} /\ Any!Managed(c) \cap Any!Managed(f) = {}
        /\ Any!Managed(s) \cap Any!Managed(f) = {}
    <3>1. ls <= lf
      BY <1>2, <1>5
    <3> HIDE DEF c, s, f, lc, ls, lf
    <3> QED BY <1>2, <1>9, <1>10, <1>11, <3>1
  <2> HIDE DEF c, s, f
  <2> QED BY <2>1, <2>2
<1>13. Address("chip", machine.chip) - FirstPage - Pool!HeaderSize = lc + nc - 4096 - 32
  <2>1. Address("chip", machine.chip) = lc + nc /\ FirstPage = 4096 /\ Pool!HeaderSize = 32
    BY DEF Address, FirstPage, Pool!HeaderSize
  <2>2. lc \in Nat /\ nc \in Nat
    BY <1>2, <1>4
  <2> HIDE DEF lc, nc
  <2> QED BY <2>1, <2>2
<1> QED BY <1>8, <1>9, <1>10, <1>11, <1>12, <1>13

\* The zones of both lists, and what is taken from them.  A list that has
\* begun to lose its zones to the other has the later ones.
BothLists == pool \o heaplist

MemInv ==
    /\ pool \in Seq(Any!HeapsOf(pool)) /\ heaplist \in Seq(Any!HeapsOf(heaplist))
    /\ Any!PoolOK(BothLists) /\ Any!BlocksOK(BothLists, owned)

LEMMA NoList == << >> \in Seq(Any!HeapsOf(<< >>))
OBVIOUS


\* Before the zones go over and after they have, one list has them all.
LEMMA OneList ==
    ASSUME BootInv
    PROVE  /\ stage \in {"probe", "add_a3000", "add_slow", "add_chip", "stack", "execbase"} =>
                pool = << >> /\ BothLists = heaplist
           /\ stage \in {"task", "exec_stack", "startup2"} =>
                heaplist = << >> /\ BothLists = pool
<1>1. ASSUME stage \in {"probe", "add_a3000", "add_slow", "add_chip", "stack", "execbase"}
      PROVE  pool = << >> /\ BothLists = heaplist
  <2>1. pool = << >> /\ IsList(heaplist)
    BY <1>1 DEF BootInv, ListsOnTheWay, HasZones
  <2> QED BY <2>1, ConcatEmptySeq DEF IsList, BothLists
<1>2. ASSUME stage \in {"task", "exec_stack", "startup2"}
      PROVE  heaplist = << >> /\ BothLists = pool
  <2>1. heaplist = << >> /\ IsList(pool)
    BY <1>2 DEF BootInv, ListsOnTheWay, HasZones
  <2> QED BY <2>1, ConcatEmptySeq DEF IsList, BothLists
<1> QED BY <1>1, <1>2

\* A block that is allocated was free, and is none of those handed out.
LEMMA BlockTaken ==
    ASSUME NEW list, Any!PoolOK(list), Any!BlocksOK(list, owned),
           NEW n \in Nat, NEW a, NEW reverse
    PROVE  LET t == Any!Allocated(list, n, a, reverse)
               b == [addr |-> t.addr, size |-> n, attributes |-> a]
           IN  \/ t.addr = NULL /\ t.pool = list
               \/ /\ t.addr \in Nat \ {0}
                  /\ Any!PoolOK(t.pool) /\ Any!BlocksOK(t.pool, owned \cup {b})
                  /\ \A c \in owned : c.addr # t.addr
<1> DEFINE t == Any!Allocated(list, n, a, reverse)
           b == [addr |-> t.addr, size |-> n, attributes |-> a]
<1>1. CASE Any!Serving(list, n, a) = {}
  BY <1>1, Any!AllocatedSound DEF NULL, Any!NULL
<1>2. CASE Any!Serving(list, n, a) # {}
  <2>1. Any!Took(list, t.pool, t.addr, n, a)
    BY <1>2, Any!AllocatedSound
  <2> HIDE DEF t
  <2>2. Any!PoolOK(t.pool) /\ t.addr \in Nat \ {0} /\ n \in Nat \ {0}
    BY <2>1 DEF Any!Took
  <2>3. Any!BlocksOK(t.pool, owned \cup {b}) /\ b \notin owned
    BY <2>1, Any!TakeOne
  <2>4. ASSUME NEW c \in owned PROVE c.addr # t.addr
    <3>1. /\ Any!Extent(b) \cap Any!Extent(c) = {}
          /\ c.addr \in Nat \ {0} /\ c.size \in Nat \ {0}
          /\ b.addr \in Nat \ {0} /\ b.size \in Nat \ {0}
      <4>1. b \in owned \cup {b} /\ c \in owned \cup {b} /\ b # c
        BY <2>3
      <4> HIDE DEF b
      <4> QED BY <2>3, <4>1 DEF Any!BlocksOK
    <3>2. c.addr \in Any!Extent(c) /\ b.addr \in Any!Extent(b)
      BY <3>1, Any!ExtentNotEmpty
    <3>3. b.addr = t.addr
      OBVIOUS
    <3> HIDE DEF b
    <3> QED BY <3>1, <3>2, <3>3
  <2> HIDE DEF b
  <2> QED BY <2>2, <2>3, <2>4 DEF t, b
<1> QED BY <1>1, <1>2 DEF t, b

\* What the clients hold after an allocation: what they held, and the block.
Got(n, a) ==
    \/ call'.result = NULL /\ owned' = owned /\ BothLists' = BothLists
    \/ /\ call'.result \in Nat \ {0}
       /\ owned' = owned \cup {[addr |-> call'.result, size |-> n, attributes |-> a]}
       /\ \A b \in owned : b.addr # call'.result

\* An allocation from either list.
LEMMA AllocKeeps ==
    ASSUME BootInv, MemInv, NEW n \in Nat, NEW a, NEW reverse,
           \/ stage \in {"stack", "execbase"} /\ pool' = pool /\ Stack!AllocMem(n, a, reverse)
           \/ /\ stage \in {"task", "exec_stack", "startup2"} /\ heaplist' = heaplist
              /\ Pool!AllocMem(n, a, reverse)
    PROVE  /\ MemInv' /\ Got(n, a)
           /\ call'.result = Any!Allocated(BothLists, n, a, reverse).addr
           /\ BothLists' = Any!Allocated(BothLists, n, a, reverse).pool
<1> DEFINE t == Any!Allocated(BothLists, n, a, reverse)
           b == [addr |-> t.addr, size |-> n, attributes |-> a]
<1>1. /\ owned' = IF t.addr = NULL THEN owned ELSE owned \cup {b}
      /\ call'.result = t.addr
      /\ \/ pool' = << >> /\ heaplist' = t.pool
         \/ heaplist' = << >> /\ pool' = t.pool
  <2>1. CASE stage \in {"stack", "execbase"}
    <3>1. pool = << >> /\ BothLists = heaplist
      BY <2>1, OneList
    <3>2. stage \notin {"task", "exec_stack", "startup2"}
      BY <2>1
    <3>3. pool' = pool /\ Stack!AllocMem(n, a, reverse)
      BY <3>2
    <3>4. t = Stack!Allocated(heaplist, n, a, reverse)
      BY <3>1, SameAllocated
    <3> HIDE DEF t
    <3> QED BY <3>1, <3>3, <3>4 DEF Stack!AllocMem, Stack!Keep, Stack!Answer, Stack!NULL, NULL
  <2>2. CASE stage \in {"task", "exec_stack", "startup2"}
    <3>1. heaplist = << >> /\ BothLists = pool
      BY <2>2, OneList
    <3>2. stage \notin {"stack", "execbase"}
      BY <2>2
    <3>3. heaplist' = heaplist /\ Pool!AllocMem(n, a, reverse)
      BY <3>2
    <3>4. t = Pool!Allocated(pool, n, a, reverse)
      BY <3>1, SameAllocated
    <3> HIDE DEF t
    <3> QED BY <3>1, <3>3, <3>4 DEF Pool!AllocMem, Pool!Keep, Pool!Answer, Pool!NULL, NULL
  <2> QED BY <2>1, <2>2
<1>2. Any!PoolOK(BothLists) /\ Any!BlocksOK(BothLists, owned)
  BY DEF MemInv
<1>3. \/ t.addr = NULL /\ t.pool = BothLists
      \/ /\ t.addr \in Nat \ {0}
         /\ Any!PoolOK(t.pool) /\ Any!BlocksOK(t.pool, owned \cup {b})
         /\ \A c \in owned : c.addr # t.addr
  BY <1>2, BlockTaken
<1> HIDE DEF t
<1>4. Any!PoolOK(t.pool) /\ Any!BlocksOK(t.pool, owned')
  BY <1>1, <1>2, <1>3 DEF NULL
<1>5. BothLists' = t.pool
  <2>1. t.pool \in Seq(Any!HeapsOf(t.pool))
    BY <1>4 DEF Any!PoolOK
  <2> QED BY <1>1, <2>1, ConcatEmptySeq DEF BothLists
<1>6. MemInv'
  <2>1. t.pool \in Seq(Any!HeapsOf(t.pool))
    BY <1>4 DEF Any!PoolOK
  <2> QED BY <1>1, <1>4, <1>5, <2>1, NoList DEF MemInv
<1>7. Got(n, a)
  BY <1>1, <1>3, <1>5 DEF Got, NULL
<1> QED BY <1>1, <1>5, <1>6, <1>7 DEF t

\* A block that is released.
LEMMA FreeKeeps ==
    ASSUME BootInv, MemInv, NEW b \in owned, stage = "startup2", heaplist' = heaplist,
           Pool!FreeMem(b)
    PROVE  MemInv' /\ owned' = owned \ {b}
<1> DEFINE q == Any!Deallocated(pool, b.addr, b.size)
           R == Any!Run(b.addr, Any!RoundUp(b.size))
<1>1. heaplist = << >> /\ BothLists = pool
  BY OneList
<1>2. pool' = q /\ owned' = owned \ {b}
  BY SameDeallocated DEF Pool!FreeMem
<1>3. Any!PoolOK(pool) /\ Any!BlocksOK(pool, owned)
  BY <1>1 DEF MemInv
<1>4. /\ b.addr \in Nat /\ b.size \in Nat /\ b.size # 0
      /\ Any!Within(pool, R, b.attributes) /\ R \cap Any!PoolFree(pool) = {}
      /\ Any!Extents({b}) = R
  BY <1>3 DEF Any!BlocksOK, Any!Extent, Any!Extents
<1> HIDE DEF R
<1>5. /\ Any!PoolOK(q) /\ Any!SameZones(pool, q)
      /\ Any!PoolFree(q) = Any!PoolFree(pool) \cup R
  BY <1>3, <1>4, Any!DeallocatedSound DEF R
<1> HIDE DEF q
<1>6. Any!BlocksOK(q, owned \ {b})
  <2>1. {b} \subseteq owned /\ Any!PoolFree(q) = Any!PoolFree(pool) \cup Any!Extents({b})
    BY <1>4, <1>5
  <2> QED BY <1>3, <1>5, <2>1, Any!ReturnBlocks
<1>7. BothLists' = q
  <2>1. q \in Seq(Any!HeapsOf(q))
    BY <1>5 DEF Any!PoolOK
  <2> QED BY <1>1, <1>2, <2>1, ConcatEmptySeq DEF BothLists
<1>8. pool' \in Seq(Any!HeapsOf(pool')) /\ heaplist' \in Seq(Any!HeapsOf(heaplist'))
  BY <1>1, <1>2, <1>5, NoList DEF Any!PoolOK
<1> QED BY <1>2, <1>5, <1>6, <1>7, <1>8 DEF MemInv

\* A bank joins those before it, which are faster and elsewhere.
LEMMA BankJoins ==
    ASSUME BootInv, MemInv, NEW bank \in {"chip", "slow", "a3000"}, NEW here, NEW then,
           AddBank(bank, here, then), stage \in {"add_a3000", "add_slow", "add_chip"},
           NEW zones \in Seq(FoundZones), HasZones(heaplist, zones),
           \A i \in 1 .. Len(zones) : zones[i].priority > PriorityOf(bank)
    PROVE  MemInv'
<1> DEFINE z == ZoneOf(bank, Has(bank))
           M == Any!Managed(z)
           q == Any!Enqueue(heaplist, Any!NewHeap(z))
<1>1. ProbeInv /\ phase = "done" /\ machine \in Machines /\ pool = << >> /\ BothLists = heaplist
  BY OneList DEF BootInv, ProbeInv
<1>2. /\ Empty(found[bank]) <=> Empty(Has(bank))
      /\ ~Empty(Has(bank)) => found[bank] = Has(bank)
      /\ ~Empty(Has("chip"))
  BY <1>1, FoundIsThere
<1>3. pool' = pool
  BY DEF AddBank
<1>4. CASE Empty(Has(bank))
  BY <1>2, <1>3, <1>4 DEF AddBank, MemInv, BothLists
<1>5. CASE ~Empty(Has(bank))
  <2>1. Stack!AddMemList(z) /\ owned' = owned
    BY <1>2, <1>5 DEF AddBank, Stack!AddMemList
  <2>2. heaplist' = q
    BY <2>1, SameEnqueue DEF Stack!AddMemList
  <2>3. Any!IsZone(z) /\ z \in FoundZones /\ z.priority = PriorityOf(bank)
    <3>1. Any!IsZone(z)
      BY <1>1, <1>5, BankZones
    <3> QED BY <3>1 DEF FoundZones, ZoneOf
  <2>4. \A i \in DOMAIN heaplist : Any!Managed(heaplist[i].zone) \cap M = {}
    <3> SUFFICES ASSUME NEW i \in DOMAIN heaplist
                 PROVE  Any!Managed(heaplist[i].zone) \cap M = {}
      OBVIOUS
    <3>1. i \in 1 .. Len(zones) /\ heaplist[i].zone = zones[i]
      BY DEF HasZones, IsList
    <3>2. zones[i] \in FoundZones /\ zones[i].priority > z.priority
      BY <2>3, <3>1
    <3>3. z.priority \in Int
      BY <1>1, <2>3, ZonesInOrder
    <3>4. zones[i] # z
      BY <3>2, <3>3
    <3> HIDE DEF z
    <3> QED BY <1>1, <2>3, <3>1, <3>2, <3>4, BankZones
  <2>5. M \cap Any!PoolManaged(heaplist) = {}
    BY <2>4 DEF Any!PoolManaged
  <2>6. Any!PoolOK(heaplist) /\ Any!BlocksOK(heaplist, owned)
    BY <1>1 DEF MemInv
  <2> HIDE DEF z
  <2>7. /\ Any!PoolOK(q)
        /\ Any!PoolFree(q) = Any!PoolFree(heaplist) \cup M
        /\ Any!PoolManaged(q) = Any!PoolManaged(heaplist) \cup M
        /\ \A R, a : Any!Within(heaplist, R, a) => Any!Within(q, R, a)
    BY <2>3, <2>5, <2>6, Any!EnqueueSound
  <2> HIDE DEF M, q
  <2>8. Any!BlocksOK(q, owned)
    BY <2>5, <2>6, <2>7, Any!JoinBlocks, SMTT(60)
  <2>9. BothLists' = q
    <3>1. q \in Seq(Any!HeapsOf(q))
      BY <2>7 DEF Any!PoolOK
    <3> QED BY <1>1, <1>3, <2>2, <3>1, ConcatEmptySeq DEF BothLists
  <2>10. pool' \in Seq(Any!HeapsOf(pool')) /\ heaplist' \in Seq(Any!HeapsOf(heaplist'))
    BY <1>1, <1>3, <2>2, <2>7, NoList DEF Any!PoolOK
  <2> QED BY <2>1, <2>7, <2>8, <2>9, <2>10 DEF MemInv
<1> QED BY <1>4, <1>5

\* A zone that goes over leaves the zones of both lists together as they were.
LEMMA MoveKeeps ==
    ASSUME BootInv, MemInv, MoveZone \/ MoveEnds
    PROVE  MemInv' /\ BothLists' = BothLists
<1>1. CASE MoveZone
  <2>1. /\ stage = "move" /\ heaplist # << >> /\ heaplist' = Tail(heaplist) /\ owned' = owned
        /\ pool' = Append(pool, Head(heaplist))
    BY <1>1, MovingKeepsLists DEF MoveZone
  <2>2. IsList(pool) /\ IsList(heaplist)
    BY <2>1 DEF BootInv, ListsOnTheWay, HasZones
  <2> DEFINE h == Head(heaplist)
             S == {pool[i] : i \in DOMAIN pool} \cup {heaplist[i] : i \in DOMAIN heaplist}
  <2>3. pool \in Seq(S) /\ heaplist \in Seq(S)
    BY <2>2 DEF IsList
  <2> HIDE DEF S
  <2>4. h \in S /\ Tail(heaplist) \in Seq(S) /\ heaplist = << h >> \o Tail(heaplist)
    BY <2>1, <2>3, HeadTailProperties
  <2>5. << h >> \in Seq(S) /\ Append(pool, h) = pool \o << h >>
    BY <2>3, <2>4, AppendIsConcat
  <2>6. (pool \o << h >>) \o Tail(heaplist) = pool \o (<< h >> \o Tail(heaplist))
    BY <2>3, <2>4, <2>5, ConcatAssociative
  <2>7. BothLists' = BothLists
    BY <2>1, <2>4, <2>5, <2>6 DEF BothLists
  <2>8. pool' \in Seq(Any!HeapsOf(pool')) /\ heaplist' \in Seq(Any!HeapsOf(heaplist'))
    <3>1. ListsOnTheWay' /\ stage' = "move"
      BY <1>1, MovingKeepsLists DEF MoveZone
    <3> QED BY <3>1 DEF ListsOnTheWay, HasZones, IsList, Any!HeapsOf
  <2> QED BY <2>1, <2>7, <2>8 DEF MemInv
<1>2. CASE MoveEnds
  BY <1>2 DEF MoveEnds, memVars, MemInv, BothLists
<1> QED BY <1>1, <1>2

\* The banks one after the other.
LEMMA AddingKeepsMem ==
    ASSUME BootInv, MemInv,
           \/ AddBank("a3000", "add_a3000", "add_slow")
           \/ AddBank("slow", "add_slow", "add_chip")
           \/ AddBank("chip", "add_chip", "stack")
    PROVE  MemInv'
<1> DEFINE fast == OfBank("a3000")  slow == OfBank("slow")
<1>1. machine \in Machines
  BY DEF BootInv, ProbeInv
<1>2. PriorityOf("chip") = -10 /\ PriorityOf("slow") = 0 /\ PriorityOf("a3000") = 30
  BY DEF PriorityOf
<1>3. /\ fast \in Seq(FoundZones) /\ slow \in Seq(FoundZones)
      /\ \A i \in 1 .. Len(fast) : fast[i].priority = 30
      /\ \A i \in 1 .. Len(slow) : slow[i].priority = 0
  BY <1>1, <1>2, ZonesInOrder
<1> HIDE DEF fast, slow
<1>4. CASE AddBank("a3000", "add_a3000", "add_slow")
  <2>1. stage = "add_a3000" /\ HasZones(heaplist, << >>)
    BY <1>4 DEF AddBank, BootInv, ListsOnTheWay
  <2>2. << >> \in Seq(FoundZones) /\ 1 .. Len(<< >>) = {}
    OBVIOUS
  <2> QED BY <1>4, <2>1, <2>2, BankJoins
<1>5. CASE AddBank("slow", "add_slow", "add_chip")
  <2>1. stage = "add_slow" /\ HasZones(heaplist, fast)
    BY <1>5 DEF AddBank, BootInv, ListsOnTheWay, fast
  <2>2. \A i \in 1 .. Len(fast) : fast[i].priority > PriorityOf("slow")
    BY <1>2, <1>3
  <2> QED BY <1>3, <1>5, <2>1, <2>2, BankJoins
<1>6. CASE AddBank("chip", "add_chip", "stack")
  <2>1. stage = "add_chip" /\ HasZones(heaplist, fast \o slow)
    BY <1>6 DEF AddBank, BootInv, ListsOnTheWay, fast, slow
  <2>2. fast \o slow \in Seq(FoundZones) /\ Len(fast \o slow) = Len(fast) + Len(slow)
        /\ \A i \in 1 .. Len(fast) + Len(slow) :
              (fast \o slow)[i] = IF i <= Len(fast) THEN fast[i] ELSE slow[i - Len(fast)]
    BY <1>3, ConcatProperties
  <2>3. \A i \in 1 .. Len(fast \o slow) : (fast \o slow)[i].priority > PriorityOf("chip")
    <3> SUFFICES ASSUME NEW i \in 1 .. Len(fast \o slow)
                 PROVE  (fast \o slow)[i].priority > PriorityOf("chip")
      OBVIOUS
    <3>1. Len(fast) \in Nat /\ Len(slow) \in Nat
      BY <1>3
    <3>2. CASE i <= Len(fast)
      BY <1>2, <1>3, <2>2, <3>1, <3>2
    <3>3. CASE ~(i <= Len(fast))
      <4>1. i - Len(fast) \in 1 .. Len(slow)
        BY <2>2, <3>1, <3>3
      <4> QED BY <1>2, <1>3, <2>2, <3>3, <4>1
    <3> QED BY <3>2, <3>3
  <2> QED BY <1>6, <2>1, <2>2, <2>3, BankJoins
<1> QED BY <1>4, <1>5, <1>6

-----------------------------------------------------------------------------
(* The residents.                                                          *)

\* RomTagsProofs speaks of the same actions.
LEMMA SameRoms == RomSize \in Nat /\ \A r \in Roms : Tags!IsRom(r)
BY RomsAssumption DEF Rom!IsRom, Tags!IsRom, Rom!Filler, Tags!Filler

LEMMA SameInit == Rom!Init => Tags!Init
BY DEF Rom!Init, Tags!Init

LEMMA SameAdd ==
    ASSUME NEW a
    PROVE  Rom!Add(a) => Tags!Add(a)
BY DEF Rom!Add, Tags!Add, Rom!Named, Tags!Named, Rom!Enqueue, Tags!Enqueue,
       Rom!Supersedes, Tags!Supersedes, Rom!Resident, Tags!Resident

LEMMA SameSteps ==
    /\ Rom!SearchTag => Tags!SearchTag
    /\ Rom!SearchOn => Tags!SearchOn
    /\ Rom!SearchEnds => Tags!SearchEnds
    /\ Rom!FlattenBegins => Tags!FlattenBegins
    /\ Rom!FlattenNode => Tags!FlattenNode
    /\ Rom!FlattenEnds => Tags!FlattenEnds
    /\ Rom!Skip => Tags!Skip
    /\ Rom!Initialise => Tags!Initialise
    /\ Rom!InitialiseEnds => Tags!InitialiseEnds
<1>1. Rom!SearchTag => Tags!SearchTag
  BY SameAdd DEF Rom!SearchTag, Tags!SearchTag
<1>2. /\ Rom!SearchOn => Tags!SearchOn
      /\ Rom!SearchEnds => Tags!SearchEnds
      /\ Rom!FlattenBegins => Tags!FlattenBegins
      /\ Rom!FlattenNode => Tags!FlattenNode
      /\ Rom!FlattenEnds => Tags!FlattenEnds
  BY DEF Rom!SearchOn, Tags!SearchOn, Rom!SearchEnds, Tags!SearchEnds,
         Rom!FlattenBegins, Tags!FlattenBegins, Rom!FlattenNode, Tags!FlattenNode,
         Rom!FlattenEnds, Tags!FlattenEnds
<1>3. /\ Rom!Skip => Tags!Skip
      /\ Rom!Initialise => Tags!Initialise
      /\ Rom!InitialiseEnds => Tags!InitialiseEnds
  BY DEF Rom!Skip, Tags!Skip, Rom!Initialise, Tags!Initialise, Rom!InitialiseEnds,
         Tags!InitialiseEnds, Rom!Eligible, Tags!Eligible, Rom!Resident, Tags!Resident,
         Rom!MinVersion, Tags!MinVersion
<1> QED BY <1>1, <1>2, <1>3

\* startup2 does what RomTags says, or nothing of it.
LEMMA RomAlone == [BootNext]_bootVars => [Tags!Next]_(Tags!romVars)
<1> SUFFICES ASSUME [BootNext]_bootVars PROVE Tags!Next \/ UNCHANGED Tags!romVars
  OBVIOUS
<1>1. CASE ScanTag \/ MakeArray \/ FlattenNode \/ MakeLibrary \/ GoOnStartup2
  BY <1>1, SameSteps DEF ScanTag, MakeArray, FlattenNode, MakeLibrary, GoOnStartup2, Tags!Next
<1>2. CASE \/ UNCHANGED bootVars \/ Probe
           \/ AddBank("a3000", "add_a3000", "add_slow") \/ AddBank("slow", "add_slow", "add_chip")
           \/ AddBank("chip", "add_chip", "stack")
           \/ MakeStack \/ MakeExecBase \/ MoveZone \/ MoveEnds \/ MakeTask \/ MakeExecStack
  BY <1>2 DEF bootVars, Probe, AddBank, MakeStack, MakeExecBase, MoveZone, MoveEnds, MakeTask,
              MakeExecStack, romVars, Tags!romVars
<1> QED BY <1>1, <1>2 DEF BootNext

\* ... so its invariant holds here.
LEMMA ResidentsBegin == BootInit => Tags!RomInv
BY SameRoms, SameInit, Tags!RomInit DEF BootInit

LEMMA ResidentsGoOn == Tags!RomInv /\ [BootNext]_bootVars => Tags!RomInv'
BY SameRoms, RomAlone, Tags!RomStep

-----------------------------------------------------------------------------
(* Whose the blocks are.                                                   *)

Addresses(B) == {b.addr : b \in B}

\* The names in the BuilderList, and the block of the node of each.
NamesOf(list) == {list[i].name : i \in 1 .. Len(list)}
NodeBlock(n) == nodeAt[n] - Prefix

\* Every block in use is one that is there to stay or that of a node in the
\* BuilderList, and each node has a block of its own.
Held ==
    /\ NamesOf(builder) \subseteq DOMAIN nodeAt
    /\ \A n \in NamesOf(builder) : nodeAt[n] \in Nat /\ NodeBlock(n) \notin kept
    /\ \A m, n \in NamesOf(builder) : m # n => nodeAt[m] # nodeAt[n]
    /\ Addresses(owned) = kept \cup {NodeBlock(n) : n \in NamesOf(builder)}

\* So it is while what follows is defined, which it is when the residents are
\* initialised.
HeldInv ==
    /\ stage \notin {"wild", "stopped"} => Held
    /\ romPhase \in {"initialise", "idle", "stopped"} => stage = "startup2"
    /\ romPhase \notin {"search", "flatten"} => room = count

\* Nothing is allocated or released.
LEMMA HeldStays ==
    ASSUME Held, owned' = owned, kept' = kept, nodeAt' = nodeAt,
           NamesOf(builder') = NamesOf(builder)
    PROVE  Held'
BY DEF Held, NodeBlock

\* What startup and startup2 make for good.
LEMMA HeldForGood ==
    ASSUME Held, NEW n, NEW a, Got(n, a), Stays, call'.result # NULL,
           nodeAt' = nodeAt, builder' = builder
    PROVE  Held'
<1> DEFINE r == call'.result
           b == [addr |-> r, size |-> n, attributes |-> a]
           Ns == NamesOf(builder)
<1>1. /\ Ns \subseteq DOMAIN nodeAt
      /\ \A m \in Ns : nodeAt[m] \in Nat /\ NodeBlock(m) \notin kept
      /\ \A l, m \in Ns : l # m => nodeAt[l] # nodeAt[m]
      /\ Addresses(owned) = kept \cup {NodeBlock(m) : m \in Ns}
  BY DEF Held
<1>2. owned' = owned \cup {b} /\ (\A c \in owned : c.addr # r) /\ kept' = kept \cup {r}
  BY DEF Got, Stays
<1>3. NamesOf(builder') = Ns /\ \A m : NodeBlock(m)' = NodeBlock(m)
  BY DEF NodeBlock
<1>4. b.addr = r
  OBVIOUS
<1> HIDE DEF b, r, Ns
<1>5. Addresses(owned') = Addresses(owned) \cup {r} /\ r \notin Addresses(owned)
  BY <1>2, <1>4 DEF Addresses
<1>6. \A m \in Ns : NodeBlock(m) # r
  BY <1>1, <1>5
<1> QED BY <1>1, <1>2, <1>3, <1>5, <1>6 DEF Held

\* A node for a name that had none.
LEMMA HeldByNode ==
    ASSUME Held, NEW n, NEW a, Got(n, a), call'.result # NULL, kept' = kept,
           NEW name, name \notin NamesOf(builder),
           NamesOf(builder') = NamesOf(builder) \cup {name},
           nodeAt' = [m \in DOMAIN nodeAt \cup {name} |-> IF m = name THEN Object ELSE nodeAt[m]]
    PROVE  Held'
<1> DEFINE r == call'.result
           b == [addr |-> r, size |-> n, attributes |-> a]
           Ns == NamesOf(builder)
<1>1. /\ Ns \subseteq DOMAIN nodeAt
      /\ \A m \in Ns : nodeAt[m] \in Nat /\ NodeBlock(m) \notin kept
      /\ \A l, m \in Ns : l # m => nodeAt[l] # nodeAt[m]
      /\ Addresses(owned) = kept \cup {NodeBlock(m) : m \in Ns}
  BY DEF Held
<1>2. /\ owned' = owned \cup {b} /\ (\A c \in owned : c.addr # r) /\ r \in Nat \ {0}
  BY DEF Got
<1>3. NamesOf(builder') = Ns \cup {name} /\ name \notin Ns
  OBVIOUS
<1>4. b.addr = r
  OBVIOUS
<1>5. /\ DOMAIN nodeAt' = DOMAIN nodeAt \cup {name}
      /\ nodeAt'[name] = r + 8
      /\ \A m \in Ns : nodeAt'[m] = nodeAt[m]
  BY <1>1, <1>3 DEF Object, Prefix
<1> HIDE DEF b, r, Ns
<1>6. Addresses(owned') = Addresses(owned) \cup {r} /\ r \notin Addresses(owned)
  BY <1>2, <1>4 DEF Addresses
<1>7. nodeAt'[name] \in Nat /\ NodeBlock(name)' = r /\ \A m \in Ns : NodeBlock(m)' = NodeBlock(m)
  <2>1. nodeAt'[name] \in Nat /\ nodeAt'[name] - 8 = r
    BY <1>2, <1>5
  <2>2. \A m : NodeBlock(m)' = nodeAt'[m] - 8 /\ NodeBlock(m) = nodeAt[m] - 8
    BY DEF NodeBlock, Prefix
  <2> QED BY <1>5, <2>1, <2>2
<1>8. \A m \in Ns : NodeBlock(m) # r /\ nodeAt[m] # r + 8
  <2> TAKE m \in Ns
  <2>1. NodeBlock(m) # r /\ nodeAt[m] \in Nat
    BY <1>1, <1>6
  <2> QED BY <1>2, <2>1 DEF NodeBlock, Prefix
<1>9. r \notin kept
  BY <1>1, <1>6
<1>10. /\ \A m \in Ns \cup {name} : nodeAt'[m] \in Nat /\ NodeBlock(m)' \notin kept
       /\ \A l, m \in Ns \cup {name} : l # m => nodeAt'[l] # nodeAt'[m]
  <2>1. \A m \in Ns \cup {name} : nodeAt'[m] \in Nat /\ NodeBlock(m)' \notin kept
    BY <1>1, <1>7, <1>9, <1>5
  <2>2. \A l, m \in Ns \cup {name} : l # m => nodeAt'[l] # nodeAt'[m]
    BY <1>1, <1>3, <1>5, <1>8
  <2> QED BY <2>1, <2>2
<1>11. Addresses(owned') = kept \cup {NodeBlock(m)' : m \in Ns \cup {name}}
  <2>1. {NodeBlock(m)' : m \in Ns \cup {name}} = {NodeBlock(m) : m \in Ns} \cup {r}
    BY <1>3, <1>7
  <2> QED BY <1>1, <1>6, <2>1
<1>12. Ns \cup {name} \subseteq DOMAIN nodeAt'
  BY <1>1, <1>5
<1> QED BY <1>3, <1>10, <1>11, <1>12 DEF Held

\* The block of a node.
LEMMA BlockOfNode ==
    ASSUME Held, MemInv, NEW name \in NamesOf(builder)
    PROVE  /\ BlockOf(nodeAt[name]) \in owned
           /\ BlockOf(nodeAt[name]).addr = NodeBlock(name)
           /\ \A c \in owned : c.addr = NodeBlock(name) => c = BlockOf(nodeAt[name])
           /\ NodeBlock(name) \in Nat \ {0}
<1>1. \E c \in owned : c.addr = nodeAt[name] - Prefix
  <2>1. NodeBlock(name) \in Addresses(owned)
    BY DEF Held
  <2> QED BY <2>1 DEF Addresses, NodeBlock
<1>2. BlockOf(nodeAt[name]) \in owned /\ BlockOf(nodeAt[name]).addr = NodeBlock(name)
  BY <1>1 DEF BlockOf, NodeBlock
<1>3. ASSUME NEW b \in owned, NEW c \in owned, b.addr = c.addr
      PROVE  b = c
  <2>1. /\ b.addr \in Nat \ {0} /\ b.size \in Nat \ {0}
        /\ c.addr \in Nat \ {0} /\ c.size \in Nat \ {0}
        /\ b # c => Any!Extent(b) \cap Any!Extent(c) = {}
    BY DEF MemInv, Any!BlocksOK
  <2>2. b.addr \in Any!Extent(b) /\ c.addr \in Any!Extent(c)
    BY <2>1, Any!ExtentNotEmpty
  <2> QED BY <1>3, <2>1, <2>2
<1>4. NodeBlock(name) \in Nat \ {0}
  BY <1>2 DEF MemInv, Any!BlocksOK
<1> QED BY <1>2, <1>3, <1>4

\* A node that is deleted.
LEMMA HeldWithoutNode ==
    ASSUME Held, MemInv, NEW name \in NamesOf(builder), kept' = kept, nodeAt' = nodeAt,
           owned' = owned \ {BlockOf(nodeAt[name])},
           NamesOf(builder') = NamesOf(builder) \ {name}
    PROVE  Held'
<1> DEFINE b == BlockOf(nodeAt[name])
           Ns == NamesOf(builder)
<1>1. /\ Ns \subseteq DOMAIN nodeAt
      /\ \A m \in Ns : nodeAt[m] \in Nat /\ NodeBlock(m) \notin kept
      /\ \A l, m \in Ns : l # m => nodeAt[l] # nodeAt[m]
      /\ Addresses(owned) = kept \cup {NodeBlock(m) : m \in Ns}
  BY DEF Held
<1>2. /\ b \in owned /\ b.addr = NodeBlock(name)
      /\ \A c \in owned : c.addr = NodeBlock(name) => c = b
  BY BlockOfNode
<1>3. \A m : NodeBlock(m)' = NodeBlock(m)
  BY DEF NodeBlock
<1>4. owned' = owned \ {b} /\ name \in Ns /\ NamesOf(builder') = Ns \ {name}
  OBVIOUS
<1> HIDE DEF b, Ns
<1>5. Addresses(owned') = Addresses(owned) \ {NodeBlock(name)}
  BY <1>2, <1>4 DEF Addresses
<1>6. \A m \in Ns : m # name => NodeBlock(m) # NodeBlock(name)
  <2> TAKE m \in Ns
  <2>1. nodeAt[m] \in Nat /\ nodeAt[name] \in Nat /\ (m # name => nodeAt[m] # nodeAt[name])
    BY <1>1, <1>4
  <2> QED BY <2>1 DEF NodeBlock, Prefix
<1>7. NodeBlock(name) \notin kept
  BY <1>1, <1>4
<1>8. Addresses(owned') = kept \cup {NodeBlock(m) : m \in Ns \ {name}}
  BY <1>1, <1>4, <1>5, <1>6, <1>7
<1> QED BY <1>1, <1>3, <1>4, <1>8 DEF Held

\* What a tag does to the names in the BuilderList.
LEMMA NamesScanned ==
    ASSUME Tags!RomInv, Rom!SearchTag
    PROVE  LET name == rom[p].name
           IN  /\ Rom!Named(name) # {} => NamesOf(builder') = NamesOf(builder)
               /\ Rom!Named(name) = {} =>
                    /\ name \notin NamesOf(builder)
                    /\ NamesOf(builder') = NamesOf(builder) \cup {name}
                    /\ Len(builder') = Len(builder) + 1
               /\ Len(builder') \in Nat /\ Len(builder) \in Nat
               /\ Rom!Named(name) # {} => Len(builder') = Len(builder)
<1> DEFINE name == rom[p].name
           node == [name |-> name, priority |-> rom[p].priority, resident |-> p]
<1>0. Tags!SearchTag
  BY SameSteps
<1>1. Tags!Add(p) /\ p \in Tags!Reached /\ Tags!Typed
  BY <1>0, SameRoms, Tags!HereReached DEF Tags!SearchTag, Tags!RomInv
<1>2. /\ builder \in Seq(Tags!Nodes) /\ Len(builder) \in Nat /\ DOMAIN builder = 1 .. Len(builder)
  BY <1>1 DEF Tags!Typed
<1>3. Rom!Named(name) = Tags!Named(name)
      /\ Tags!Named(name) = {i \in 1 .. Len(builder) : builder[i].name = name}
  BY <1>2 DEF Rom!Named, Tags!Named
<1>4. /\ node \in Tags!Nodes
      /\ \/ Tags!Named(name) = {} /\ Tags!Enqueue(node)
         \/ \E i \in Tags!Named(name) : builder' = [builder EXCEPT ![i].resident = p]
         \/ \E i \in Tags!Named(name) : builder' = builder
  BY <1>1, SameRoms, Tags!AddCases
<1>5. node.name = name
  OBVIOUS
<1> HIDE DEF name, node
<1>6. CASE Tags!Named(name) = {}
  <2>1. Tags!Enqueue(node)
    BY <1>4, <1>6
  <2>2. PICK i \in 1 .. (Len(builder) + 1) : Tags!Inserted(builder, i, node, builder')
    BY <1>2, <1>4, <2>1, SameRoms, Tags!EnqueueInserts
  <2>3. /\ Len(builder') = Len(builder) + 1 /\ i \in 1 .. Len(builder')
        /\ builder'[i] = node
        /\ \A j \in 1 .. (i - 1) : builder'[j] = builder[j]
        /\ \A j \in (i + 1) .. Len(builder') : builder'[j] = builder[j - 1]
    BY <2>2 DEF Tags!Inserted
  <2>4. NamesOf(builder') \subseteq NamesOf(builder) \cup {name}
    <3> SUFFICES ASSUME NEW j \in 1 .. Len(builder')
                 PROVE  builder'[j].name \in NamesOf(builder) \cup {name}
      BY DEF NamesOf
    <3>1. CASE j = i
      BY <1>5, <2>3, <3>1
    <3>2. CASE j < i
      <4>1. j \in 1 .. (i - 1) /\ j \in 1 .. Len(builder)
        BY <1>2, <2>3, <3>2
      <4> QED BY <2>3, <4>1 DEF NamesOf
    <3>3. CASE j > i
      <4>1. j \in (i + 1) .. Len(builder') /\ j - 1 \in 1 .. Len(builder)
        BY <1>2, <2>3, <3>3
      <4> QED BY <2>3, <4>1 DEF NamesOf
    <3>4. j < i \/ j = i \/ j > i
      BY <1>2, <2>3
    <3> QED BY <3>1, <3>2, <3>3, <3>4
  <2>5. NamesOf(builder) \cup {name} \subseteq NamesOf(builder')
    <3>1. name \in NamesOf(builder')
      BY <1>5, <2>3 DEF NamesOf
    <3>2. ASSUME NEW j \in 1 .. Len(builder) PROVE builder[j].name \in NamesOf(builder')
      <4>1. CASE j < i
        <5>1. j \in 1 .. (i - 1) /\ j \in 1 .. Len(builder')
          BY <1>2, <2>3, <4>1
        <5> QED BY <2>3, <5>1 DEF NamesOf
      <4>2. CASE ~(j < i)
        <5>1. j + 1 \in (i + 1) .. Len(builder') /\ j + 1 \in 1 .. Len(builder') /\ (j + 1) - 1 = j
          BY <1>2, <2>3, <4>2
        <5> QED BY <2>3, <5>1 DEF NamesOf
      <4> QED BY <4>1, <4>2
    <3> QED BY <3>1, <3>2 DEF NamesOf
  <2>6. name \notin NamesOf(builder)
    BY <1>3, <1>6 DEF NamesOf
  <2>7. NamesOf(builder') = NamesOf(builder) \cup {name}
    BY <2>4, <2>5
  <2>8. Len(builder') \in Nat /\ Rom!Named(name) = {}
    BY <1>2, <1>3, <1>6, <2>3
  <2> QED BY <1>2, <2>3, <2>6, <2>7, <2>8 DEF name
<1>7. CASE Tags!Named(name) # {}
  <2>1. CASE builder' = builder
    BY <1>2, <1>3, <1>7, <2>1 DEF name
  <2>2. ASSUME NEW i \in Tags!Named(name), builder' = [builder EXCEPT ![i].resident = p]
        PROVE  /\ Len(builder') = Len(builder)
               /\ \A j \in 1 .. Len(builder) : builder'[j].name = builder[j].name
    <3>1. i \in 1 .. Len(builder)
      BY <1>3
    <3> QED BY <1>1, <1>2, <2>2, <3>1, SameRoms, Tags!ResidentReplaced
  <2>3. /\ Len(builder') = Len(builder)
        /\ \A j \in 1 .. Len(builder) : builder'[j].name = builder[j].name
    BY <1>4, <1>7, <2>1, <2>2
  <2>4. NamesOf(builder') = NamesOf(builder)
    BY <2>3 DEF NamesOf
  <2> QED BY <1>2, <1>3, <1>7, <2>3, <2>4 DEF name
<1> QED BY <1>6, <1>7

\* What flatten takes off the BuilderList is the name of one node.
LEMMA NamesFlattened ==
    ASSUME Tags!RomInv, Rom!FlattenNode
    PROVE  /\ Head(builder).name \in NamesOf(builder)
           /\ NamesOf(builder') = NamesOf(builder) \ {Head(builder).name}
<1>1. builder # << >> /\ builder' = Tail(builder)
  BY DEF Rom!FlattenNode
<1>2. /\ builder \in Seq(Tags!Nodes) /\ Len(builder) \in Nat
      /\ \A i, j \in 1 .. Len(builder) : i # j => builder[i].name # builder[j].name
  BY DEF Tags!RomInv, Tags!Typed, Tags!NodesInv
<1>3. /\ Len(builder) # 0 /\ Head(builder) = builder[1]
      /\ Len(Tail(builder)) = Len(builder) - 1
      /\ \A j \in 1 .. Len(Tail(builder)) : Tail(builder)[j] = builder[j + 1]
  BY <1>1, <1>2, EmptySeq, HeadTailProperties
<1>4. ASSUME NEW x PROVE x \in NamesOf(Tail(builder)) <=> x \in NamesOf(builder) /\ x # builder[1].name
  <2>1. ASSUME NEW j \in 1 .. Len(Tail(builder))
        PROVE  /\ Tail(builder)[j].name \in NamesOf(builder)
               /\ Tail(builder)[j].name # builder[1].name
    <3>1. j + 1 \in 1 .. Len(builder) /\ 1 \in 1 .. Len(builder) /\ j + 1 # 1
      BY <1>2, <1>3
    <3>2. builder[j + 1].name # builder[1].name
      BY <1>2, <3>1
    <3> QED BY <1>3, <3>1, <3>2 DEF NamesOf
  <2>2. ASSUME NEW j \in 1 .. Len(builder), builder[j].name # builder[1].name
        PROVE  builder[j].name \in NamesOf(Tail(builder))
    <3>1. j # 1 /\ j - 1 \in 1 .. Len(Tail(builder)) /\ (j - 1) + 1 = j
      BY <1>2, <1>3, <2>2
    <3> QED BY <1>3, <3>1 DEF NamesOf
  <2> QED BY <2>1, <2>2 DEF NamesOf
<1>5. builder[1].name \in NamesOf(builder)
  BY <1>2, <1>3 DEF NamesOf
<1> QED BY <1>1, <1>3, <1>4, <1>5

-----------------------------------------------------------------------------
(* The blocks and whose they are, from step to step.                       *)

UsedInv == BootInv /\ Tags!RomInv /\ MemInv /\ HeldInv

\* The sizes startup asks for.
LEMMA SizesAsked ==
    /\ SupervisorStack \in Nat /\ ExecBaseBytes \in Nat /\ TaskBytes \in Nat
    /\ ExecStack + Prefix \in Nat /\ NodeBytes + Prefix \in Nat /\ LibraryBytes + Prefix \in Nat
    /\ \A n \in Nat : 4 * n + Prefix \in Nat
BY BootAssumption DEF SupervisorStack, ExecStack, NodeBytes, Prefix

\* A result of NULL and what follows is not defined, or the block stays.
LEMMA MadeForGood ==
    ASSUME UsedInv, stage \notin {"wild", "stopped"}, NEW n, NEW a, Got(n, a), Stays,
           nodeAt' = nodeAt, builder' = builder,
           call'.result = NULL => stage' \in {"wild", "stopped"}
    PROVE  stage' \notin {"wild", "stopped"} => Held'
BY HeldForGood DEF UsedInv, HeldInv

\* Up to startup2.
LEMMA UsedByStartup ==
    ASSUME UsedInv,
           \/ Probe
           \/ AddBank("a3000", "add_a3000", "add_slow")
           \/ AddBank("slow", "add_slow", "add_chip")
           \/ AddBank("chip", "add_chip", "stack")
           \/ MakeStack \/ MakeExecBase \/ MoveZone \/ MoveEnds \/ MakeTask \/ MakeExecStack
    PROVE  MemInv' /\ HeldInv'
<1>1. /\ stage \in {"probe", "add_a3000", "add_slow", "add_chip", "stack", "execbase", "move",
                    "task", "exec_stack"}
      /\ romVars' = romVars
  BY DEF Probe, AddBank, MakeStack, MakeExecBase, MoveZone, MoveEnds, MakeTask, MakeExecStack
<1>2. builder' = builder /\ romPhase' = romPhase /\ room' = room /\ count' = count
  BY <1>1 DEF romVars
<1>3. stage \notin {"wild", "stopped", "startup2"}
  BY <1>1
<1>4. BootInv /\ MemInv /\ HeldInv /\ Held
  BY <1>3 DEF UsedInv, HeldInv
<1>5. /\ romPhase' \in {"initialise", "idle", "stopped"} => stage' = "startup2"
      /\ romPhase' \notin {"search", "flatten"} => room' = count'
  BY <1>2, <1>3, <1>4 DEF HeldInv
<1>6. ASSUME owned' = owned, kept' = kept, nodeAt' = nodeAt
      PROVE  Held'
  BY <1>2, <1>4, <1>6, HeldStays
<1>7. CASE Probe
  BY <1>4, <1>5, <1>6, <1>7 DEF Probe, memVars, madeVars, MemInv, BothLists, HeldInv
<1>8. CASE \/ AddBank("a3000", "add_a3000", "add_slow")
           \/ AddBank("slow", "add_slow", "add_chip")
           \/ AddBank("chip", "add_chip", "stack")
  <2>1. owned' = owned /\ kept' = kept /\ nodeAt' = nodeAt
    BY <1>8 DEF AddBank, Stack!AddMemList, madeVars
  <2> QED BY <1>4, <1>5, <1>6, <1>8, <2>1, AddingKeepsMem DEF HeldInv
<1>9. CASE MakeStack
  <2>1. MemInv' /\ Got(SupervisorStack, {"public"})
    BY <1>4, <1>9, SizesAsked, AllocKeeps DEF MakeStack
  <2>2. stage' \notin {"wild", "stopped"} => Held'
    BY <1>2, <1>3, <1>9, <2>1, MadeForGood DEF MakeStack
  <2> QED BY <1>5, <2>1, <2>2 DEF HeldInv
<1>10. CASE MakeExecBase
  <2>1. MemInv' /\ Got(ExecBaseBytes, {"public"})
    BY <1>4, <1>10, SizesAsked, AllocKeeps DEF MakeExecBase
  <2>2. stage' \notin {"wild", "stopped"} => Held'
    BY <1>2, <1>3, <1>10, <2>1, MadeForGood DEF MakeExecBase, OrWild
  <2> QED BY <1>5, <2>1, <2>2 DEF HeldInv
<1>11. CASE MoveZone \/ MoveEnds
  <2>1. owned' = owned /\ kept' = kept /\ nodeAt' = nodeAt
    BY <1>11 DEF MoveZone, MoveEnds, memVars, madeVars
  <2> QED BY <1>4, <1>5, <1>6, <1>11, <2>1, MoveKeeps DEF HeldInv
<1>12. CASE MakeTask
  <2>1. MemInv' /\ Got(TaskBytes, {"public"})
    BY <1>4, <1>12, SizesAsked, AllocKeeps DEF MakeTask
  <2>2. stage' \notin {"wild", "stopped"} => Held'
    BY <1>2, <1>3, <1>12, <2>1, MadeForGood DEF MakeTask, OrWild
  <2> QED BY <1>5, <2>1, <2>2 DEF HeldInv
<1>13. CASE MakeExecStack
  <2>1. MemInv' /\ Got(ExecStack + Prefix, {"public"})
    BY <1>4, <1>13, SizesAsked, AllocKeeps DEF MakeExecStack, New
  <2>2. stage' \notin {"wild", "stopped"} => Held'
    BY <1>2, <1>3, <1>13, <2>1, MadeForGood DEF MakeExecStack, OrWild
  <2> QED BY <1>5, <2>1, <2>2 DEF HeldInv
<1> QED BY <1>7, <1>8, <1>9, <1>10, <1>11, <1>12, <1>13

\* startup2.
LEMMA UsedByStartup2 ==
    ASSUME UsedInv, ScanTag \/ MakeArray \/ FlattenNode \/ MakeLibrary \/ GoOnStartup2
    PROVE  MemInv' /\ HeldInv'
<1>1. stage = "startup2"
  BY DEF ScanTag, MakeArray, FlattenNode, MakeLibrary, GoOnStartup2
<1>2. BootInv /\ MemInv /\ HeldInv /\ Held /\ Tags!RomInv /\ stage \notin {"wild", "stopped"}
  BY <1>1 DEF UsedInv, HeldInv
<1>3. CASE ScanTag
  <2> DEFINE name == rom[p].name
  <2>1. Rom!SearchTag /\ kept' = kept /\ heaplist' = heaplist
    BY <1>3 DEF ScanTag
  <2>2. romPhase' = "search"
    BY <2>1 DEF Rom!SearchTag
  <2>3. CASE Rom!Named(name) # {}
    <3>1. /\ pool' = pool /\ owned' = owned /\ nodeAt' = nodeAt /\ stage' = stage
          /\ NamesOf(builder') = NamesOf(builder)
      BY <1>2, <1>3, <2>1, <2>3, NamesScanned DEF ScanTag
    <3>2. Held'
      BY <1>2, <2>1, <3>1, HeldStays
    <3> QED BY <1>1, <1>2, <2>1, <2>2, <3>1, <3>2 DEF HeldInv, MemInv, BothLists
  <2>4. CASE Rom!Named(name) = {}
    <3>1. /\ New(NodeBytes) /\ OrWild(stage)
          /\ nodeAt' = [n \in DOMAIN nodeAt \cup {name} |-> IF n = name THEN Object ELSE nodeAt[n]]
      BY <1>3, <2>4 DEF ScanTag
    <3>2. MemInv' /\ Got(NodeBytes + Prefix, {"public"})
      BY <1>1, <1>2, <2>1, <3>1, SizesAsked, AllocKeeps DEF New
    <3>3. name \notin NamesOf(builder) /\ NamesOf(builder') = NamesOf(builder) \cup {name}
      BY <1>2, <2>1, <2>4, NamesScanned
    <3> HIDE DEF name
    <3>4. call'.result # NULL => Held'
      BY <1>2, <2>1, <3>1, <3>2, <3>3, HeldByNode
    <3>5. call'.result = NULL => stage' = "wild"
      BY <3>1 DEF OrWild
    <3> QED BY <2>2, <3>2, <3>4, <3>5 DEF HeldInv
  <2> QED BY <2>3, <2>4
<1>4. CASE MakeArray
  <2>1. /\ Rom!FlattenBegins /\ New(4 * count) /\ Stays /\ OrWild(stage)
        /\ heaplist' = heaplist /\ nodeAt' = nodeAt
    BY <1>4 DEF MakeArray
  <2>2. builder' = builder /\ romPhase' = "copy" /\ room' = count /\ count' = count
    BY <2>1 DEF Rom!FlattenBegins
  <2>3. count \in Nat
    BY <1>2 DEF Tags!RomInv, Tags!Typed
  <2>4. MemInv' /\ Got(4 * count + Prefix, {"public"})
    BY <1>1, <1>2, <2>1, <2>3, SizesAsked, AllocKeeps DEF New
  <2>5. stage' \notin {"wild", "stopped"} => Held'
    BY <1>2, <2>1, <2>2, <2>4, MadeForGood DEF OrWild
  <2> QED BY <2>2, <2>4, <2>5 DEF HeldInv
<1>5. CASE FlattenNode
  <2> DEFINE name == Head(builder).name
             b == BlockOf(nodeAt[name])
  <2>1. /\ Rom!FlattenNode /\ Pool!FreeMem(b) /\ heaplist' = heaplist
        /\ kept' = kept /\ nodeAt' = nodeAt
    BY <1>5 DEF FlattenNode, Delete, madeVars
  <2>2. name \in NamesOf(builder) /\ NamesOf(builder') = NamesOf(builder) \ {name}
    BY <1>2, <2>1, NamesFlattened
  <2> HIDE DEF name
  <2>3. b \in owned
    BY <1>2, <2>2, BlockOfNode
  <2>4. MemInv' /\ owned' = owned \ {b}
    BY <1>1, <1>2, <2>1, <2>3, FreeKeeps
  <2>5. Held'
    BY <1>2, <2>1, <2>2, <2>4, HeldWithoutNode
  <2>6. romPhase' = "copy" /\ room' = room /\ count' = count /\ romPhase = "copy"
    BY <2>1 DEF Rom!FlattenNode
  <2> QED BY <1>2, <2>4, <2>5, <2>6 DEF HeldInv
<1>6. CASE MakeLibrary
  <2>1. /\ Rom!Initialise /\ New(LibraryBytes) /\ heaplist' = heaplist /\ nodeAt' = nodeAt
        /\ stage' = stage /\ IF call'.result = NULL THEN kept' = kept ELSE Stays
    BY <1>6 DEF MakeLibrary
  <2>2. builder' = builder /\ room' = room /\ count' = count /\ romPhase = "initialise"
    BY <2>1 DEF Rom!Initialise
  <2>3. MemInv' /\ Got(LibraryBytes + Prefix, {"public"})
    BY <1>1, <1>2, <2>1, SizesAsked, AllocKeeps DEF New
  <2>4. Held'
    <3>1. CASE call'.result = NULL
      <4>1. owned' = owned
        BY <2>3, <3>1 DEF Got, NULL
      <4> QED BY <1>2, <2>1, <2>2, <3>1, <4>1, HeldStays
    <3>2. CASE call'.result # NULL
      BY <1>2, <2>1, <2>2, <2>3, <3>2, HeldForGood
    <3> QED BY <3>1, <3>2
  <2> QED BY <1>1, <1>2, <2>1, <2>2, <2>3, <2>4 DEF HeldInv
<1>7. CASE GoOnStartup2
  <2>1. /\ memVars' = memVars /\ madeVars' = madeVars /\ stage' = stage /\ builder' = builder
        /\ count' = count /\ room' = room
        /\ romPhase' \notin {"search", "flatten"} => romPhase \notin {"search", "flatten"}
    BY <1>7 DEF GoOnStartup2, Rom!SearchOn, Rom!SearchEnds, Rom!FlattenEnds, Rom!Skip,
                Rom!InitialiseEnds, Rom!Initialise
  <2>2. /\ heaplist' = heaplist /\ pool' = pool /\ owned' = owned /\ kept' = kept
        /\ nodeAt' = nodeAt
    BY <2>1 DEF memVars, madeVars
  <2>3. Held'
    BY <1>2, <2>1, <2>2, HeldStays
  <2> QED BY <1>1, <1>2, <2>1, <2>2, <2>3 DEF HeldInv, MemInv, BothLists
<1> QED BY <1>3, <1>4, <1>5, <1>6, <1>7

LEMMA UsedBegins == BootInit => UsedInv
<1> SUFFICES ASSUME BootInit PROVE UsedInv
  OBVIOUS
<1>1. /\ heaplist = << >> /\ pool = << >> /\ owned = {} /\ kept = {} /\ builder = << >>
      /\ romPhase = "search"
  BY DEF BootInit, Rom!Init
<1>2. BothLists = << >>
  BY <1>1 DEF BothLists
<1>3. Any!PoolOK(BothLists) /\ DOMAIN BothLists = {}
  BY <1>2, Any!NoZones
<1>4. Any!PoolManaged(BothLists) = {}
  BY <1>3 DEF Any!PoolManaged
<1>5. Any!BlocksOK(BothLists, owned)
  BY <1>1, <1>4 DEF Any!BlocksOK
<1>6. MemInv
  BY <1>1, <1>3, <1>5, NoList DEF MemInv
<1>7. NamesOf(builder) = {} /\ Addresses(owned) = {}
  BY <1>1 DEF NamesOf, Addresses
<1>8. HeldInv
  BY <1>1, <1>7 DEF HeldInv, Held
<1> QED BY <1>6, <1>8, BootBegins, ResidentsBegin DEF UsedInv

LEMMA UsedStep == UsedInv /\ [BootNext]_bootVars => UsedInv'
<1> SUFFICES ASSUME UsedInv, [BootNext]_bootVars PROVE UsedInv'
  OBVIOUS
<1>1. BootInv' /\ Tags!RomInv'
  BY BootStep, ResidentsGoOn DEF UsedInv
<1>2. CASE BootNext
  BY <1>1, <1>2, UsedByStartup, UsedByStartup2 DEF BootNext, UsedInv
<1>3. CASE UNCHANGED bootVars
  <2>1. /\ pool' = pool /\ heaplist' = heaplist /\ owned' = owned /\ kept' = kept
        /\ nodeAt' = nodeAt /\ builder' = builder /\ stage' = stage /\ romPhase' = romPhase
        /\ room' = room /\ count' = count
    BY <1>3 DEF bootVars, memVars, madeVars, romVars
  <2>2. Held => Held'
    BY <2>1, HeldStays
  <2> QED BY <1>1, <2>1, <2>2 DEF UsedInv, MemInv, BothLists, HeldInv
<1> QED BY <1>2, <1>3

THEOREM UsedInvariant == BootSpec => []UsedInv
BY UsedBegins, UsedStep, PTL DEF BootSpec

\* When the residents have been initialised, nothing that boot allocated on
\* the way is left.
THEOREM NodesGivenBack == BootSpec => []NothingLeft
<1>1. UsedInv => NothingLeft
  <2> SUFFICES ASSUME UsedInv, romPhase \in {"idle", "stopped"}
               PROVE  Len(array) + 1 = count /\ {b.addr : b \in owned} = kept
    BY DEF NothingLeft
  <2>1. room = count /\ Held
    BY DEF UsedInv, HeldInv
  <2>2. room = Len(array) + 1 /\ builder = << >>
    BY DEF UsedInv, Tags!RomInv, Tags!CountInv
  <2>3. NamesOf(builder) = {}
    BY <2>2 DEF NamesOf
  <2> QED BY <2>1, <2>2, <2>3 DEF Held, Addresses
<1> QED BY <1>1, UsedInvariant, PTL

-----------------------------------------------------------------------------
(* What a zone consists of.                                                *)

Span(e) == e.from .. (e.to - 1)

\* Parts that are runs of numbers, share none and leave none of lo .. hi - 1
\* out ...
FillUp(P, lo, hi) ==
    /\ \A e \in P : /\ e.from \in Int /\ e.to \in Int /\ e.from < e.to
                    /\ lo <= e.from /\ e.to <= hi
    /\ \A d, e \in P : d # e => Span(d) \cap Span(e) = {}
    /\ \A m \in lo .. (hi - 1) : \E e \in P : m \in Span(e)

\* ... lie side by side from lo to hi.
LEMMA SideBySide ==
    ASSUME NEW P, NEW lo \in Int, NEW hi \in Int, lo < hi, FillUp(P, lo, hi)
    PROVE  /\ \A d, e \in P : d # e => d.to <= e.from \/ e.to <= d.from
           /\ \E e \in P : e.from = lo
           /\ \A e \in P : e.to = hi \/ \E d \in P : d.from = e.to
<1> USE DEF FillUp
<1>1. ASSUME NEW d \in P, NEW e \in P, d # e
      PROVE  d.to <= e.from \/ e.to <= d.from
  <2> SUFFICES ASSUME e.from < d.to, d.from < e.to PROVE FALSE
    OBVIOUS
  <2>1. Span(d) \cap Span(e) = {}
    BY <1>1
  <2>2. d.from \notin Span(e) /\ e.from \notin Span(d)
    BY <2>1 DEF Span
  <2> QED BY <2>2 DEF Span
<1>2. \E e \in P : e.from = lo
  <2>1. PICK e \in P : lo \in Span(e)
    OBVIOUS
  <2> QED BY <2>1 DEF Span
<1>3. ASSUME NEW e \in P, e.to # hi
      PROVE  \E d \in P : d.from = e.to
  <2>1. e.to \in lo .. (hi - 1)
    BY <1>3
  <2>2. PICK d \in P : e.to \in Span(d)
    BY <2>1
  <2>3. d.from <= e.to /\ e.to < d.to
    BY <2>2 DEF Span
  <2>4. d # e
    BY <2>3
  <2>5. d.to <= e.from \/ e.to <= d.from
    BY <1>1, <2>4
  <2> QED BY <2>3, <2>5
<1> QED BY <1>1, <1>2, <1>3

\* The zones of both lists, one by one.
LEMMA ZoneLinks ==
    ASSUME MemInv
    PROVE  /\ \A j \in DOMAIN BothLists :
                /\ Any!HeapOK(BothLists[j])
                /\ Any!FreeBytes(BothLists[j].chunks) \subseteq Any!Managed(BothLists[j].zone)
                /\ Any!Managed(BothLists[j].zone) \subseteq Nat \ {0}
           /\ \A l, j \in DOMAIN BothLists :
                l # j => Any!Managed(BothLists[l].zone) \cap Any!Managed(BothLists[j].zone) = {}
<1>1. ASSUME NEW j \in DOMAIN BothLists
      PROVE  /\ Any!HeapOK(BothLists[j])
             /\ Any!FreeBytes(BothLists[j].chunks) \subseteq Any!Managed(BothLists[j].zone)
             /\ Any!Managed(BothLists[j].zone) \subseteq Nat \ {0}
  <2>1. Any!PoolOK(BothLists)
    BY DEF MemInv
  <2> HIDE DEF BothLists
  <2> QED BY <1>1, <2>1, Any!PoolLinks
<1>2. ASSUME NEW l \in DOMAIN BothLists, NEW j \in DOMAIN BothLists, l # j
      PROVE  Any!Managed(BothLists[l].zone) \cap Any!Managed(BothLists[j].zone) = {}
  <2>1. Any!PoolOK(BothLists)
    BY DEF MemInv
  <2> QED BY <1>2, <2>1 DEF Any!PoolOK
<1> QED BY <1>1, <1>2

\* A zone of the two lists: its parts are runs that share no address and make
\* up what it manages.
LEMMA ZoneParts ==
    ASSUME MemInv, NEW i \in DOMAIN BothLists
    PROVE  LET h == BothLists[i]
           IN  /\ \A e \in Parts(h) : /\ e.from \in Nat /\ e.to \in Nat /\ e.from < e.to
                                      /\ Span(e) \subseteq Any!Managed(h.zone)
               /\ \A d, e \in Parts(h) : d # e => Span(d) \cap Span(e) = {}
               /\ \A m \in Any!Managed(h.zone) : \E e \in Parts(h) : m \in Span(e)
<1> DEFINE h == BothLists[i]
           M == Any!Managed(h.zone)
           cs == h.chunks
           Free == {[free |-> TRUE, from |-> c.start, to |-> c.start + c.size] :
                       c \in {cs[q] : q \in DOMAIN cs}}
           Mine == {b \in owned : Pool!Contains(h, b.addr)}
           Taken == {[free |-> FALSE, from |-> b.addr, to |-> b.addr + Pool!RoundUp(b.size)] :
                       b \in Mine}
<1>1. Any!PoolOK(BothLists) /\ Any!BlocksOK(BothLists, owned)
  BY DEF MemInv
<1>2. /\ Any!HeapOK(h) /\ Any!FreeBytes(cs) \subseteq M /\ M \subseteq Nat \ {0}
      /\ \A j \in DOMAIN BothLists : j # i => Any!Managed(BothLists[j].zone) \cap M = {}
      /\ Any!ChunkList(cs)
  <2>1. /\ Any!HeapOK(h) /\ Any!FreeBytes(cs) \subseteq M /\ M \subseteq Nat \ {0}
        /\ \A j \in DOMAIN BothLists : j # i => Any!Managed(BothLists[j].zone) \cap M = {}
    BY ZoneLinks
  <2> HIDE DEF M
  <2> QED BY <2>1 DEF Any!HeapOK
<1>3. /\ DOMAIN cs = 1 .. Len(cs) /\ Len(cs) \in Nat
      /\ \A q \in 1 .. Len(cs) : cs[q].start \in Nat /\ cs[q].size \in Nat \ {0}
      /\ \A l, q \in 1 .. Len(cs) : l < q => cs[l].start + cs[l].size < cs[q].start
  <2>1. Any!ChunkList(cs)
    BY <1>2
  <2> HIDE DEF cs
  <2> QED BY <2>1, Any!ListLinks
<1>4. Parts(h) = Free \cup Taken
  BY DEF Parts
<1>5. ASSUME NEW q \in 1 .. Len(cs)
      PROVE  cs[q].start .. (cs[q].start + cs[q].size - 1) \subseteq Any!FreeBytes(cs)
  BY <1>3 DEF Any!FreeBytes, Any!Run
<1>6. ASSUME NEW b \in owned
      PROVE  /\ b.addr \in Nat \ {0} /\ Pool!RoundUp(b.size) \in Nat \ {0}
             /\ Any!Extent(b) = b.addr .. (b.addr + Pool!RoundUp(b.size) - 1)
             /\ Any!Extent(b) \cap Any!FreeBytes(cs) = {}
             /\ Any!Extent(b) \cap M # {} => b \in Mine /\ Any!Extent(b) \subseteq M
             /\ b \in Mine => Any!Extent(b) \subseteq M
  <2>1. /\ b.addr \in Nat \ {0} /\ b.size \in Nat \ {0}
        /\ Any!Within(BothLists, Any!Extent(b), b.attributes)
        /\ Any!Extent(b) \cap Any!PoolFree(BothLists) = {}
    BY <1>1 DEF Any!BlocksOK
  <2>2. Pool!RoundUp(b.size) = Any!RoundUp(b.size)
    BY SameRounding
  <2>3. Any!RoundUp(b.size) \in Nat /\ Any!RoundUp(b.size) >= b.size
    BY <2>1, Any!RoundUpBounds
  <2>4. Any!Extent(b) = b.addr .. (b.addr + Pool!RoundUp(b.size) - 1)
    BY <2>2 DEF Any!Extent, Any!Run
  <2>5. b.addr \in Any!Extent(b)
    BY <2>1, Any!ExtentNotEmpty
  <2>6. PICK j \in DOMAIN BothLists : Any!Extent(b) \subseteq Any!Managed(BothLists[j].zone)
    BY <2>1 DEF Any!Within
  <2>7. Any!FreeBytes(cs) \subseteq Any!PoolFree(BothLists)
    BY DEF Any!PoolFree
  <2>8. b \in Mine <=> b.addr \in M
    <3>1. Pool!Contains(h, b.addr) <=> Any!Lower(h.zone) <= b.addr /\ b.addr < Any!Upper(h.zone)
      BY SameRounding DEF Any!Contains
    <3>2. Any!IsZone(h.zone)
      BY <1>2 DEF Any!HeapOK, Any!IsHeap
    <3>3. Any!Lower(h.zone) \in Nat /\ Any!Upper(h.zone) \in Nat
      BY <3>2, Any!ZoneAddresses
    <3> HIDE DEF h
    <3> QED BY <2>1, <3>1, <3>3 DEF Any!Managed
  <2> HIDE DEF M, Mine
  <2>9. Any!Extent(b) \cap M # {} => j = i
    BY <1>2, <2>6
  <2>10. Any!Extent(b) \cap M # {} => b \in Mine /\ Any!Extent(b) \subseteq M
    BY <2>5, <2>6, <2>8, <2>9 DEF M
  <2>11. b \in Mine => Any!Extent(b) \subseteq M
    BY <2>5, <2>8, <2>10
  <2> QED BY <2>1, <2>2, <2>3, <2>4, <2>7, <2>10, <2>11
<1>7. /\ \A e \in Free : \E q \in 1 .. Len(cs) :
            /\ e = [free |-> TRUE, from |-> cs[q].start, to |-> cs[q].start + cs[q].size]
            /\ e.from = cs[q].start /\ e.to = cs[q].start + cs[q].size
      /\ \A q \in 1 .. Len(cs) : \E e \in Free :
            e.from = cs[q].start /\ e.to = cs[q].start + cs[q].size
  <2> DEFINE part(q) == [free |-> TRUE, from |-> cs[q].start, to |-> cs[q].start + cs[q].size]
  <2>1. \A q : part(q).from = cs[q].start /\ part(q).to = cs[q].start + cs[q].size
    OBVIOUS
  <2>2. \A e : e \in Free <=> \E q \in 1 .. Len(cs) : e = part(q)
    BY <1>3
  <2> HIDE DEF Free, part
  <2>3. \A e \in Free : \E q \in 1 .. Len(cs) :
            e = part(q) /\ e.from = cs[q].start /\ e.to = cs[q].start + cs[q].size
    BY <2>1, <2>2
  <2>4. \A q \in 1 .. Len(cs) : \E e \in Free :
            e.from = cs[q].start /\ e.to = cs[q].start + cs[q].size
    BY <2>1, <2>2
  <2> QED BY <2>3, <2>4 DEF part
<1>8. /\ \A e \in Taken : \E b \in Mine :
            /\ e = [free |-> FALSE, from |-> b.addr, to |-> b.addr + Pool!RoundUp(b.size)]
            /\ e.from = b.addr /\ e.to = b.addr + Pool!RoundUp(b.size)
      /\ \A b \in Mine : \E e \in Taken :
            e.from = b.addr /\ e.to = b.addr + Pool!RoundUp(b.size)
  <2> DEFINE part(b) == [free |-> FALSE, from |-> b.addr, to |-> b.addr + Pool!RoundUp(b.size)]
  <2>1. \A b : part(b).from = b.addr /\ part(b).to = b.addr + Pool!RoundUp(b.size)
    OBVIOUS
  <2>2. \A e : e \in Taken <=> \E b \in Mine : e = part(b)
    OBVIOUS
  <2> HIDE DEF Taken, Mine, part
  <2>3. \A e \in Taken : \E b \in Mine :
            e = part(b) /\ e.from = b.addr /\ e.to = b.addr + Pool!RoundUp(b.size)
    BY <2>1, <2>2
  <2>4. \A b \in Mine : \E e \in Taken :
            e.from = b.addr /\ e.to = b.addr + Pool!RoundUp(b.size)
    BY <2>1, <2>2
  <2> QED BY <2>3, <2>4 DEF part
<1>9. Mine \subseteq owned
  OBVIOUS
<1> HIDE DEF cs, M, Free, Mine, Taken
<1>10. \A e \in Free : /\ e.from \in Nat /\ e.to \in Nat /\ e.from < e.to
                       /\ Span(e) \subseteq Any!FreeBytes(cs)
  <2> TAKE e \in Free
  <2>1. PICK q \in 1 .. Len(cs) : e.from = cs[q].start /\ e.to = cs[q].start + cs[q].size
    BY <1>7
  <2>2. cs[q].start \in Nat /\ cs[q].size \in Nat \ {0}
    BY <1>3
  <2>3. Span(e) \subseteq Any!FreeBytes(cs)
    <3>1. Span(e) = cs[q].start .. (cs[q].start + cs[q].size - 1)
      BY <1>3, <2>1 DEF Span
    <3> QED BY <1>5, <3>1
  <2> QED BY <2>1, <2>2, <2>3
<1>11. \A e \in Taken : /\ e.from \in Nat /\ e.to \in Nat /\ e.from < e.to
                        /\ Span(e) \subseteq M /\ Span(e) \cap Any!FreeBytes(cs) = {}
  <2> TAKE e \in Taken
  <2>1. PICK b \in Mine : e.from = b.addr /\ e.to = b.addr + Pool!RoundUp(b.size)
    BY <1>8
  <2>2. /\ b.addr \in Nat /\ Pool!RoundUp(b.size) \in Nat \ {0}
        /\ Any!Extent(b) = Span(e) /\ Any!Extent(b) \subseteq M
        /\ Any!Extent(b) \cap Any!FreeBytes(cs) = {}
    BY <1>6, <1>9, <2>1 DEF Span
  <2> QED BY <2>1, <2>2
<1>12. ASSUME NEW d \in Free \cup Taken, NEW e \in Free \cup Taken, d # e
       PROVE  Span(d) \cap Span(e) = {}
  <2>1. CASE d \in Free /\ e \in Free
    <3>1. PICK l \in 1 .. Len(cs) :
             /\ d = [free |-> TRUE, from |-> cs[l].start, to |-> cs[l].start + cs[l].size]
             /\ d.from = cs[l].start /\ d.to = cs[l].start + cs[l].size
      BY <1>7, <2>1
    <3>2. PICK q \in 1 .. Len(cs) :
             /\ e = [free |-> TRUE, from |-> cs[q].start, to |-> cs[q].start + cs[q].size]
             /\ e.from = cs[q].start /\ e.to = cs[q].start + cs[q].size
      BY <1>7, <2>1
    <3>3. l # q
      BY <1>12, <3>1, <3>2
    <3>4. d.to < e.from \/ e.to < d.from
      BY <1>3, <3>1, <3>2, <3>3
    <3>5. d.from \in Nat /\ d.to \in Nat /\ e.from \in Nat /\ e.to \in Nat
      BY <1>10, <2>1
    <3> QED BY <3>4, <3>5 DEF Span
  <2>2. CASE (d \in Free /\ e \in Taken) \/ (d \in Taken /\ e \in Free)
    BY <1>10, <1>11, <2>2
  <2>3. CASE d \in Taken /\ e \in Taken
    <3>1. PICK b \in Mine :
             /\ d = [free |-> FALSE, from |-> b.addr, to |-> b.addr + Pool!RoundUp(b.size)]
             /\ d.from = b.addr /\ d.to = b.addr + Pool!RoundUp(b.size)
      BY <1>8, <2>3
    <3>2. PICK c \in Mine :
             /\ e = [free |-> FALSE, from |-> c.addr, to |-> c.addr + Pool!RoundUp(c.size)]
             /\ e.from = c.addr /\ e.to = c.addr + Pool!RoundUp(c.size)
      BY <1>8, <2>3
    <3>3. b # c
      BY <1>12, <3>1, <3>2
    <3>4. Any!Extent(b) \cap Any!Extent(c) = {}
      BY <1>1, <1>9, <3>3 DEF Any!BlocksOK
    <3>5. Span(d) = Any!Extent(b) /\ Span(e) = Any!Extent(c)
      BY <1>6, <1>9, <3>1, <3>2 DEF Span
    <3> QED BY <3>4, <3>5
  <2> QED BY <2>1, <2>2, <2>3
<1>13. ASSUME NEW m \in M
       PROVE  \E e \in Free \cup Taken : m \in Span(e)
  <2>1. m \in Any!PoolFree(BothLists) \cup Any!Extents(owned)
    <3>1. m \in Any!PoolManaged(BothLists)
      BY DEF M, Any!PoolManaged
    <3> QED BY <1>1, <3>1 DEF Any!BlocksOK
  <2>2. CASE m \in Any!PoolFree(BothLists)
    <3>1. PICK j \in DOMAIN BothLists : m \in Any!FreeBytes(BothLists[j].chunks)
      BY <2>2 DEF Any!PoolFree
    <3>2. m \in Any!Managed(BothLists[j].zone)
      BY <1>1, <3>1, Any!PoolLinks
    <3>3. j = i
      BY <1>2, <3>2
    <3>4. m \in Any!FreeBytes(cs)
      BY <3>1, <3>3 DEF cs
    <3>5. PICK q \in 1 .. Len(cs) : m \in cs[q].start .. (cs[q].start + cs[q].size - 1)
      BY <1>3, <3>4 DEF Any!FreeBytes, Any!Run
    <3>6. PICK e \in Free : e.from = cs[q].start /\ e.to = cs[q].start + cs[q].size
      BY <1>7
    <3>7. Span(e) = cs[q].start .. (cs[q].start + cs[q].size - 1)
      BY <1>3, <3>6 DEF Span
    <3> QED BY <3>5, <3>7
  <2>3. CASE m \in Any!Extents(owned)
    <3>1. PICK b \in owned : m \in Any!Extent(b)
      BY <2>3 DEF Any!Extents
    <3>2. b \in Mine
      BY <1>6, <3>1
    <3>3. PICK e \in Taken : e.from = b.addr /\ e.to = b.addr + Pool!RoundUp(b.size)
      BY <1>8, <3>2
    <3> QED BY <1>6, <3>1, <3>3 DEF Span
  <2> QED BY <2>1, <2>2, <2>3
<1>14. \A e \in Free \cup Taken : /\ e.from \in Nat /\ e.to \in Nat /\ e.from < e.to
                                  /\ Span(e) \subseteq M
  BY <1>2, <1>10, <1>11
<1> QED BY <1>4, <1>12, <1>13, <1>14 DEF M

\* Whatever the machine and whatever the ROM, no two of the blocks that boot
\* takes, in whichever list their zone is, overlap each other or what is free,
\* and no byte of a zone is lost.
THEOREM ZonesMadeUp == BootSpec => []NothingOverlaps
<1>1. UsedInv => NothingOverlaps
  <2> SUFFICES ASSUME UsedInv,
                      NEW h \in {heaplist[i] : i \in DOMAIN heaplist} \cup {pool[i] : i \in DOMAIN pool}
               PROVE  /\ \A d, e \in Parts(h) : d # e => d.to <= e.from \/ e.to <= d.from
                      /\ \E e \in Parts(h) : e.from = Pool!Lower(h.zone)
                      /\ \A e \in Parts(h) :
                           /\ Pool!Lower(h.zone) <= e.from /\ e.from < e.to
                           /\ e.to <= Pool!Upper(h.zone)
                           /\ e.to = Pool!Upper(h.zone) \/ \E d \in Parts(h) : d.from = e.to
    BY DEF NothingOverlaps
  <2>1. MemInv
    BY DEF UsedInv
  <2>2. PICK i \in DOMAIN BothLists : h = BothLists[i]
    <3> DEFINE S == Any!HeapsOf(pool) \cup Any!HeapsOf(heaplist)
    <3>1. pool \in Seq(S) /\ heaplist \in Seq(S)
      BY <2>1 DEF MemInv
    <3> HIDE DEF S
    <3>2. /\ Len(pool) \in Nat /\ Len(heaplist) \in Nat
          /\ DOMAIN pool = 1 .. Len(pool) /\ DOMAIN heaplist = 1 .. Len(heaplist)
          /\ Len(BothLists) = Len(pool) + Len(heaplist)
          /\ DOMAIN BothLists = 1 .. Len(BothLists)
          /\ \A j \in 1 .. Len(pool) + Len(heaplist) :
                BothLists[j] = IF j <= Len(pool) THEN pool[j] ELSE heaplist[j - Len(pool)]
      BY <3>1, ConcatProperties, LenProperties DEF BothLists
    <3>3. CASE h \in {pool[j] : j \in DOMAIN pool}
      BY <3>2, <3>3
    <3>4. CASE h \in {heaplist[j] : j \in DOMAIN heaplist}
      <4>1. PICK j \in 1 .. Len(heaplist) : h = heaplist[j]
        BY <3>2, <3>4
      <4>2. /\ Len(pool) + j \in 1 .. Len(BothLists) /\ ~(Len(pool) + j <= Len(pool))
            /\ (Len(pool) + j) - Len(pool) = j
        BY <3>2
      <4>3. BothLists[Len(pool) + j] = heaplist[(Len(pool) + j) - Len(pool)]
        BY <3>2, <4>2
      <4> QED BY <3>2, <4>1, <4>2, <4>3
    <3> QED BY <3>3, <3>4
  <2> DEFINE lo == Pool!Lower(h.zone)  hi == Pool!Upper(h.zone)
  <2>3. lo = Any!Lower(h.zone) /\ hi = Any!Upper(h.zone)
    BY SameRounding
  <2>4. Any!IsZone(h.zone)
    BY <2>1, <2>2, Any!PoolLinks DEF MemInv
  <2>5. lo \in Nat /\ hi \in Nat /\ lo < hi /\ Any!Managed(h.zone) = lo .. (hi - 1)
    BY <2>3, <2>4, Any!ZoneAddresses DEF Any!Managed
  <2> HIDE DEF lo, hi
  <2>6. /\ \A e \in Parts(h) : /\ e.from \in Nat /\ e.to \in Nat /\ e.from < e.to
                               /\ Span(e) \subseteq lo .. (hi - 1)
        /\ \A d, e \in Parts(h) : d # e => Span(d) \cap Span(e) = {}
        /\ \A m \in lo .. (hi - 1) : \E e \in Parts(h) : m \in Span(e)
    BY <2>1, <2>2, <2>5, ZoneParts
  <2>7. \A e \in Parts(h) : lo <= e.from /\ e.to <= hi
    <3> TAKE e \in Parts(h)
    <3>1. e.from \in Span(e) /\ e.to - 1 \in Span(e)
      BY <2>6 DEF Span
    <3>2. e.from \in lo .. (hi - 1) /\ e.to - 1 \in lo .. (hi - 1)
      BY <2>6, <3>1
    <3> QED BY <2>5, <2>6, <3>2
  <2>8. /\ \A d, e \in Parts(h) : d # e => d.to <= e.from \/ e.to <= d.from
        /\ \E e \in Parts(h) : e.from = lo
        /\ \A e \in Parts(h) : e.to = hi \/ \E d \in Parts(h) : d.from = e.to
    <3>1. FillUp(Parts(h), lo, hi)
      BY <2>6, <2>7 DEF FillUp
    <3> QED BY <2>5, <3>1, SideBySide
  <2> QED BY <2>6, <2>7, <2>8 DEF lo, hi
<1> QED BY <1>1, UsedInvariant, PTL

-----------------------------------------------------------------------------
(* Whether there is memory.                                                *)

\* The names that have no node in the BuilderList yet.
Unseen == Cardinality(Names(rom) \ NamesOf(builder))

\* What is still to be allocated before the residents are initialised, when
\* startup has come to stage at and u of n names have no node.
NotYet(at, stages, bytes) == IF at \in stages THEN Any!RoundUp(bytes) ELSE 0

Needed(at, u, n) ==
    NotYet(at, {"stack"}, SupervisorStack) + NotYet(at, {"stack", "execbase"}, ExecBaseBytes)
    + NotYet(at, {"stack", "execbase", "move", "task"}, TaskBytes)
    + NotYet(at, {"stack", "execbase", "move", "task", "exec_stack"}, ExecStack + Prefix)
    + u * Any!RoundUp(NodeBytes + Prefix) + Any!RoundUp(4 * (n + 1) + Prefix)

StillNeeded == Needed(stage, Unseen, Cardinality(Names(rom)))

\* Until the array is made there is a chunk with room for all of it.
RoomInv ==
    /\ <<machine, rom>> \in Systems
    /\ stage \notin {"wild", "stopped"}
    /\ stage # "startup2" => romPhase = "search"
    /\ romPhase \in {"search", "flatten"} =>
         /\ Len(builder) + Unseen = Cardinality(Names(rom))
         /\ stage \in {"stack", "execbase", "move", "task", "exec_stack", "startup2"} =>
              Any!HasRoom(BothLists, {"public"}, StillNeeded)

\* The names of a ROM, and those that have no node yet, can be counted.
LEMMA NamesCounted ==
    ASSUME rom \in Roms
    PROVE  /\ IsFiniteSet(Names(rom)) /\ Cardinality(Names(rom)) \in Nat
           /\ \A S : /\ IsFiniteSet(Names(rom) \ S)
                     /\ Cardinality(Names(rom) \ S) \in Nat
                     /\ Cardinality(Names(rom) \ S) <= Cardinality(Names(rom))
<1> DEFINE A == {a \in DOMAIN rom : rom[a].tag}
           f == [a \in A |-> rom[a].name]
<1>1. IsFiniteSet(A)
  <2>1. DOMAIN rom = 1 .. RomSize /\ RomSize \in Nat
    BY RomsAssumption DEF Rom!IsRom
  <2>2. IsFiniteSet(1 .. RomSize) /\ A \in SUBSET (1 .. RomSize)
    BY <2>1, FS_Interval
  <2> QED BY <2>2, FS_Subset
<1>2. Names(rom) = {f[a] : a \in A}
  BY DEF Names
<1> HIDE DEF A
<1>3. f \in Surjection(A, Names(rom))
  BY <1>2 DEF Surjection
<1> HIDE DEF f
<1>4. IsFiniteSet(Names(rom))
  BY <1>1, <1>3, FS_Surjection
<1>5. ASSUME NEW S
      PROVE  /\ IsFiniteSet(Names(rom) \ S)
             /\ Cardinality(Names(rom) \ S) \in Nat
             /\ Cardinality(Names(rom) \ S) <= Cardinality(Names(rom))
  <2>1. Names(rom) \ S \in SUBSET Names(rom)
    OBVIOUS
  <2> QED BY <1>4, <2>1, FS_Subset, FS_CardinalityType
<1> QED BY <1>4, <1>5, FS_CardinalityType

\* What is needed is what the next allocation takes and what is needed then.
LEMMA NeededAt ==
    ASSUME NEW u \in Nat, NEW n \in Nat
    PROVE  /\ Needed("stack", u, n) = Any!RoundUp(SupervisorStack) + Needed("execbase", u, n)
           /\ Needed("execbase", u, n) = Any!RoundUp(ExecBaseBytes) + Needed("move", u, n)
           /\ Needed("move", u, n) = Needed("task", u, n)
           /\ Needed("task", u, n) = Any!RoundUp(TaskBytes) + Needed("exec_stack", u, n)
           /\ Needed("exec_stack", u, n)
                = Any!RoundUp(ExecStack + Prefix) + Needed("startup2", u, n)
           /\ \A c \in Nat : c <= n + 1 =>
                 Any!RoundUp(4 * c + Prefix) \in Nat
                 /\ Any!RoundUp(4 * c + Prefix) <= Needed("startup2", u, n)
           /\ u > 0 => Needed("startup2", u, n)
                         = Any!RoundUp(NodeBytes + Prefix) + Needed("startup2", u - 1, n)
           /\ \A at \in {"stack", "execbase", "move", "task", "exec_stack", "startup2"} :
                 Needed(at, u, n) \in Nat /\ Needed(at, u, n) > 0
           /\ u <= n => Needed("stack", u, n) <= Demand(n)
           /\ Demand(n) \in Nat
<1> DEFINE s == Any!RoundUp(SupervisorStack)
           e == Any!RoundUp(ExecBaseBytes)
           t == Any!RoundUp(TaskBytes)
           x == Any!RoundUp(ExecStack + Prefix)
           d == Any!RoundUp(NodeBytes + Prefix)
           a == Any!RoundUp(4 * (n + 1) + Prefix)
<1>1. s \in Nat /\ e \in Nat /\ t \in Nat /\ x \in Nat
  BY SizesAsked, Any!RoundUpBounds
<1>2. d = 32
  BY DEF Any!RoundUp, NodeBytes, Prefix
<1>3. ASSUME NEW c \in Nat
      PROVE  /\ Any!RoundUp(4 * c + Prefix) \in Nat /\ Any!RoundUp(4 * c + Prefix) > 0
             /\ c <= n + 1 => Any!RoundUp(4 * c + Prefix) <= a
  BY DEF Any!RoundUp, Prefix
<1>4. a \in Nat /\ a > 0
  BY DEF Any!RoundUp, Prefix
<1> DEFINE U == u * d
           V == (u - 1) * d
           N == n * d
<1>5. Demand(n) = s + e + t + x + N + a
  BY SameRounding DEF Demand
<1>6. /\ Needed("stack", u, n) = s + e + t + x + U + a
      /\ Needed("execbase", u, n) = 0 + e + t + x + U + a
      /\ Needed("move", u, n) = 0 + 0 + t + x + U + a
      /\ Needed("task", u, n) = 0 + 0 + t + x + U + a
      /\ Needed("exec_stack", u, n) = 0 + 0 + 0 + x + U + a
      /\ Needed("startup2", u, n) = 0 + 0 + 0 + 0 + U + a
      /\ Needed("startup2", u - 1, n) = 0 + 0 + 0 + 0 + V + a
  BY DEF Needed, NotYet
<1> HIDE DEF s, e, t, x, d, a
<1>7. U \in Nat /\ N \in Nat
  BY <1>2
<1>77. u <= n => U <= N
  BY <1>2
<1>78. u > 0 => U = d + V /\ V \in Nat
  BY <1>2
<1> HIDE DEF U, V, N
<1>8. /\ Needed("stack", u, n) = s + Needed("execbase", u, n)
      /\ Needed("execbase", u, n) = e + Needed("move", u, n)
      /\ Needed("move", u, n) = Needed("task", u, n)
      /\ Needed("task", u, n) = t + Needed("exec_stack", u, n)
      /\ Needed("exec_stack", u, n) = x + Needed("startup2", u, n)
  BY <1>1, <1>4, <1>6, <1>7
<1>9. u > 0 => Needed("startup2", u, n) = d + Needed("startup2", u - 1, n)
  BY <1>2, <1>4, <1>6, <1>78
<1>10. \A at \in {"stack", "execbase", "move", "task", "exec_stack", "startup2"} :
          Needed(at, u, n) \in Nat /\ Needed(at, u, n) > 0
  BY <1>1, <1>4, <1>6, <1>7
<1>11. (u <= n => Needed("stack", u, n) <= Demand(n)) /\ Demand(n) \in Nat
  BY <1>1, <1>4, <1>5, <1>6, <1>7, <1>77
<1>12. ASSUME NEW c \in Nat, c <= n + 1
       PROVE  /\ Any!RoundUp(4 * c + Prefix) \in Nat
              /\ Any!RoundUp(4 * c + Prefix) <= Needed("startup2", u, n)
  <2> DEFINE y == Any!RoundUp(4 * c + Prefix)
  <2>1. y \in Nat /\ y <= a
    BY <1>3, <1>12
  <2> HIDE DEF y
  <2>2. y \in Nat /\ y <= Needed("startup2", u, n)
    BY <1>4, <1>6, <1>7, <2>1
  <2> QED BY <2>2 DEF y
<1> QED BY <1>8, <1>9, <1>10, <1>11, <1>12 DEF s, e, t, x, d

\* An allocation there is room for is answered, and leaves the room for what
\* comes after it.
LEMMA AllocServed ==
    ASSUME BootInv, MemInv, NEW n \in Nat \ {0}, NEW a, NEW reverse,
           \/ stage \in {"stack", "execbase"} /\ pool' = pool /\ Stack!AllocMem(n, a, reverse)
           \/ /\ stage \in {"task", "exec_stack", "startup2"} /\ heaplist' = heaplist
              /\ Pool!AllocMem(n, a, reverse),
           NEW m \in Nat, Any!HasRoom(BothLists, a, Any!RoundUp(n) + m)
    PROVE  /\ call'.result # NULL
           /\ m > 0 => Any!HasRoom(BothLists', a, m)
<1>1. /\ call'.result = Any!Allocated(BothLists, n, a, reverse).addr
      /\ BothLists' = Any!Allocated(BothLists, n, a, reverse).pool
  BY AllocKeeps
<1>2. Any!PoolOK(BothLists)
  BY DEF MemInv
<1>3. ASSUME NEW list, Any!PoolOK(list), Any!HasRoom(list, a, Any!RoundUp(n) + m)
      PROVE  /\ Any!Allocated(list, n, a, reverse).addr # NULL
             /\ m > 0 => Any!HasRoom(Any!Allocated(list, n, a, reverse).pool, a, m)
  BY <1>3, Any!RoomServes DEF NULL, Any!NULL
<1> HIDE DEF BothLists
<1> QED BY <1>1, <1>2, <1>3

\* Chip RAM, when it is added, has room for all it is.
LEMMA ChipJoins ==
    ASSUME BootInv, MemInv, MemInv', AddBank("chip", "add_chip", "stack")
    PROVE  LET n == Address("chip", machine.chip) - FirstPage - Pool!HeaderSize
           IN  n \in Nat /\ Any!HasRoom(BothLists', {"public"}, n)
<1> DEFINE z == ZoneOf("chip", Has("chip"))
           n == Address("chip", machine.chip) - FirstPage - Pool!HeaderSize
           q == Any!Enqueue(heaplist, Any!NewHeap(z))
<1>0. stage = "add_chip"
  BY DEF AddBank
<1>1. ProbeInv /\ phase = "done" /\ machine \in Machines /\ pool = << >> /\ BothLists = heaplist
  BY <1>0, OneList DEF BootInv, ProbeInv
<1>2. found["chip"] = Has("chip") /\ ~Empty(Has("chip"))
  BY <1>1, FoundIsThere
<1>3. pool' = << >> /\ Stack!AddMemList(z)
  BY <1>1, <1>2 DEF AddBank
<1>4. heaplist' = q
  BY <1>3, SameEnqueue DEF Stack!AddMemList
<1>5. Any!IsZone(z)
  BY <1>1, <1>2, BankZones
<1>6. {"public"} \in SUBSET z.attributes /\ z.size - Any!HeaderSize = n
  BY DEF ZoneOf, AttributesOf, RangeOf, Has, Any!HeaderSize, Pool!HeaderSize
<1>7. n \in Nat
  <2>1. z.size \in Nat /\ z.size > Any!HeaderSize /\ Any!HeaderSize \in Nat
    BY <1>5 DEF Any!IsZone, Any!HeaderSize
  <2> HIDE DEF z
  <2> QED BY <1>6, <2>1
<1>8. Any!PoolOK(heaplist)
  BY <1>1 DEF MemInv
<1> HIDE DEF z, n
<1>9. Any!HasRoom(q, {"public"}, n)
  BY <1>5, <1>6, <1>8, Any!RoomAdded
<1>10. BothLists' = heaplist'
  <2>1. heaplist' \in Seq(Any!HeapsOf(heaplist'))
    BY DEF MemInv
  <2> QED BY <1>3, <2>1, ConcatEmptySeq DEF BothLists
<1> QED BY <1>4, <1>7, <1>9, <1>10 DEF n

\* The machine is the same one throughout.
LEMMA MachineStays ==
    ASSUME [BootNext]_bootVars
    PROVE  machine' = machine
<1>1. CASE Probe
  <2>1. CASE ProbeChip
    BY <2>1 DEF ProbeChip, Finish, GoOn
  <2>2. CASE ProbeSlow
    BY <2>2 DEF ProbeSlow, Finish, GoOn
  <2>3. CASE Probe24Bit
    BY <2>3 DEF Probe24Bit, Finish, GoOn
  <2>4. CASE ProbeFirst
    BY <2>4 DEF ProbeFirst, Finish, GoOn
  <2>5. CASE ProbeLast
    BY <2>5 DEF ProbeLast, Finish, GoOn
  <2> QED BY <1>1, <2>1, <2>2, <2>3, <2>4, <2>5 DEF Probe, Next
<1>2. CASE probeVars' = probeVars
  BY <1>2 DEF probeVars
<1>3. Probe \/ probeVars' = probeVars
  BY ProbesAlone DEF bootVars
<1> QED BY <1>1, <1>2, <1>3

\* The steps of startup.
LEMMA RoomByStartup ==
    ASSUME EnoughChip, UsedInv, UsedInv', RoomInv, machine' = machine,
           \/ Probe
           \/ AddBank("a3000", "add_a3000", "add_slow")
           \/ AddBank("slow", "add_slow", "add_chip")
           \/ AddBank("chip", "add_chip", "stack")
           \/ MakeStack \/ MakeExecBase \/ MoveZone \/ MoveEnds \/ MakeTask \/ MakeExecStack
    PROVE  RoomInv'
<1> DEFINE u == Unseen
           n == Cardinality(Names(rom))
           Room(at) == Any!HasRoom(BothLists, {"public"}, Needed(at, u, n))
           RoomNext(at) == Any!HasRoom(BothLists', {"public"}, Needed(at, u, n))
<1>1. /\ stage \in {"probe", "add_a3000", "add_slow", "add_chip", "stack", "execbase", "move",
                    "task", "exec_stack"}
      /\ romVars' = romVars
  BY DEF Probe, AddBank, MakeStack, MakeExecBase, MoveZone, MoveEnds, MakeTask, MakeExecStack
<1>2. /\ builder' = builder /\ rom' = rom /\ romPhase' = romPhase /\ romPhase = "search"
      /\ BootInv /\ MemInv /\ MemInv' /\ rom \in Roms
      /\ <<machine, rom>> \in Systems /\ Len(builder) + u = n
  BY <1>1 DEF romVars, RoomInv, UsedInv, Tags!RomInv, Tags!Typed
<1>3. u \in Nat /\ n \in Nat /\ u <= n
  BY <1>2, NamesCounted DEF Unseen
<1>4. Unseen' = u /\ Cardinality(Names(rom))' = n /\ StillNeeded' = Needed(stage', u, n)
      /\ StillNeeded = Needed(stage, u, n)
  BY <1>2 DEF Unseen, StillNeeded
<1>5. stage \in {"stack", "execbase", "move", "task", "exec_stack"} => Room(stage)
  BY <1>2, <1>4 DEF RoomInv
<1> HIDE DEF u, n
<1>6. ASSUME /\ stage' \in {"probe", "add_a3000", "add_slow", "add_chip", "stack", "execbase",
                            "move", "task", "exec_stack", "startup2"}
             /\ stage' \in {"stack", "execbase", "move", "task", "exec_stack", "startup2"} =>
                  RoomNext(stage')
      PROVE  RoomInv'
  BY <1>2, <1>4, <1>6 DEF RoomInv
<1>7. /\ SupervisorStack \in Nat \ {0} /\ ExecBaseBytes \in Nat \ {0} /\ TaskBytes \in Nat \ {0}
      /\ ExecStack + Prefix \in Nat \ {0}
  BY BootAssumption DEF SupervisorStack, ExecStack, Prefix
<1>8. \A at \in {"stack", "execbase", "move", "task", "exec_stack", "startup2"} :
         Needed(at, u, n) \in Nat /\ Needed(at, u, n) > 0
  BY <1>3, NeededAt
<1>9. CASE Probe
  <2>1. stage' \in {"probe", "add_a3000"}
    BY <1>9 DEF Probe
  <2> QED BY <1>6, <2>1
<1>10. CASE AddBank("a3000", "add_a3000", "add_slow") \/ AddBank("slow", "add_slow", "add_chip")
  <2>1. stage' \in {"add_slow", "add_chip"}
    BY <1>10 DEF AddBank
  <2> QED BY <1>6, <2>1
<1>11. CASE AddBank("chip", "add_chip", "stack")
  <2> DEFINE m == Address("chip", machine.chip) - FirstPage - Pool!HeaderSize
  <2>1. m \in Nat /\ Any!HasRoom(BothLists', {"public"}, m)
    BY <1>2, <1>11, ChipJoins
  <2>2. m >= Demand(n)
    <3>1. <<machine, rom>>[1] = machine /\ <<machine, rom>>[2] = rom
      OBVIOUS
    <3> QED BY <1>2, <3>1 DEF EnoughChip, n
  <2> HIDE DEF m
  <2>3. Needed("stack", u, n) <= m
    <3>1. Needed("stack", u, n) <= Demand(n) /\ Demand(n) \in Nat
      BY <1>3, NeededAt
    <3> QED BY <1>8, <2>1, <2>2, <3>1
  <2>4. Any!PoolOK(BothLists')
    BY <1>2 DEF MemInv
  <2> DEFINE list == BothLists'
             needed == Needed("stack", u, n)
  <2>5. /\ Any!PoolOK(list) /\ Any!HasRoom(list, {"public"}, m)
        /\ m \in Nat /\ needed \in Nat /\ needed <= m
    BY <1>8, <2>1, <2>3, <2>4
  <2> HIDE DEF list, needed
  <2>6. Any!HasRoom(list, {"public"}, needed)
    BY <2>5, Any!LessRoom
  <2>7. stage' = "stack"
    BY <1>11 DEF AddBank
  <2> QED BY <1>6, <2>6, <2>7 DEF list, needed
<1>12. CASE MakeStack
  <2>1. stage = "stack" /\ Room("stack")
        /\ Needed("stack", u, n) = Any!RoundUp(SupervisorStack) + Needed("execbase", u, n)
    BY <1>3, <1>5, <1>12, NeededAt DEF MakeStack
  <2>2. call'.result # NULL /\ RoomNext("execbase")
    BY <1>2, <1>7, <1>8, <1>12, <2>1, AllocServed DEF MakeStack
  <2>3. stage' = "execbase"
    BY <1>12, <2>2 DEF MakeStack
  <2> QED BY <1>6, <2>2, <2>3
<1>13. CASE MakeExecBase
  <2>1. stage = "execbase" /\ Room("execbase")
        /\ Needed("execbase", u, n) = Any!RoundUp(ExecBaseBytes) + Needed("move", u, n)
    BY <1>3, <1>5, <1>13, NeededAt DEF MakeExecBase
  <2>2. call'.result # NULL /\ RoomNext("move")
    BY <1>2, <1>7, <1>8, <1>13, <2>1, AllocServed DEF MakeExecBase
  <2>3. stage' = "move"
    BY <1>13, <2>2 DEF MakeExecBase, OrWild
  <2> QED BY <1>6, <2>2, <2>3
<1>14. CASE MoveZone \/ MoveEnds
  <2>1. stage = "move" /\ Room("move") /\ Needed("move", u, n) = Needed("task", u, n)
    BY <1>3, <1>5, <1>14, NeededAt DEF MoveZone, MoveEnds
  <2>2. BothLists' = BothLists
    BY <1>2, <1>14, MoveKeeps
  <2>3. stage' \in {"move", "task"} /\ RoomNext(stage')
    BY <1>14, <2>1, <2>2 DEF MoveZone, MoveEnds
  <2> QED BY <1>6, <2>3
<1>15. CASE MakeTask
  <2>1. stage = "task" /\ Room("task")
        /\ Needed("task", u, n) = Any!RoundUp(TaskBytes) + Needed("exec_stack", u, n)
    BY <1>3, <1>5, <1>15, NeededAt DEF MakeTask
  <2>2. call'.result # NULL /\ RoomNext("exec_stack")
    BY <1>2, <1>7, <1>8, <1>15, <2>1, AllocServed DEF MakeTask
  <2>3. stage' = "exec_stack"
    BY <1>15, <2>2 DEF MakeTask, OrWild
  <2> QED BY <1>6, <2>2, <2>3
<1>16. CASE MakeExecStack
  <2>1. stage = "exec_stack" /\ Room("exec_stack")
        /\ Needed("exec_stack", u, n)
             = Any!RoundUp(ExecStack + Prefix) + Needed("startup2", u, n)
    BY <1>3, <1>5, <1>16, NeededAt DEF MakeExecStack
  <2>2. call'.result # NULL /\ RoomNext("startup2")
    BY <1>2, <1>7, <1>8, <1>16, <2>1, AllocServed DEF MakeExecStack, New
  <2>3. stage' = "startup2"
    BY <1>16, <2>2 DEF MakeExecStack, OrWild
  <2> QED BY <1>6, <2>2, <2>3
<1> QED BY <1>9, <1>10, <1>11, <1>12, <1>13, <1>14, <1>15, <1>16

\* A tag that is scanned.
LEMMA RoomByScan ==
    ASSUME UsedInv, RoomInv, machine' = machine, ScanTag
    PROVE  RoomInv'
<1> DEFINE u == Unseen
           n == Cardinality(Names(rom))
           name == rom[p].name
<1>1. /\ stage = "startup2" /\ Rom!SearchTag /\ heaplist' = heaplist
      /\ BootInv /\ MemInv /\ Tags!RomInv /\ <<machine, rom>> \in Systems
  BY DEF ScanTag, RoomInv, UsedInv
<1>2. /\ romPhase = "search" /\ romPhase' = "search" /\ rom' = rom /\ rom \in Roms
      /\ p \in Nat \ {0} /\ p <= RomSize /\ rom[p].tag
  BY <1>1 DEF Rom!SearchTag, Tags!RomInv, Tags!Typed
<1>3. /\ Len(builder) + u = n /\ Any!HasRoom(BothLists, {"public"}, Needed("startup2", u, n))
      /\ Len(builder) \in Nat
  BY <1>1, <1>2, NamesScanned DEF RoomInv, StillNeeded
<1>4. u \in Nat /\ n \in Nat /\ u <= n
  BY <1>2, NamesCounted DEF Unseen
<1>5. Names(rom)' = Names(rom) /\ Cardinality(Names(rom))' = n
  BY <1>2
<1>6. name \in Names(rom)
  <2>1. DOMAIN rom = 1 .. RomSize /\ RomSize \in Nat
    BY <1>2, RomsAssumption DEF Rom!IsRom
  <2>2. p \in DOMAIN rom
    BY <1>2, <2>1
  <2> QED BY <1>2, <2>2 DEF Names
<1>7. CASE Rom!Named(name) # {}
  <2>1. /\ pool' = pool /\ stage' = stage
        /\ NamesOf(builder') = NamesOf(builder) /\ Len(builder') = Len(builder)
    BY <1>1, <1>7, NamesScanned DEF ScanTag
  <2>2. Unseen' = u /\ StillNeeded' = StillNeeded /\ BothLists' = BothLists
    BY <1>1, <1>2, <2>1 DEF Unseen, StillNeeded, BothLists
  <2> QED BY <1>1, <1>2, <1>3, <1>5, <2>1, <2>2 DEF RoomInv
<1>8. CASE Rom!Named(name) = {}
  <2>1. New(NodeBytes) /\ OrWild(stage)
    BY <1>8 DEF ScanTag
  <2>2. /\ name \notin NamesOf(builder) /\ NamesOf(builder') = NamesOf(builder) \cup {name}
        /\ Len(builder') = Len(builder) + 1
    BY <1>1, <1>8, NamesScanned
  <2> HIDE DEF name
  <2>3. u > 0 /\ Unseen' = u - 1
    <3> DEFINE S == Names(rom) \ NamesOf(builder)
    <3>1. S \ {name} = Names(rom) \ NamesOf(builder') /\ name \in S
      BY <1>6, <2>2
    <3>2. IsFiniteSet(S) /\ u = Cardinality(S)
      BY <1>2, NamesCounted DEF Unseen
    <3>3. Unseen' = Cardinality(S \ {name})
      BY <1>5, <3>1 DEF Unseen
    <3> HIDE DEF S, u
    <3>4. Cardinality(S \ {name}) = Cardinality(S) - 1
      BY <3>1, <3>2, FS_RemoveElement
    <3>5. Cardinality(S) # 0
      BY <3>1, <3>2, FS_EmptySet
    <3> QED BY <1>4, <3>2, <3>3, <3>4, <3>5
  <2> HIDE DEF u, n
  <2>4. /\ Needed("startup2", u, n)
             = Any!RoundUp(NodeBytes + Prefix) + Needed("startup2", u - 1, n)
        /\ Needed("startup2", u - 1, n) \in Nat /\ Needed("startup2", u - 1, n) > 0
    <3>1. u - 1 \in Nat
      BY <1>4, <2>3
    <3> QED BY <1>4, <2>3, <3>1, NeededAt
  <2>5. NodeBytes + Prefix \in Nat \ {0}
    BY DEF NodeBytes, Prefix
  <2>6. /\ call'.result # NULL
        /\ Any!HasRoom(BothLists', {"public"}, Needed("startup2", u - 1, n))
    BY <1>1, <1>3, <2>1, <2>4, <2>5, AllocServed DEF New
  <2>7. stage' = "startup2"
    BY <1>1, <2>1, <2>6 DEF OrWild
  <2>8. StillNeeded' = Needed("startup2", u - 1, n)
    BY <1>5, <2>3, <2>7 DEF StillNeeded
  <2>9. Len(builder') + Unseen' = n
    BY <1>3, <1>4, <2>2, <2>3
  <2> QED BY <1>1, <1>2, <1>5, <2>6, <2>7, <2>8, <2>9 DEF RoomInv
<1> QED BY <1>7, <1>8

\* The other steps of startup2.
LEMMA RoomByStartup2 ==
    ASSUME UsedInv, RoomInv, machine' = machine,
           ScanTag \/ MakeArray \/ FlattenNode \/ MakeLibrary \/ GoOnStartup2
    PROVE  RoomInv'
<1>1. stage = "startup2"
  BY DEF ScanTag, MakeArray, FlattenNode, MakeLibrary, GoOnStartup2
<1>2. /\ BootInv /\ MemInv /\ HeldInv /\ Held /\ Tags!RomInv /\ rom \in Roms
      /\ <<machine, rom>> \in Systems
  BY <1>1 DEF UsedInv, HeldInv, RoomInv, Tags!RomInv, Tags!Typed
<1>3. CASE ScanTag
  BY <1>3, RoomByScan
<1>4. CASE MakeArray
  <2> DEFINE u == Unseen
             n == Cardinality(Names(rom))
             size == 4 * count + Prefix
  <2>1. Rom!FlattenBegins /\ New(4 * count) /\ OrWild(stage) /\ heaplist' = heaplist
    BY <1>4 DEF MakeArray
  <2>2. romPhase = "flatten" /\ romPhase' = "copy" /\ rom' = rom
    BY <2>1 DEF Rom!FlattenBegins
  <2>3. count = Len(builder) + 1 /\ count \in Nat /\ Len(builder) \in Nat
    BY <1>2, <2>2 DEF Tags!RomInv, Tags!CountInv, Tags!Typed
  <2>4. Len(builder) + u = n /\ Any!HasRoom(BothLists, {"public"}, Needed("startup2", u, n))
    BY <1>1, <2>2 DEF RoomInv, StillNeeded
  <2>5. u \in Nat /\ n \in Nat
    BY <1>2, NamesCounted DEF Unseen
  <2> HIDE DEF u, n
  <2>6. count <= n + 1 /\ size \in Nat \ {0}
    BY <2>3, <2>4, <2>5 DEF Prefix
  <2>7. /\ Any!RoundUp(size) \in Nat /\ Any!RoundUp(size) <= Needed("startup2", u, n)
        /\ Needed("startup2", u, n) \in Nat
    BY <2>3, <2>5, <2>6, NeededAt
  <2>8. New(4 * count) = Pool!AllocMem(size, {"public"}, FALSE)
    BY DEF New
  <2> HIDE DEF size
  <2>9. Any!HasRoom(BothLists, {"public"}, Any!RoundUp(size) + 0)
    <3>1. Any!PoolOK(BothLists)
      BY <1>2 DEF MemInv
    <3> HIDE DEF BothLists
    <3> QED BY <2>4, <2>7, <3>1, Any!LessRoom
  <2>10. call'.result # NULL
    BY <1>1, <1>2, <2>1, <2>6, <2>8, <2>9, AllocServed
  <2>11. stage' = "startup2"
    BY <1>1, <2>1, <2>10 DEF OrWild
  <2> QED BY <1>2, <2>2, <2>11 DEF RoomInv
<1>5. CASE FlattenNode
  <2> DEFINE name == Head(builder).name
             node == nodeAt[name]
             b == BlockOf(node)
  <2>1. /\ Rom!FlattenNode
        /\ stage' = IF Overwritten(b) \cap NextOf(node) = {} THEN stage ELSE "wild"
    BY <1>5 DEF FlattenNode
  <2>2. romPhase' = "copy" /\ rom' = rom
    BY <2>1 DEF Rom!FlattenNode
  <2>3. name \in NamesOf(builder)
    BY <1>2, <2>1, NamesFlattened
  <2>4. b.addr = node - 8 /\ b.addr \in Nat /\ node \in Nat
    <3>1. nodeAt[name] \in Nat
      BY <1>2, <2>3 DEF Held
    <3>2. b.addr = NodeBlock(name) /\ NodeBlock(name) \in Nat
      BY <1>2, <2>3, BlockOfNode
    <3> QED BY <3>1, <3>2 DEF NodeBlock, Prefix
  <2> HIDE DEF node, b
  <2>5. Overwritten(b) \cap NextOf(node) = {}
    BY <2>4 DEF Overwritten, NextOf
  <2>6. stage' = "startup2"
    BY <1>1, <2>1, <2>5
  <2> QED BY <1>2, <2>2, <2>6 DEF RoomInv
<1>6. CASE MakeLibrary
  <2>1. Rom!Initialise /\ stage' = stage
    BY <1>6 DEF MakeLibrary
  <2>2. rom' = rom /\ romPhase' \notin {"search", "flatten"}
    <3>1. rom' = rom /\ romPhase = "initialise" /\ (romPhase' = romPhase \/ romPhase' = "stopped")
      BY <2>1 DEF Rom!Initialise
    <3> QED BY <3>1
  <2> QED BY <1>1, <1>2, <2>1, <2>2 DEF RoomInv
<1>7. CASE GoOnStartup2
  <2>1. /\ pool' = pool /\ heaplist' = heaplist /\ stage' = stage /\ builder' = builder /\ rom' = rom
        /\ romPhase' \in {"search", "flatten"} => romPhase \in {"search", "flatten"}
    BY <1>7 DEF GoOnStartup2, memVars, Rom!SearchOn, Rom!SearchEnds, Rom!FlattenEnds, Rom!Skip,
                Rom!InitialiseEnds, Rom!Initialise
  <2>2. Unseen' = Unseen /\ StillNeeded' = StillNeeded /\ BothLists' = BothLists
        /\ Cardinality(Names(rom))' = Cardinality(Names(rom))
    BY <2>1 DEF Unseen, StillNeeded, BothLists
  <2> QED BY <1>1, <1>2, <2>1, <2>2 DEF RoomInv
<1> QED BY <1>3, <1>4, <1>5, <1>6, <1>7

LEMMA RoomBegins == BootInit => RoomInv
<1> SUFFICES ASSUME BootInit PROVE RoomInv
  OBVIOUS
<1>1. /\ <<machine, rom>> \in Systems /\ stage = "probe" /\ romPhase = "search"
      /\ builder = << >> /\ rom \in Roms
  BY DEF BootInit, Rom!Init
<1>2. Unseen = Cardinality(Names(rom))
  <2>1. NamesOf(builder) = {} /\ Names(rom) \ {} = Names(rom)
    BY <1>1 DEF NamesOf
  <2> QED BY <2>1 DEF Unseen
<1>3. Len(builder) + Unseen = Cardinality(Names(rom))
  BY <1>1, <1>2, NamesCounted
<1> QED BY <1>1, <1>3 DEF RoomInv

LEMMA RoomStep ==
    ASSUME EnoughChip
    PROVE  UsedInv /\ UsedInv' /\ RoomInv /\ [BootNext]_bootVars => RoomInv'
<1> SUFFICES ASSUME UsedInv, UsedInv', RoomInv, [BootNext]_bootVars PROVE RoomInv'
  OBVIOUS
<1>1. machine' = machine
  BY MachineStays
<1>2. CASE BootNext
  BY <1>1, <1>2, RoomByStartup, RoomByStartup2 DEF BootNext
<1>3. CASE UNCHANGED bootVars
  <2>1. /\ pool' = pool /\ heaplist' = heaplist /\ stage' = stage /\ builder' = builder
        /\ rom' = rom /\ romPhase' = romPhase
    BY <1>3 DEF bootVars, memVars, romVars
  <2>2. Unseen' = Unseen /\ StillNeeded' = StillNeeded /\ BothLists' = BothLists
        /\ Cardinality(Names(rom))' = Cardinality(Names(rom))
    BY <2>1 DEF Unseen, StillNeeded, BothLists
  <2> QED BY <1>1, <2>1, <2>2 DEF RoomInv
<1> QED BY <1>2, <1>3

\* Where Chip RAM alone is enough for the ROM, every allocation that startup
\* does not look at is answered, startup does not stop for want of a stack,
\* and flatten does not follow a link that was written over.
THEOREM MemorySuffices ==
    ASSUME EnoughChip
    PROVE  BootSpec => []NeverWild
<1>1. BootSpec => []RoomInv
  BY RoomBegins, RoomStep, UsedInvariant, PTL DEF BootSpec
<1>2. RoomInv => NeverWild
  BY DEF RoomInv, NeverWild
<1> QED BY <1>1, <1>2, PTL

-----------------------------------------------------------------------------
(* Boot does what its components say.                                      *)

\* The composition is one of RamProbe and RomTags: boot begins as each of them
\* does, and each of its steps is a step of theirs or leaves theirs alone; the
\* memory taken in between never makes a probe or a resident do anything else.
LEMMA BootImplementsProbes == BootSpec => Init /\ [][Next]_probeVars
<1>1. BootInit => Init
  BY DEF BootInit
<1>2. [BootNext]_bootVars => [Next]_probeVars
  <2>1. Probe => Next
    BY DEF Probe
  <2>2. UNCHANGED bootVars => UNCHANGED probeVars
    BY DEF bootVars
  <2> QED BY <2>1, <2>2, ProbesAlone
<1> QED BY <1>1, <1>2, PTL DEF BootSpec

\* The same for the residents.
LEMMA BootImplementsResidents == BootSpec => Tags!Init /\ [][Tags!Next]_(Tags!romVars)
<1>1. BootInit => Tags!Init
  BY SameInit DEF BootInit
<1> QED BY <1>1, RomAlone, PTL DEF BootSpec
=============================================================================
