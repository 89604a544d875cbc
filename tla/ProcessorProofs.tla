-------------------------- MODULE ProcessorProofs --------------------------
(***************************************************************************)
(* Theorems about the two components in which the processor has a          *)
(* neighbour that takes no notice of it.  Disable and Enable, interrupted  *)
(* wherever they are: for every width of the counter, every number of      *)
(* interrupt levels and every depth of nesting that the counter can hold.  *)
(* RawDoFmt and RawMayGetChar, beside the serial port: for every number of *)
(* characters received; where format stays, for all patterns; and what is  *)
(* printed, for all formats whose directives are rendered as they mean.    *)
(***************************************************************************)
EXTENDS Nesting, Debugger, Lemmas

-----------------------------------------------------------------------------
(* Disable and Enable.                                                     *)

Stages == {"runs", "++", "mask", "--", "unmask"}
Frames == [pc : Stages, loaded : Int, held : Nat]

\* Of the first n frames, those at one of the given places.
AtOf(fs, n, places) == {i \in 1 .. n : fs[i].pc \in places}
Count(fs, n, places) == Cardinality(AtOf(fs, n, places))

\* The Disables that have raised the counter, of the first n frames, when
\* those below the n-th hold none.
Raised(fs, n) == fs[n].held + Count(fs, n, {"mask", "--"})

FramesOK ==
    /\ idnestcnt \in Int
    /\ master \in BOOLEAN
    /\ calls \in 0 .. Depth
    /\ frames \in Seq(Frames) /\ frames # << >>

\* The inductive invariant.  A frame that was interrupted is not inside a
\* Disable and an Enable of its own, or interrupts would have been off; a
\* value loaded is the one the counter has again when the handlers above have
\* returned; and interrupts are off only for a reason: the frame that runs
\* holds a Disable, or is about to call one's end, or one below has raised the
\* counter and comes to the register next.
NestingInv ==
    /\ FramesOK
    /\ \A i \in 1 .. (Top - 1) : frames[i].held = 0 /\ frames[i].pc \in {"runs", "++", "mask"}
    /\ \A i \in 1 .. Top : frames[i].pc \in {"++", "--"} => frames[i].loaded = Raised(frames, i) - 1
    /\ idnestcnt = Raised(frames, Top) - 1
    /\ calls = Running.held + Count(frames, Top, {"++", "mask"})
    /\ Running.held > 0 \/ Running.pc \in {"--", "unmask"} => ~master
    /\ Running.pc = "unmask" => idnestcnt < 0
    /\ /\ Running.pc \in {"runs", "++"} /\ Running.held = 0
       /\ \A i \in 1 .. (Top - 1) : frames[i].pc # "mask"
       => master

\* The frames at some places can be counted, and the count is 0 only if no
\* frame is there.
LEMMA CountNat ==
    ASSUME NEW fs, NEW n \in Nat, NEW places
    PROVE  /\ IsFiniteSet(AtOf(fs, n, places))
           /\ Count(fs, n, places) \in Nat
           /\ Count(fs, n, places) = 0 <=> \A i \in 1 .. n : fs[i].pc \notin places
<1>1. IsFiniteSet(1 .. n)
  BY FS_Interval
<1>2. IsFiniteSet(AtOf(fs, n, places))
  BY <1>1, FS_Subset DEF AtOf
<1>3. Count(fs, n, places) \in Nat
  BY <1>2, FS_CardinalityType DEF Count
<1>4. Count(fs, n, places) = 0 <=> AtOf(fs, n, places) = {}
  BY <1>2, FS_EmptySet DEF Count
<1> QED BY <1>2, <1>3, <1>4 DEF AtOf

\* A further frame counts for one if it is at one of the places.
LEMMA CountTop ==
    ASSUME NEW fs, NEW n \in Nat \ {0}, NEW places
    PROVE  Count(fs, n, places)
             = Count(fs, n - 1, places) + (IF fs[n].pc \in places THEN 1 ELSE 0)
<1>1. n - 1 \in Nat /\ IsFiniteSet(AtOf(fs, n - 1, places))
  BY CountNat
<1>2. n \notin AtOf(fs, n - 1, places)
  BY DEF AtOf
<1>3. CASE fs[n].pc \in places
  <2>1. AtOf(fs, n, places) = AtOf(fs, n - 1, places) \cup {n}
    BY <1>3 DEF AtOf
  <2> QED BY <1>1, <1>2, <1>3, <2>1, FS_AddElement DEF Count
<1>4. CASE fs[n].pc \notin places
  <2>1. AtOf(fs, n, places) = AtOf(fs, n - 1, places)
    BY <1>4 DEF AtOf
  <2> QED BY <1>1, <1>4, <2>1, CountNat DEF Count
<1> QED BY <1>3, <1>4

\* The frames at either of two places are those at each together.
LEMMA CountTwo ==
    ASSUME NEW fs, NEW n \in Nat, NEW a, NEW b, a # b
    PROVE  /\ Count(fs, n, {a, b}) = Count(fs, n, {a}) + Count(fs, n, {b})
           /\ Count(fs, n, {a}) \in Nat /\ Count(fs, n, {b}) \in Nat
<1> DEFINE A == AtOf(fs, n, {a})
           B == AtOf(fs, n, {b})
<1>1. AtOf(fs, n, {a, b}) = A \cup B /\ A \cap B = {}
  BY DEF AtOf
<1>2. IsFiniteSet(A) /\ IsFiniteSet(B) /\ Cardinality(A) \in Nat /\ Cardinality(B) \in Nat
  BY CountNat DEF Count
<1>3. Cardinality(A \cap B) = 0
  BY <1>1, FS_EmptySet
<1> HIDE DEF A, B
<1>4. Cardinality(A \cup B) = Cardinality(A) + Cardinality(B) - Cardinality(A \cap B)
  BY <1>2, FS_Union
<1>5. Cardinality(A \cup B) = Cardinality(A) + Cardinality(B)
  BY <1>2, <1>3, <1>4
<1> QED BY <1>1, <1>2, <1>5 DEF Count, A, B

\* Stacks that agree so far have as many frames at a place.
LEMMA CountSame ==
    ASSUME NEW fs, NEW gs, NEW n \in Nat, NEW places, \A i \in 1 .. n : gs[i] = fs[i]
    PROVE  Count(gs, n, places) = Count(fs, n, places)
BY DEF Count, AtOf

\* Nothing wraps: a counter between -1 and Depth - 1 is stored as it is.
LEMMA NoWrap ==
    ASSUME NEW n \in -1 .. (Depth - 1)
    PROVE  Wrap(n) = n
<1>1. Half \in Nat \ {0} /\ Depth \in Nat /\ Depth <= Half
  BY NestingAssumption
<1>2. n + Half \in 0 .. (2 * Half - 1)
  BY <1>1
<1>3. (n + Half) % (2 * Half) = n + Half
  BY <1>1, <1>2, SMT
<1> QED BY <1>1, <1>3 DEF Wrap

\* The frame at the top goes on: the frames below stay, and so does what is
\* counted of them.
LEMMA TopGoesOn ==
    ASSUME NestingInv, NEW f \in Frames, Becomes(f)
    PROVE  /\ Top \in Nat \ {0} /\ Top' = Top /\ Running \in Frames /\ Running' = f
           /\ frames' \in Seq(Frames) /\ frames' # << >>
           /\ \A i \in 1 .. (Top - 1) : frames'[i] = frames[i]
           /\ \A i \in 1 .. (Top - 1) : Raised(frames', i) = Raised(frames, i)
           /\ \A places : Count(frames, Top - 1, places) \in Nat
           /\ \A places : Count(frames, Top, places)
                = Count(frames, Top - 1, places) + (IF Running.pc \in places THEN 1 ELSE 0)
           /\ \A places : Count(frames', Top, places)
                = Count(frames, Top - 1, places) + (IF f.pc \in places THEN 1 ELSE 0)
<1>1. frames \in Seq(Frames) /\ frames # << >>
  BY DEF NestingInv, FramesOK
<1>2. Top \in Nat \ {0} /\ Running \in Frames /\ DOMAIN frames = 1 .. Top
  BY <1>1 DEF Top, Running
<1>3. frames' = [frames EXCEPT ![Top] = f]
  BY DEF Becomes
<1>4. /\ frames' \in Seq(Frames) /\ Len(frames') = Top
      /\ \A i \in 1 .. Top : frames'[i] = IF i = Top THEN f ELSE frames[i]
  BY <1>1, <1>2, <1>3, ExceptSeq DEF Top
<1>5. Top' = Top /\ Running' = f /\ frames' # << >>
  <2>1. Top' = Top
    BY <1>4 DEF Top
  <2>2. Running' = frames'[Top]
    BY <2>1 DEF Running
  <2>3. frames'[Top] = f
    BY <1>2, <1>4
  <2>4. frames' # << >>
    BY <1>2, <1>4, EmptySeq
  <2> QED BY <2>1, <2>2, <2>3, <2>4
<1>6. \A i \in 1 .. (Top - 1) : frames'[i] = frames[i]
  <2> TAKE i \in 1 .. (Top - 1)
  <2>1. i \in 1 .. Top /\ i # Top
    BY <1>2
  <2> QED BY <1>4, <2>1
<1>7. \A i \in 1 .. (Top - 1) : Raised(frames', i) = Raised(frames, i)
  <2> TAKE i \in 1 .. (Top - 1)
  <2>1. i \in Nat /\ \A j \in 1 .. i : frames'[j] = frames[j]
    BY <1>2, <1>6
  <2>2. Count(frames', i, {"mask", "--"}) = Count(frames, i, {"mask", "--"})
    BY <2>1, CountSame
  <2> QED BY <1>6, <2>2 DEF Raised
<1>8. ASSUME NEW places
      PROVE  /\ Count(frames, Top - 1, places) \in Nat
             /\ Count(frames, Top, places)
                  = Count(frames, Top - 1, places) + (IF Running.pc \in places THEN 1 ELSE 0)
             /\ Count(frames', Top, places)
                  = Count(frames, Top - 1, places) + (IF f.pc \in places THEN 1 ELSE 0)
  <2>1. Top - 1 \in Nat
    BY <1>2
  <2>2. Count(frames', Top - 1, places) = Count(frames, Top - 1, places)
    BY <1>6, <2>1, CountSame
  <2>3. frames'[Top] = f
    BY <1>2, <1>4
  <2>4. frames[Top] = Running
    BY DEF Running
  <2> QED BY <1>2, <2>1, <2>2, <2>3, <2>4, CountNat, CountTop
<1> QED BY <1>2, <1>4, <1>5, <1>6, <1>7, <1>8

\* What a step of the frame that runs has to see to: its own count, what it
\* loaded, and why interrupts are off.  The frames below keep what they have.
LEMMA TopKeepsInv ==
    ASSUME NestingInv, NEW f \in Frames, Becomes(f),
           idnestcnt' \in Int, master' \in BOOLEAN, calls' \in 0 .. Depth,
           f.pc \in {"++", "--"} => f.loaded = idnestcnt',
           idnestcnt' = f.held + Count(frames, Top - 1, {"mask", "--"})
                          + (IF f.pc \in {"mask", "--"} THEN 1 ELSE 0) - 1,
           calls' = f.held + Count(frames, Top - 1, {"++", "mask"})
                      + (IF f.pc \in {"++", "mask"} THEN 1 ELSE 0),
           f.held > 0 \/ f.pc \in {"--", "unmask"} => ~master',
           f.pc = "unmask" => idnestcnt' < 0,
           /\ f.pc \in {"runs", "++"} /\ f.held = 0
           /\ \A i \in 1 .. (Top - 1) : frames[i].pc # "mask"
           => master'
    PROVE  NestingInv'
<1>1. /\ Top \in Nat \ {0} /\ Top' = Top /\ Running' = f
      /\ frames' \in Seq(Frames) /\ frames' # << >>
      /\ \A i \in 1 .. (Top - 1) : frames'[i] = frames[i]
      /\ \A i \in 1 .. (Top - 1) : Raised(frames', i) = Raised(frames, i)
      /\ \A places : Count(frames', Top, places)
           = Count(frames, Top - 1, places) + (IF f.pc \in places THEN 1 ELSE 0)
      /\ \A places : Count(frames, Top - 1, places) \in Nat
  BY TopGoesOn
<1>2. frames'[Top] = f
  BY <1>1 DEF Running
<1>3. FramesOK'
  BY <1>1 DEF FramesOK
<1>4. f.held \in Nat
  BY DEF Frames
<1>5. Raised(frames', Top) = idnestcnt' + 1
  <2>1. Raised(frames', Top) = f.held + Count(frames', Top, {"mask", "--"})
    BY <1>2 DEF Raised
  <2>2. Count(frames', Top, {"mask", "--"}) = Count(frames, Top - 1, {"mask", "--"})
          + (IF f.pc \in {"mask", "--"} THEN 1 ELSE 0)
    BY <1>1
  <2>3. Count(frames, Top - 1, {"mask", "--"}) \in Nat
    BY <1>1
  <2> QED BY <1>4, <2>1, <2>2, <2>3
<1>6. calls' = f.held + Count(frames', Top, {"++", "mask"})
  <2>1. Count(frames', Top, {"++", "mask"}) = Count(frames, Top - 1, {"++", "mask"})
          + (IF f.pc \in {"++", "mask"} THEN 1 ELSE 0)
    BY <1>1
  <2>2. Count(frames, Top - 1, {"++", "mask"}) \in Nat
    BY <1>1
  <2> QED BY <1>4, <2>1, <2>2
<1>7. \A i \in 1 .. (Top' - 1) : frames'[i].held = 0 /\ frames'[i].pc \in {"runs", "++", "mask"}
  BY <1>1 DEF NestingInv
<1>8. ASSUME NEW i \in 1 .. Top', frames'[i].pc \in {"++", "--"}
      PROVE  frames'[i].loaded = Raised(frames', i) - 1
  <2>1. CASE i = Top
    BY <1>2, <1>5, <1>8, <2>1
  <2>2. CASE i # Top
    <3>1. i \in 1 .. (Top - 1) /\ i \in 1 .. Top
      BY <1>1, <2>2
    <3> QED BY <1>1, <1>8, <3>1 DEF NestingInv
  <2> QED BY <2>1, <2>2
<1>9. \A i \in 1 .. (Top' - 1) : frames'[i].pc # "mask" <=> frames[i].pc # "mask"
  BY <1>1
<1>10. idnestcnt' = Raised(frames', Top') - 1
  BY <1>1, <1>5
<1> QED BY <1>1, <1>3, <1>6, <1>7, <1>8, <1>9, <1>10 DEF NestingInv

\* What the invariant says of the frame that runs, with the frames below it
\* counted apart: those that have raised the counter are about to clear the
\* master bit, and they are some of those whose Disable has begun.
LEMMA AtTheTop ==
    ASSUME NestingInv
    PROVE  LET below == Count(frames, Top - 1, {"mask", "--"})
               begun == Count(frames, Top - 1, {"++", "mask"})
           IN  /\ Top \in Nat \ {0} /\ Running \in Frames
               /\ below \in Nat /\ begun \in Nat /\ below <= begun
               /\ below = 0 <=> \A i \in 1 .. (Top - 1) : frames[i].pc # "mask"
               /\ idnestcnt = Running.held + below
                                + (IF Running.pc \in {"mask", "--"} THEN 1 ELSE 0) - 1
               /\ calls = Running.held + begun
                            + (IF Running.pc \in {"++", "mask"} THEN 1 ELSE 0)
               /\ Running.pc \in {"++", "--"} => Running.loaded = idnestcnt
               /\ idnestcnt \in Int /\ calls \in 0 .. Depth /\ master \in BOOLEAN
<1> DEFINE below == Count(frames, Top - 1, {"mask", "--"})
           begun == Count(frames, Top - 1, {"++", "mask"})
<1>1. frames \in Seq(Frames) /\ frames # << >>
  BY DEF NestingInv, FramesOK
<1>2. Top \in Nat \ {0} /\ Running \in Frames /\ Top - 1 \in Nat
  BY <1>1 DEF Top, Running
<1>3. below \in Nat /\ begun \in Nat
  BY <1>2, CountNat
<1>4. \A i \in 1 .. (Top - 1) : frames[i].pc \in {"runs", "++", "mask"}
  BY DEF NestingInv
<1>5. below <= begun
  <2>1. AtOf(frames, Top - 1, {"mask", "--"}) \subseteq AtOf(frames, Top - 1, {"++", "mask"})
    BY <1>4 DEF AtOf
  <2>2. IsFiniteSet(AtOf(frames, Top - 1, {"++", "mask"}))
    BY <1>2, CountNat
  <2> QED BY <2>1, <2>2, FS_Subset DEF Count
<1>6. below = 0 <=> \A i \in 1 .. (Top - 1) : frames[i].pc # "mask"
  <2>1. below = 0 <=> \A i \in 1 .. (Top - 1) : frames[i].pc \notin {"mask", "--"}
    BY <1>2, CountNat
  <2> QED BY <1>4, <2>1
<1>7. frames[Top] = Running
  BY DEF Running
<1>8. /\ Count(frames, Top, {"mask", "--"})
            = below + (IF Running.pc \in {"mask", "--"} THEN 1 ELSE 0)
      /\ Count(frames, Top, {"++", "mask"})
            = begun + (IF Running.pc \in {"++", "mask"} THEN 1 ELSE 0)
  BY <1>2, <1>7, CountTop
<1>9. Running.held \in Nat
  BY <1>2 DEF Frames
<1>10. Raised(frames, Top) = Running.held + (below + (IF Running.pc \in {"mask", "--"} THEN 1 ELSE 0))
  BY <1>7, <1>8 DEF Raised
<1>11. idnestcnt = Raised(frames, Top) - 1 /\ calls = Running.held + Count(frames, Top, {"++", "mask"})
  BY DEF NestingInv
<1>12. Running.pc \in {"++", "--"} => Running.loaded = idnestcnt
  <2>1. Top \in 1 .. Top
    BY <1>2
  <2> QED BY <1>7, <1>11, <2>1 DEF NestingInv
<1>13. idnestcnt \in Int /\ calls \in 0 .. Depth /\ master \in BOOLEAN
  BY DEF NestingInv, FramesOK
<1>14. idnestcnt = Running.held + below + (IF Running.pc \in {"mask", "--"} THEN 1 ELSE 0) - 1
  BY <1>3, <1>9, <1>10, <1>11
<1>15. calls = Running.held + begun + (IF Running.pc \in {"++", "mask"} THEN 1 ELSE 0)
  BY <1>3, <1>8, <1>9, <1>11
<1> QED BY <1>2, <1>3, <1>5, <1>6, <1>12, <1>13, <1>14, <1>15

\* Every step of Disable keeps the invariant ...
LEMMA DisableSteps ==
    ASSUME NestingInv, DisableCall \/ DisableCount \/ DisableMask
    PROVE  NestingInv'
<1> DEFINE below == Count(frames, Top - 1, {"mask", "--"})
           begun == Count(frames, Top - 1, {"++", "mask"})
<1>1. /\ Top \in Nat \ {0} /\ Running \in Frames
      /\ below \in Nat /\ begun \in Nat /\ below <= begun
      /\ below = 0 <=> \A i \in 1 .. (Top - 1) : frames[i].pc # "mask"
      /\ idnestcnt = Running.held + below + (IF Running.pc \in {"mask", "--"} THEN 1 ELSE 0) - 1
      /\ calls = Running.held + begun + (IF Running.pc \in {"++", "mask"} THEN 1 ELSE 0)
      /\ Running.pc \in {"++", "--"} => Running.loaded = idnestcnt
      /\ idnestcnt \in Int /\ calls \in 0 .. Depth /\ master \in BOOLEAN
  BY AtTheTop
<1>2. Running.held \in Nat /\ Depth \in Nat /\ Depth > 0
  BY <1>1, NestingAssumption DEF Frames
<1>3. Running.held > 0 \/ Running.pc \in {"--", "unmask"} => ~master
  BY DEF NestingInv
<1>4. /\ Running.pc \in {"runs", "++"} /\ Running.held = 0
      /\ \A i \in 1 .. (Top - 1) : frames[i].pc # "mask"
      => master
  BY DEF NestingInv
<1> HIDE DEF below, begun
<1>5. CASE DisableCall
  <2> DEFINE f == Frame("++", idnestcnt, Running.held)
  <2>1. f \in Frames /\ f.pc = "++" /\ f.held = Running.held /\ f.loaded = idnestcnt
    BY <1>1, <1>2 DEF Frame, Frames, Stages
  <2>2. /\ Becomes(f) /\ Running.pc = "runs" /\ calls < Depth /\ calls' = calls + 1
        /\ idnestcnt' = idnestcnt /\ master' = master
    BY <1>5 DEF DisableCall
  <2> HIDE DEF f
  <2>3. calls' \in 0 .. Depth
    BY <1>1, <1>2, <2>2
  <2>4. /\ idnestcnt' = f.held + below + (IF f.pc \in {"mask", "--"} THEN 1 ELSE 0) - 1
        /\ calls' = f.held + begun + (IF f.pc \in {"++", "mask"} THEN 1 ELSE 0)
    BY <1>1, <1>2, <2>1, <2>2
  <2> QED BY <1>1, <1>3, <1>4, <2>1, <2>2, <2>3, <2>4, TopKeepsInv DEF below, begun
<1>6. CASE DisableCount
  <2> DEFINE f == Frame("mask", 0, Running.held)
  <2>1. f \in Frames /\ f.pc = "mask" /\ f.held = Running.held
    BY <1>1, <1>2 DEF Frame, Frames, Stages
  <2>2. /\ Becomes(f) /\ Running.pc = "++" /\ idnestcnt' = Wrap(Running.loaded + 1)
        /\ master' = master /\ calls' = calls
    BY <1>6 DEF DisableCount
  <2> HIDE DEF f
  <2>3. Running.loaded + 1 = Running.held + below
    BY <1>1, <1>2, <2>2
  <2>4. Running.held + below \in -1 .. (Depth - 1)
    BY <1>1, <1>2, <2>2
  <2>5. idnestcnt' = Running.held + below
    BY <2>2, <2>3, <2>4, NoWrap
  <2>6. /\ idnestcnt' = f.held + below + (IF f.pc \in {"mask", "--"} THEN 1 ELSE 0) - 1
        /\ calls' = f.held + begun + (IF f.pc \in {"++", "mask"} THEN 1 ELSE 0)
        /\ idnestcnt' \in Int
    BY <1>1, <1>2, <2>1, <2>2, <2>5
  <2> QED BY <1>1, <1>3, <2>1, <2>2, <2>6, TopKeepsInv DEF below, begun
<1>7. CASE DisableMask
  <2> DEFINE f == Frame("runs", 0, Running.held + 1)
  <2>1. f \in Frames /\ f.pc = "runs" /\ f.held = Running.held + 1
    BY <1>1, <1>2 DEF Frame, Frames, Stages
  <2>2. /\ Becomes(f) /\ Running.pc = "mask" /\ ~master'
        /\ idnestcnt' = idnestcnt /\ calls' = calls
    BY <1>7 DEF DisableMask
  <2>3. master' \in BOOLEAN
    BY <1>7 DEF DisableMask
  <2> HIDE DEF f
  <2>4. /\ idnestcnt' = f.held + below + (IF f.pc \in {"mask", "--"} THEN 1 ELSE 0) - 1
        /\ calls' = f.held + begun + (IF f.pc \in {"++", "mask"} THEN 1 ELSE 0)
    BY <1>1, <1>2, <2>1, <2>2
  <2>5. f.held # 0
    BY <1>2, <2>1
  <2> QED BY <1>1, <2>1, <2>2, <2>3, <2>4, <2>5, TopKeepsInv DEF below, begun
<1> QED BY <1>5, <1>6, <1>7

\* ... and every step of Enable ...
LEMMA EnableSteps ==
    ASSUME NestingInv, EnableCall \/ EnableCount \/ EnableMask
    PROVE  NestingInv'
<1> DEFINE below == Count(frames, Top - 1, {"mask", "--"})
           begun == Count(frames, Top - 1, {"++", "mask"})
<1>1. /\ Top \in Nat \ {0} /\ Running \in Frames
      /\ below \in Nat /\ begun \in Nat /\ below <= begun
      /\ below = 0 <=> \A i \in 1 .. (Top - 1) : frames[i].pc # "mask"
      /\ idnestcnt = Running.held + below + (IF Running.pc \in {"mask", "--"} THEN 1 ELSE 0) - 1
      /\ calls = Running.held + begun + (IF Running.pc \in {"++", "mask"} THEN 1 ELSE 0)
      /\ Running.pc \in {"++", "--"} => Running.loaded = idnestcnt
      /\ idnestcnt \in Int /\ calls \in 0 .. Depth /\ master \in BOOLEAN
  BY AtTheTop
<1>2. Running.held \in Nat /\ Depth \in Nat /\ Depth > 0
  BY <1>1, NestingAssumption DEF Frames
<1>3. Running.held > 0 \/ Running.pc \in {"--", "unmask"} => ~master
  BY DEF NestingInv
<1>4. /\ Running.pc \in {"runs", "++"} /\ Running.held = 0
      /\ \A i \in 1 .. (Top - 1) : frames[i].pc # "mask"
      => master
  BY DEF NestingInv
<1> HIDE DEF below, begun
<1>5. CASE EnableCall
  <2> DEFINE f == Frame("--", idnestcnt, Running.held - 1)
  <2>1. /\ Becomes(f) /\ Running.pc = "runs" /\ Running.held > 0 /\ calls' = calls - 1
        /\ idnestcnt' = idnestcnt /\ master' = master
    BY <1>5 DEF EnableCall
  <2>2. Running.held - 1 \in Nat
    BY <1>2, <2>1
  <2>3. f \in Frames /\ f.pc = "--" /\ f.held = Running.held - 1 /\ f.loaded = idnestcnt
    BY <1>1, <2>2 DEF Frame, Frames, Stages
  <2> HIDE DEF f
  <2>4. /\ idnestcnt' = f.held + below + (IF f.pc \in {"mask", "--"} THEN 1 ELSE 0) - 1
        /\ calls' = f.held + begun + (IF f.pc \in {"++", "mask"} THEN 1 ELSE 0)
        /\ calls' \in 0 .. Depth
    BY <1>1, <1>2, <2>1, <2>3
  <2> QED BY <1>1, <1>3, <2>1, <2>3, <2>4, TopKeepsInv DEF below, begun
<1>6. CASE EnableCount
  <2> DEFINE f == Frame(IF idnestcnt' < 0 THEN "unmask" ELSE "runs", 0, Running.held)
  <2>1. f \in Frames /\ f.pc = (IF idnestcnt' < 0 THEN "unmask" ELSE "runs") /\ f.held = Running.held
    BY <1>1, <1>2 DEF Frame, Frames, Stages
  <2>2. /\ Becomes(f) /\ Running.pc = "--" /\ idnestcnt' = Wrap(Running.loaded - 1)
        /\ master' = master /\ calls' = calls
    BY <1>6 DEF EnableCount
  <2> HIDE DEF f
  <2>3. Running.loaded - 1 = Running.held + below - 1
    BY <1>1, <1>2, <2>2
  <2>4. Running.held + below - 1 \in -1 .. (Depth - 1)
    BY <1>1, <1>2, <2>2
  <2>5. idnestcnt' = Running.held + below - 1
    BY <2>2, <2>3, <2>4, NoWrap
  <2>6. /\ idnestcnt' = f.held + below + (IF f.pc \in {"mask", "--"} THEN 1 ELSE 0) - 1
        /\ calls' = f.held + begun + (IF f.pc \in {"++", "mask"} THEN 1 ELSE 0)
        /\ idnestcnt' \in Int
    BY <1>1, <1>2, <2>1, <2>2, <2>5
  <2>7. ~master'
    BY <1>3, <2>2
  <2>8. f.pc = "runs" /\ f.held = 0 => below # 0
    BY <1>1, <1>2, <2>1, <2>5
  <2>9. f.pc \notin {"++", "--"} /\ (f.pc = "unmask" => idnestcnt' < 0)
    BY <2>1
  <2> QED BY <1>1, <2>1, <2>2, <2>6, <2>7, <2>8, <2>9, TopKeepsInv DEF below, begun
<1>7. CASE EnableMask
  <2> DEFINE f == Frame("runs", 0, Running.held)
  <2>1. f \in Frames /\ f.pc = "runs" /\ f.held = Running.held
    BY <1>1, <1>2 DEF Frame, Frames, Stages
  <2>2. /\ Becomes(f) /\ Running.pc = "unmask" /\ master' = TRUE
        /\ idnestcnt' = idnestcnt /\ calls' = calls
    BY <1>7 DEF EnableMask
  <2> HIDE DEF f
  <2>3. idnestcnt < 0
    BY <2>2 DEF NestingInv
  <2>4. ~(f.held > 0)
    BY <1>1, <1>2, <2>1, <2>2, <2>3
  <2>5. /\ idnestcnt' = f.held + below + (IF f.pc \in {"mask", "--"} THEN 1 ELSE 0) - 1
        /\ calls' = f.held + begun + (IF f.pc \in {"++", "mask"} THEN 1 ELSE 0)
    BY <1>1, <1>2, <2>1, <2>2
  <2> QED BY <1>1, <2>1, <2>2, <2>4, <2>5, TopKeepsInv DEF below, begun
<1> QED BY <1>5, <1>6, <1>7

\* ... and an interrupt, which finds no Disable held where it comes, ...
LEMMA InterruptStep ==
    ASSUME NestingInv, Interrupt
    PROVE  NestingInv'
<1> DEFINE h == Frame("runs", 0, 0)
           raising == {"mask", "--"}
           begun == {"++", "mask"}
<1>1. /\ master /\ frames' = Append(frames, h)
      /\ idnestcnt' = idnestcnt /\ master' = master /\ calls' = calls
  BY DEF Interrupt
<1>2. h \in Frames /\ h.pc = "runs" /\ h.held = 0
  BY DEF Frame, Frames, Stages
<1> HIDE DEF h
<1>3. /\ frames \in Seq(Frames) /\ Top \in Nat \ {0} /\ Running \in Frames
      /\ frames[Top] = Running /\ idnestcnt \in Int
  BY AtTheTop DEF NestingInv, FramesOK, Running
<1>4. /\ frames' \in Seq(Frames) /\ Len(frames') = Top + 1 /\ frames'[Top + 1] = h
      /\ \A i \in 1 .. Top : frames'[i] = frames[i]
  BY <1>1, <1>2, <1>3, AppendProperties DEF Top
<1>5. Top' = Top + 1 /\ Running' = h /\ frames' # << >>
  <2>1. Top' = Top + 1
    BY <1>4 DEF Top
  <2>2. Running' = frames'[Top + 1]
    BY <2>1 DEF Running
  <2> QED BY <1>3, <1>4, <2>1, <2>2, EmptySeq
<1>6. Running.held = 0 /\ Running.pc \in {"runs", "++", "mask"}
  <2>1. ~(Running.held > 0) /\ Running.pc \notin {"--", "unmask"}
    BY <1>1 DEF NestingInv
  <2> QED BY <1>3, <2>1 DEF Frames, Stages
<1>7. \A i \in 1 .. Top : frames'[i].held = 0 /\ frames'[i].pc \in {"runs", "++", "mask"}
  <2> TAKE i \in 1 .. Top
  <2>1. CASE i = Top
    BY <1>3, <1>4, <1>6, <2>1
  <2>2. CASE i # Top
    <3>1. i \in 1 .. (Top - 1)
      BY <1>3, <2>2
    <3> QED BY <1>4, <3>1 DEF NestingInv
  <2> QED BY <2>1, <2>2
<1>8. \A i \in 1 .. Top : Raised(frames', i) = Raised(frames, i)
  <2> TAKE i \in 1 .. Top
  <2>1. i \in Nat /\ \A j \in 1 .. i : frames'[j] = frames[j]
    BY <1>3, <1>4
  <2>2. Count(frames', i, raising) = Count(frames, i, raising)
    BY <2>1, CountSame
  <2> QED BY <1>4, <2>2 DEF Raised
<1>9. ASSUME NEW places, "runs" \notin places
      PROVE  Count(frames', Top + 1, places) = Count(frames, Top, places)
  <2>1. Count(frames', Top + 1, places) = Count(frames', (Top + 1) - 1, places)
          + (IF h.pc \in places THEN 1 ELSE 0)
    <3>1. Top + 1 \in Nat \ {0} /\ frames'[Top + 1] = h
      BY <1>3, <1>4
    <3> HIDE DEF h
    <3> QED BY ONLY <3>1, CountTop
  <2>2. (Top + 1) - 1 = Top /\ h.pc \notin places
    BY <1>2, <1>3, <1>9
  <2>3. Count(frames', Top, places) = Count(frames, Top, places)
    BY <1>3, <1>4, CountSame
  <2>4. Count(frames, Top, places) \in Nat
    BY <1>3, CountNat
  <2> QED BY <2>1, <2>2, <2>3, <2>4
<1>10. Raised(frames', Top + 1) = Raised(frames, Top)
  <2>1. Count(frames', Top + 1, raising) = Count(frames, Top, raising)
    BY <1>9
  <2> QED BY <1>2, <1>3, <1>4, <1>6, <2>1 DEF Raised
<1>11. calls' = h.held + Count(frames', Top + 1, begun)
  <2>1. Count(frames', Top + 1, begun) = Count(frames, Top, begun)
    BY <1>9
  <2> QED BY <1>1, <1>2, <1>6, <2>1 DEF NestingInv
<1>12. \A i \in 1 .. (Top + 1) : frames'[i].pc \in {"++", "--"} =>
           frames'[i].loaded = Raised(frames', i) - 1
  <2> TAKE i \in 1 .. (Top + 1)
  <2>1. CASE i = Top + 1
    BY <1>2, <1>4, <2>1
  <2>2. CASE i # Top + 1
    <3>1. i \in 1 .. Top
      BY <1>3, <2>2
    <3> QED BY <1>4, <1>8, <3>1 DEF NestingInv
  <2> QED BY <2>1, <2>2
<1>13. idnestcnt' = Raised(frames', Top + 1) - 1
  BY <1>1, <1>10 DEF NestingInv
<1>14. FramesOK'
  BY <1>1, <1>4, <1>5 DEF NestingInv, FramesOK
<1>15. (Top + 1) - 1 = Top
  BY <1>3
<1>16. /\ \A i \in 1 .. (Top' - 1) : frames'[i].held = 0 /\ frames'[i].pc \in {"runs", "++", "mask"}
       /\ \A i \in 1 .. Top' : frames'[i].pc \in {"++", "--"} => frames'[i].loaded = Raised(frames', i) - 1
       /\ idnestcnt' = Raised(frames', Top') - 1
       /\ calls' = Running'.held + Count(frames', Top', begun)
  BY <1>5, <1>7, <1>11, <1>12, <1>13, <1>15
<1>17. ~(Running'.held > 0) /\ Running'.pc = "runs" /\ master'
  BY <1>1, <1>2, <1>5
<1> QED BY <1>14, <1>16, <1>17 DEF NestingInv

\* ... and the return of a handler, which leaves the counter as it found it.
LEMMA ReturnStep ==
    ASSUME NestingInv, Return
    PROVE  NestingInv'
<1> DEFINE n == Top - 1
           raising == {"mask", "--"}
           begun == {"++", "mask"}
<1>1. /\ Top > 1 /\ Running.pc = "runs" /\ Running.held = 0
      /\ frames' = SubSeq(frames, 1, n)
      /\ idnestcnt' = idnestcnt /\ master' = master /\ calls' = calls
  BY DEF Return
<1>2. /\ frames \in Seq(Frames) /\ Top \in Nat /\ frames[Top] = Running
  BY AtTheTop DEF NestingInv, FramesOK, Running
<1>3. n \in Nat \ {0} /\ n <= Top /\ Top = n + 1
  BY <1>1, <1>2
<1>4. /\ frames' \in Seq(Frames) /\ Len(frames') = n
      /\ \A i \in 1 .. n : frames'[i] = frames[i]
  BY <1>1, <1>2, <1>3, SubSeqProperties DEF Top
<1>5. Top' = n /\ Running' = frames[n] /\ frames' # << >>
  <2>1. Top' = n
    BY <1>4 DEF Top
  <2>2. Running' = frames'[n]
    BY <2>1 DEF Running
  <2> QED BY <1>3, <1>4, <2>1, <2>2, EmptySeq
<1> HIDE DEF n
<1>6. \A i \in 1 .. n : frames[i].held = 0 /\ frames[i].pc \in {"runs", "++", "mask"}
  BY DEF NestingInv, n
<1>7. \A i \in 1 .. n : Raised(frames', i) = Raised(frames, i)
  <2> TAKE i \in 1 .. n
  <2>1. i \in Nat /\ \A j \in 1 .. i : frames'[j] = frames[j]
    BY <1>3, <1>4
  <2>2. Count(frames', i, raising) = Count(frames, i, raising)
    BY <2>1, CountSame
  <2> QED BY <1>4, <2>2 DEF Raised
<1>8. ASSUME NEW places, "runs" \notin places
      PROVE  Count(frames', n, places) = Count(frames, Top, places)
  <2>1. Count(frames, Top, places) = Count(frames, Top - 1, places)
          + (IF frames[Top].pc \in places THEN 1 ELSE 0)
    BY <1>2, <1>3, CountTop
  <2>2. Top - 1 = n /\ frames[Top].pc \notin places
    BY <1>1, <1>2, <1>3, <1>8
  <2>3. Count(frames', n, places) = Count(frames, n, places)
    BY <1>3, <1>4, CountSame
  <2>4. Count(frames, n, places) \in Nat
    BY <1>3, CountNat
  <2> QED BY <2>1, <2>2, <2>3, <2>4
<1>9. n \in 1 .. n
  BY <1>3
<1>10. idnestcnt' = Raised(frames', n) - 1
  <2>1. Count(frames', n, raising) = Count(frames, Top, raising)
    BY <1>8
  <2>2. Raised(frames', n) = Raised(frames, Top)
    BY <1>1, <1>2, <1>4, <1>6, <1>9, <2>1 DEF Raised
  <2> QED BY <1>1, <2>2 DEF NestingInv
<1>11. calls' = Running'.held + Count(frames', n, begun)
  <2>1. Count(frames', n, begun) = Count(frames, Top, begun)
    BY <1>8
  <2> QED BY <1>1, <1>5, <1>6, <1>9, <2>1 DEF NestingInv
<1>12. FramesOK'
  BY <1>1, <1>4, <1>5 DEF NestingInv, FramesOK
<1>13. \A i \in 1 .. n : frames'[i].pc \in {"++", "--"} => frames'[i].loaded = Raised(frames', i) - 1
  <2>1. \A i \in 1 .. n : i \in 1 .. Top
    BY <1>3
  <2> QED BY <1>4, <1>7, <2>1 DEF NestingInv
<1>14. ~(Running'.held > 0) /\ Running'.pc \notin {"--", "unmask"}
  BY <1>5, <1>6, <1>9
<1>15. ASSUME Running'.pc \in {"runs", "++"},
              \A i \in 1 .. (n - 1) : frames'[i].pc # "mask"
       PROVE  master'
  <2>1. \A i \in 1 .. n : frames[i].pc # "mask"
    <3> TAKE i \in 1 .. n
    <3>1. CASE i = n
      BY <1>5, <1>15, <3>1
    <3>2. CASE i # n
      <4>1. i \in 1 .. (n - 1)
        BY <1>3, <3>2
      <4> QED BY <1>4, <1>15, <4>1
    <3> QED BY <3>1, <3>2
  <2>2. \A i \in 1 .. (Top - 1) : frames[i].pc # "mask"
    BY <2>1 DEF n
  <2>3. master
    BY <1>1, <2>2 DEF NestingInv
  <2> QED BY <1>1, <2>3
<1>16. \A i \in 1 .. (n - 1) : i \in 1 .. n
  BY <1>3
<1>17. /\ \A i \in 1 .. (Top' - 1) : frames'[i].held = 0 /\ frames'[i].pc \in {"runs", "++", "mask"}
       /\ \A i \in 1 .. Top' : frames'[i].pc \in {"++", "--"} => frames'[i].loaded = Raised(frames', i) - 1
       /\ idnestcnt' = Raised(frames', Top') - 1
       /\ calls' = Running'.held + Count(frames', Top', begun)
  BY <1>4, <1>5, <1>6, <1>10, <1>11, <1>13, <1>16
<1> QED BY <1>5, <1>12, <1>14, <1>15, <1>17 DEF NestingInv

\* The boot code's one Disable.
LEMMA NestingBegins ==
    ASSUME NestingInit
    PROVE  NestingInv
<1> DEFINE f == Frame("runs", 0, 1)
<1>1. f \in Frames /\ f.pc = "runs" /\ f.held = 1
  BY DEF Frame, Frames, Stages
<1>2. frames = << f >> /\ idnestcnt = 0 /\ master = FALSE /\ calls = 1
  BY DEF NestingInit
<1> HIDE DEF f
<1>3. frames \in Seq(Frames) /\ Len(frames) = 1 /\ frames # << >> /\ frames[1] = f
  BY <1>1, <1>2
<1>4. Top = 1 /\ Running = f
  BY <1>3 DEF Top, Running
<1>5. calls \in 0 .. Depth
  BY <1>2, NestingAssumption
<1>6. \A places : "runs" \notin places => Count(frames, 1, places) = 0
  <2> SUFFICES ASSUME NEW places, "runs" \notin places
               PROVE  Count(frames, 1, places) = 0
    OBVIOUS
  <2>1. \A i \in 1 .. 1 : frames[i].pc \notin places
    BY <1>1, <1>3
  <2> QED BY <2>1, CountNat
<1>7. Count(frames, 1, {"mask", "--"}) = 0 /\ Count(frames, 1, {"++", "mask"}) = 0
  BY <1>6
<1>8. Raised(frames, 1) = 1
  BY <1>1, <1>3, <1>7 DEF Raised
<1>9. FramesOK
  <2>1. master \in BOOLEAN
    BY <1>2, Zenon
  <2>2. idnestcnt \in Int
    BY <1>2
  <2> QED BY <1>3, <1>5, <2>1, <2>2, Zenon DEF FramesOK
<1>10. (1 - 1) = 0 /\ 1 .. 0 = {} /\ 1 .. 1 = {1}
  OBVIOUS
<1> QED BY <1>1, <1>2, <1>3, <1>4, <1>7, <1>8, <1>9, <1>10 DEF NestingInv

\* Every reachable state satisfies the invariant.
THEOREM NestingInvariant == NestingSpec => []NestingInv
<1>1. NestingInit => NestingInv
  BY NestingBegins
<1>2. NestingInv /\ [NestingNext]_nestingVars => NestingInv'
  <2> SUFFICES ASSUME NestingInv, [NestingNext]_nestingVars
               PROVE  NestingInv'
    OBVIOUS
  <2>1. CASE DisableCall \/ DisableCount \/ DisableMask
    BY <2>1, DisableSteps
  <2>2. CASE EnableCall \/ EnableCount \/ EnableMask
    BY <2>2, EnableSteps
  <2>3. CASE Interrupt
    BY <2>3, InterruptStep
  <2>4. CASE Return
    BY <2>4, ReturnStep
  <2>5. CASE UNCHANGED nestingVars
    BY <2>5 DEF nestingVars, NestingInv, FramesOK, Top, Running
  <2> QED BY <2>1, <2>2, <2>3, <2>4, <2>5 DEF NestingNext
<1> QED BY <1>1, <1>2, PTL DEF NestingSpec

\* Between the return of a Disable and the call of its Enable no interrupt
\* comes: who holds a Disable is the one that runs, and the master bit is off.
THEOREM NoInterruptWhileDisabled == NestingSpec => []DisabledMeansOff
<1>1. NestingInv => DisabledMeansOff
  <2> SUFFICES ASSUME NestingInv, NEW i \in DOMAIN frames, frames[i].held > 0
               PROVE  ~master /\ i = Top
    BY DEF DisabledMeansOff
  <2>1. Top \in Nat \ {0} /\ i \in 1 .. Top
    BY AtTheTop DEF NestingInv, FramesOK, Top
  <2>2. i = Top
    <3>1. \A j \in 1 .. (Top - 1) : frames[j].held = 0
      BY DEF NestingInv
    <3> QED BY <2>1, <3>1
  <2> QED BY <2>2 DEF NestingInv, Running
<1> QED BY <1>1, NestingInvariant, PTL

\* The counter is one less than the Disables it has been raised for, wherever
\* handlers cut in, and interrupts are on exactly when there is none and nobody
\* is inside Disable or Enable.
THEOREM CounterCounts == NestingSpec => []CountTellsNesting
<1>1. NestingInv => CountTellsNesting
  <2> SUFFICES ASSUME NestingInv
               PROVE  CountTellsNesting
    OBVIOUS
  <2>1. /\ Top \in Nat \ {0} /\ DOMAIN frames = 1 .. Top /\ Running \in Frames
        /\ Running.held \in Nat /\ frames[Top] = Running
        /\ idnestcnt \in Int /\ calls \in Nat
    <3>1. /\ Top \in Nat \ {0} /\ Running \in Frames
          /\ idnestcnt \in Int /\ calls \in 0 .. Depth
      BY AtTheTop
    <3>2. frames \in Seq(Frames) /\ DOMAIN frames = 1 .. Top
      BY DEF NestingInv, FramesOK, Top
    <3>3. calls \in Nat
      BY <3>1, NestingAssumption
    <3>4. Running.held \in Nat
      BY <3>1 DEF Frames
    <3>5. frames[Top] = Running
      BY DEF Running
    <3> QED BY <3>1, <3>2, <3>3, <3>4, <3>5
  <2>2. \A places : At(places) = AtOf(frames, Top, places)
    BY <2>1 DEF At, AtOf
  <2> DEFINE both == Count(frames, Top, {"mask", "--"})
             begun == Count(frames, Top, {"++", "mask"})
             plus == Count(frames, Top, {"++"})
             mask == Count(frames, Top, {"mask"})
             minus == Count(frames, Top, {"--"})
  <2>3. \A a, b : a # b =>
          /\ Count(frames, Top, {a, b}) = Count(frames, Top, {a}) + Count(frames, Top, {b})
          /\ Count(frames, Top, {a}) \in Nat /\ Count(frames, Top, {b}) \in Nat
    <3>1. Top \in Nat
      BY <2>1
    <3> QED BY <3>1, CountTwo
  <2>4. both = mask + minus /\ begun = plus + mask /\ plus \in Nat /\ mask \in Nat /\ minus \in Nat
    <3>1. "mask" # "--" /\ "++" # "mask"
      OBVIOUS
    <3>2. both = mask + minus /\ mask \in Nat /\ minus \in Nat
      BY <2>3, <3>1
    <3>3. begun = plus + mask /\ plus \in Nat
      BY <2>3, <3>1
    <3> QED BY <3>2, <3>3
  <2>5. idnestcnt = (Running.held + both) - 1
    BY <2>1 DEF NestingInv, Raised
  <2>6. calls = Running.held + begun
    BY DEF NestingInv
  <2>7. Cardinality(At({"++"})) = plus /\ Cardinality(At({"--"})) = minus
    BY <2>2 DEF Count
  <2> HIDE DEF both, begun, plus, mask, minus
  <2>8. idnestcnt = calls - Cardinality(At({"++"})) + Cardinality(At({"--"})) - 1
    BY <2>1, <2>4, <2>5, <2>6, <2>7, SMTT(30)
  <2>9. ASSUME At({"runs"}) = DOMAIN frames
        PROVE  master <=> idnestcnt < 0
    <3>1. \A i \in 1 .. Top : frames[i].pc = "runs"
      BY <2>1, <2>9 DEF At
    <3>2. Running.pc = "runs" /\ \A i \in 1 .. (Top - 1) : frames[i].pc # "mask"
      BY <2>1, <3>1
    <3>3. both = 0
      <4>1. \A i \in 1 .. Top : frames[i].pc \notin {"mask", "--"}
        BY <3>1
      <4> QED BY <2>1, <4>1, CountNat DEF both
    <3>4. idnestcnt < 0 <=> Running.held = 0
      BY <2>1, <2>5, <3>3
    <3>5. Running.held # 0 => ~master
      <4>1. Running.held # 0 => Running.held > 0
        BY <2>1
      <4> QED BY <4>1 DEF NestingInv
    <3>6. Running.held = 0 => master
      BY <3>2 DEF NestingInv
    <3> QED BY <3>4, <3>5, <3>6
  <2> QED BY <2>8, <2>9 DEF CountTellsNesting
<1> QED BY <1>1, NestingInvariant, PTL

-----------------------------------------------------------------------------
(* The serial port.                                                        *)

\* The inductive invariant for what is received.  What was answered came before
\* what the port holds and nobody has acknowledged, and before what
\* RawMayGetChar has read and not yet acknowledged: that is still marked new,
\* though another may have taken its place.
ReceiveInv ==
    /\ received \in Nat /\ overruns \in Nat /\ rbf \in BOOLEAN
    /\ rxBuffer = received
    /\ got \in Seq(1 .. received)
    /\ \A i, j \in 1 .. Len(got) : i < j => got[i] < got[j]
    /\ rbf => received > 0 /\ \A i \in 1 .. Len(got) : got[i] < received
    /\ call = "getchar" =>
         rbf /\ taken \in 1 .. received /\ \A i \in 1 .. Len(got) : got[i] < taken
    /\ received = Len(got) + overruns + IF rbf THEN 1 ELSE 0

\* The steps that change what was received, or its reader.
LEMMA OthersDoNotReceive ==
    ASSUME [Next]_debuggerVars
    PROVE  \/ Receive \/ RawMayGetChar \/ Acknowledge
           \/ getVars' = getVars /\ (call' = "getchar" => call = "getchar")
<1> USE DEF getVars, receiveVars
<1>1. CASE UNCHANGED debuggerVars
  BY <1>1 DEF debuggerVars
<1>2. CASE RawDoFmt
  BY <1>2 DEF RawDoFmt
<1>3. CASE Text
  BY <1>3 DEF Text
<1>4. CASE ReadDirective
  BY <1>4 DEF ReadDirective
<1>5. CASE Render
  BY <1>5 DEF Render
<1>6. CASE PutChar
  BY <1>6 DEF PutChar
<1>7. CASE FormatReturns
  BY <1>7 DEF FormatReturns
<1>8. CASE Load
  BY <1>8 DEF Load
<1>9. CASE Send
  BY <1>9 DEF Send
<1> QED BY <1>1, <1>2, <1>3, <1>4, <1>5, <1>6, <1>7, <1>8, <1>9
        DEF Next, Processor, Port

LEMMA ReceiveInvKept == ReceiveInv /\ [Next]_debuggerVars => ReceiveInv'
<1> SUFFICES ASSUME ReceiveInv, [Next]_debuggerVars PROVE ReceiveInv'
  OBVIOUS
<1>1. CASE Receive
  <2>1. /\ received' = received + 1 /\ rxBuffer' = received + 1 /\ rbf' = TRUE
        /\ overruns' = overruns + (IF rbf THEN 1 ELSE 0)
        /\ call' = call /\ taken' = taken /\ got' = got
    BY <1>1 DEF Receive
  <2>2. got \in Seq(1 .. (received + 1)) /\ \A i \in 1 .. Len(got) : got[i] <= received
    BY DEF ReceiveInv
  <2> QED BY <2>1, <2>2 DEF ReceiveInv
<1>2. CASE RawMayGetChar
  <2>1. /\ UNCHANGED <<rxBuffer, rbf, received, overruns, got>>
        /\ \/ call' = call /\ taken' = taken
           \/ rbf /\ call' = "getchar" /\ taken' = rxBuffer
    BY <1>2 DEF RawMayGetChar, receiveVars
  <2> QED BY <2>1 DEF ReceiveInv
<1>3. CASE Acknowledge
  <2>1. /\ UNCHANGED <<rxBuffer, received, overruns, taken>>
        /\ rbf' = FALSE /\ call = "getchar" /\ call' = "none"
        /\ got' = Append(got, taken)
    BY <1>3 DEF Acknowledge
  <2>2. rbf /\ taken \in 1 .. received /\ \A i \in 1 .. Len(got) : got[i] < taken
    BY <2>1 DEF ReceiveInv
  <2>3. /\ got' \in Seq(1 .. received) /\ Len(got') = Len(got) + 1
        /\ \A i \in 1 .. Len(got) : got'[i] = got[i]
        /\ got'[Len(got) + 1] = taken
    BY <2>1, <2>2 DEF ReceiveInv
  <2>4. \A i, j \in 1 .. Len(got') : i < j => got'[i] < got'[j]
    <3> SUFFICES ASSUME NEW i \in 1 .. Len(got'), NEW j \in 1 .. Len(got'), i < j
                 PROVE  got'[i] < got'[j]
      OBVIOUS
    <3>1. Len(got) \in Nat
      BY DEF ReceiveInv
    <3>2. i \in 1 .. Len(got) /\ (j \in 1 .. Len(got) \/ j = Len(got) + 1)
      BY <2>3, <3>1
    <3> QED BY <2>2, <2>3, <3>2 DEF ReceiveInv
  <2>5. received = Len(got') + overruns
    BY <2>2, <2>3 DEF ReceiveInv
  <2>6. rbf' \in BOOLEAN /\ ~rbf' /\ call' # "getchar"
    BY <2>1
  <2>7. received' = Len(got') + overruns' + (IF rbf' THEN 1 ELSE 0)
    BY <2>1, <2>5, <2>3 DEF ReceiveInv
  <2> QED BY <2>1, <2>3, <2>4, <2>6, <2>7 DEF ReceiveInv
<1>4. CASE getVars' = getVars /\ (call' = "getchar" => call = "getchar")
  BY <1>4 DEF ReceiveInv, getVars, receiveVars
<1> QED BY <1>1, <1>2, <1>3, <1>4, OthersDoNotReceive

LEMMA ReceiveBegins == Init => ReceiveInv
<1> SUFFICES ASSUME Init PROVE ReceiveInv
  OBVIOUS
<1>1. /\ call = "none" /\ rxBuffer = 0 /\ rbf = FALSE /\ received = 0 /\ overruns = 0
      /\ got = << >>
  BY DEF Init
<1>2. got \in Seq(1 .. received) /\ Len(got) = 0
  BY <1>1
<1>3. rbf \in BOOLEAN /\ ~rbf /\ call # "getchar"
  BY <1>1
<1> QED BY <1>1, <1>2, <1>3 DEF ReceiveInv

\* However many characters arrive, and whenever: none is answered twice or out
\* of order, and each is answered, new, or was lost to another that came before
\* it was acknowledged.
THEOREM CharactersAccounted == Spec => []ReceivedAccounted
<1>1. ReceiveInv => ReceivedAccounted
  BY DEF ReceiveInv, ReceivedAccounted
<1> QED BY <1>1, ReceiveBegins, ReceiveInvKept, PTL DEF Spec

-----------------------------------------------------------------------------
(* Sequences of sequences.                                                 *)

\* Concatenation, for where only its laws matter.
Cat(s, t) == s \o t

LEMMA CatFacts ==
    ASSUME NEW S
    PROVE  /\ \A s, t \in Seq(S) : Cat(s, t) \in Seq(S)
           /\ \A s \in Seq(S) : Cat(s, << >>) = s /\ Cat(<< >>, s) = s
           /\ \A s, t, u \in Seq(S) : Cat(Cat(s, t), u) = Cat(s, Cat(t, u))
<1>1. ASSUME NEW s \in Seq(S), NEW t \in Seq(S) PROVE Cat(s, t) \in Seq(S)
  BY ConcatProperties DEF Cat
<1>2. ASSUME NEW s \in Seq(S) PROVE Cat(s, << >>) = s /\ Cat(<< >>, s) = s
  BY ConcatEmptySeq DEF Cat
<1>3. ASSUME NEW s \in Seq(S), NEW t \in Seq(S), NEW u \in Seq(S)
      PROVE  Cat(Cat(s, t), u) = Cat(s, Cat(t, u))
  BY ConcatAssociative DEF Cat
<1> QED BY <1>1, <1>2, <1>3

\* The sequence that is flattened is put together from the left.
FromLeft(g, p) ==
    /\ p[0] = << >>
    /\ \A i \in 1 .. Len(g) : p[i] = Cat(p[i - 1], g[i])

LEMMA FlattenSteps ==
    ASSUME NEW S, NEW g \in Seq(Seq(S))
    PROVE  \E p \in [0 .. Len(g) -> Seq(S)] : FromLeft(g, p) /\ FlattenSeq(g) = p[Len(g)]
<1> DEFINE n == Len(g)
           step == [i \in 1 .. n |-> [v \in Seq(S) |-> Cat(v, g[i])]]
           Piece(h) == [i \in 1 .. n |-> IF i = 1 THEN g[i] ELSE Cat(h[i - 1], g[i])]
           F == CHOOSE h : h = Piece(h)
<1>1. n \in Nat /\ \A i \in 1 .. n : g[i] \in Seq(S)
  BY LenProperties, ElementOfSeq
<1>2. step \in [1 .. n -> [Seq(S) -> Seq(S)]] /\ << >> \in Seq(S)
  <2>1. \A i \in 1 .. n : \A v \in Seq(S) : Cat(v, g[i]) \in Seq(S)
    BY <1>1, CatFacts
  <2>2. << >> \in Seq(S)
    BY EmptySeq
  <2> HIDE DEF n
  <2>3. \A i \in 1 .. n : [v \in Seq(S) |-> Cat(v, g[i])] \in [Seq(S) -> Seq(S)]
    BY <2>1, Zenon
  <2>4. step \in [1 .. n -> [Seq(S) -> Seq(S)]]
    BY <2>3, Zenon
  <2> QED BY <2>2, <2>4, Zenon
<1>3. PICK p \in [0 .. n -> Seq(S)] : Steps(p, n, << >>, step)
  <2> HIDE DEF step, n
  <2> QED BY <1>1, <1>2, BoundedRecursion
<1>4. FromLeft(g, p)
  <2>1. ASSUME NEW i \in 1 .. n
        PROVE  p[i - 1] \in Seq(S) /\ step[i][p[i - 1]] = Cat(p[i - 1], g[i])
    <3> DEFINE v == p[i - 1]
    <3>1. i - 1 \in 0 .. n
      BY <1>1
    <3>2. v \in Seq(S)
      BY <3>1
    <3> HIDE DEF v
    <3>3. step[i][v] = Cat(v, g[i])
      BY <3>2, Zenon
    <3> QED BY <3>2, <3>3 DEF v
  <2> QED BY <1>3, <2>1 DEF Steps, FromLeft
<1>5. CASE n = 0
  <2>1. g = << >> /\ FlattenSeq(g) = g
    BY <1>5, EmptySeq DEF FlattenSeq
  <2> QED BY <1>3, <1>4, <1>5, <2>1 DEF FromLeft
<1>6. CASE n # 0
  <2>1. FlattenSeq(g) = F[n]
    BY <1>6 DEF FlattenSeq, Cat
  <2> DEFINE h0 == [i \in 1 .. n |-> p[i]]
  <2>2. h0 = Piece(h0)
    <3>1. ASSUME NEW i \in 1 .. n
          PROVE  h0[i] = IF i = 1 THEN g[i] ELSE Cat(h0[i - 1], g[i])
      <4>1. CASE i = 1
        <5>1. p[1] = Cat(<< >>, g[1]) /\ g[1] \in Seq(S)
          BY <1>1, <1>4, <4>1 DEF FromLeft
        <5> QED BY <4>1, <5>1, CatFacts
      <4>2. CASE i # 1
        <5>1. i - 1 \in 1 .. n
          BY <1>1, <4>2
        <5> QED BY <1>4, <4>2, <5>1 DEF FromLeft
      <4> QED BY <4>1, <4>2
    <3> QED BY <3>1
  <2>3. F = Piece(F)
    <3> HIDE DEF h0, Piece
    <3> QED BY <2>2
  <2>4. \A i \in 1 .. n : F[i] = IF i = 1 THEN g[i] ELSE Cat(F[i - 1], g[i])
    <3> HIDE DEF F
    <3> QED BY <2>3
  <2> HIDE DEF F
  <2> DEFINE T == {k \in 0 .. n : k > 0 => F[k] = p[k]}
  <2>5. 0 \in T
    BY <1>1
  <2>6. ASSUME NEW k \in 0 .. (n - 1), k \in T PROVE k + 1 \in T
    <3>1. k + 1 \in 1 .. n /\ k \in Nat /\ (k + 1) - 1 = k
      BY <1>1
    <3>2. p[k + 1] = Cat(p[k], g[k + 1])
      BY <1>4, <3>1 DEF FromLeft
    <3>3. CASE k = 0
      <4>1. F[1] = g[1] /\ p[1] = Cat(<< >>, g[1]) /\ g[1] \in Seq(S)
        BY <1>1, <1>4, <2>4, <3>1, <3>3 DEF FromLeft
      <4>2. Cat(<< >>, g[1]) = g[1]
        BY <4>1, CatFacts
      <4> QED BY <3>1, <3>3, <4>1, <4>2
    <3>4. CASE k # 0
      <4>1. F[k + 1] = Cat(F[k], g[k + 1]) /\ F[k] = p[k]
        BY <2>4, <2>6, <3>1, <3>4
      <4> QED BY <3>1, <3>2, <4>1
    <3> QED BY <3>3, <3>4
  <2> HIDE DEF T
  <2>7. n \in T
    <3>1. \A k \in 0 .. n : k \in T
      <4> HIDE DEF n
      <4> QED BY <1>1, <2>5, <2>6, BoundedInduction
    <3> QED BY <1>1, <3>1
  <2>8. F[n] = p[n]
    BY <1>1, <1>6, <2>7 DEF T
  <2> QED BY <1>4, <2>1, <2>8
<1> QED BY <1>5, <1>6

\* Two that begin with the same n sequences.
BeginAlike(g, p, h, q, n) ==
    /\ n \in Nat /\ Len(g) \in Nat /\ Len(h) \in Nat /\ n <= Len(g) /\ n <= Len(h)
    /\ FromLeft(g, p) /\ FromLeft(h, q) /\ \A i \in 1 .. n : g[i] = h[i]

LEMMA SameFromLeft ==
    \A g, p, h, q, n : BeginAlike(g, p, h, q, n) => p[n] = q[n]
<1> SUFFICES ASSUME NEW g, NEW p, NEW h, NEW q, NEW n, BeginAlike(g, p, h, q, n)
             PROVE  p[n] = q[n]
  OBVIOUS
<1> USE DEF BeginAlike
<1> DEFINE T == {k \in 0 .. n : p[k] = q[k]}
<1>1. 0 \in T
  BY DEF FromLeft
<1>2. ASSUME NEW k \in 0 .. (n - 1), k \in T PROVE k + 1 \in T
  <2>1. k + 1 \in 1 .. Len(g) /\ k + 1 \in 1 .. Len(h) /\ k + 1 \in 1 .. n /\ (k + 1) - 1 = k
    OBVIOUS
  <2>2. p[k + 1] = Cat(p[k], g[k + 1]) /\ q[k + 1] = Cat(q[k], h[k + 1]) /\ g[k + 1] = h[k + 1]
    BY <2>1 DEF FromLeft
  <2> QED BY <1>2, <2>1, <2>2
<1> HIDE DEF T
<1>3. \A k \in 0 .. n : k \in T
  BY <1>1, <1>2, BoundedInduction
<1> QED BY <1>3 DEF T

LEMMA FlattenConcat ==
    ASSUME NEW S, NEW g \in Seq(Seq(S)), NEW h \in Seq(Seq(S))
    PROVE  /\ FlattenSeq(g) \in Seq(S)
           /\ FlattenSeq(g \o h) = FlattenSeq(g) \o FlattenSeq(h)
<1> DEFINE m == Len(g)
           n == Len(h)
<1>1. /\ g \o h \in Seq(Seq(S)) /\ Len(g \o h) = m + n /\ m \in Nat /\ n \in Nat
      /\ \A i \in 1 .. m : (g \o h)[i] = g[i]
      /\ \A i \in 1 .. n : (g \o h)[m + i] = h[i] /\ h[i] \in Seq(S)
  <2>1. m \in Nat /\ n \in Nat /\ \A i \in 1 .. n : h[i] \in Seq(S)
    BY LenProperties, ElementOfSeq
  <2>2. /\ g \o h \in Seq(Seq(S)) /\ Len(g \o h) = m + n
        /\ \A i \in 1 .. m + n : (g \o h)[i] = IF i <= m THEN g[i] ELSE h[i - m]
    BY ConcatProperties
  <2>3. ASSUME NEW i \in 1 .. n PROVE (g \o h)[m + i] = h[i]
    <3>1. m + i \in 1 .. m + n /\ ~(m + i <= m) /\ (m + i) - m = i
      BY <2>1
    <3> QED BY <2>2, <3>1
  <2> QED BY <2>1, <2>2, <2>3
<1>2. PICK p \in [0 .. m -> Seq(S)] : FromLeft(g, p) /\ FlattenSeq(g) = p[m]
  BY FlattenSteps
<1>3. PICK q \in [0 .. n -> Seq(S)] : FromLeft(h, q) /\ FlattenSeq(h) = q[n]
  BY FlattenSteps
<1>4. PICK r \in [0 .. Len(g \o h) -> Seq(S)] :
          FromLeft(g \o h, r) /\ FlattenSeq(g \o h) = r[Len(g \o h)]
  BY <1>1, FlattenSteps
<1>5. r[m] = p[m]
  <2>1. m <= Len(g) /\ m <= Len(g \o h) /\ Len(g \o h) \in Nat /\ \A i \in 1 .. m : (g \o h)[i] = g[i]
    BY <1>1
  <2>2. BeginAlike(g, p, g \o h, r, m)
    BY <1>1, <1>2, <1>4, <2>1 DEF BeginAlike
  <2>3. \A n_ : BeginAlike(g, p, g \o h, r, n_) => p[n_] = r[n_]
    BY SameFromLeft, SMT
  <2>4. p[m] = r[m]
    BY <2>2, <2>3
  <2> QED BY <2>4
<1> DEFINE T == {k \in 0 .. n : r[m + k] = Cat(p[m], q[k])}
<1>6. 0 \in T
  <2>1. p[m] \in Seq(S) /\ q[0] = << >> /\ m + 0 = m
    <3>1. m \in 0 .. m /\ m + 0 = m
      BY <1>1
    <3>2. p[m] \in Seq(S)
      BY <3>1
    <3>3. q[0] = << >>
      BY <1>3 DEF FromLeft
    <3> QED BY <3>1, <3>2, <3>3
  <2>2. Cat(p[m], << >>) = p[m]
    BY <2>1, CatFacts
  <2> QED BY <1>1, <1>5, <2>1, <2>2
<1>7. ASSUME NEW k \in 0 .. (n - 1), k \in T PROVE k + 1 \in T
  <2>1. /\ k + 1 \in 1 .. n /\ m + (k + 1) \in 1 .. (m + n) /\ (m + (k + 1)) - 1 = m + k
        /\ (k + 1) - 1 = k /\ m \in 0 .. m /\ k \in 0 .. n
    BY <1>1
  <2>2. r[m + (k + 1)] = Cat(r[m + k], h[k + 1])
    <3>1. r[m + (k + 1)] = Cat(r[m + k], (g \o h)[m + (k + 1)])
      BY <1>1, <1>4, <2>1 DEF FromLeft
    <3> QED BY <1>1, <2>1, <3>1
  <2>3. q[k + 1] = Cat(q[k], h[k + 1])
    BY <1>3, <2>1 DEF FromLeft
  <2>4. p[m] \in Seq(S) /\ q[k] \in Seq(S) /\ h[k + 1] \in Seq(S)
    BY <1>1, <1>2, <1>3, <2>1
  <2>5. Cat(Cat(p[m], q[k]), h[k + 1]) = Cat(p[m], Cat(q[k], h[k + 1]))
    <3> DEFINE a == p[m] b == q[k] c == h[k + 1]
    <3>1. a \in Seq(S) /\ b \in Seq(S) /\ c \in Seq(S)
      BY <2>4
    <3> HIDE DEF a, b, c
    <3>2. Cat(Cat(a, b), c) = Cat(a, Cat(b, c))
      BY <3>1, CatFacts
    <3> QED BY <3>2 DEF a, b, c
  <2> QED BY <1>7, <2>1, <2>2, <2>3, <2>5
<1> HIDE DEF T
<1>8. n \in T
  <2>1. \A k \in 0 .. n : k \in T
    <3> HIDE DEF n
    <3> QED BY <1>1, <1>6, <1>7, BoundedInduction
  <2> QED BY <1>1, <2>1
<1>9. FlattenSeq(g \o h) = Cat(p[m], q[n]) /\ p[m] \in Seq(S)
  BY <1>1, <1>2, <1>4, <1>8 DEF T
<1> QED BY <1>2, <1>3, <1>9 DEF Cat

LEMMA FlattenFew ==
    ASSUME NEW S
    PROVE  /\ FlattenSeq(<< >>) = << >>
           /\ \A x \in Seq(S) : FlattenSeq(<< x >>) = x
<1>1. FlattenSeq(<< >>) = << >>
  BY DEF FlattenSeq
<1>2. ASSUME NEW x \in Seq(S) PROVE FlattenSeq(<< x >>) = x
  <2>1. << x >> \in Seq(Seq(S)) /\ Len(<< x >>) = 1 /\ << x >>[1] = x
    OBVIOUS
  <2>2. PICK p \in [0 .. 1 -> Seq(S)] : FromLeft(<< x >>, p) /\ FlattenSeq(<< x >>) = p[1]
    BY <2>1, FlattenSteps
  <2>3. p[1] = Cat(<< >>, x)
    BY <2>1, <2>2 DEF FromLeft
  <2> QED BY <2>2, <2>3, CatFacts
<1> QED BY <1>1, <1>2

\* What becomes of a sequence when every element becomes a sequence.
Spread(f, s) == FlattenSeq([i \in DOMAIN s |-> f[s[i]]])

Spreads(f, P, S) == f \in [P -> Seq(S)]

LEMMA SpreadConcat ==
    ASSUME NEW P, NEW S, NEW f, Spreads(f, P, S), NEW s \in Seq(P), NEW t \in Seq(P)
    PROVE  /\ Spread(f, s) \in Seq(S)
           /\ Spread(f, s \o t) = Spread(f, s) \o Spread(f, t)
<1> USE DEF Spreads
<1> DEFINE M(u) == [i \in DOMAIN u |-> f[u[i]]]
<1>1. ASSUME NEW u \in Seq(P) PROVE M(u) \in Seq(Seq(S)) /\ Len(M(u)) = Len(u)
  <2>1. Len(u) \in Nat /\ DOMAIN u = 1 .. Len(u) /\ \A i \in 1 .. Len(u) : u[i] \in P
    BY LenProperties, ElementOfSeq
  <2>2. M(u) = [i \in 1 .. Len(u) |-> f[u[i]]]
    BY <2>1
  <2>3. \A i \in 1 .. Len(u) : f[u[i]] \in Seq(S)
    BY <2>1
  <2>4. M(u) \in [1 .. Len(u) -> Seq(S)]
    BY <2>2, <2>3
  <2> QED BY <2>1, <2>4
<1>2. M(s \o t) = M(s) \o M(t)
  <2>1. /\ s \o t \in Seq(P) /\ Len(s \o t) = Len(s) + Len(t)
        /\ \A i \in 1 .. Len(s) + Len(t) : (s \o t)[i] = IF i <= Len(s) THEN s[i] ELSE t[i - Len(s)]
    BY ConcatProperties
  <2>2. M(s) \in Seq(Seq(S)) /\ M(t) \in Seq(Seq(S)) /\ M(s \o t) \in Seq(Seq(S))
    BY <1>1, <2>1
  <2>3. /\ Len(M(s)) = Len(s) /\ Len(M(t)) = Len(t) /\ Len(M(s \o t)) = Len(s) + Len(t)
        /\ Len(s) \in Nat /\ Len(t) \in Nat
    BY <1>1, <2>1, LenProperties
  <2>4. /\ M(s) \o M(t) \in Seq(Seq(S)) /\ Len(M(s) \o M(t)) = Len(s) + Len(t)
        /\ \A i \in 1 .. Len(s) + Len(t) :
              (M(s) \o M(t))[i] = IF i <= Len(s) THEN M(s)[i] ELSE M(t)[i - Len(s)]
    <3> DEFINE a == M(s) b == M(t)
    <3>1. a \in Seq(Seq(S)) /\ b \in Seq(Seq(S)) /\ Len(a) = Len(s) /\ Len(b) = Len(t)
      BY <2>2, <2>3
    <3> HIDE DEF a, b
    <3>2. /\ a \o b \in Seq(Seq(S)) /\ Len(a \o b) = Len(a) + Len(b)
          /\ \A i \in 1 .. Len(a) + Len(b) : (a \o b)[i] = IF i <= Len(a) THEN a[i] ELSE b[i - Len(a)]
      BY <3>1, ConcatProperties
    <3>3. /\ a \o b \in Seq(Seq(S)) /\ Len(a \o b) = Len(s) + Len(t)
          /\ \A i \in 1 .. Len(s) + Len(t) : (a \o b)[i] = IF i <= Len(s) THEN a[i] ELSE b[i - Len(s)]
      BY <3>1, <3>2
    <3> QED BY <3>3 DEF a, b
  <2>5. ASSUME NEW i \in 1 .. Len(s) + Len(t) PROVE M(s \o t)[i] = (M(s) \o M(t))[i]
    <3>1. i \in DOMAIN (s \o t) /\ M(s \o t)[i] = f[(s \o t)[i]]
      BY <2>1
    <3>2. CASE i <= Len(s)
      <4>1. i \in DOMAIN s
        BY <2>3, <3>2
      <4>2. M(s)[i] = f[s[i]]
        BY <4>1
      <4> QED BY <2>1, <2>4, <3>1, <3>2, <4>2
    <3>3. CASE ~(i <= Len(s))
      <4>1. i - Len(s) \in DOMAIN t
        BY <2>3, <3>3
      <4>2. M(t)[i - Len(s)] = f[t[i - Len(s)]]
        BY <4>1
      <4> QED BY <2>1, <2>4, <3>1, <3>3, <4>2
    <3> QED BY <3>2, <3>3
  <2> HIDE DEF M
  <2> QED BY <2>2, <2>3, <2>4, <2>5, SeqEqual
<1>3. M(s) \in Seq(Seq(S)) /\ M(t) \in Seq(Seq(S))
  BY <1>1
<1> HIDE DEF M
<1>4. /\ FlattenSeq(M(s)) \in Seq(S)
      /\ FlattenSeq(M(s) \o M(t)) = FlattenSeq(M(s)) \o FlattenSeq(M(t))
  BY <1>3, FlattenConcat
<1> QED BY <1>2, <1>4 DEF M, Spread

LEMMA SpreadSplits ==
    ASSUME NEW P, NEW S, NEW f, Spreads(f, P, S), NEW s \in Seq(P), NEW t \in Seq(P)
    PROVE  Spread(f, s \o t) = Spread(f, s) \o Spread(f, t)
BY SpreadConcat

LEMMA SpreadFew ==
    ASSUME NEW P, NEW S, NEW f, Spreads(f, P, S)
    PROVE  /\ Spread(f, << >>) = << >>
           /\ \A x \in P : Spread(f, << x >>) = f[x]
<1> USE DEF Spreads
<1>1. Spread(f, << >>) = << >>
  <2>1. [i \in DOMAIN << >> |-> f[<< >>[i]]] = << >>
    OBVIOUS
  <2> QED BY <2>1, FlattenFew DEF Spread
<1>2. ASSUME NEW x \in P PROVE Spread(f, << x >>) = f[x]
  <2>1. [i \in DOMAIN << x >> |-> f[<< x >>[i]]] = << f[x] >>
    OBVIOUS
  <2>2. f[x] \in Seq(S)
    OBVIOUS
  <2> QED BY <2>1, <2>2, FlattenFew DEF Spread
<1> QED BY <1>1, <1>2

-----------------------------------------------------------------------------
(* What is put on the line for a text.                                     *)

\* The formats that are printed, and the characters in them.
Formats == UNION {Range(s) : s \in Scripts}

Characters ==
    {"\n", "\r"}
    \cup UNION {UNION {Range(Pattern(f[i])) \cup Range(Meaning(f[i])) :
                     i \in DOMAIN f} : f \in Formats}

LEMMA SomeCharacters ==
    /\ "\n" \in Characters /\ "\r" \in Characters
    /\ <<"\r", "\n">> = <<"\r">> \o <<"\n">>
    /\ <<"\r">> \in Seq(Characters) /\ <<"\n">> \in Seq(Characters)
    /\ <<"\r", "\n">> \in Seq(Characters)
<1>1. "\n" \in Characters /\ "\r" \in Characters
  BY DEF Characters
<1>2. /\ <<"\r">> \in Seq(Characters) /\ <<"\n">> \in Seq(Characters)
      /\ <<"\r", "\n">> \in Seq(Characters)
  BY <1>1
<1>3. <<"\r", "\n">> = <<"\r">> \o <<"\n">>
  OBVIOUS
<1> QED BY <1>1, <1>2, <1>3

Cook == [c \in Characters |-> IF c = "\n" THEN <<"\r", "\n">> ELSE << c >>]

LEMMA CookType == Spreads(Cook, Characters, Characters)
<1>1. \A c \in Characters : << c >> \in Seq(Characters)
  OBVIOUS
<1> QED BY <1>1, SomeCharacters DEF Cook, Spreads

LEMMA CookedIs ==
    ASSUME NEW s \in Seq(Characters)
    PROVE  Cooked(s) = Spread(Cook, s)
<1>1. \A i \in DOMAIN s : s[i] \in Characters
  OBVIOUS
<1>2. \A i \in DOMAIN s : Cook[s[i]] = IF s[i] = "\n" THEN <<"\r", "\n">> ELSE << s[i] >>
  BY <1>1, Zenon DEF Cook
<1>3. [i \in DOMAIN s |-> IF s[i] = "\n" THEN <<"\r", "\n">> ELSE << s[i] >>]
        = [i \in DOMAIN s |-> Cook[s[i]]]
  BY <1>2
<1> QED BY <1>3 DEF Cooked, Spread

LEMMA CookedConcat ==
    ASSUME NEW s \in Seq(Characters), NEW t \in Seq(Characters)
    PROVE  /\ Cooked(s) \in Seq(Characters)
           /\ s \o t \in Seq(Characters)
           /\ Cooked(s \o t) = Cooked(s) \o Cooked(t)
<1>1. s \o t \in Seq(Characters)
  BY ConcatProperties
<1>2. Spread(Cook, s) \in Seq(Characters) /\ Spread(Cook, s \o t) = Spread(Cook, s) \o Spread(Cook, t)
  <2> DEFINE fn == Cook  C == Characters
  <2>1. Spreads(fn, C, C) /\ s \in Seq(C) /\ t \in Seq(C)
    BY CookType
  <2> HIDE DEF fn, C
  <2>2. Spread(fn, s) \in Seq(C)
    BY <2>1, SpreadConcat
  <2>3. Spread(fn, s \o t) = Spread(fn, s) \o Spread(fn, t)
    BY <2>1, SpreadSplits
  <2> QED BY <2>2, <2>3 DEF fn, C
<1> QED BY <1>1, <1>2, CookedIs

LEMMA CookedEmpty == Cooked(<< >>) = << >>
<1>1. Cooked(<< >>) = Spread(Cook, << >>)
  BY EmptySeq, CookedIs
<1> QED BY <1>1, CookType, SpreadFew

\* A text begins with its first character, or with the carriage return that
\* comes before a newline.
LEMMA CookedFirst ==
    ASSUME NEW s \in Seq(Characters), s # << >>
    PROVE  /\ Head(s) \in Characters /\ Tail(s) \in Seq(Characters)
           /\ Cooked(s) = Cook[Head(s)] \o Cooked(Tail(s))
<1>1. Head(s) \in Characters /\ Tail(s) \in Seq(Characters) /\ s = << Head(s) >> \o Tail(s)
  <2>1. Len(s) \in Nat \ {0} /\ Head(s) \in Characters /\ Tail(s) \in Seq(Characters)
    BY EmptySeq, HeadTailProperties
  <2>2. 1 \in 1 .. Len(s) /\ Len(s) \in 1 .. Len(s)
    BY <2>1
  <2>3. SubSeq(s, 1, Len(s)) = << s[1] >> \o SubSeq(s, 1 + 1, Len(s))
    BY <2>2, SubSeqRecursiveFirst
  <2>4. SubSeq(s, 1, Len(s)) = s /\ Tail(s) = SubSeq(s, 2, Len(s)) /\ Head(s) = s[1] /\ 1 + 1 = 2
    BY SubSeqFull, TailIsSubSeq
  <2> QED BY <2>1, <2>3, <2>4
<1>2. << Head(s) >> \in Seq(Characters)
  BY <1>1
<1>3. Cooked(<< Head(s) >>) = Cook[Head(s)]
  <2> DEFINE fn == Cook  C == Characters  c == Head(s)
  <2>1. Spreads(fn, C, C) /\ c \in C
    BY <1>1, CookType
  <2> HIDE DEF fn, C, c
  <2>2. Spread(fn, << c >>) = fn[c]
    BY <2>1, SpreadFew
  <2> QED BY <1>2, <2>2, CookedIs DEF fn, C, c
<1>4. Cooked(<< Head(s) >> \o Tail(s))
        = Cooked(<< Head(s) >>) \o Cooked(Tail(s))
  BY <1>1, <1>2, CookedConcat
<1> QED BY <1>1, <1>3, <1>4

-----------------------------------------------------------------------------
(* The parts of a format.                                                  *)

\* What a pattern is made of: a pattern ends before its NUL.
PatternCharacters == Characters \ {NUL}

\* The part is such as Readable asks, apart from what its place has to do
\* with it.
IsPart(m) ==
    /\ Pattern(m) \in Seq(PatternCharacters)
    /\ Arguments(m) \in Seq(Int)
    /\ Meaning(m) \in Seq(Characters)

PartsOf(f) == {f[i] : i \in DOMAIN f}

LEMMA FormatParts ==
    ASSUME NEW f \in Formats, WellFormed(f)
    PROVE  /\ f \in Seq(PartsOf(f)) /\ Len(f) \in Nat /\ DOMAIN f = 1 .. Len(f)
           /\ \A m \in PartsOf(f) : IsPart(m)
<1>1. f \in Seq(PartsOf(f))
  BY DEF WellFormed, IsSequence, Range, PartsOf
<1>2. Len(f) \in Nat /\ DOMAIN f = 1 .. Len(f)
  BY <1>1, LenProperties
<1>3. ASSUME NEW i \in DOMAIN f PROVE IsPart(f[i])
  <2> DEFINE p == Pattern(f[i])
             q == Meaning(f[i])
  <2>1. /\ p \in Seq(Range(p)) /\ NUL \notin Range(p)
        /\ q \in Seq(Range(q)) /\ Arguments(f[i]) \in Seq(Int)
    BY DEF WellFormed, IsSequence
  <2>2. Range(p) \subseteq Characters /\ Range(q) \subseteq Characters
    BY DEF Characters
  <2>3. Range(p) \subseteq PatternCharacters
    BY <2>1, <2>2 DEF PatternCharacters
  <2> HIDE DEF p, q
  <2>4. p \in Seq(PatternCharacters) /\ q \in Seq(Characters)
    BY <2>1, <2>2, <2>3, SeqMonotonic
  <2> QED BY <2>1, <2>4 DEF IsPart, p, q
<1> QED BY <1>1, <1>2, <1>3 DEF PartsOf

LEMMA FormatsConcat ==
    ASSUME NEW P, \A m \in P : IsPart(m), NEW s \in Seq(P), NEW t \in Seq(P)
    PROVE  /\ PatternOf(s) \in Seq(PatternCharacters)
           /\ PatternOf(s \o t) = PatternOf(s) \o PatternOf(t)
           /\ ArgumentsOf(s) \in Seq(Int)
           /\ ArgumentsOf(s \o t) = ArgumentsOf(s) \o ArgumentsOf(t)
           /\ MeaningOf(s) \in Seq(Characters)
           /\ MeaningOf(s \o t) = MeaningOf(s) \o MeaningOf(t)
<1> DEFINE pf == [m \in P |-> Pattern(m)]
           af == [m \in P |-> Arguments(m)]
           mf == [m \in P |-> Meaning(m)]
<1>1. Spreads(pf, P, PatternCharacters) /\ Spreads(af, P, Int) /\ Spreads(mf, P, Characters)
  BY DEF IsPart, Spreads
<1>2. ASSUME NEW u \in Seq(P)
      PROVE  /\ PatternOf(u) = Spread(pf, u)
             /\ ArgumentsOf(u) = Spread(af, u)
             /\ MeaningOf(u) = Spread(mf, u)
  <2>1. \A i \in DOMAIN u : u[i] \in P
    OBVIOUS
  <2>2. [i \in DOMAIN u |-> Pattern(u[i])] = [i \in DOMAIN u |-> pf[u[i]]]
    BY <2>1
  <2>3. [i \in DOMAIN u |-> Arguments(u[i])] = [i \in DOMAIN u |-> af[u[i]]]
    BY <2>1
  <2>4. [i \in DOMAIN u |-> Meaning(u[i])] = [i \in DOMAIN u |-> mf[u[i]]]
    BY <2>1
  <2> HIDE DEF pf, af, mf
  <2> QED BY <2>2, <2>3, <2>4 DEF PatternOf, ArgumentsOf, MeaningOf, Spread
<1>3. s \o t \in Seq(P)
  BY ConcatProperties
<1> HIDE DEF pf, af, mf
<1>4. Spread(pf, s) \in Seq(PatternCharacters) /\ Spread(pf, s \o t) = Spread(pf, s) \o Spread(pf, t)
  BY <1>1, SpreadConcat
<1>5. Spread(af, s) \in Seq(Int) /\ Spread(af, s \o t) = Spread(af, s) \o Spread(af, t)
  BY <1>1, SpreadConcat
<1>6. Spread(mf, s) \in Seq(Characters) /\ Spread(mf, s \o t) = Spread(mf, s) \o Spread(mf, t)
  BY <1>1, SpreadConcat
<1> QED BY <1>2, <1>3, <1>4, <1>5, <1>6

LEMMA FormatsFew ==
    ASSUME NEW m, IsPart(m)
    PROVE  /\ PatternOf(<< m >>) = Pattern(m)
           /\ ArgumentsOf(<< m >>) = Arguments(m)
           /\ MeaningOf(<< m >>) = Meaning(m)
<1>1. /\ [i \in DOMAIN << m >> |-> Pattern(<< m >>[i])] = << Pattern(m) >>
      /\ [i \in DOMAIN << m >> |-> Arguments(<< m >>[i])] = << Arguments(m) >>
      /\ [i \in DOMAIN << m >> |-> Meaning(<< m >>[i])] = << Meaning(m) >>
  OBVIOUS
<1>2. FlattenSeq(<< Pattern(m) >>) = Pattern(m)
  BY FlattenFew DEF IsPart
<1>3. FlattenSeq(<< Arguments(m) >>) = Arguments(m)
  BY FlattenFew DEF IsPart
<1>4. FlattenSeq(<< Meaning(m) >>) = Meaning(m)
  BY FlattenFew DEF IsPart
<1> QED BY <1>1, <1>2, <1>3, <1>4 DEF PatternOf, ArgumentsOf, MeaningOf

LEMMA FormatsNone ==
    /\ PatternOf(<< >>) = << >>
    /\ ArgumentsOf(<< >>) = << >>
    /\ MeaningOf(<< >>) = << >>
<1>1. /\ [i \in DOMAIN << >> |-> Pattern(<< >>[i])] = << >>
      /\ [i \in DOMAIN << >> |-> Arguments(<< >>[i])] = << >>
      /\ [i \in DOMAIN << >> |-> Meaning(<< >>[i])] = << >>
  OBVIOUS
<1> QED BY <1>1, FlattenFew DEF PatternOf, ArgumentsOf, MeaningOf

-----------------------------------------------------------------------------
(* Where the parts of a format begin and end.                              *)

\* The first i parts of a format.
Upto(f, i) == SubSeq(f, 1, i)

LEMMA FormatGrows ==
    ASSUME NEW f \in Formats, WellFormed(f), NEW i \in 0 .. (Len(f) - 1)
    PROVE  /\ i + 1 \in DOMAIN f /\ IsPart(f[i + 1])
           /\ PatternOf(Upto(f, i + 1)) = PatternOf(Upto(f, i)) \o Pattern(f[i + 1])
           /\ ArgumentsOf(Upto(f, i + 1)) = ArgumentsOf(Upto(f, i)) \o Arguments(f[i + 1])
           /\ MeaningOf(Upto(f, i + 1)) = MeaningOf(Upto(f, i)) \o Meaning(f[i + 1])
<1> DEFINE P == PartsOf(f)
           s == Upto(f, i)
           t == << f[i + 1] >>
<1>1. f \in Seq(P) /\ Len(f) \in Nat /\ DOMAIN f = 1 .. Len(f) /\ \A m \in P : IsPart(m)
  BY FormatParts
<1>2. i \in Nat /\ i + 1 \in 1 .. Len(f) /\ i + 1 \in DOMAIN f
  BY <1>1
<1>3. f[i + 1] \in P /\ IsPart(f[i + 1])
  BY <1>1, <1>2 DEF PartsOf
<1>4. Upto(f, i + 1) = s \o t
  <2>1. 1 \in 1 .. Len(f) /\ i + 1 \in 1 .. Len(f) /\ (i + 1) - 1 = i
    BY <1>1, <1>2
  <2>2. SubSeq(f, 1, i + 1) = SubSeq(f, 1, (i + 1) - 1) \o << f[i + 1] >>
    BY <1>1, <2>1, SubSeqRecursiveSecond
  <2> QED BY <2>1, <2>2 DEF Upto
<1>5. s \in Seq(P) /\ t \in Seq(P)
  <2>1. \A q \in 1 .. i : f[q] \in P
    BY <1>1, <1>2, ElementOfSeq
  <2> HIDE DEF P
  <2>2. s \in Seq(P)
    BY <1>2, <2>1, SubSeqProperties DEF Upto
  <2> QED BY <1>3, <2>2
<1> HIDE DEF P, s, t
<1>6. /\ PatternOf(s \o t) = PatternOf(s) \o PatternOf(t)
      /\ ArgumentsOf(s \o t) = ArgumentsOf(s) \o ArgumentsOf(t)
      /\ MeaningOf(s \o t) = MeaningOf(s) \o MeaningOf(t)
  BY <1>1, <1>5, FormatsConcat
<1>7. /\ PatternOf(t) = Pattern(f[i + 1])
      /\ ArgumentsOf(t) = Arguments(f[i + 1])
      /\ MeaningOf(t) = Meaning(f[i + 1])
  BY <1>3, FormatsFew DEF t
<1> QED BY <1>2, <1>3, <1>4, <1>6, <1>7 DEF s

\* What the first parts take is the beginning of what all take.
LEMMA FormatWhole ==
    ASSUME NEW f \in Formats, WellFormed(f), NEW i \in 0 .. Len(f)
    PROVE  /\ PatternOf(Upto(f, i)) \in Seq(PatternCharacters)
           /\ ArgumentsOf(Upto(f, i)) \in Seq(Int)
           /\ MeaningOf(Upto(f, i)) \in Seq(Characters)
           /\ \E r \in Seq(PatternCharacters) : PatternOf(f) = PatternOf(Upto(f, i)) \o r
           /\ \E r \in Seq(Int) : ArgumentsOf(f) = ArgumentsOf(Upto(f, i)) \o r
           /\ \E r \in Seq(Characters) : MeaningOf(f) = MeaningOf(Upto(f, i)) \o r
<1> DEFINE P == PartsOf(f)
           s == Upto(f, i)
           t == SubSeq(f, i + 1, Len(f))
<1>1. f \in Seq(P) /\ Len(f) \in Nat /\ \A m \in P : IsPart(m)
  BY FormatParts
<1>2. f = s \o t
  <2>1. 1 \in 1 .. Len(f) + 1 /\ i \in (1 - 1) .. Len(f) /\ Len(f) \in i .. Len(f)
    BY <1>1
  <2>2. SubSeq(f, 1, i) \o SubSeq(f, i + 1, Len(f)) = SubSeq(f, 1, Len(f))
    BY <1>1, <2>1, ConcatAdjacentSubSeq
  <2>3. SubSeq(f, 1, Len(f)) = f
    BY <1>1, SubSeqFull
  <2> QED BY <2>2, <2>3 DEF Upto
<1>3. s \in Seq(P) /\ t \in Seq(P)
  <2>1. \A q \in 1 .. Len(f) : f[q] \in P
    BY <1>1, ElementOfSeq
  <2>2. (\A q \in 1 .. i : f[q] \in P) /\ (\A q \in (i + 1) .. Len(f) : f[q] \in P)
    BY <1>1, <2>1
  <2> HIDE DEF P
  <2>3. SubSeq(f, 1, i) \in Seq(P)
    BY <1>1, <2>2, SubSeqProperties
  <2>4. SubSeq(f, i + 1, Len(f)) \in Seq(P)
    BY <1>1, <2>2, SubSeqProperties
  <2> QED BY <2>3, <2>4 DEF Upto
<1> HIDE DEF P, s, t
<1>4. /\ PatternOf(s) \in Seq(PatternCharacters)
      /\ PatternOf(s \o t) = PatternOf(s) \o PatternOf(t)
      /\ ArgumentsOf(s) \in Seq(Int)
      /\ ArgumentsOf(s \o t) = ArgumentsOf(s) \o ArgumentsOf(t)
      /\ MeaningOf(s) \in Seq(Characters)
      /\ MeaningOf(s \o t) = MeaningOf(s) \o MeaningOf(t)
  BY <1>1, <1>3, FormatsConcat
<1>5. /\ PatternOf(t) \in Seq(PatternCharacters)
      /\ ArgumentsOf(t) \in Seq(Int)
      /\ MeaningOf(t) \in Seq(Characters)
  BY <1>1, <1>3, FormatsConcat
<1> QED BY <1>2, <1>4, <1>5 DEF s

LEMMA FormatEnds ==
    ASSUME NEW f \in Formats, WellFormed(f)
    PROVE  /\ Len(f) \in Nat /\ Upto(f, 0) = << >> /\ Upto(f, Len(f)) = f
<1>1. f \in Seq(PartsOf(f)) /\ Len(f) \in Nat
  BY FormatParts
<1>2. SubSeq(f, 1, Len(f)) = f
  BY <1>1, SubSeqFull
<1>3. SubSeq(f, 1, 0) = << >>
  BY SubSeqEmpty
<1> QED BY <1>1, <1>2, <1>3 DEF Upto

-----------------------------------------------------------------------------
(* Literal text.                                                           *)

\* Literal text ends at the next directive, or where the pattern ends.
LEMMA TextEndIs ==
    ASSUME NEW p \in Seq(PatternCharacters), NEW i \in 1 .. Len(p), NEW j \in i .. (Len(p) + 1),
           \A k \in i .. (j - 1) : p[k] # "%",
           j = Len(p) + 1 \/ p[j] = "%"
    PROVE  TextEnd(p, i) = j
<1> DEFINE S == {p[k] : k \in DOMAIN p} \ {"%"}
           Ends(x) == CharAt(p, x) \notin S /\ \A k \in i .. (x - 1) : p[k] \in S
<1>1. /\ Len(p) \in Nat /\ DOMAIN p = 1 .. Len(p)
      /\ \A k \in 1 .. Len(p) : p[k] \in PatternCharacters /\ p[k] # NUL
  BY LenProperties, ElementOfSeq DEF PatternCharacters
<1>2. Ends(j)
  <2>1. CASE j = Len(p) + 1
    <3>1. CharAt(p, j) = NUL /\ NUL \notin S
      BY <1>1, <2>1 DEF CharAt
    <3> QED BY <1>1, <3>1
  <2>2. CASE j # Len(p) + 1
    <3>1. CharAt(p, j) = "%"
      BY <1>1, <2>2 DEF CharAt
    <3> QED BY <1>1, <3>1
  <2> QED BY <2>1, <2>2
<1>3. ASSUME NEW x \in i .. (Len(p) + 1), Ends(x) PROVE x = j
  <2>1. x \in Nat /\ j \in Nat /\ i \in Nat
    BY <1>1
  <2>2. CASE x < j
    <3>1. x \in i .. (j - 1) /\ x \in 1 .. Len(p)
      BY <1>1, <2>1, <2>2
    <3>2. CharAt(p, x) = p[x] /\ p[x] \in S
      BY <1>1, <1>2, <3>1 DEF CharAt
    <3> QED BY <1>3, <3>2
  <2>3. CASE j < x
    <3>1. j \in i .. (x - 1) /\ j \in 1 .. Len(p)
      BY <1>1, <2>1, <2>3
    <3>2. CharAt(p, j) = p[j] /\ p[j] \in S
      BY <1>1, <1>3, <3>1 DEF CharAt
    <3> QED BY <1>2, <3>2
  <2> QED BY <2>1, <2>2, <2>3
<1> HIDE DEF Ends
<1>4. (CHOOSE x \in i .. (Len(p) + 1) : Ends(x)) = j
  BY <1>2, <1>3
<1> QED BY <1>4 DEF TextEnd, PastAll, Ends

\* Where in its pattern and its arguments a part of a format is.
LEMMA Positions ==
    ASSUME NEW f \in Formats, WellFormed(f), NEW i \in 0 .. Len(f)
    PROVE  /\ PatternOf(f) \in Seq(PatternCharacters) /\ ArgumentsOf(f) \in Seq(Int)
           /\ PatternUpTo(f, i) \in 0 .. Len(PatternOf(f))
           /\ ArgumentsUpTo(f, i) \in 0 .. Len(ArgumentsOf(f))
           /\ \A q \in 1 .. PatternUpTo(f, i) :
                 PatternOf(f)[q] = PatternOf(Upto(f, i))[q]
<1> DEFINE s == PatternOf(Upto(f, i))
           a == ArgumentsOf(Upto(f, i))
<1>1. PICK r \in Seq(PatternCharacters) : PatternOf(f) = s \o r
  BY FormatWhole
<1>2. PICK b \in Seq(Int) : ArgumentsOf(f) = a \o b
  BY FormatWhole
<1>3. s \in Seq(PatternCharacters) /\ a \in Seq(Int)
  BY FormatWhole
<1>4. PatternUpTo(f, i) = Len(s) /\ ArgumentsUpTo(f, i) = Len(a)
  BY DEF PatternUpTo, ArgumentsUpTo, Upto
<1> HIDE DEF s, a
<1>5. /\ s \o r \in Seq(PatternCharacters) /\ Len(s \o r) = Len(s) + Len(r)
      /\ \A q \in 1 .. Len(s) + Len(r) : (s \o r)[q] = IF q <= Len(s) THEN s[q] ELSE r[q - Len(s)]
  BY <1>3, ConcatProperties
<1>6. a \o b \in Seq(Int) /\ Len(a \o b) = Len(a) + Len(b)
  BY <1>3, ConcatProperties
<1>7. Len(s) \in Nat /\ Len(r) \in Nat /\ Len(a) \in Nat /\ Len(b) \in Nat
  BY <1>3, LenProperties
<1>8. \A q \in 1 .. Len(s) : (s \o r)[q] = s[q]
  BY <1>5, <1>7
<1> QED BY <1>1, <1>2, <1>4, <1>5, <1>6, <1>7, <1>8 DEF s

LEMMA PartPosition ==
    ASSUME NEW f \in Formats, WellFormed(f), NEW i \in 0 .. (Len(f) - 1)
    PROVE  LET from == PatternUpTo(f, i)
               part == Pattern(f[i + 1])
           IN  /\ part \in Seq(PatternCharacters)
               /\ PatternUpTo(f, i + 1) = from + Len(part)
               /\ ArgumentsUpTo(f, i + 1)
                    = ArgumentsUpTo(f, i) + Len(Arguments(f[i + 1]))
               /\ \A q \in 1 .. Len(part) : PatternOf(f)[from + q] = part[q]
               /\ SubSeq(PatternOf(f), from + 1, from + Len(part)) = part
<1> DEFINE from == PatternUpTo(f, i)
           part == Pattern(f[i + 1])
           args == Arguments(f[i + 1])
           s == PatternOf(Upto(f, i))
           a == ArgumentsOf(Upto(f, i))
           p == PatternOf(f)
<1>1. Len(f) \in Nat /\ i \in 0 .. Len(f) /\ i + 1 \in 0 .. Len(f)
  BY FormatEnds
<1>2. part \in Seq(PatternCharacters) /\ args \in Seq(Int)
  BY FormatGrows DEF IsPart
<1>3. s \in Seq(PatternCharacters) /\ a \in Seq(Int)
  BY <1>1, FormatWhole
<1>4. PatternOf(Upto(f, i + 1)) = s \o part /\ ArgumentsOf(Upto(f, i + 1)) = a \o args
  BY FormatGrows
<1>5. /\ from = Len(s) /\ ArgumentsUpTo(f, i) = Len(a)
      /\ PatternUpTo(f, i + 1) = Len(s \o part)
      /\ ArgumentsUpTo(f, i + 1) = Len(a \o args)
  BY <1>4 DEF PatternUpTo, ArgumentsUpTo, Upto
<1>6. /\ p \in Seq(PatternCharacters)
      /\ PatternUpTo(f, i + 1) \in 0 .. Len(p)
      /\ \A q \in 1 .. PatternUpTo(f, i + 1) : p[q] = (s \o part)[q]
  BY <1>1, <1>4, Positions
<1> HIDE DEF from, part, args, s, a, p
<1>7. /\ Len(s \o part) = Len(s) + Len(part)
      /\ \A q \in 1 .. Len(s) + Len(part) :
            (s \o part)[q] = IF q <= Len(s) THEN s[q] ELSE part[q - Len(s)]
  BY <1>2, <1>3, ConcatProperties
<1>8. Len(a \o args) = Len(a) + Len(args)
  BY <1>2, <1>3, ConcatProperties
<1>9. Len(s) \in Nat /\ Len(part) \in Nat /\ Len(p) \in Nat /\ from + Len(part) <= Len(p) /\ from \in Nat
  BY <1>2, <1>3, <1>5, <1>6, <1>7, LenProperties
<1>10. ASSUME NEW q \in 1 .. Len(part) PROVE p[from + q] = part[q]
  <2>1. from + q \in 1 .. Len(s) + Len(part) /\ ~(from + q <= Len(s)) /\ (from + q) - Len(s) = q
    BY <1>5, <1>9
  <2> QED BY <1>5, <1>6, <1>7, <2>1
<1>11. SubSeq(p, from + 1, from + Len(part)) = part
  <2> DEFINE t == SubSeq(p, from + 1, from + Len(part))
  <2>1. \A q \in (from + 1) .. (from + Len(part)) : p[q] \in PatternCharacters
    <3>1. \A q \in 1 .. Len(p) : p[q] \in PatternCharacters
      BY <1>6, ElementOfSeq
    <3> QED BY <1>9, <3>1
  <2>2. /\ t \in Seq(PatternCharacters)
        /\ Len(t) = IF from + 1 <= from + Len(part) THEN (from + Len(part)) - (from + 1) + 1 ELSE 0
        /\ \A q \in 1 .. (from + Len(part)) - (from + 1) + 1 : t[q] = p[(from + 1) + q - 1]
    <3>1. from + 1 \in Int /\ from + Len(part) \in Int
      BY <1>9
    <3> QED BY <2>1, <3>1, SubSeqProperties
  <2>3. Len(t) = Len(part)
    BY <1>9, <2>2
  <2>4. ASSUME NEW q \in 1 .. Len(part) PROVE t[q] = part[q]
    <3>1. q \in 1 .. (from + Len(part)) - (from + 1) + 1 /\ (from + 1) + q - 1 = from + q
      BY <1>9
    <3> QED BY <1>10, <2>2, <3>1
  <2> HIDE DEF t
  <2> QED BY <1>2, <2>2, <2>3, <2>4, SeqEqual DEF t
<1> QED BY <1>2, <1>5, <1>7, <1>8, <1>10, <1>11 DEF from, part, args, p

\* The parts behind the i-th, up to the m-th, are text that has no % in it,
\* is what it means, and takes no arguments.
IsText(f, i, m) ==
    /\ i <= m /\ m \in 0 .. Len(f)
    /\ PatternUpTo(f, i) <= PatternUpTo(f, m)
    /\ \A q \in (PatternUpTo(f, i) + 1) .. PatternUpTo(f, m) :
          PatternOf(f)[q] # "%"
    /\ MeaningOf(Upto(f, m))
         = MeaningOf(Upto(f, i))
           \o SubSeq(PatternOf(f), PatternUpTo(f, i) + 1, PatternUpTo(f, m))
    /\ ArgumentsUpTo(f, m) = ArgumentsUpTo(f, i)

LEMMA NoText ==
    ASSUME NEW f \in Formats, WellFormed(f), NEW i \in 0 .. Len(f)
    PROVE  IsText(f, i, i)
<1> DEFINE u == PatternUpTo(f, i)
           M == MeaningOf(Upto(f, i))
<1>1. u \in Nat /\ Len(f) \in Nat /\ M \in Seq(Characters)
  BY Positions, FormatEnds, FormatWhole
<1>2. SubSeq(PatternOf(f), u + 1, u) = << >>
  <2> HIDE DEF u
  <2> QED BY <1>1, SubSeqEmpty
<1> HIDE DEF M
<1>3. M \o << >> = M
  BY <1>1, ConcatEmptySeq
<1> QED BY <1>1, <1>2, <1>3 DEF IsText, M

LEMMA MoreText ==
    ASSUME NEW f \in Formats, WellFormed(f), Readable(f), NEW i \in 0 .. Len(f),
           NEW m \in 0 .. (Len(f) - 1), IsText(f, i, m), f[m + 1].kind = "literal"
    PROVE  IsText(f, i, m + 1)
<1> DEFINE p == PatternOf(f)
           u == PatternUpTo(f, i)
           v == PatternUpTo(f, m)
           part == Pattern(f[m + 1])
           M == MeaningOf(Upto(f, i))
<1>1. Len(f) \in Nat /\ m \in 0 .. Len(f) /\ m + 1 \in DOMAIN f
  BY FormatEnds, FormatGrows
<1>2. /\ part = f[m + 1].text /\ Meaning(f[m + 1]) = part
      /\ Arguments(f[m + 1]) = << >>
  <2>1. "shown" # "literal"
    OBVIOUS
  <2> QED BY <2>1 DEF Pattern, Meaning, Arguments
<1>3. \A q \in DOMAIN part : part[q] # "%"
  BY <1>1, <1>2 DEF Readable
<1>4. /\ p \in Seq(PatternCharacters) /\ u \in 0 .. Len(p) /\ v \in 0 .. Len(p) /\ Len(p) \in Nat
  BY <1>1, Positions, LenProperties
<1>5. /\ part \in Seq(PatternCharacters)
      /\ PatternUpTo(f, m + 1) = v + Len(part)
      /\ ArgumentsUpTo(f, m + 1) = ArgumentsUpTo(f, m) + Len(Arguments(f[m + 1]))
      /\ \A q \in 1 .. Len(part) : p[v + q] = part[q]
      /\ SubSeq(p, v + 1, v + Len(part)) = part
  BY PartPosition
<1>6. PatternUpTo(f, m + 1) \in 0 .. Len(p) /\ ArgumentsUpTo(f, m) \in Int
  <2>1. m + 1 \in 0 .. Len(f)
    BY <1>1
  <2> QED BY <1>1, <2>1, Positions
<1>7. M \in Seq(Characters) /\ part \in Seq(Characters)
  <2>1. PatternCharacters \subseteq Characters
    BY DEF PatternCharacters
  <2>2. part \in Seq(Characters)
    <3> HIDE DEF part
    <3> QED BY <1>5, <2>1, SeqMonotonic
  <2> QED BY <2>2, FormatWhole
<1>8. /\ u <= v /\ MeaningOf(Upto(f, m)) = M \o SubSeq(p, u + 1, v)
      /\ \A q \in (u + 1) .. v : p[q] # "%"
      /\ ArgumentsUpTo(f, m) = ArgumentsUpTo(f, i)
  BY DEF IsText
<1>9. MeaningOf(Upto(f, m + 1)) = MeaningOf(Upto(f, m)) \o part
  BY <1>2, FormatGrows
<1>10. ArgumentsUpTo(f, m + 1) = ArgumentsUpTo(f, i)
  <2>1. Len(<< >>) = 0
    OBVIOUS
  <2> QED BY <1>2, <1>5, <1>6, <1>8, <2>1
<1> HIDE DEF p, u, v, part, M
<1>11. Len(part) \in Nat /\ v + Len(part) <= Len(p) /\ DOMAIN part = 1 .. Len(part)
  BY <1>5, <1>6, LenProperties
<1>12. ASSUME NEW q \in (u + 1) .. (v + Len(part)) PROVE p[q] # "%"
  <2>1. CASE q <= v
    <3>1. q \in (u + 1) .. v
      BY <1>4, <1>11, <2>1
    <3> QED BY <1>8, <3>1
  <2>2. CASE ~(q <= v)
    <3>1. q - v \in 1 .. Len(part) /\ v + (q - v) = q
      BY <1>4, <1>11, <2>2
    <3> QED BY <1>3, <1>5, <1>11, <3>1
  <2> QED BY <2>1, <2>2
<1>13. SubSeq(p, u + 1, v + Len(part)) = SubSeq(p, u + 1, v) \o part
  <2>1. /\ u + 1 \in 1 .. Len(p) + 1 /\ v \in ((u + 1) - 1) .. Len(p)
        /\ v + Len(part) \in v .. Len(p)
    BY <1>4, <1>8, <1>11
  <2>2. SubSeq(p, u + 1, v) \o SubSeq(p, v + 1, v + Len(part)) = SubSeq(p, u + 1, v + Len(part))
    BY <1>4, <2>1, ConcatAdjacentSubSeq
  <2> QED BY <1>5, <2>2
<1>14. (M \o SubSeq(p, u + 1, v)) \o part = M \o (SubSeq(p, u + 1, v) \o part)
  <2>1. \A q \in (u + 1) .. v : p[q] \in Characters
    <3>1. \A q \in 1 .. Len(p) : p[q] \in PatternCharacters
      BY <1>4, ElementOfSeq
    <3> QED BY <1>4, <3>1 DEF PatternCharacters
  <2>2. SubSeq(p, u + 1, v) \in Seq(Characters)
    <3>1. u + 1 \in Int /\ v \in Int
      BY <1>4
    <3> QED BY <2>1, <3>1, SubSeqProperties
  <2> DEFINE t == SubSeq(p, u + 1, v)
  <2> HIDE DEF t
  <2>3. t \in Seq(Characters)
    BY <2>2 DEF t
  <2>4. (M \o t) \o part = M \o (t \o part)
    BY <1>7, <2>3, ConcatAssociative
  <2> QED BY <2>4 DEF t
<1>15. MeaningOf(Upto(f, m + 1)) = M \o SubSeq(p, u + 1, v + Len(part))
  BY <1>8, <1>9, <1>13, <1>14
<1>16. i <= m + 1 /\ m + 1 \in 0 .. Len(f)
  BY <1>1 DEF IsText
<1>17. u <= v + Len(part)
  BY <1>4, <1>8, <1>11
<1> QED BY <1>5, <1>10, <1>12, <1>15, <1>16, <1>17 DEF IsText, p, u, M, v

\* Behind the text that follows the i-th part is a directive, or the end.
LEMMA TextRuns ==
    ASSUME NEW f \in Formats, WellFormed(f), Readable(f), NEW i \in 0 .. Len(f)
    PROVE  \E m \in 0 .. Len(f) :
              IsText(f, i, m) /\ (m = Len(f) \/ f[m + 1].kind # "literal")
<1>1. Len(f) \in Nat
  BY FormatEnds
<1> DEFINE S == {m \in 0 .. Len(f) : i <= m /\ (m = Len(f) \/ f[m + 1].kind # "literal")}
<1>2. PICK m \in S : \A k \in S : m <= k
  <2>1. S \in SUBSET Nat
    OBVIOUS
  <2>2. Len(f) \in S
    BY <1>1
  <2> QED BY <2>1, <2>2, LeastNatural
<1>3. m \in 0 .. Len(f) /\ i <= m /\ (m = Len(f) \/ f[m + 1].kind # "literal")
  OBVIOUS
<1>4. \A k \in i .. (m - 1) : f[k + 1].kind = "literal"
  <2> SUFFICES ASSUME NEW k \in i .. (m - 1), f[k + 1].kind # "literal" PROVE FALSE
    OBVIOUS
  <2>1. k \in S /\ k < m
    BY <1>1, <1>3
  <2> QED BY <1>2, <2>1
<1> HIDE DEF S
<1> DEFINE T == {k \in 0 .. (m - i) : IsText(f, i, i + k)}
<1>5. m - i \in Nat
  BY <1>1, <1>3
<1>6. 0 \in T
  <2>1. i + 0 = i
    BY <1>1
  <2> QED BY <1>5, <2>1, NoText
<1>7. ASSUME NEW k \in 0 .. ((m - i) - 1), k \in T PROVE k + 1 \in T
  <2>1. i + k \in 0 .. (Len(f) - 1) /\ i + k \in i .. (m - 1) /\ (i + k) + 1 = i + (k + 1)
        /\ k + 1 \in 0 .. (m - i)
    BY <1>1, <1>3
  <2>2. IsText(f, i, i + k) /\ f[(i + k) + 1].kind = "literal"
    BY <1>4, <1>7, <2>1
  <2>3. IsText(f, i, (i + k) + 1)
    BY <2>1, <2>2, MoreText
  <2> QED BY <2>1, <2>3
<1> HIDE DEF T
<1>8. m - i \in T
  <2>1. \A k \in 0 .. (m - i) : k \in T
    BY <1>5, <1>6, <1>7, BoundedInduction
  <2> QED BY <1>5, <2>1
<1>9. IsText(f, i, m)
  <2>1. i + (m - i) = m
    BY <1>1, <1>3
  <2> QED BY <1>8, <2>1 DEF T
<1> QED BY <1>3, <1>9

\* A directive begins with its %.
LEMMA DirectiveBegins ==
    ASSUME NEW f \in Formats, WellFormed(f), Readable(f), NEW m \in 0 .. (Len(f) - 1),
           f[m + 1].kind # "literal"
    PROVE  /\ PatternUpTo(f, m) + 1 \in 1 .. Len(PatternOf(f))
           /\ PatternOf(f)[PatternUpTo(f, m) + 1] = "%"
           /\ Shows(f, m + 1)
<1> DEFINE part == Pattern(f[m + 1])
           p == PatternOf(f)
           v == PatternUpTo(f, m)
<1>1. Len(f) \in Nat /\ m + 1 \in DOMAIN f /\ m \in 0 .. Len(f) /\ m + 1 \in 0 .. Len(f)
  BY FormatEnds, FormatGrows
<1>2. part # << >> /\ Head(part) = "%" /\ Shows(f, m + 1)
  BY <1>1 DEF Readable
<1>3. /\ part \in Seq(PatternCharacters) /\ PatternUpTo(f, m + 1) = v + Len(part)
      /\ \A q \in 1 .. Len(part) : p[v + q] = part[q]
  BY PartPosition
<1>4. v \in 0 .. Len(p) /\ PatternUpTo(f, m + 1) \in 0 .. Len(p)
  BY <1>1, Positions
<1> HIDE DEF part, p, v
<1>5. Len(part) \in Nat \ {0} /\ part[1] = "%"
  BY <1>2, <1>3, EmptySeq
<1> QED BY <1>2, <1>3, <1>4, <1>5 DEF p, v

-----------------------------------------------------------------------------
(* What is sent.                                                           *)

\* What the port has sent and holds, and what is still to follow of what was
\* handed to output.
Sent == (line \o shifter) \o txBuffer

ToSend == IF cr THEN <<"\n">> \o Cooked(Tail(out)) ELSE Cooked(out)

\* Between the calls of RawDoFmt everything has been put.
Idle ==
    /\ Sent = printed /\ out = << >> /\ cr = FALSE
    /\ arg = Len(data) + 1 /\ at \in 1 .. (Len(pattern) + 1)

\* While format f is printed after b, with i parts of it done: between two
\* rounds of the loop, or with the next directive read and not yet rendered.
Busy(f, i, b) ==
    /\ f \in Formats /\ i \in 0 .. Len(f) /\ b \in Seq(Characters)
    /\ pattern = PatternOf(f) /\ data = ArgumentsOf(f)
    /\ printed = b \o Cooked(MeaningOf(f))
    /\ arg = ArgumentsUpTo(f, i) + 1
    /\ Sent \o ToSend = b \o Cooked(MeaningOf(Upto(f, i)))
    /\ cr => out # << >> /\ Head(out) = "\n"
    /\ call = "format" => at = PatternUpTo(f, i) + 1
    /\ call = "render" =>
         /\ out = << >> /\ i < Len(f) /\ f[i + 1].kind # "literal"
         /\ directive = Directive(pattern, PatternUpTo(f, i) + 1)
         /\ at = PatternUpTo(f, i + 1) + 1

\* The inductive invariant for what is printed.
PrintInv ==
    /\ call \in {"none", "format", "render", "getchar"}
    /\ script \in Seq(Formats) /\ printed \in Seq(Characters) /\ out \in Seq(Characters)
    /\ cr \in BOOLEAN
    /\ line \in Seq(Characters) /\ shifter \in Seq(Characters) /\ txBuffer \in Seq(Characters)
    /\ Len(shifter) <= 1 /\ Len(txBuffer) <= 1
    /\ call \in {"none", "getchar"} => Idle
    /\ call \in {"format", "render"} => \E f, i, b : Busy(f, i, b)

LEMMA ReadableFormats ==
    ASSUME ScriptsReadable, NEW f \in Formats
    PROVE  Readable(f) /\ WellFormed(f)
BY DEF ScriptsReadable, Formats, Range, Readable

LEMMA SentType ==
    ASSUME PrintInv
    PROVE  Sent \in Seq(Characters) /\ line \o shifter \in Seq(Characters)
<1>1. line \in Seq(Characters) /\ shifter \in Seq(Characters) /\ txBuffer \in Seq(Characters)
  BY DEF PrintInv
<1>2. line \o shifter \in Seq(Characters)
  BY <1>1, ConcatProperties
<1>3. (line \o shifter) \o txBuffer \in Seq(Characters)
  <2> DEFINE s == line \o shifter
  <2> HIDE DEF s
  <2>1. s \in Seq(Characters)
    BY <1>2 DEF s
  <2>2. s \o txBuffer \in Seq(Characters)
    BY <1>1, <2>1, ConcatProperties
  <2> QED BY <2>2 DEF s
<1> QED BY <1>2, <1>3 DEF Sent

\* Nothing is left to send of nothing.
LEMMA NothingToSend ==
    ASSUME out = << >>, cr = FALSE
    PROVE  ToSend = << >>
BY CookedEmpty DEF ToSend

\* What is sent and to be sent is what M is to look like, after b.
IsPut(s, w, b, M) == s \o w = b \o Cooked(M)

\* More of a format is handed to output.
LEMMA HandOver ==
    ASSUME NEW s \in Seq(Characters), NEW b \in Seq(Characters), NEW M \in Seq(Characters),
           NEW t \in Seq(Characters), IsPut(s, << >>, b, M)
    PROVE  IsPut(s, Cooked(t), b, M \o t)
<1> USE DEF IsPut
<1> DEFINE c == Cooked(M)
           d == Cooked(t)
<1>1. c \in Seq(Characters) /\ d \in Seq(Characters) /\ Cooked(M \o t) = c \o d
  BY CookedConcat
<1> HIDE DEF c, d
<1>2. s = b \o c
  <2>1. s \o << >> = s
    BY ConcatEmptySeq
  <2> QED BY <2>1 DEF c
<1>3. (b \o c) \o d = b \o (c \o d)
  <2>1. Cat(Cat(b, c), d) = Cat(b, Cat(c, d))
    BY <1>1, CatFacts
  <2> QED BY <2>1 DEF Cat
<1> QED BY <1>1, <1>2, <1>3 DEF d

LEMMA PrintBegins ==
    ASSUME ScriptsReadable
    PROVE  Init => PrintInv
<1> SUFFICES ASSUME Init PROVE PrintInv
  OBVIOUS
<1>1. /\ script \in Scripts /\ call = "none" /\ pattern = << >> /\ at = 1 /\ data = << >> /\ arg = 1
      /\ out = << >> /\ cr = FALSE /\ txBuffer = << >> /\ shifter = << >> /\ line = << >>
      /\ printed = << >>
  BY DEF Init
<1>2. script \in Seq(Formats)
  <2>1. script \in Seq(Range(script)) /\ Range(script) \subseteq Formats
    BY <1>1 DEF ScriptsReadable, IsSequence, Formats
  <2> DEFINE R == Range(script)
  <2> HIDE DEF R
  <2>2. script \in Seq(R) /\ R \subseteq Formats
    BY <2>1 DEF R
  <2> QED BY <2>2, SeqMonotonic
<1>3. << >> \in Seq(Characters) /\ Len(<< >>) = 0 /\ (<< >> \o << >>) \o << >> = << >>
  <2>1. << >> \in Seq(Characters) /\ Len(<< >>) = 0
    BY EmptySeq
  <2>2. << >> \o << >> = << >>
    BY <2>1, ConcatEmptySeq
  <2> QED BY <2>1, <2>2
<1>4. Idle
  <2>1. Len(data) = 0 /\ Len(pattern) = 0
    BY <1>1, <1>3
  <2>2. arg = Len(data) + 1 /\ at \in 1 .. (Len(pattern) + 1)
    BY <1>1, <2>1
  <2>3. Sent = printed
    BY <1>1, <1>3 DEF Sent
  <2> QED BY <1>1, <2>2, <2>3 DEF Idle
<1>5. cr \in BOOLEAN
  BY <1>1
<1>6. Len(shifter) <= 1 /\ Len(txBuffer) <= 1
  BY <1>1, <1>3
<1>7. call \in {"none", "format", "render", "getchar"} /\ call \notin {"format", "render"}
  BY <1>1
<1> QED BY <1>1, <1>2, <1>3, <1>4, <1>5, <1>6, <1>7, Zenon DEF PrintInv

\* Literal text is handed to output.
LEMMA PrintText ==
    ASSUME ScriptsReadable, PrintInv, Text
    PROVE  PrintInv'
<1>1. /\ call = "format" /\ out = << >> /\ at <= Len(pattern) /\ pattern[at] # "%"
      /\ out' = SubSeq(pattern, at, TextEnd(pattern, at) - 1)
      /\ at' = TextEnd(pattern, at)
      /\ UNCHANGED <<call, pattern, data, arg, directive, cr, txBuffer, shifter, line,
                     script, printed>>
  BY DEF Text, AtRound, transmitVars, callerVars
<1>2. PICK f, i, b : Busy(f, i, b)
  BY <1>1 DEF PrintInv
<1>3. /\ f \in Formats /\ Readable(f) /\ WellFormed(f)
      /\ i \in 0 .. Len(f) /\ b \in Seq(Characters)
  BY <1>2, ReadableFormats DEF Busy
<1>4. PICK m \in 0 .. Len(f) : IsText(f, i, m) /\ (m = Len(f) \/ f[m + 1].kind # "literal")
  BY <1>3, TextRuns
<1> DEFINE p == PatternOf(f)
           u == PatternUpTo(f, i)
           v == PatternUpTo(f, m)
           M == MeaningOf(Upto(f, i))
           t == SubSeq(p, u + 1, v)
<1>5. p \in Seq(PatternCharacters) /\ u \in 0 .. Len(p) /\ v \in 0 .. Len(p) /\ Len(p) \in Nat
  BY <1>3, Positions, LenProperties
<1>6. /\ u <= v /\ MeaningOf(Upto(f, m)) = M \o t
      /\ \A q \in (u + 1) .. v : p[q] # "%"
      /\ ArgumentsUpTo(f, m) = ArgumentsUpTo(f, i)
  BY <1>4 DEF IsText
<1>7. pattern = p /\ at = u + 1
  BY <1>1, <1>2 DEF Busy
<1>8. v + 1 = Len(p) + 1 \/ p[v + 1] = "%"
  <2>1. CASE m = Len(f)
    <3>1. Upto(f, m) = f
      BY <1>3, <2>1, FormatEnds
    <3>2. v = Len(p)
      BY <3>1 DEF PatternUpTo, Upto
    <3> QED BY <3>2
  <2>2. CASE m # Len(f)
    <3>1. m \in 0 .. (Len(f) - 1) /\ f[m + 1].kind # "literal"
      BY <1>3, <1>4, <2>2, FormatEnds
    <3> QED BY <1>3, <3>1, DirectiveBegins
  <2> QED BY <2>1, <2>2
<1>9. M \in Seq(Characters)
  BY <1>3, FormatWhole
<1> HIDE DEF p, u, v, M
<1>10. TextEnd(p, u + 1) = v + 1
  <2>1. /\ u + 1 \in 1 .. Len(p) /\ v + 1 \in (u + 1) .. (Len(p) + 1)
        /\ \A k \in (u + 1) .. ((v + 1) - 1) : p[k] # "%"
    <3>1. u + 1 <= Len(p)
      BY <1>1, <1>7
    <3> QED BY <1>5, <1>6, <3>1
  <2> DEFINE x == u + 1  y == v + 1
  <2>2. /\ x \in 1 .. Len(p) /\ y \in x .. (Len(p) + 1) /\ \A k \in x .. (y - 1) : p[k] # "%"
        /\ (y = Len(p) + 1 \/ p[y] = "%")
    BY <1>8, <2>1
  <2> HIDE DEF x, y
  <2>3. TextEnd(p, x) = y
    BY <1>5, <2>2, TextEndIs
  <2> QED BY <2>3 DEF x, y
<1>11. out' = t /\ at' = v + 1
  <2>1. (v + 1) - 1 = v
    BY <1>5
  <2> QED BY <1>1, <1>7, <1>10, <2>1
<1>12. t \in Seq(Characters)
  <2>1. \A q \in 1 .. Len(p) : p[q] \in PatternCharacters
    BY <1>5, ElementOfSeq
  <2>2. \A q \in (u + 1) .. v : p[q] \in Characters
    BY <1>5, <2>1 DEF PatternCharacters
  <2>3. u + 1 \in Int /\ v \in Int
    BY <1>5
  <2> QED BY <2>2, <2>3, SubSeqProperties
<1> HIDE DEF t
<1>13. cr = FALSE /\ cr' = FALSE
  <2>1. cr \in BOOLEAN /\ (cr => out # << >>)
    BY <1>2 DEF Busy, PrintInv
  <2> QED BY <1>1, <2>1
<1>14. Sent' = Sent /\ ToSend = << >> /\ ToSend' = Cooked(t)
  <2>1. ToSend' = Cooked(out')
    BY <1>13 DEF ToSend
  <2> QED BY <1>1, <1>11, <1>13, <2>1, NothingToSend DEF Sent
<1>15. Sent \o Cooked(t) = b \o Cooked(M \o t)
  <2>1. Sent \o << >> = b \o Cooked(M)
    BY <1>2, <1>14 DEF Busy, M
  <2>2. Sent \in Seq(Characters)
    BY SentType
  <2> DEFINE s == Sent
  <2> HIDE DEF s
  <2>3. s \in Seq(Characters) /\ IsPut(s, << >>, b, M)
    BY <2>1, <2>2 DEF s, IsPut
  <2>4. IsPut(s, Cooked(t), b, M \o t)
    BY <1>3, <1>9, <1>12, <2>3, HandOver
  <2> QED BY <2>4 DEF s, IsPut
<1>16. Busy(f, m, b)'
  <2>1. Sent' \o ToSend' = b \o Cooked(MeaningOf(Upto(f, m)))
    BY <1>6, <1>14, <1>15
  <2>2. /\ pattern' = pattern /\ data' = data /\ printed' = printed /\ arg' = arg /\ call' = "format"
        /\ at' = PatternUpTo(f, m) + 1
    BY <1>1, <1>11 DEF v
  <2>3. call' # "render"
    BY <2>2
  <2>4. /\ pattern = PatternOf(f) /\ data = ArgumentsOf(f)
        /\ printed = b \o Cooked(MeaningOf(f))
        /\ arg = ArgumentsUpTo(f, m) + 1
    BY <1>2, <1>6 DEF Busy
  <2> QED BY <1>3, <1>4, <1>13, <2>1, <2>2, <2>3, <2>4 DEF Busy
<1>17. \E f_, i_, b_ : Busy(f_, i_, b_)'
  BY <1>16
<1>18. out' \in Seq(Characters) /\ cr' \in BOOLEAN /\ call' = "format"
  BY <1>1, <1>11, <1>12, <1>13
<1> QED BY <1>1, <1>17, <1>18 DEF PrintInv

\* A directive is read where the text before it ends.
LEMMA PrintReads ==
    ASSUME ScriptsReadable, PrintInv, ReadDirective
    PROVE  PrintInv'
<1>1. /\ call = "format" /\ out = << >> /\ at <= Len(pattern) /\ pattern[at] = "%"
      /\ directive' = Directive(pattern, at)
      /\ at' = Directive(pattern, at).next
      /\ call' = "render"
      /\ UNCHANGED <<pattern, data, arg, out, cr, txBuffer, shifter, line, script, printed>>
  BY DEF ReadDirective, AtRound, transmitVars, callerVars
<1>2. PICK f, i, b : Busy(f, i, b)
  BY <1>1 DEF PrintInv
<1>3. /\ f \in Formats /\ Readable(f) /\ WellFormed(f)
      /\ i \in 0 .. Len(f) /\ b \in Seq(Characters)
  BY <1>2, ReadableFormats DEF Busy
<1>4. PICK m \in 0 .. Len(f) : IsText(f, i, m) /\ (m = Len(f) \/ f[m + 1].kind # "literal")
  BY <1>3, TextRuns
<1> DEFINE p == PatternOf(f)
           u == PatternUpTo(f, i)
           v == PatternUpTo(f, m)
           M == MeaningOf(Upto(f, i))
<1>5. u \in 0 .. Len(p) /\ v \in 0 .. Len(p) /\ Len(p) \in Nat
  BY <1>3, Positions, LenProperties
<1>6. pattern = p /\ at = u + 1
  BY <1>1, <1>2 DEF Busy
<1>7. M \in Seq(Characters)
  BY <1>3, FormatWhole
<1>8. v = u
  <2>1. u <= v /\ \A q \in (u + 1) .. v : p[q] # "%"
    BY <1>4 DEF IsText
  <2> HIDE DEF p, u, v
  <2>2. CASE u < v
    <3>1. u + 1 \in (u + 1) .. v
      BY <1>5, <2>2
    <3> QED BY <1>1, <1>6, <2>1, <3>1
  <2> QED BY <1>5, <2>1, <2>2
<1>9. /\ MeaningOf(Upto(f, m)) = M
      /\ ArgumentsUpTo(f, m) = ArgumentsUpTo(f, i)
  <2>1. MeaningOf(Upto(f, m)) = M \o SubSeq(p, u + 1, v)
    BY <1>4 DEF IsText
  <2>2. SubSeq(p, u + 1, v) = << >>
    <3> HIDE DEF p, u, v
    <3> QED BY <1>5, <1>8, SubSeqEmpty
  <2> HIDE DEF M
  <2>3. M \o << >> = M
    BY <1>7, ConcatEmptySeq
  <2> QED BY <1>4, <2>1, <2>2, <2>3 DEF IsText
<1>10. m \in 0 .. (Len(f) - 1) /\ f[m + 1].kind # "literal"
  <2>1. CASE m = Len(f)
    <3>1. Upto(f, m) = f
      BY <1>3, <2>1, FormatEnds
    <3>2. v = Len(p)
      BY <3>1 DEF PatternUpTo, Upto
    <3> QED BY <1>1, <1>5, <1>6, <1>8, <3>2
  <2>2. CASE m # Len(f)
    BY <1>3, <1>4, <2>2, FormatEnds
  <2> QED BY <2>1, <2>2
<1>11. Directive(pattern, at).next = PatternUpTo(f, m + 1) + 1
  <2>1. Shows(f, m + 1)
    BY <1>3, <1>10, DirectiveBegins
  <2>2. (m + 1) - 1 = m
    BY <1>3, FormatEnds
  <2> QED BY <1>6, <1>8, <2>1, <2>2 DEF Shows
<1>12. Busy(f, m, b)'
  <2>1. Sent' = Sent /\ ToSend' = ToSend
    BY <1>1 DEF Sent, ToSend
  <2>2. m < Len(f) /\ cr' = cr /\ out' = << >>
    BY <1>1, <1>3, <1>10, FormatEnds
  <2>3. /\ directive' = Directive(pattern, PatternUpTo(f, m) + 1)
        /\ at' = PatternUpTo(f, m + 1) + 1
    BY <1>1, <1>6, <1>8, <1>11
  <2>4. call' # "format"
    BY <1>1
  <2> HIDE DEF p, u, v, M
  <2>5. Sent \o ToSend = b \o Cooked(MeaningOf(Upto(f, m)))
    BY <1>2, <1>9 DEF Busy, M
  <2>6. /\ pattern = PatternOf(f) /\ data = ArgumentsOf(f)
        /\ printed = b \o Cooked(MeaningOf(f))
        /\ arg = ArgumentsUpTo(f, m) + 1
        /\ cr => out # << >> /\ Head(out) = "\n"
    BY <1>2, <1>9 DEF Busy
  <2> QED BY <1>1, <1>3, <1>4, <1>10, <2>1, <2>2, <2>3, <2>4, <2>5, <2>6 DEF Busy
<1>13. \E f_, i_, b_ : Busy(f_, i_, b_)'
  BY <1>12
<1>14. call' \in {"none", "format", "render", "getchar"} /\ call' \notin {"none", "getchar"}
  BY <1>1
<1> QED BY <1>1, <1>13, <1>14 DEF PrintInv

\* The directive is rendered, and what it means handed to output.
LEMMA PrintRenders ==
    ASSUME ScriptsReadable, PrintInv, Render
    PROVE  PrintInv'
<1>1. /\ call = "render"
      /\ out' = Field(directive, Argument(directive, data, arg))
      /\ arg' = arg + WordsTaken(directive)
      /\ call' = "format"
      /\ UNCHANGED <<pattern, at, data, cr, txBuffer, shifter, line, script, printed>>
  BY DEF Render, transmitVars, callerVars
<1>2. PICK f, i, b : Busy(f, i, b)
  BY <1>1 DEF PrintInv
<1>3. /\ f \in Formats /\ Readable(f) /\ WellFormed(f)
      /\ i \in 0 .. Len(f) /\ b \in Seq(Characters)
  BY <1>2, ReadableFormats DEF Busy
<1>4. /\ pattern = PatternOf(f) /\ data = ArgumentsOf(f)
      /\ printed = b \o Cooked(MeaningOf(f))
      /\ arg = ArgumentsUpTo(f, i) + 1
      /\ cr => out # << >>
      /\ Sent \o ToSend = b \o Cooked(MeaningOf(Upto(f, i)))
  BY <1>2 DEF Busy
<1>5. /\ out = << >> /\ i < Len(f) /\ f[i + 1].kind # "literal"
      /\ directive = Directive(pattern, PatternUpTo(f, i) + 1)
      /\ at = PatternUpTo(f, i + 1) + 1
  BY <1>1, <1>2 DEF Busy
<1>6. i \in 0 .. (Len(f) - 1) /\ i + 1 \in 0 .. Len(f) /\ (i + 1) - 1 = i
  BY <1>3, <1>5, FormatEnds
<1> DEFINE t == Meaning(f[i + 1])
           M == MeaningOf(Upto(f, i))
<1>7. out' = t /\ WordsTaken(directive) = Len(Arguments(f[i + 1]))
  <2>1. Shows(f, i + 1)
    BY <1>3, <1>5, <1>6, DirectiveBegins
  <2> QED BY <1>1, <1>4, <1>5, <1>6, <2>1 DEF Shows
<1>8. t \in Seq(Characters) /\ MeaningOf(Upto(f, i + 1)) = M \o t /\ M \in Seq(Characters)
  BY <1>3, <1>6, FormatGrows, FormatWhole DEF IsPart
<1>9. arg' = ArgumentsUpTo(f, i + 1) + 1
  <2>1. /\ ArgumentsUpTo(f, i + 1)
             = ArgumentsUpTo(f, i) + Len(Arguments(f[i + 1]))
        /\ ArgumentsUpTo(f, i) \in Int
    BY <1>3, <1>6, PartPosition, Positions
  <2>2. Arguments(f[i + 1]) \in Seq(Int)
    BY <1>3, <1>6, FormatGrows DEF IsPart
  <2> DEFINE n == Len(Arguments(f[i + 1]))
  <2>3. n \in Nat
    BY <2>2, LenProperties
  <2> HIDE DEF n
  <2>4. arg' = (ArgumentsUpTo(f, i) + 1) + n
    BY <1>1, <1>4, <1>7 DEF n
  <2> QED BY <2>1, <2>3, <2>4 DEF n
<1> HIDE DEF t, M
<1>10. cr = FALSE /\ cr' = FALSE
  <2>1. cr \in BOOLEAN
    BY DEF PrintInv
  <2> QED BY <1>1, <1>4, <1>5, <2>1
<1>11. Sent' = Sent /\ ToSend = << >> /\ ToSend' = Cooked(t)
  <2>1. ToSend' = Cooked(out')
    BY <1>10 DEF ToSend
  <2> QED BY <1>1, <1>5, <1>7, <1>10, <2>1, NothingToSend DEF Sent
<1>12. Sent \o Cooked(t) = b \o Cooked(M \o t)
  <2> DEFINE s == Sent
  <2> HIDE DEF s
  <2>1. s \in Seq(Characters) /\ IsPut(s, << >>, b, M)
    BY <1>4, <1>11, SentType DEF s, IsPut, M
  <2>2. IsPut(s, Cooked(t), b, M \o t)
    BY <1>3, <1>8, <2>1, HandOver
  <2> QED BY <2>2 DEF s, IsPut
<1>13. Busy(f, i + 1, b)'
  <2>1. Sent' \o ToSend' = b \o Cooked(MeaningOf(Upto(f, i + 1)))
    BY <1>8, <1>11, <1>12
  <2>2. call' # "render"
    BY <1>1
  <2> QED BY <1>1, <1>3, <1>4, <1>5, <1>6, <1>9, <1>10, <2>1, <2>2 DEF Busy
<1>14. \E f_, i_, b_ : Busy(f_, i_, b_)'
  BY <1>13
<1>15. out' \in Seq(Characters) /\ cr' \in BOOLEAN /\ call' = "format"
  BY <1>1, <1>7, <1>8, <1>10
<1> QED BY <1>1, <1>14, <1>15 DEF PrintInv

\* Moving a character from what is to be sent to what is sent, by the law that
\* concatenation is associative.
LEMMA OneMore ==
    ASSUME NEW s \in Seq(Characters), NEW c \in Seq(Characters), NEW w \in Seq(Characters)
    PROVE  (s \o c) \o w = s \o (c \o w)
<1>1. Cat(Cat(s, c), w) = Cat(s, Cat(c, w))
  BY CatFacts
<1> QED BY <1>1 DEF Cat

\* putc gives the port one character of what is to be sent.
LEMMA OneIsPut ==
    ASSUME PrintInv, PutChar, call = "format", cr => out # << >> /\ Head(out) = "\n"
    PROVE  /\ Sent' \o ToSend' = Sent \o ToSend
           /\ out' \in Seq(Characters) /\ cr' \in BOOLEAN
           /\ cr' => out' # << >> /\ Head(out') = "\n"
           /\ txBuffer' \in Seq(Characters) /\ Len(txBuffer') <= 1
<1> DEFINE c == Head(out)  w == Cooked(Tail(out))  r == line \o shifter
<1>1. /\ out # << >> /\ txBuffer = << >> /\ line' = line /\ shifter' = shifter
      /\ \/ c = "\n" /\ cr # TRUE /\ txBuffer' = <<"\r">> /\ cr' = TRUE /\ out' = out
         \/ (c # "\n" \/ cr = TRUE) /\ txBuffer' = << c >> /\ cr' = FALSE /\ out' = Tail(out)
  BY DEF PutChar
<1>2. out \in Seq(Characters) /\ cr \in BOOLEAN
  BY DEF PrintInv
<1>3. c \in Characters /\ Tail(out) \in Seq(Characters) /\ Cooked(out) = Cook[c] \o w
  BY <1>1, <1>2, CookedFirst
<1>4. w \in Seq(Characters) /\ r \in Seq(Characters)
  BY <1>3, CookedConcat, SentType
<1>5. Cook[c] = IF c = "\n" THEN <<"\r">> \o <<"\n">> ELSE << c >>
  BY <1>3, SomeCharacters, Zenon DEF Cook
<1>6. Sent = r
  <2> HIDE DEF r
  <2>1. r \o << >> = r
    BY <1>4, ConcatEmptySeq
  <2> QED BY <1>1, <2>1 DEF Sent, r
<1>7. Sent' = r \o txBuffer'
  BY <1>1 DEF Sent
<1>8. ToSend = IF cr THEN <<"\n">> \o w ELSE Cook[c] \o w
  BY <1>3 DEF ToSend
<1> HIDE DEF w, r
<1>9. CASE c = "\n" /\ cr # TRUE /\ txBuffer' = <<"\r">> /\ cr' = TRUE /\ out' = out
  <2>1. ToSend = (<<"\r">> \o <<"\n">>) \o w
    BY <1>2, <1>5, <1>8, <1>9
  <2>2. ToSend' = <<"\n">> \o w
    BY <1>9 DEF ToSend, w
  <2>3. <<"\n">> \o w \in Seq(Characters)
    BY <1>4, SomeCharacters, ConcatProperties
  <2>4. ToSend = <<"\r">> \o (<<"\n">> \o w)
    <3>1. (<<"\r">> \o <<"\n">>) \o w = <<"\r">> \o (<<"\n">> \o w)
      BY <1>4, SomeCharacters, OneMore
    <3> QED BY <2>1, <3>1
  <2>5. (r \o <<"\r">>) \o (<<"\n">> \o w) = r \o (<<"\r">> \o (<<"\n">> \o w))
    BY <1>4, <2>3, SomeCharacters, OneMore
  <2>6. Len(<<"\r">>) <= 1
    OBVIOUS
  <2> QED BY <1>1, <1>2, <1>6, <1>7, <1>9, <2>2, <2>4, <2>5, <2>6, SomeCharacters
<1>10. CASE (c # "\n" \/ cr = TRUE) /\ txBuffer' = << c >> /\ cr' = FALSE /\ out' = Tail(out)
  <2>1. ToSend = << c >> \o w
    <3>1. CASE cr = TRUE
      <4>1. c = "\n"
        BY <3>1
      <4> HIDE DEF c
      <4> QED BY <1>8, <3>1, <4>1
    <3>2. CASE cr # TRUE
      <4>1. cr = FALSE /\ c # "\n"
        BY <1>2, <1>10, <3>2
      <4> HIDE DEF c
      <4> QED BY <1>5, <1>8, <4>1
    <3> QED BY <3>1, <3>2
  <2>2. ToSend' = w
    BY <1>10 DEF ToSend, w
  <2> HIDE DEF c
  <2>3. << c >> \in Seq(Characters) /\ Len(<< c >>) <= 1
    BY <1>3
  <2>4. (r \o << c >>) \o w = r \o (<< c >> \o w)
    BY <1>4, <2>3, OneMore
  <2> QED BY <1>3, <1>6, <1>7, <1>10, <2>1, <2>2, <2>3, <2>4
<1> QED BY <1>1, <1>9, <1>10

LEMMA PrintPuts ==
    ASSUME PrintInv, PutChar
    PROVE  PrintInv'
<1>1. /\ call = "format" /\ out # << >>
      /\ UNCHANGED <<call, pattern, at, data, arg, directive, shifter, line, script, printed>>
  BY DEF PutChar, callerVars
<1>2. PICK f, i, b : Busy(f, i, b)
  BY <1>1 DEF PrintInv
<1>3. cr => out # << >> /\ Head(out) = "\n"
  BY <1>2 DEF Busy
<1>4. /\ Sent' \o ToSend' = Sent \o ToSend
      /\ out' \in Seq(Characters) /\ cr' \in BOOLEAN
      /\ cr' => out' # << >> /\ Head(out') = "\n"
      /\ txBuffer' \in Seq(Characters) /\ Len(txBuffer') <= 1
  BY <1>1, <1>3, OneIsPut
<1>5. Busy(f, i, b)'
  <2>1. call' # "render"
    BY <1>1
  <2> QED BY <1>1, <1>2, <1>4, <2>1 DEF Busy
<1>6. \E f_, i_, b_ : Busy(f_, i_, b_)'
  BY <1>5
<1>7. call' = "format"
  BY <1>1
<1> QED BY <1>1, <1>4, <1>6, <1>7 DEF PrintInv

\* The loop ends when everything has been put.
LEMMA PrintReturns ==
    ASSUME ScriptsReadable, PrintInv, FormatReturns
    PROVE  PrintInv'
<1>1. /\ call = "format" /\ out = << >> /\ at > Len(pattern) /\ call' = "none"
      /\ UNCHANGED <<pattern, at, data, arg, directive, out, cr, txBuffer, shifter, line,
                     script, printed>>
  BY DEF FormatReturns, AtRound, formatVars, transmitVars,
         callerVars
<1>2. PICK f, i, b : Busy(f, i, b)
  BY <1>1 DEF PrintInv
<1>3. /\ f \in Formats /\ Readable(f) /\ WellFormed(f)
      /\ i \in 0 .. Len(f) /\ b \in Seq(Characters)
  BY <1>2, ReadableFormats DEF Busy
<1>4. PICK m \in 0 .. Len(f) : IsText(f, i, m) /\ (m = Len(f) \/ f[m + 1].kind # "literal")
  BY <1>3, TextRuns
<1> DEFINE p == PatternOf(f)
           u == PatternUpTo(f, i)
           v == PatternUpTo(f, m)
           M == MeaningOf(Upto(f, i))
<1>5. u \in 0 .. Len(p) /\ v \in 0 .. Len(p) /\ Len(p) \in Nat
  BY <1>3, Positions, LenProperties
<1>6. /\ pattern = p /\ at = u + 1 /\ arg = ArgumentsUpTo(f, i) + 1
      /\ data = ArgumentsOf(f) /\ printed = b \o Cooked(MeaningOf(f))
      /\ Sent \o ToSend = b \o Cooked(M)
      /\ cr => out # << >>
  BY <1>1, <1>2 DEF Busy
<1>7. u <= v /\ MeaningOf(Upto(f, m)) = M \o SubSeq(p, u + 1, v)
      /\ ArgumentsUpTo(f, m) = ArgumentsUpTo(f, i)
  BY <1>4 DEF IsText
<1>8. M \in Seq(Characters)
  BY <1>3, FormatWhole
<1>9. v = u /\ u = Len(p)
  <2> HIDE DEF p, u, v
  <2> QED BY <1>1, <1>5, <1>6, <1>7
<1>10. MeaningOf(Upto(f, m)) = M
  <2>1. SubSeq(p, u + 1, v) = << >>
    <3> HIDE DEF p, u, v
    <3> QED BY <1>5, <1>9, SubSeqEmpty
  <2> HIDE DEF M
  <2>2. M \o << >> = M
    BY <1>8, ConcatEmptySeq
  <2> QED BY <1>7, <2>1, <2>2
<1>11. m = Len(f)
  <2>1. CASE m # Len(f)
    <3>1. m \in 0 .. (Len(f) - 1) /\ f[m + 1].kind # "literal"
      BY <1>3, <1>4, <2>1, FormatEnds
    <3>2. v + 1 \in 1 .. Len(p)
      BY <1>3, <3>1, DirectiveBegins
    <3> QED BY <1>5, <1>9, <3>2
  <2> QED BY <2>1
<1>12. Upto(f, m) = f
  BY <1>3, <1>11, FormatEnds
<1>13. ArgumentsUpTo(f, m) = Len(ArgumentsOf(f))
  BY <1>12 DEF ArgumentsUpTo, Upto
<1>14. cr = FALSE
  BY <1>1, <1>6 DEF PrintInv
<1>15. Sent = printed
  <2>1. Sent \o << >> = printed
    BY <1>1, <1>6, <1>10, <1>12, <1>14, NothingToSend
  <2> DEFINE s == Sent
  <2> HIDE DEF s
  <2>2. s \in Seq(Characters)
    BY SentType DEF s
  <2>3. s \o << >> = s
    BY <2>2, ConcatEmptySeq
  <2> QED BY <2>1, <2>3 DEF s
<1>16. at \in 1 .. (Len(pattern) + 1)
  <2> HIDE DEF p, u
  <2> QED BY <1>5, <1>6
<1>17. arg = Len(data) + 1
  BY <1>6, <1>7, <1>13
<1>18. Idle
  BY <1>1, <1>14, <1>15, <1>16, <1>17 DEF Idle
<1>19. Idle'
  <2>1. Sent' = Sent
    BY <1>1 DEF Sent
  <2> QED BY <1>1, <1>18, <2>1 DEF Idle
<1>20. call' \in {"none", "format", "render", "getchar"} /\ call' \notin {"format", "render"}
  BY <1>1
<1> QED BY <1>1, <1>19, <1>20 DEF PrintInv

\* A call of RawDoFmt begins with everything before it put.
LEMMA PrintStarts ==
    ASSUME ScriptsReadable, PrintInv, RawDoFmt
    PROVE  PrintInv'
<1> DEFINE f == Head(script)
<1>1. /\ call = "none" /\ script # << >> /\ call' = "format"
      /\ pattern' = PatternOf(f) /\ at' = 1
      /\ data' = ArgumentsOf(f) /\ arg' = 1
      /\ script' = Tail(script) /\ printed' = printed \o Expected[f]
      /\ UNCHANGED <<out, cr, txBuffer, shifter, line>>
  BY DEF RawDoFmt, transmitVars
<1>2. /\ script \in Seq(Formats) /\ printed \in Seq(Characters)
      /\ Sent = printed /\ out = << >> /\ cr = FALSE
  BY <1>1 DEF PrintInv, Idle
<1>3. f \in Formats /\ script' \in Seq(Formats)
  <2>1. script # << >> /\ script \in Seq(Formats)
    BY <1>1, <1>2
  <2>2. Head(script) \in Formats /\ Tail(script) \in Seq(Formats)
    BY <2>1, HeadTailProperties
  <2> QED BY <1>1, <2>2
<1> HIDE DEF f
<1>4. WellFormed(f) /\ Len(f) \in Nat /\ Upto(f, 0) = << >> /\ Upto(f, Len(f)) = f
  BY <1>3, ReadableFormats, FormatEnds
<1>5. Expected[f] = Cooked(MeaningOf(f))
  BY <1>3 DEF Expected, Formats
<1>6. Cooked(MeaningOf(f)) \in Seq(Characters)
  <2>1. Len(f) \in 0 .. Len(f)
    BY <1>4
  <2>2. MeaningOf(f) \in Seq(Characters)
    BY <1>3, <1>4, <2>1, FormatWhole
  <2> QED BY <2>2, CookedConcat
<1>7. printed' \in Seq(Characters)
  <2> DEFINE e == Cooked(MeaningOf(f))
  <2>1. e \in Seq(Characters) /\ printed' = printed \o e
    BY <1>1, <1>5, <1>6
  <2> HIDE DEF e
  <2> QED BY <1>2, <2>1, ConcatProperties
<1>8. Cooked(MeaningOf(Upto(f, 0))) = << >>
  BY <1>4, FormatsNone, CookedEmpty
<1>9. Sent' = printed /\ ToSend' = << >>
  <2>1. ToSend = << >>
    BY <1>2, NothingToSend
  <2> QED BY <1>1, <1>2, <2>1 DEF Sent, ToSend
<1>10. PatternUpTo(f, 0) = 0 /\ ArgumentsUpTo(f, 0) = 0
  <2>1. Len(<< >>) = 0
    OBVIOUS
  <2>2. SubSeq(f, 1, 0) = << >>
    BY <1>4 DEF Upto
  <2> QED BY <2>1, <2>2, FormatsNone DEF PatternUpTo, ArgumentsUpTo
<1>11. \E g, b : Busy(g, 0, b)'
  <2>1. PICK g : g = f
    OBVIOUS
  <2>2. PICK b : b = printed
    OBVIOUS
  <2>3. /\ g \in Formats /\ 0 \in 0 .. Len(g) /\ b \in Seq(Characters)
        /\ pattern' = PatternOf(g) /\ data' = ArgumentsOf(g)
        /\ printed' = b \o Cooked(MeaningOf(g))
        /\ Sent' \o ToSend' = b \o Cooked(MeaningOf(Upto(g, 0)))
    BY <1>1, <1>2, <1>3, <1>4, <1>5, <1>8, <1>9, <2>1, <2>2
  <2>4. at' = PatternUpTo(g, 0) + 1 /\ arg' = ArgumentsUpTo(g, 0) + 1
    BY <1>1, <1>10, <2>1
  <2>5. call' # "render" /\ cr' = FALSE
    BY <1>1, <1>2
  <2>6. Busy(g, 0, b)'
    BY <2>3, <2>4, <2>5 DEF Busy
  <2> QED BY <2>6
<1>12. \E f_, i_, b_ : Busy(f_, i_, b_)'
  BY <1>11
<1>13. call' = "format"
  BY <1>1
<1> QED BY <1>1, <1>3, <1>7, <1>12, <1>13 DEF PrintInv

\* A step that leaves alone what is printed and what has been sent.
LEMMA PrintUndisturbed ==
    ASSUME PrintInv, Sent' = Sent,
           UNCHANGED <<script, printed, pattern, at, data, arg, directive, out, cr>>,
           line' \in Seq(Characters), shifter' \in Seq(Characters), txBuffer' \in Seq(Characters),
           Len(shifter') <= 1, Len(txBuffer') <= 1,
           call' = call \/ (call \in {"none", "getchar"} /\ call' \in {"none", "getchar"})
    PROVE  PrintInv'
<1>1. ToSend' = ToSend
  BY DEF ToSend
<1>2. CASE call \in {"none", "getchar"}
  <2>1. call' \in {"none", "getchar"} /\ Idle
    BY <1>2 DEF PrintInv
  <2>2. Idle'
    BY <2>1 DEF Idle
  <2>3. call' \in {"none", "format", "render", "getchar"} /\ call' \notin {"format", "render"}
    BY <2>1
  <2> QED BY <2>2, <2>3 DEF PrintInv
<1>3. CASE call \notin {"none", "getchar"}
  <2>1. call \in {"format", "render"} /\ call' = call
    BY <1>3 DEF PrintInv
  <2>2. PICK f, i, b : Busy(f, i, b)
    BY <2>1 DEF PrintInv
  <2>3. Busy(f, i, b)'
    BY <1>1, <2>1, <2>2 DEF Busy
  <2>4. \E f_, i_, b_ : Busy(f_, i_, b_)'
    BY <2>3
  <2> QED BY <2>1, <2>4 DEF PrintInv
<1> QED BY <1>2, <1>3

\* Moving the characters on inside the port sends nothing else.
LEMMA PrintMoves ==
    ASSUME PrintInv, Load \/ Send
    PROVE  PrintInv'
<1>1. /\ line \in Seq(Characters) /\ shifter \in Seq(Characters) /\ txBuffer \in Seq(Characters)
      /\ Len(shifter) <= 1 /\ Len(txBuffer) <= 1 /\ line \o shifter \in Seq(Characters)
  BY SentType DEF PrintInv
<1>2. << >> \in Seq(Characters) /\ Len(<< >>) <= 1
  BY EmptySeq
<1>3. CASE Load
  <2>1. /\ shifter = << >> /\ shifter' = txBuffer /\ txBuffer' = << >> /\ line' = line
        /\ UNCHANGED <<call, script, printed, pattern, at, data, arg, directive, out, cr>>
    BY <1>3 DEF Load, formatVars, callerVars
  <2>2. Sent' = Sent
    <3> DEFINE s == line \o txBuffer
    <3>1. s \in Seq(Characters) /\ line \o << >> = line
      BY <1>1, ConcatProperties, ConcatEmptySeq
    <3>2. Sent = s
      BY <2>1, <3>1 DEF Sent
    <3>3. Sent' = s \o << >>
      BY <2>1 DEF Sent
    <3> HIDE DEF s
    <3> QED BY <3>1, <3>2, <3>3, ConcatEmptySeq
  <2> QED BY <1>1, <1>2, <2>1, <2>2, PrintUndisturbed
<1>4. CASE Send
  <2>1. /\ shifter' = << >> /\ txBuffer' = txBuffer /\ line' = line \o shifter
        /\ UNCHANGED <<call, script, printed, pattern, at, data, arg, directive, out, cr>>
    BY <1>4 DEF Send, formatVars, callerVars
  <2>2. Sent' = Sent
    <3> DEFINE s == line \o shifter
    <3>1. s \in Seq(Characters)
      BY <1>1
    <3>2. Sent = s \o txBuffer /\ Sent' = (s \o << >>) \o txBuffer
      BY <2>1 DEF Sent
    <3> HIDE DEF s
    <3>3. s \o << >> = s
      BY <3>1, ConcatEmptySeq
    <3> QED BY <3>2, <3>3
  <2> QED BY <1>1, <1>2, <2>1, <2>2, PrintUndisturbed
<1> QED BY <1>3, <1>4

\* So does reading what was received.
LEMMA PrintUnread ==
    ASSUME PrintInv,
           \/ RawMayGetChar \/ Acknowledge \/ Receive
           \/ UNCHANGED debuggerVars
    PROVE  PrintInv'
<1>1. UNCHANGED <<script, printed, pattern, at, data, arg, directive, out, cr,
                  line, shifter, txBuffer>>
  BY DEF RawMayGetChar, Acknowledge, Receive, debuggerVars,
         formatVars, callerVars, transmitVars
<1>2. call' = call \/ (call \in {"none", "getchar"} /\ call' \in {"none", "getchar"})
  BY DEF RawMayGetChar, Acknowledge, Receive, debuggerVars
<1>3. Sent' = Sent
  BY <1>1 DEF Sent
<1>4. /\ line' \in Seq(Characters) /\ shifter' \in Seq(Characters) /\ txBuffer' \in Seq(Characters)
      /\ Len(shifter') <= 1 /\ Len(txBuffer') <= 1
  BY <1>1 DEF PrintInv
<1> QED BY <1>1, <1>2, <1>3, <1>4, PrintUndisturbed

LEMMA PrintInvKept ==
    ASSUME ScriptsReadable
    PROVE  PrintInv /\ [Next]_debuggerVars => PrintInv'
<1> SUFFICES ASSUME PrintInv, [Next]_debuggerVars PROVE PrintInv'
  OBVIOUS
<1>1. CASE RawDoFmt
  BY <1>1, PrintStarts
<1>2. CASE Text
  BY <1>2, PrintText
<1>3. CASE ReadDirective
  BY <1>3, PrintReads
<1>4. CASE Render
  BY <1>4, PrintRenders
<1>5. CASE PutChar
  BY <1>5, PrintPuts
<1>6. CASE FormatReturns
  BY <1>6, PrintReturns
<1>7. CASE Load \/ Send
  BY <1>7, PrintMoves
<1>8. CASE \/ RawMayGetChar \/ Acknowledge \/ Receive
           \/ UNCHANGED debuggerVars
  BY <1>8, PrintUnread
<1> QED BY <1>1, <1>2, <1>3, <1>4, <1>5, <1>6, <1>7, <1>8
        DEF Next, Processor, Port

LEMMA ToSendType ==
    ASSUME PrintInv, cr => out # << >>
    PROVE  ToSend \in Seq(Characters)
<1>1. out \in Seq(Characters) /\ cr \in BOOLEAN
  BY DEF PrintInv
<1>2. CASE cr = TRUE
  <2>1. Tail(out) \in Seq(Characters)
    BY <1>1, <1>2, CookedFirst
  <2> DEFINE w == Cooked(Tail(out))
  <2>2. w \in Seq(Characters) /\ <<"\n">> \in Seq(Characters)
    BY <2>1, CookedConcat, SomeCharacters
  <2>3. ToSend = <<"\n">> \o w
    BY <1>2 DEF ToSend
  <2> HIDE DEF w
  <2> QED BY <2>2, <2>3, ConcatProperties
<1>3. CASE cr = FALSE
  BY <1>1, <1>3, CookedConcat DEF ToSend
<1> QED BY <1>1, <1>2, <1>3

\* What is followed by more begins the whole.
LEMMA ConcatBegins ==
    ASSUME NEW s \in Seq(Characters), NEW t \in Seq(Characters)
    PROVE  IsPrefix(s, s \o t)
<1>1. /\ s \o t \in Seq(Characters) /\ Len(s \o t) = Len(s) + Len(t)
      /\ \A q \in 1 .. Len(s) + Len(t) : (s \o t)[q] = IF q <= Len(s) THEN s[q] ELSE t[q - Len(s)]
  BY ConcatProperties
<1>2. Len(s) \in Nat /\ Len(t) \in Nat
  BY LenProperties
<1> DEFINE w == s \o t
<1>3. \A q \in 1 .. Len(s) : w[q] = s[q] /\ w[q] \in Characters
  <2>1. \A q \in 1 .. Len(s) : s[q] \in Characters
    BY ElementOfSeq
  <2> QED BY <1>1, <1>2, <2>1
<1> HIDE DEF w
<1>4. /\ SubSeq(w, 1, Len(s)) \in Seq(Characters)
      /\ Len(SubSeq(w, 1, Len(s))) = IF 1 <= Len(s) THEN Len(s) - 1 + 1 ELSE 0
      /\ \A q \in 1 .. Len(s) - 1 + 1 : SubSeq(w, 1, Len(s))[q] = w[1 + q - 1]
  BY <1>2, <1>3, SubSeqProperties
<1>5. Len(SubSeq(w, 1, Len(s))) = Len(s)
  BY <1>2, <1>4
<1>6. \A q \in 1 .. Len(s) : SubSeq(w, 1, Len(s))[q] = s[q]
  BY <1>2, <1>3, <1>4
<1>7. SubSeq(w, 1, Len(s)) = s
  <2> DEFINE a == SubSeq(w, 1, Len(s))
  <2>1. a \in Seq(Characters) /\ Len(a) = Len(s) /\ \A q \in 1 .. Len(a) : a[q] = s[q]
    BY <1>4, <1>5, <1>6
  <2> HIDE DEF a
  <2>2. a = s
    BY <2>1, SeqEqual
  <2> QED BY <2>2 DEF a
<1>8. SubSeq(s, 1, Len(s)) = s
  BY SubSeqFull
<1>9. Len(s) <= Len(w)
  BY <1>1, <1>2 DEF w
<1> QED BY <1>7, <1>8, <1>9 DEF IsPrefix, w

LEMMA PrintedFollows ==
    ASSUME ScriptsReadable, PrintInv
    PROVE  LineFollowsFormat
<1>1. Sent \in Seq(Characters) /\ printed \in Seq(Characters)
  BY SentType DEF PrintInv
<1>2. CASE call \in {"none", "getchar"}
  <2>1. Idle
    BY <1>2 DEF PrintInv
  <2>2. Sent = printed /\ arg = Len(data) + 1
    BY <2>1 DEF Idle
  <2>3. IsPrefix(Sent, printed)
    BY <2>2 DEF IsPrefix
  <2> QED BY <2>2, <2>3 DEF LineFollowsFormat, Sent
<1>3. CASE call \in {"format", "render"}
  <2>1. PICK f, i, b : Busy(f, i, b)
    BY <1>3 DEF PrintInv
  <2>2. /\ f \in Formats /\ Readable(f) /\ WellFormed(f)
        /\ i \in 0 .. Len(f) /\ b \in Seq(Characters)
        /\ printed = b \o Cooked(MeaningOf(f))
        /\ Sent \o ToSend = b \o Cooked(MeaningOf(Upto(f, i)))
        /\ cr => out # << >>
    BY <2>1, ReadableFormats DEF Busy
  <2> DEFINE M == MeaningOf(Upto(f, i))
  <2>3. PICK r \in Seq(Characters) : MeaningOf(f) = M \o r
    BY <2>2, FormatWhole
  <2>4. M \in Seq(Characters)
    BY <2>2, FormatWhole
  <2> DEFINE c == Cooked(M)  d == Cooked(r)  s == Sent  w == ToSend
  <2>5. /\ c \in Seq(Characters) /\ d \in Seq(Characters)
        /\ Cooked(MeaningOf(f)) = c \o d
    BY <2>3, <2>4, CookedConcat
  <2>6. s \in Seq(Characters) /\ w \in Seq(Characters) /\ s \o w = b \o c /\ printed = b \o (c \o d)
    BY <1>1, <2>2, <2>5, ToSendType
  <2> HIDE DEF c, d, s, w
  <2>7. printed = s \o (w \o d)
    <3>1. (b \o c) \o d = b \o (c \o d) /\ (s \o w) \o d = s \o (w \o d)
      BY <2>2, <2>5, <2>6, OneMore
    <3> QED BY <2>6, <3>1
  <2>8. w \o d \in Seq(Characters)
    BY <2>5, <2>6, ConcatProperties
  <2> DEFINE e == w \o d
  <2> HIDE DEF e
  <2>9. IsPrefix(s, s \o e)
    BY <2>6, <2>8, ConcatBegins DEF e
  <2>10. IsPrefix(Sent, printed)
    BY <2>7, <2>9 DEF s, e
  <2>11. call # "none"
    BY <1>3
  <2> QED BY <2>10, <2>11 DEF LineFollowsFormat, Sent
<1> QED BY <1>2, <1>3 DEF PrintInv

\* If every directive of the formats that are printed is read and rendered as
\* it means, whatever the formats are, then what RawDoFmt puts on the line,
\* however the processor and the port take turns, is the beginning of what the
\* formats mean, and when it returns all of it, with no argument left over.
THEOREM LineIsWhatFormatsMean ==
    ASSUME ScriptsReadable
    PROVE  Spec => []LineFollowsFormat
<1>1. Init => PrintInv
  BY PrintBegins
<1>2. PrintInv /\ [Next]_debuggerVars => PrintInv'
  BY PrintInvKept
<1>3. PrintInv => LineFollowsFormat
  BY PrintedFollows
<1> QED BY <1>1, <1>2, <1>3, PTL DEF Spec

-----------------------------------------------------------------------------
(* Where the processor is in its format.                                   *)

\* No more characters come than there are.
ReceiveBound == received <= MaxReceived

LEMMA ReceiveBoundKept ==
    ReceiveInv /\ ReceiveBound /\ [Next]_debuggerVars => ReceiveBound'
<1>0. MaxReceived \in Nat
  BY DebuggerAssumption
<1> SUFFICES ASSUME ReceiveInv, ReceiveBound, [Next]_debuggerVars PROVE ReceiveBound'
  OBVIOUS
<1>1. CASE Receive
  BY <1>0, <1>1 DEF Receive, ReceiveInv, ReceiveBound
<1>2. CASE RawMayGetChar \/ Acknowledge \/ getVars' = getVars
  <2>1. received' = received
    BY <1>2 DEF RawMayGetChar, Acknowledge, getVars, receiveVars
  <2> QED BY <2>1 DEF ReceiveBound
<1> QED BY <1>1, <1>2, OthersDoNotReceive

\* A run of characters ends behind its last one or at the pattern's NUL.
LEMMA RunEnds ==
    ASSUME NEW p, Len(p) \in Nat, NEW i \in 1 .. (Len(p) + 1), NEW S, NUL \notin S
    PROVE  /\ PastAll(p, i, S) \in i .. (Len(p) + 1)
           /\ CharAt(p, PastAll(p, i, S)) \notin S
<1> DEFINE Ends(x) == CharAt(p, x) \notin S /\ \A k \in i .. (x - 1) : p[k] \in S
           E == {x \in i .. (Len(p) + 1) : CharAt(p, x) \notin S}
<1>1. Len(p) + 1 \in E
  BY DEF CharAt
<1>2. PICK j \in E : \A k \in E : j <= k
  <2>1. E \in SUBSET Nat
    OBVIOUS
  <2> HIDE DEF E
  <2> QED BY <1>1, <2>1, LeastNatural
<1>3. Ends(j)
  <2>1. ASSUME NEW k \in i .. (j - 1) PROVE p[k] \in S
    <3>1. k \in i .. (Len(p) + 1) /\ k <= Len(p) /\ ~(j <= k)
      BY <1>2
    <3>2. CharAt(p, k) \in S
      BY <1>2, <3>1
    <3> QED BY <3>1, <3>2 DEF CharAt
  <2> QED BY <1>2, <2>1
<1>4. j \in i .. (Len(p) + 1)
  BY <1>2
<1>5. Ends(j) => CharAt(p, j) \notin S
  OBVIOUS
<1> DEFINE c == CHOOSE x \in i .. (Len(p) + 1) : Ends(x)
<1> HIDE DEF Ends
<1>6. c \in i .. (Len(p) + 1) /\ Ends(c)
  BY <1>3, <1>4
<1>7. CharAt(p, c) \notin S
  BY <1>6 DEF Ends
<1>8. PastAll(p, i, S) = c
  BY DEF PastAll, c, Ends
<1> QED BY <1>6, <1>7, <1>8

\* Whatever stands behind a %, the next round of the loop is in the pattern or
\* at its end: where the type is missing, format has stepped back.
LEMMA DirectiveEnds ==
    ASSUME NEW p, Len(p) \in Nat, NEW i \in 1 .. Len(p)
    PROVE  Directive(p, i).next \in 1 .. (Len(p) + 1)
<1> DEFINE f == PastAll(p, i + 1, Flags)
           w == PastAll(p, f, Digits)
           l == IF CharAt(p, w) = "." THEN PastAll(p, w + 1, Digits) ELSE w
           t == IF CharAt(p, l) = "l" THEN l + 1 ELSE l
<1>1. NUL \notin Flags /\ NUL \notin Digits
  <2>1. NUL \notin Digits
    <3>1. 1 .. 10 = {1, 2, 3, 4, 5, 6, 7, 8, 9, 10}
      OBVIOUS
    <3>2. /\ Symbols[1] = "0" /\ Symbols[2] = "1" /\ Symbols[3] = "2"
          /\ Symbols[4] = "3" /\ Symbols[5] = "4" /\ Symbols[6] = "5"
          /\ Symbols[7] = "6" /\ Symbols[8] = "7" /\ Symbols[9] = "8"
          /\ Symbols[10] = "9"
      BY DEF Symbols
    <3> QED BY <3>1, <3>2 DEF Digits, NUL
  <2> QED BY <2>1 DEF Flags, NUL
<1>2. \A k \in 1 .. (Len(p) + 1) : CharAt(p, k) # NUL => k <= Len(p)
  BY DEF CharAt
<1>3. NUL # "." /\ NUL # "l"
  BY DEF NUL
<1>4. i + 1 \in 1 .. (Len(p) + 1)
  OBVIOUS
<1>5. f \in (i + 1) .. (Len(p) + 1)
  BY <1>1, <1>4, RunEnds
<1> HIDE DEF f
<1>6. f \in 1 .. (Len(p) + 1)
  BY <1>5
<1>7. w \in f .. (Len(p) + 1)
  BY <1>1, <1>6, RunEnds
<1> HIDE DEF w
<1>8. w \in 1 .. (Len(p) + 1)
  BY <1>6, <1>7
<1>9. l \in 1 .. (Len(p) + 1)
  <2>1. CASE CharAt(p, w) = "."
    <3>1. w + 1 \in 1 .. (Len(p) + 1)
      BY <1>2, <1>3, <1>8, <2>1
    <3>2. PastAll(p, w + 1, Digits) \in (w + 1) .. (Len(p) + 1)
      BY <1>1, <3>1, RunEnds
    <3> QED BY <1>8, <2>1, <3>2
  <2>2. CASE CharAt(p, w) # "."
    BY <1>8, <2>2
  <2> QED BY <2>1, <2>2
<1> HIDE DEF l
<1>10. t \in 1 .. (Len(p) + 1)
  BY <1>2, <1>3, <1>9
<1> HIDE DEF t
<1>11. After(p, t) \in 1 .. (Len(p) + 1)
  BY <1>2, <1>10 DEF After
<1>12. Directive(p, i).next = After(p, t)
  BY Zenon DEF Directive, f, w, l, t
<1> QED BY <1>11, <1>12

\* Where format is in its pattern, which ends before its NUL, and what the port
\* holds.
ParseInv ==
    /\ call \in {"none", "format", "render", "getchar"}
    /\ script \in Seq(Formats)
    /\ Len(pattern) \in Nat /\ NUL \notin Range(pattern)
    /\ at \in 1 .. (Len(pattern) + 1)
    /\ Len(txBuffer) <= 1 /\ Len(shifter) <= 1

LEMMA ParseBegins == PatternsEnd /\ Init => ParseInv
<1> SUFFICES ASSUME PatternsEnd, Init PROVE ParseInv
  OBVIOUS
<1>1. script \in Seq(Formats)
  <2> DEFINE R == Range(script)
  <2>1. script \in Seq(R) /\ R \subseteq Formats
    BY DEF Init, PatternsEnd, IsSequence, Formats
  <2> HIDE DEF R
  <2> QED BY <2>1, SeqMonotonic
<1>2. Len(<< >>) = 0 /\ NUL \notin Range(<< >>)
  BY DEF Range
<1> QED BY <1>1, <1>2 DEF Init, ParseInv

LEMMA ParseInvKept == PatternsEnd /\ ParseInv /\ [Next]_debuggerVars => ParseInv'
<1> SUFFICES ASSUME PatternsEnd, ParseInv, [Next]_debuggerVars PROVE ParseInv'
  OBVIOUS
<1>0. /\ call \in {"none", "format", "render", "getchar"} /\ script \in Seq(Formats)
      /\ Len(pattern) \in Nat /\ NUL \notin Range(pattern) /\ at \in 1 .. (Len(pattern) + 1)
      /\ Len(txBuffer) <= 1 /\ Len(shifter) <= 1
  BY DEF ParseInv
<1>1. CASE RawDoFmt
  <2> DEFINE f == Head(script)
  <2>1. /\ call' = "format" /\ pattern' = PatternOf(f) /\ at' = 1
        /\ script' = Tail(script) /\ script # << >>
        /\ txBuffer' = txBuffer /\ shifter' = shifter
    BY <1>1 DEF RawDoFmt, transmitVars
  <2>2. f \in Formats /\ script' \in Seq(Formats)
    BY <1>0, <2>1, HeadTailProperties
  <2> HIDE DEF f
  <2>3. IsSequence(PatternOf(f)) /\ NUL \notin Range(PatternOf(f))
    BY <2>2 DEF PatternsEnd, Formats, Range
  <2> DEFINE q == PatternOf(f)  R == Range(PatternOf(f))
  <2>4. q \in Seq(R)
    BY <2>3 DEF IsSequence
  <2> HIDE DEF R
  <2>5. Len(q) \in Nat
    BY <2>4, LenProperties
  <2> QED BY <1>0, <2>1, <2>2, <2>3, <2>5 DEF ParseInv
<1>2. CASE Text
  <2> DEFINE S == {pattern[k] : k \in DOMAIN pattern} \ {"%"}
  <2>1. /\ UNCHANGED <<call, pattern, script, txBuffer, shifter>>
        /\ at' = PastAll(pattern, at, S)
    BY <1>2 DEF Text, TextEnd, transmitVars, callerVars
  <2>2. NUL \notin S
    BY <1>0 DEF Range
  <2> HIDE DEF S
  <2>3. at' \in at .. (Len(pattern) + 1)
    BY <1>0, <2>1, <2>2, RunEnds
  <2>4. at' \in 1 .. (Len(pattern) + 1)
    BY <1>0, <2>3
  <2> QED BY <1>0, <2>1, <2>4 DEF ParseInv
<1>3. CASE ReadDirective
  <2>1. /\ UNCHANGED <<pattern, script, txBuffer, shifter>>
        /\ call' = "render" /\ at <= Len(pattern)
        /\ at' = Directive(pattern, at).next
    BY <1>3 DEF ReadDirective, transmitVars, callerVars
  <2>2. at' \in 1 .. (Len(pattern) + 1)
    BY <1>0, <2>1, DirectiveEnds
  <2> QED BY <1>0, <2>1, <2>2 DEF ParseInv
<1>4. CASE Render \/ FormatReturns \/ RawMayGetChar \/ Acknowledge \/ Receive
  <2>1. /\ UNCHANGED <<pattern, at, script, txBuffer, shifter>>
        /\ call' \in {"none", "format", "render", "getchar"}
    BY <1>0, <1>4 DEF Render, FormatReturns, RawMayGetChar, Acknowledge, Receive,
                      formatVars, transmitVars, callerVars
  <2> QED BY <1>0, <2>1 DEF ParseInv
<1>5. CASE PutChar
  <2>1. UNCHANGED <<call, pattern, at, script, shifter>> /\ Len(txBuffer') = 1
    BY <1>5 DEF PutChar, callerVars
  <2> QED BY <1>0, <2>1 DEF ParseInv
<1>6. CASE Load \/ Send
  <2>1. /\ UNCHANGED <<call, pattern, at, script>>
        /\ Len(txBuffer') <= 1 /\ Len(shifter') <= 1
    BY <1>0, <1>6 DEF Load, Send, formatVars, callerVars
  <2> QED BY <1>0, <2>1 DEF ParseInv
<1>7. CASE UNCHANGED debuggerVars
  BY <1>0, <1>7 DEF ParseInv, debuggerVars, formatVars, transmitVars, callerVars
<1> QED BY <1>1, <1>2, <1>3, <1>4, <1>5, <1>6, <1>7 DEF Next, Processor, Port

\* Whatever C strings it is given for patterns (flags, widths and types that
\* format does not know, directives that break off, no matter where), format
\* stays in its pattern, and the port holds no more than a character in each of
\* its registers.
THEOREM DebuggerTypes ==
    ASSUME PatternsEnd
    PROVE  Spec => []TypeOK
<1>0. MaxReceived \in Nat
  BY DebuggerAssumption
<1>1. Init => ParseInv /\ ReceiveInv /\ ReceiveBound
  <2>1. Init => ReceiveInv /\ received = 0
    BY ReceiveBegins DEF Init
  <2> QED BY <1>0, <2>1, ParseBegins DEF ReceiveBound
<1>2. /\ ParseInv /\ ReceiveInv /\ ReceiveBound /\ [Next]_debuggerVars
      => ParseInv' /\ ReceiveInv' /\ ReceiveBound'
  BY ParseInvKept, ReceiveInvKept, ReceiveBoundKept
<1>3. ParseInv /\ ReceiveInv /\ ReceiveBound => TypeOK
  <2> SUFFICES ASSUME ParseInv, ReceiveInv, ReceiveBound PROVE TypeOK
    OBVIOUS
  <2>1. received \in 0 .. MaxReceived /\ got \in Seq(1 .. MaxReceived)
    <3>1. received \in Nat /\ got \in Seq(1 .. received) /\ received <= MaxReceived
      BY DEF ReceiveInv, ReceiveBound
    <3>2. 1 .. received \subseteq 1 .. MaxReceived
      BY <1>0, <3>1
    <3> DEFINE R == 1 .. received  Q == 1 .. MaxReceived
    <3> HIDE DEF R, Q
    <3>3. got \in Seq(R) /\ R \subseteq Q
      BY <3>1, <3>2 DEF R, Q
    <3>4. got \in Seq(Q)
      BY <3>3, SeqMonotonic
    <3> QED BY <1>0, <3>1, <3>4 DEF Q
  <2> QED BY <2>1 DEF TypeOK, ParseInv
<1> QED BY <1>1, <1>2, <1>3, PTL DEF Spec

-----------------------------------------------------------------------------
(* Formats without arithmetic.                                             *)

\* The types that format knows, and what may come between the % and a type.
Types == {"c", "d", "u", "x", "s", "b", "p"}
Marks == Flags \cup Digits \cup {".", "l", NUL}

LEMMA NothingPassed ==
    ASSUME NEW p, Len(p) \in Nat, NEW i \in 1 .. (Len(p) + 1), NEW S, CharAt(p, i) \notin S
    PROVE  PastAll(p, i, S) = i
<1> DEFINE Ends(x) == CharAt(p, x) \notin S /\ \A k \in i .. (x - 1) : p[k] \in S
<1>1. i \in i .. (Len(p) + 1) /\ Ends(i)
  OBVIOUS
<1>2. ASSUME NEW x \in i .. (Len(p) + 1), Ends(x) PROVE x = i
  <2>1. CASE x # i
    <3>1. i \in i .. (x - 1) /\ i <= Len(p)
      BY <2>1
    <3>2. CharAt(p, i) = p[i] /\ p[i] \in S
      BY <1>2, <3>1 DEF CharAt
    <3> QED BY <3>2
  <2> QED BY <2>1
<1> HIDE DEF Ends
<1>3. (CHOOSE x \in i .. (Len(p) + 1) : Ends(x)) = i
  BY <1>1, <1>2
<1> QED BY <1>3 DEF PastAll, Ends

LEMMA NothingAccumulated ==
    ASSUME NEW n
    PROVE  Accumulate(n, << >>) = n
<1>1. DOMAIN << >> = {} /\ SUBSET {} = {{}}
  OBVIOUS
<1> QED BY <1>1 DEF Accumulate, FoldLeft, MapThenFoldSet

LEMMA MarksAre ==
    /\ Flags \cup Digits \subseteq Marks
    /\ \A t \in {"s", "b", "c"} : t \notin Marks
<1>1. Digits = {"0", "1", "2", "3", "4", "5", "6", "7", "8", "9"}
  <2>1. 1 .. 10 = {1, 2, 3, 4, 5, 6, 7, 8, 9, 10}
    OBVIOUS
  <2>2. /\ Symbols[1] = "0" /\ Symbols[2] = "1" /\ Symbols[3] = "2"
        /\ Symbols[4] = "3" /\ Symbols[5] = "4" /\ Symbols[6] = "5"
        /\ Symbols[7] = "6" /\ Symbols[8] = "7" /\ Symbols[9] = "8"
        /\ Symbols[10] = "9"
    BY DEF Symbols
  <2> QED BY <2>1, <2>2 DEF Digits
<1> QED BY <1>1 DEF Marks, Flags, NUL

\* Behind a % comes at once the type.
LEMMA PlainDirective ==
    ASSUME NEW p \in Seq(PatternCharacters), NEW i \in 1 .. (Len(p) - 1),
           p[i + 1] \notin Marks \cup {"p"}
    PROVE  LET d == Directive(p, i)
           IN  /\ d.flags = {} /\ d.zero_fill = FALSE /\ d.width = 0 /\ d.limit = -1
               /\ d.long = FALSE /\ d.type = p[i + 1] /\ d.next = i + 2
<1>1. Len(p) \in Nat /\ i \in Nat /\ i + 1 \in 1 .. (Len(p) + 1) /\ i + 1 <= Len(p)
  BY LenProperties
<1>2. CharAt(p, i + 1) = p[i + 1]
  BY <1>1 DEF CharAt
<1>3. /\ p[i + 1] \notin Flags /\ p[i + 1] \notin Digits
      /\ p[i + 1] # "." /\ p[i + 1] # "l" /\ p[i + 1] # "p" /\ p[i + 1] # NUL
  BY DEF Marks
<1>4. /\ PastAll(p, i + 1, Flags) = i + 1
      /\ PastAll(p, i + 1, Digits) = i + 1
  BY <1>1, <1>2, <1>3, NothingPassed
<1>5. SubSeq(p, i + 1, (i + 1) - 1) = << >> /\ SubSeq(p, (i + 1) + 1, (i + 1) - 1) = << >>
  BY <1>1, SubSeqEmpty
<1>6. /\ Accumulate(0, SubSeq(p, i + 1, (i + 1) - 1)) = 0
      /\ Accumulate(-1, SubSeq(p, (i + 1) + 1, (i + 1) - 1)) = -1
  BY <1>5, NothingAccumulated
<1>7. {p[k] : k \in (i + 1) .. ((i + 1) - 1)} = {}
  BY <1>1
<1>8. After(p, i + 1) = i + 2
  BY <1>1, <1>2, <1>3 DEF After
<1> DEFINE c == CharAt(p, i + 1)
           pointer == c = "p"
           set     == {p[k] : k \in (i + 1) .. ((i + 1) - 1)}
           width   == Accumulate(0, SubSeq(p, i + 1, (i + 1) - 1))
           limit   == Accumulate(-1, SubSeq(p, (i + 1) + 1, (i + 1) - 1))
           next    == After(p, i + 1)
           read    == [flags     |-> set \cup IF pointer THEN {"#"} ELSE {},
                       zero_fill |-> pointer \/ ("0" \in set /\ width = 0),
                       width     |-> width,
                       limit     |-> limit,
                       long      |-> pointer \/ i + 1 > i + 1,
                       type      |-> IF pointer THEN "x" ELSE c,
                       next      |-> next]
<1>9. (IF c = "." THEN PastAll(p, (i + 1) + 1, Digits) ELSE i + 1) = i + 1
      /\ (IF c = "l" THEN (i + 1) + 1 ELSE i + 1) = i + 1
  BY <1>2, <1>3
<1>10. Directive(p, i) = read
  BY <1>4, <1>9, Zenon DEF Directive
<1>11. ~pointer /\ ~(i + 1 > i + 1) /\ "0" \notin set
  BY <1>1, <1>2, <1>3, <1>7
<1>12. set = {} /\ width = 0 /\ limit = -1 /\ c = p[i + 1] /\ next = i + 2
  BY <1>2, <1>6, <1>7, <1>8
<1> HIDE DEF c, set, width, limit, next
<1>13. /\ read.flags = set \cup {} /\ read.width = width /\ read.limit = limit /\ read.next = next
       /\ read.type = c
  BY <1>11, Zenon
<1>14. read.zero_fill = FALSE /\ read.long = FALSE
  BY <1>11, Zenon
<1> QED BY <1>10, <1>12, <1>13, <1>14

LEMMA LongIs ==
    ASSUME NEW v \in (-(2^31)) .. (2^31 - 1)
    PROVE  LET w == LongWords(v)
           IN  /\ w \in Seq(Int) /\ Len(w) = 2
               /\ (IF w[1] >= 2^15 THEN w[1] - 2^16 ELSE w[1]) * 2^16 + w[2] = v
<1>1. 2^16 = 65536 /\ 2^15 = 32768 /\ 2^31 = 32768 * 65536
  OBVIOUS
<1>2. v \in Int /\ -(32768 * 65536) <= v /\ v < 32768 * 65536
  BY <1>1
<1> DEFINE hi == (v \div 65536) % 65536
           lo == v % 65536
<1>3. (IF hi >= 32768 THEN hi - 65536 ELSE hi) * 65536 + lo = v /\ hi \in Int /\ lo \in Int
  BY <1>2
<1> HIDE DEF hi, lo
<1>4. LongWords(v) = << hi, lo >>
  BY <1>1 DEF LongWords, hi, lo
<1> QED BY <1>1, <1>3, <1>4

\* Where the arguments of a part are.
LEMMA ArgumentPosition ==
    ASSUME NEW f \in Formats, WellFormed(f), NEW i \in 0 .. (Len(f) - 1),
           NEW q \in 1 .. Len(Arguments(f[i + 1]))
    PROVE  ArgumentsOf(f)[ArgumentsUpTo(f, i) + q] = Arguments(f[i + 1])[q]
<1> DEFINE a == ArgumentsOf(Upto(f, i))
           args == Arguments(f[i + 1])
<1>1. i \in 0 .. Len(f) /\ i + 1 \in 0 .. Len(f)
  BY FormatEnds
<1>2. PICK r \in Seq(Int) : ArgumentsOf(f) = (a \o args) \o r
  <2>1. PICK r \in Seq(Int) : ArgumentsOf(f) = ArgumentsOf(Upto(f, i + 1)) \o r
    BY <1>1, FormatWhole
  <2>2. ArgumentsOf(Upto(f, i + 1)) = a \o args
    BY FormatGrows
  <2> QED BY <2>1, <2>2
<1>3. a \in Seq(Int) /\ args \in Seq(Int)
  BY <1>1, FormatGrows, FormatWhole DEF IsPart
<1>4. ArgumentsUpTo(f, i) = Len(a) /\ q \in 1 .. Len(args)
  BY DEF ArgumentsUpTo, Upto
<1> HIDE DEF a, args
<1>5. /\ a \o args \in Seq(Int) /\ Len(a \o args) = Len(a) + Len(args)
      /\ \A k \in 1 .. Len(a) + Len(args) :
            (a \o args)[k] = IF k <= Len(a) THEN a[k] ELSE args[k - Len(a)]
  BY <1>3, ConcatProperties
<1> DEFINE w == a \o args
<1> HIDE DEF w
<1>6. /\ w \in Seq(Int) /\ Len(w) = Len(a) + Len(args)
      /\ ArgumentsOf(f) = w \o r
  BY <1>2, <1>5 DEF w
<1>7. \A k \in 1 .. Len(w) + Len(r) : (w \o r)[k] = IF k <= Len(w) THEN w[k] ELSE r[k - Len(w)]
  <2>1. w \in Seq(Int) /\ r \in Seq(Int)
    BY <1>2, <1>6
  <2> QED BY ONLY <2>1, ConcatProperties
<1>8. /\ Len(a) + q \in 1 .. Len(a) + Len(args) /\ ~(Len(a) + q <= Len(a)) /\ (Len(a) + q) - Len(a) = q
      /\ Len(a) + q \in 1 .. Len(w) + Len(r) /\ Len(a) + q <= Len(w)
  <2>1. Len(a) \in Nat /\ Len(args) \in Nat /\ Len(r) \in Nat /\ Len(w) = Len(a) + Len(args)
    BY <1>3, <1>6, LenProperties
  <2> QED BY <1>4, <2>1
<1>9. (w \o r)[Len(a) + q] = w[Len(a) + q]
  BY <1>7, <1>8
<1>10. w[Len(a) + q] = args[q]
  BY <1>5, <1>8 DEF w
<1> QED BY <1>4, <1>6, <1>9, <1>10 DEF args

\* A directive without flags and width, for a character, a string (or none) or
\* a type that format does not know, which stands for itself.
IsDirective(m, t, v) ==
    /\ m = Shown(<< >>, 0, FALSE, t, v)
    /\ \/ t = "c" /\ v \in Int
       \/ /\ t \in {"s", "b"} /\ v \in (-(2^31)) .. (2^31 - 1)
          /\ v = 0 \/ IsSequence(Strings[v])
       \/ t \notin Types \cup Marks

PlainText(t, v) ==
    CASE t = "c"          -> << CharOf[v] >>
      [] t \in {"s", "b"} -> IF v = 0 THEN << >> ELSE Strings[v]
      [] OTHER            -> << t >>

PlainArguments(t, v) ==
    CASE t = "c"          -> << v >>
      [] t \in {"s", "b"} -> LongWords(v)
      [] OTHER            -> << >>

LEMMA OneThenOne ==
    ASSUME NEW c, NEW t
    PROVE  << c >> \o << >> \o << >> \o << >> \o << t >> = << c, t >>
<1>1. << c >> \o << >> = << c >>
  <2>1. << c >> \in Seq({c})
    OBVIOUS
  <2> QED BY <2>1, ConcatEmptySeq
<1>2. << c >> \o << t >> = << c, t >>
  <2> DEFINE S == {c, t}  w == << c >> \o << t >>  z == << c, t >>
  <2>1. /\ << c >> \in Seq(S) /\ << t >> \in Seq(S) /\ z \in Seq(S) /\ Len(z) = 2
        /\ Len(<< c >>) = 1 /\ Len(<< t >>) = 1 /\ << c >>[1] = c /\ << t >>[1] = t
        /\ z[1] = c /\ z[2] = t
    OBVIOUS
  <2>2. /\ w \in Seq(S) /\ Len(w) = Len(<< c >>) + Len(<< t >>)
        /\ \A q \in 1 .. Len(<< c >>) + Len(<< t >>) :
              w[q] = IF q <= Len(<< c >>) THEN << c >>[q] ELSE << t >>[q - Len(<< c >>)]
    BY <2>1, ConcatProperties
  <2>3. Len(w) = 2 /\ w[1] = c /\ w[2] = t
    BY <2>1, <2>2
  <2>4. \A q \in 1 .. Len(w) : w[q] = z[q]
    BY <2>1, <2>3
  <2> HIDE DEF S, w, z
  <2>5. w = z
    BY <2>1, <2>2, <2>3, <2>4, SeqEqual
  <2> QED BY <2>5 DEF w, z
<1> QED BY <1>1, <1>2

LEMMA PlainWritten ==
    ASSUME NEW m, NEW t, NEW v, IsDirective(m, t, v)
    PROVE  /\ t \notin Marks \cup {"p"} /\ m.kind # "literal"
           /\ Pattern(m) = << "%", t >>
           /\ Arguments(m) = PlainArguments(t, v)
           /\ Meaning(m) = PlainText(t, v)
           /\ IsSequence(PlainText(t, v)) /\ PlainArguments(t, v) \in Seq(Int)
<1>1. /\ m.kind = "shown" /\ m.flags = << >> /\ m.width = 0 /\ m.long = FALSE /\ m.type = t
      /\ m.value = v
  BY DEF IsDirective, Shown
<1>2. t \notin Marks \cup {"p"}
  BY MarksAre DEF IsDirective, Types
<1>3. m.kind # "literal"
  BY <1>1
<1>4. Pattern(m) = << "%", t >>
  <2>1. t # NUL
    BY <1>2 DEF Marks
  <2>2. Pattern(m) = <<"%">> \o << >> \o << >> \o << >> \o << t >>
    BY <1>1, <1>3, <2>1 DEF Pattern
  <2> QED BY <2>2, OneThenOne
<1>5. Arguments(m) = PlainArguments(t, v)
  <2>1. CASE t = "c"
    BY <1>1, <2>1 DEF Arguments, PlainArguments
  <2>2. CASE t \in {"s", "b"}
    BY <1>1, <2>2 DEF Arguments, PlainArguments
  <2>3. CASE t \notin Types
    BY <1>1, <2>3 DEF Arguments, PlainArguments, Types
  <2> QED BY <2>1, <2>2, <2>3 DEF IsDirective
<1>6. Unpadded(m) = PlainText(t, v)
  <2>1. CASE t = "c"
    BY <1>1, <2>1 DEF Unpadded, PlainText
  <2>2. CASE t \in {"s", "b"}
    BY <1>1, <2>2 DEF Unpadded, PlainText
  <2>3. CASE t \notin Types
    BY <1>1, <2>3 DEF Unpadded, PlainText, Types
  <2> QED BY <2>1, <2>2, <2>3 DEF IsDirective
<1>7. IsSequence(PlainText(t, v))
  <2>1. CASE t = "c"
    BY <2>1 DEF PlainText, IsSequence, Range
  <2>2. CASE t \in {"s", "b"}
    <3>1. v = 0 \/ IsSequence(Strings[v])
      BY <2>2 DEF IsDirective, Types
    <3>2. IsSequence(<< >>)
      BY DEF IsSequence
    <3> QED BY <2>2, <3>1, <3>2 DEF PlainText
  <2>3. CASE t \notin Types
    <3>1. PlainText(t, v) = << t >>
      BY <2>3 DEF PlainText, Types
    <3>2. << t >> \in Seq({t}) /\ Range(<< t >>) = {t}
      BY DEF Range
    <3> QED BY <3>1, <3>2 DEF IsSequence
  <2> QED BY <2>1, <2>2, <2>3 DEF IsDirective
<1>8. PlainArguments(t, v) \in Seq(Int)
  <2>1. CASE t = "c"
    <3>1. v \in Int
      BY <2>1 DEF IsDirective, Types
    <3> QED BY <2>1, <3>1 DEF PlainArguments
  <2>2. CASE t \in {"s", "b"}
    <3>1. v \in (-(2^31)) .. (2^31 - 1)
      BY <2>2 DEF IsDirective, Types
    <3> QED BY <2>2, <3>1, LongIs DEF PlainArguments
  <2>3. CASE t \notin Types
    BY <2>3 DEF PlainArguments, Types
  <2> QED BY <2>1, <2>2, <2>3 DEF IsDirective
<1>9. Meaning(m) = PlainText(t, v)
  <2> DEFINE text == PlainText(t, v)
  <2>1. text \in Seq(Range(text))
    BY <1>7 DEF IsSequence
  <2> HIDE DEF text
  <2>2. Len(text) >= 0
    BY <2>1, LenProperties
  <2> QED BY <1>1, <1>3, <1>6, <2>2 DEF Meaning, text
<1> QED BY <1>2, <1>3, <1>4, <1>5, <1>7, <1>8, <1>9

\* A plain directive shows what it means.
LEMMA PlainShows ==
    ASSUME NEW f \in Formats, WellFormed(f), NEW i \in 0 .. (Len(f) - 1),
           NEW t, NEW v, IsDirective(f[i + 1], t, v)
    PROVE  Shows(f, i + 1)
<1> DEFINE m == f[i + 1]
           p == PatternOf(f)
           x == PatternUpTo(f, i) + 1
           d == Directive(p, x)
           words == ArgumentsOf(f)
           y == ArgumentsUpTo(f, i) + 1
           args == PlainArguments(t, v)
           text == PlainText(t, v)
<1>1. /\ t \notin Marks \cup {"p"} /\ Pattern(m) = << "%", t >>
      /\ Arguments(m) = args /\ Meaning(m) = text
      /\ IsSequence(text) /\ args \in Seq(Int)
  BY PlainWritten
<1>2. i \in 0 .. Len(f) /\ i + 1 \in 0 .. Len(f) /\ (i + 1) - 1 = i
  BY FormatEnds
<1>3. Len(<< "%", t >>) = 2 /\ << "%", t >>[2] = t
  OBVIOUS
<1>4. /\ PatternUpTo(f, i + 1) = PatternUpTo(f, i) + 2
      /\ p[PatternUpTo(f, i) + 2] = t
  <2>1. /\ PatternUpTo(f, i + 1) = PatternUpTo(f, i) + Len(Pattern(m))
        /\ \A q \in 1 .. Len(Pattern(m)) :
              p[PatternUpTo(f, i) + q] = Pattern(m)[q]
    BY PartPosition
  <2> QED BY <1>1, <1>3, <2>1
<1>5. /\ p \in Seq(PatternCharacters) /\ Len(p) \in Nat /\ PatternUpTo(f, i) \in Nat
      /\ PatternUpTo(f, i + 1) <= Len(p) /\ ArgumentsUpTo(f, i) \in Nat
  BY <1>2, Positions, LenProperties
<1>6. x \in 1 .. (Len(p) - 1) /\ p[x + 1] = t /\ x + 2 = PatternUpTo(f, i + 1) + 1
  BY <1>4, <1>5
<1>7. /\ d.flags = {} /\ d.zero_fill = FALSE /\ d.width = 0 /\ d.limit = -1
      /\ d.long = FALSE /\ d.type = t /\ d.next = x + 2
  <2> HIDE DEF x, p
  <2> QED BY <1>1, <1>5, <1>6, PlainDirective
<1>8. \A q \in 1 .. Len(args) : words[(y - 1) + q] = args[q]
  <2>1. y - 1 = ArgumentsUpTo(f, i)
    BY <1>5
  <2> QED BY <1>1, <2>1, ArgumentPosition
<1>9. y \in Nat
  BY <1>5
<1>10. t = "c" \/ t \in {"s", "b"} \/ t \notin Types
  BY DEF IsDirective
<1> HIDE DEF m, p, x, d, words, y, args, text
<1>11. WordsTaken(d) = Len(args)
  <2>1. CASE t = "c"
    BY <1>7, <2>1 DEF WordsTaken, args, PlainArguments
  <2>2. CASE t \in {"s", "b"}
    <3>1. v \in (-(2^31)) .. (2^31 - 1)
      BY <2>2 DEF IsDirective, Types
    <3>2. Len(LongWords(v)) = 2
      BY <3>1, LongIs
    <3> QED BY <1>7, <2>2, <3>2 DEF WordsTaken, args, PlainArguments
  <2>3. CASE t \notin Types
    BY <1>7, <2>3 DEF WordsTaken, args, PlainArguments, Types
  <2> QED BY <1>10, <2>1, <2>2, <2>3
<1>12. Body(d, Argument(d, words, y)) = text
  <2>1. CASE t = "c"
    <3>1. args = << v >> /\ WordsTaken(d) = 1
      BY <1>7, <2>1 DEF WordsTaken, args, PlainArguments
    <3>2. words[y] = v
      BY <1>8, <1>9, <3>1
    <3>3. Argument(d, words, y) = v
      BY <3>1, <3>2 DEF Argument
    <3> QED BY <1>7, <2>1, <3>3 DEF Body, text, PlainText
  <2>2. CASE t \in {"s", "b"}
    <3>1. v \in (-(2^31)) .. (2^31 - 1)
      BY <2>2 DEF IsDirective, Types
    <3> DEFINE w == LongWords(v)
    <3>2. Len(w) = 2 /\ (IF w[1] >= 2^15 THEN w[1] - 2^16 ELSE w[1]) * 2^16 + w[2] = v
      BY <3>1, LongIs
    <3>3. args = w
      BY <2>2 DEF args, PlainArguments
    <3> HIDE DEF w
    <3>4. words[y] = w[1] /\ words[y + 1] = w[2]
      <4>1. Len(args) = 2
        BY <3>2, <3>3
      <4>2. (y - 1) + 1 = y /\ (y - 1) + 2 = y + 1 /\ 1 \in 1 .. Len(args) /\ 2 \in 1 .. Len(args)
        BY <1>9, <4>1
      <4>3. words[(y - 1) + 1] = args[1] /\ words[(y - 1) + 2] = args[2]
        BY <1>8, <4>2
      <4> QED BY <3>3, <4>2, <4>3
    <3>5. WordsTaken(d) = 2
      BY <1>7, <2>2 DEF WordsTaken
    <3>6. Argument(d, words, y) = v
      BY <3>2, <3>4, <3>5 DEF Argument
    <3>7. ~(d.limit \in 0 .. Len(Strings[v]))
      BY <1>7
    <3> QED BY <1>7, <2>2, <3>6, <3>7 DEF Body, text, PlainText
  <2>3. CASE t \notin Types
    BY <1>7, <2>3 DEF Body, text, PlainText, Types
  <2> QED BY <1>10, <2>1, <2>2, <2>3
<1>13. Field(d, Argument(d, words, y)) = text
  <2>1. Len(text) \in Nat
    BY <1>1, LenProperties DEF IsSequence
  <2>2. ~(d.limit \in 0 .. (Len(text) - 1)) /\ Len(text) >= d.width
    BY <1>7, <2>1
  <2> QED BY <1>12, <2>2 DEF Field
<1>14. d.next = PatternUpTo(f, i + 1) + 1
  BY <1>6, <1>7
<1> QED BY <1>1, <1>2, <1>11, <1>13, <1>14 DEF Shows, d, p, x, words, y, m

\* Literal text without a % in it.
IsLiteral(m) ==
    /\ m.kind = "literal"
    /\ IsSequence(m.text) /\ NUL \notin Range(m.text)
    /\ \A k \in DOMAIN m.text : m.text[k] # "%"

\* A part without a number or a width.
Plain(m) == IsLiteral(m) \/ \E t, v : IsDirective(m, t, v)

ScriptsPlain ==
    \A s \in Scripts : /\ IsSequence(s)
                       /\ \A i \in DOMAIN s : /\ IsSequence(s[i])
                                              /\ \A j \in DOMAIN s[i] : Plain(s[i][j])

LEMMA PlainWellFormed ==
    ASSUME ScriptsPlain, NEW f \in Formats
    PROVE  WellFormed(f) /\ \A i \in DOMAIN f : Plain(f[i])
<1>1. IsSequence(f) /\ \A i \in DOMAIN f : Plain(f[i])
  BY DEF ScriptsPlain, Formats, Range
<1>2. ASSUME NEW i \in DOMAIN f
      PROVE  /\ IsSequence(Pattern(f[i]))
             /\ NUL \notin Range(Pattern(f[i]))
             /\ IsSequence(Meaning(f[i])) /\ Arguments(f[i]) \in Seq(Int)
  <2> DEFINE m == f[i]
  <2>1. Plain(m)
    BY <1>1
  <2> HIDE DEF m
  <2>2. CASE IsLiteral(m)
    <3>1. Pattern(m) = m.text /\ Meaning(m) = m.text /\ Arguments(m) = << >>
      <4>1. "shown" # "literal"
        OBVIOUS
      <4> QED BY <2>2, <4>1 DEF IsLiteral, Pattern, Meaning, Arguments
    <3>2. << >> \in Seq(Int)
      OBVIOUS
    <3> QED BY <2>2, <3>1, <3>2 DEF IsLiteral, m
  <2>3. ASSUME NEW t, NEW v, IsDirective(m, t, v)
        PROVE  /\ IsSequence(Pattern(m))
               /\ NUL \notin Range(Pattern(m))
               /\ IsSequence(Meaning(m)) /\ Arguments(m) \in Seq(Int)
    <3>1. /\ t \notin Marks /\ Pattern(m) = << "%", t >>
          /\ Arguments(m) = PlainArguments(t, v) /\ Meaning(m) = PlainText(t, v)
          /\ IsSequence(PlainText(t, v)) /\ PlainArguments(t, v) \in Seq(Int)
      BY <2>3, PlainWritten
    <3>2. Range(<< "%", t >>) = {"%", t} /\ << "%", t >> \in Seq({"%", t})
      BY DEF Range
    <3>3. NUL # "%" /\ t # NUL
      BY <3>1 DEF NUL, Marks
    <3> DEFINE p == << "%", t >>  S == {"%", t}
    <3>4. Range(p) = S /\ p \in Seq(S) /\ NUL \notin S
      BY <3>2, <3>3
    <3> HIDE DEF p, S
    <3>5. IsSequence(p) /\ NUL \notin Range(p)
      BY <3>4 DEF IsSequence
    <3> QED BY <3>1, <3>5 DEF p
  <2> QED BY <2>1, <2>2, <2>3 DEF Plain, m
<1> QED BY <1>1, <1>2 DEF WellFormed

\* Formats of plain parts are such that their directives show what they mean.
LEMMA PlainReadable == ScriptsPlain => ScriptsReadable
<1> SUFFICES ASSUME ScriptsPlain PROVE ScriptsReadable
  OBVIOUS
<1>1. ASSUME NEW f \in Formats, NEW i \in DOMAIN f
      PROVE  IF f[i].kind = "literal"
             THEN \A k \in DOMAIN f[i].text : f[i].text[k] # "%"
             ELSE /\ Pattern(f[i]) # << >> /\ Head(Pattern(f[i])) = "%"
                  /\ Shows(f, i)
  <2>1. WellFormed(f) /\ Plain(f[i])
    BY PlainWellFormed
  <2>2. CASE IsLiteral(f[i])
    BY <2>2 DEF IsLiteral
  <2>3. ASSUME NEW t, NEW v, IsDirective(f[i], t, v)
        PROVE  /\ f[i].kind # "literal" /\ Pattern(f[i]) # << >>
               /\ Head(Pattern(f[i])) = "%" /\ Shows(f, i)
    <3>1. i - 1 \in 0 .. (Len(f) - 1) /\ (i - 1) + 1 = i
      BY <2>1, FormatParts
    <3>2. Shows(f, (i - 1) + 1)
      <4> DEFINE k == i - 1
      <4>1. k \in 0 .. (Len(f) - 1) /\ IsDirective(f[k + 1], t, v)
        BY <2>3, <3>1
      <4> HIDE DEF k
      <4>2. Shows(f, k + 1)
        BY <2>1, <4>1, PlainShows
      <4> QED BY <4>2 DEF k
    <3>3. f[i].kind # "literal" /\ Pattern(f[i]) = << "%", t >>
      BY <2>3, PlainWritten
    <3> QED BY <3>1, <3>2, <3>3
  <2> QED BY <2>1, <2>2, <2>3 DEF Plain
<1>2. \A f \in Formats : Readable(f)
  BY <1>1, PlainWellFormed DEF Readable
<1>3. \A s \in Scripts : IsSequence(s) /\ \A i \in DOMAIN s : s[i] \in Formats
  BY DEF ScriptsPlain, Formats, Range
<1> QED BY <1>2, <1>3 DEF ScriptsReadable

\* Of formats without numbers nothing need be taken on trust: whatever the
\* literal texts and the strings are, and however many there are, each directive
\* shows what it means and so the line is what they mean.
THEOREM TextIsPrinted ==
    ASSUME ScriptsPlain
    PROVE  Spec => []LineFollowsFormat
BY PlainReadable, LineIsWhatFormatsMean
=============================================================================
