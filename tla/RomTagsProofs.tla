---------------------------- MODULE RomTagsProofs ----------------------------
(***************************************************************************)
(* What holds of the resident modules of every ROM.                        *)
(***************************************************************************)
EXTENDS RomTags, Lemmas, SequenceTheorems

-----------------------------------------------------------------------------
(* The scan *)

\* A word is a tag with an end behind it, a version and a priority, or none.
LEMMA Words ==
    ASSUME rom \in Roms, NEW a \in 1 .. RomSize
    PROVE  /\ rom[a].tag \in BOOLEAN
           /\ rom[a].tag => /\ rom[a].end \in Nat /\ rom[a].end > a
                            /\ rom[a].version \in Nat /\ rom[a].priority \in Int
<1>1. a \in DOMAIN rom
  BY RomAssumption DEF IsRom
<1>2. CASE rom[a] = Filler
  <2>1. rom[a].tag = FALSE
    BY <1>2 DEF Filler
  <2> QED BY <2>1
<1>3. CASE rom[a] # Filler
  <2>1. /\ rom[a].tag
        /\ rom[a].end \in Nat /\ rom[a].end > a
        /\ rom[a].version \in Nat /\ rom[a].priority \in Int
    BY <1>1, <1>3, RomAssumption DEF IsRom
  <2> QED BY <2>1
<1> QED BY <1>2, <1>3

\* T is what a scan of the first n addresses finds.
Scan(T, n) ==
    /\ T \subseteq 1 .. n
    /\ \A a \in 1 .. n :
         a \in T <=> /\ rom[a].tag
                     /\ \A b \in 1 .. (a - 1) : b \in T => rom[b].end <= a

\* A scan finds something, of however many addresses.
LEMMA ScanExists ==
    ASSUME NEW n \in Nat
    PROVE  \E T : Scan(T, n)
<1> DEFINE S == {m \in Nat : \E T : Scan(T, m)}
<1>1. 0 \in S
  <2>1. Scan({}, 0)
    BY DEF Scan
  <2> QED BY <2>1
<1>2. ASSUME NEW m \in Nat, m \in S PROVE m + 1 \in S
  <2>1. PICK T : Scan(T, m)
    BY <1>2
  <2> DEFINE finds == /\ rom[m + 1].tag
                      /\ \A b \in 1 .. m : b \in T => rom[b].end <= m + 1
             U == {a \in 1 .. (m + 1) : IF a = m + 1 THEN finds ELSE a \in T}
  <2>2. \A b \in 1 .. m : b \in U <=> b \in T
    OBVIOUS
  <2>3. U \subseteq 1 .. (m + 1) /\ (m + 1 \in U <=> finds)
    OBVIOUS
  <2> HIDE DEF U
  <2>4. ASSUME NEW a \in 1 .. (m + 1)
        PROVE  a \in U <=> /\ rom[a].tag
                           /\ \A b \in 1 .. (a - 1) : b \in U => rom[b].end <= a
    <3>1. CASE a = m + 1
      <4>1. 1 .. (a - 1) = 1 .. m
        BY <3>1
      <4> QED BY <2>2, <2>3, <3>1, <4>1
    <3>2. CASE a # m + 1
      <4>1. a \in 1 .. m /\ 1 .. (a - 1) \subseteq 1 .. m
        BY <3>2
      <4>2. a \in T <=> /\ rom[a].tag
                        /\ \A b \in 1 .. (a - 1) : b \in T => rom[b].end <= a
        BY <2>1, <4>1 DEF Scan
      <4> QED BY <2>2, <4>1, <4>2
    <3> QED BY <3>1, <3>2
  <2>5. Scan(U, m + 1)
    BY <2>3, <2>4 DEF Scan
  <2> QED BY <2>5
<1> HIDE DEF S
<1>3. n \in S
  BY <1>1, <1>2, SetInduction
<1> QED BY <1>3 DEF S

\* Reached is what the scan of the whole ROM finds.
LEMMA ReachedScanned == ASSUME rom \in Roms PROVE Scan(Reached, RomSize)
<1> DEFINE Loop(f) == f = [a \in 1 .. RomSize |->
                             /\ rom[a].tag
                             /\ \A b \in 1 .. (a - 1) : f[b] => rom[b].end <= a]
           at == CHOOSE f : Loop(f)
<1>1. RomSize \in Nat
  BY RomAssumption DEF IsRom
<1>2. \E f : Loop(f)
  <2>1. PICK T : Scan(T, RomSize)
    BY <1>1, ScanExists
  <2> DEFINE f == [a \in 1 .. RomSize |-> a \in T]
             g == [a \in 1 .. RomSize |-> /\ rom[a].tag
                                          /\ \A b \in 1 .. (a - 1) : f[b] => rom[b].end <= a]
  <2>2. ASSUME NEW a \in 1 .. RomSize PROVE f[a] = g[a]
    <3>1. 1 .. (a - 1) \subseteq 1 .. RomSize
      BY <1>1
    <3>2. \A b \in 1 .. (a - 1) : f[b] <=> b \in T
      BY <3>1
    <3> DEFINE found == /\ rom[a].tag
                        /\ \A b \in 1 .. (a - 1) : f[b] => rom[b].end <= a
    <3>3. f[a] = (a \in T) /\ g[a] = found
      OBVIOUS
    <3>4. a \in T <=> found
      BY <2>1, <3>2 DEF Scan
    <3>5. found \in BOOLEAN /\ (a \in T) \in BOOLEAN
      OBVIOUS
    <3> HIDE DEF found, f, g
    <3> QED BY <3>3, <3>4, <3>5
  <2>3. f = g
    BY <2>2
  <2> QED BY <2>3
<1>3. Loop(at)
  BY <1>2
<1>4. Reached = {a \in 1 .. RomSize : at[a]}
  BY DEF Reached
<1> HIDE DEF at
<1>5. ASSUME NEW a \in 1 .. RomSize
      PROVE  a \in Reached <=> /\ rom[a].tag
                               /\ \A b \in 1 .. (a - 1) : b \in Reached => rom[b].end <= a
  <2>1. 1 .. (a - 1) \subseteq 1 .. RomSize
    BY <1>1
  <2>2. at[a] <=> /\ rom[a].tag
                  /\ \A b \in 1 .. (a - 1) : at[b] => rom[b].end <= a
    BY <1>3
  <2> QED BY <1>4, <2>1, <2>2
<1> QED BY <1>4, <1>5 DEF Scan

-----------------------------------------------------------------------------
(* The invariant of every ROM *)

Names == {rom[a].name : a \in Reached}
Nodes == [name : Names, priority : Int, resident : Reached]
Phases == {"search", "flatten", "copy", "initialise", "idle", "stopped"}

Typed ==
    /\ rom \in Roms
    /\ p \in Nat \ {0} /\ count \in Nat /\ room \in Nat /\ k \in Nat \ {0}
    /\ builder \in Seq(Nodes)
    /\ array \in Seq(Reached) /\ inited \in Seq(Reached)
    /\ phase \in Phases

\* The scan is behind the modules of the tags it has come to.
ScanInv ==
    /\ \A a \in Reached : a < p => rom[a].end <= p
    /\ phase # "search" => p > RomSize

\* count is one more than there are nodes: the NULL's entry.
CountInv ==
    /\ phase \in {"search", "flatten"} => count = Len(builder) + 1 /\ array = << >>
    /\ phase = "copy" => room = Len(array) + Len(builder) + 1
    /\ phase \in {"initialise", "idle", "stopped"} => room = Len(array) + 1 /\ builder = << >>

\* A node has the name of its resident, and no other node has it.
NodesInv ==
    /\ \A i \in 1 .. Len(builder) : builder[i].name = rom[builder[i].resident].name
    /\ \A i, j \in 1 .. Len(builder) : i # j => builder[i].name # builder[j].name

RomInv == Typed /\ ScanInv /\ CountInv /\ NodesInv

\* s with x put in front of its i-th element.
Inserted(s, i, x, t) ==
    /\ Len(t) = Len(s) + 1
    /\ i \in 1 .. Len(t)
    /\ t[i] = x
    /\ \A j \in 1 .. (i - 1) : t[j] = s[j]
    /\ \A j \in (i + 1) .. Len(t) : t[j] = s[j - 1]

\* The three parts that enqueue's insertion is made of.
LEMMA InsertedParts ==
    ASSUME NEW X, NEW s \in Seq(X), NEW x \in X, NEW i \in 1 .. (Len(s) + 1)
    PROVE  LET t == SubSeq(s, 1, i - 1) \o << x >> \o SubSeq(s, i, Len(s))
           IN  t \in Seq(X) /\ Inserted(s, i, x, t)
<1> DEFINE a == SubSeq(s, 1, i - 1)
           b == << x >>
           c == SubSeq(s, i, Len(s))
           n == Len(s)
<1>1. n \in Nat /\ i - 1 \in 0 .. n /\ i \in Nat
  OBVIOUS
<1>2. a \in Seq(X) /\ Len(a) = i - 1 /\ \A j \in 1 .. (i - 1) : a[j] = s[j]
  OBVIOUS
<1>3. b \in Seq(X) /\ Len(b) = 1 /\ b[1] = x
  OBVIOUS
<1>4. c \in Seq(X) /\ Len(c) = n - i + 1 /\ \A j \in 1 .. (n - i + 1) : c[j] = s[i + j - 1]
  OBVIOUS
<1> DEFINE d == a \o b
           t == d \o c
<1> HIDE DEF a, b, c, n
<1>5. d \in Seq(X) /\ Len(d) = i /\ d[i] = x /\ \A j \in 1 .. (i - 1) : d[j] = s[j]
  <2>1. /\ d \in Seq(X) /\ Len(d) = Len(a) + Len(b)
        /\ \A j \in 1 .. Len(a) + Len(b) : d[j] = IF j <= Len(a) THEN a[j] ELSE b[j - Len(a)]
    BY <1>2, <1>3, ConcatProperties
  <2>2. Len(d) = i /\ \A j \in 1 .. i : d[j] = IF j <= i - 1 THEN a[j] ELSE b[j - (i - 1)]
    BY <1>1, <1>2, <1>3, <2>1
  <2>3. d[i] = b[i - (i - 1)] /\ i - (i - 1) = 1
    BY <1>1, <2>2
  <2> HIDE DEF d
  <2> QED BY <1>1, <1>2, <1>3, <2>1, <2>2, <2>3
<1> HIDE DEF d
<1>5a. /\ t \in Seq(X) /\ Len(t) = Len(d) + Len(c)
       /\ \A j \in 1 .. Len(d) + Len(c) : t[j] = IF j <= Len(d) THEN d[j] ELSE c[j - Len(d)]
  BY <1>4, <1>5, ConcatProperties
<1> HIDE DEF t
<1>6. t \in Seq(X) /\ Len(t) = n + 1
  BY <1>1, <1>4, <1>5, <1>5a
<1>7. \A j \in 1 .. i : t[j] = d[j]
  BY <1>1, <1>4, <1>5, <1>5a
<1>8. \A j \in (i + 1) .. (n + 1) : t[j] = c[j - i]
  BY <1>1, <1>4, <1>5, <1>5a
<1>9. ASSUME NEW j \in (i + 1) .. (n + 1) PROVE t[j] = s[j - 1]
  <2>1. j - i \in 1 .. (n - i + 1) /\ i + (j - i) - 1 = j - 1
    BY <1>1
  <2>2. c[j - i] = s[i + (j - i) - 1]
    BY <1>4, <2>1
  <2> QED BY <1>8, <2>1, <2>2
<1>10. Inserted(s, i, x, t)
  BY <1>1, <1>5, <1>6, <1>7, <1>9 DEF Inserted, n
<1> QED BY <1>6, <1>10 DEF t, d, a, b, c, n

\* A reached word is a tag of the ROM.
LEMMA ReachedTag ==
    ASSUME rom \in Roms, NEW a \in Reached
    PROVE  /\ a \in 1 .. RomSize /\ a \in Nat /\ rom[a].tag
           /\ rom[a].end \in Nat /\ rom[a].end > a
           /\ rom[a].version \in Nat /\ rom[a].priority \in Int
           /\ rom[a].name \in Names
<1>1. a \in 1 .. RomSize /\ RomSize \in Nat
  BY ReachedScanned, RomAssumption DEF Scan, IsRom
<1>2. rom[a].tag
  BY <1>1, ReachedScanned DEF Scan
<1>3. rom[a].name \in Names
  BY DEF Names
<1> QED BY <1>1, <1>2, <1>3, Words

\* A new node goes in front of one or last; no other moves.
LEMMA EnqueueInserts ==
    ASSUME builder \in Seq(Nodes), NEW node \in Nodes, Enqueue(node)
    PROVE  /\ builder' \in Seq(Nodes)
           /\ \E i \in 1 .. (Len(builder) + 1) :
                /\ Inserted(builder, i, node, builder')
                /\ \A j \in 1 .. (i - 1) : builder[j].priority >= node.priority
                /\ i <= Len(builder) => builder[i].priority < node.priority
<1>1. PICK i \in 1 .. (Len(builder) + 1) :
        /\ \A j \in 1 .. (i - 1) : builder[j].priority >= node.priority
        /\ i <= Len(builder) => builder[i].priority < node.priority
        /\ builder' = SubSeq(builder, 1, i - 1) \o << node >>
                        \o SubSeq(builder, i, Len(builder))
  BY DEF Enqueue
<1>2. builder' \in Seq(Nodes) /\ Inserted(builder, i, node, builder')
  BY <1>1, InsertedParts
<1> QED BY <1>1, <1>2

\* What add leaves of a list: a node more, for a name that had none, or the
\* one of the name with the new resident, or all as it was.
LEMMA AddCases ==
    ASSUME Typed, NEW a \in Reached, Add(a)
    PROVE  LET node == [name |-> rom[a].name, priority |-> rom[a].priority, resident |-> a]
           IN  /\ node \in Nodes
               /\ \/ /\ Named(rom[a].name) = {}
                     /\ Enqueue(node)
                     /\ count' = count + 1
                  \/ \E i \in Named(rom[a].name) :
                       /\ Supersedes(a, builder[i])
                       /\ builder' = [builder EXCEPT ![i].resident = a]
                       /\ count' = count
                  \/ \E i \in Named(rom[a].name) :
                       /\ ~Supersedes(a, builder[i])
                       /\ builder' = builder
                       /\ count' = count
<1>1. [name |-> rom[a].name, priority |-> rom[a].priority, resident |-> a] \in Nodes
  BY ReachedTag DEF Nodes, Typed
<1> QED BY <1>1 DEF Add, Resident

\* The list with another resident in one of its nodes.
LEMMA ResidentReplaced ==
    ASSUME NEW b \in Seq(Nodes), NEW i \in 1 .. Len(b), NEW a \in Reached
    PROVE  LET c == [b EXCEPT ![i].resident = a]
           IN  /\ c \in Seq(Nodes) /\ Len(c) = Len(b)
               /\ c[i].resident = a
               /\ \A j \in 1 .. Len(b) : /\ c[j].name = b[j].name
                                         /\ c[j].priority = b[j].priority
                                         /\ j # i => c[j].resident = b[j].resident
<1> DEFINE c == [b EXCEPT ![i].resident = a]
           r == [b[i] EXCEPT !.resident = a]
<1>1. b[i] \in Nodes /\ DOMAIN b = 1 .. Len(b) /\ Len(b) \in Nat
  OBVIOUS
<1>2. r \in Nodes /\ r.name = b[i].name /\ r.priority = b[i].priority /\ r.resident = a
  BY <1>1 DEF Nodes
<1>3. c = [b EXCEPT ![i] = r]
  OBVIOUS
<1> HIDE DEF r, c
<1>4. c \in Seq(Nodes) /\ Len(c) = Len(b)
  BY <1>2, <1>3, ExceptSeq
<1>5. c[i] = r /\ \A j \in 1 .. Len(b) : j # i => c[j] = b[j]
  BY <1>1, <1>3
<1> QED BY <1>2, <1>4, <1>5 DEF c

\* add keeps the list a list of the modules the scan reached, one of each
\* name, and the counter in step with it.
LEMMA AddKeeps ==
    ASSUME RomInv, phase = "search", NEW a \in Reached, Add(a)
    PROVE  /\ builder' \in Seq(Nodes)
           /\ count' = Len(builder') + 1
           /\ \A i \in 1 .. Len(builder') :
                builder'[i].name = rom[builder'[i].resident].name
           /\ \A i, j \in 1 .. Len(builder') :
                i # j => builder'[i].name # builder'[j].name
<1> DEFINE node == [name |-> rom[a].name, priority |-> rom[a].priority, resident |-> a]
<1>1. /\ builder \in Seq(Nodes) /\ Len(builder) \in Nat /\ DOMAIN builder = 1 .. Len(builder)
      /\ count = Len(builder) + 1
  BY DEF RomInv, Typed, CountInv
<1>2. CASE Named(rom[a].name) = {} /\ Enqueue(node) /\ count' = count + 1
  <2>1. node \in Nodes /\ node.name = rom[a].name /\ node.resident = a
    BY AddCases DEF RomInv
  <2>2. \A i \in 1 .. Len(builder) : builder[i].name # rom[a].name
    BY <1>1, <1>2 DEF Named
  <2> HIDE DEF node
  <2>3. PICK i \in 1 .. (Len(builder) + 1) : Inserted(builder, i, node, builder')
    BY <1>1, <1>2, <2>1, EnqueueInserts
  <2>4. builder' \in Seq(Nodes)
    BY <1>1, <1>2, <2>1, EnqueueInserts
  <2> DEFINE from(j) == IF j < i THEN j ELSE j - 1
  <2>5. /\ Len(builder') = Len(builder) + 1
        /\ builder'[i] = node
        /\ \A j \in 1 .. Len(builder') : j # i =>
             /\ from(j) \in 1 .. Len(builder)
             /\ builder'[j] = builder[from(j)]
    BY <1>1, <2>3 DEF Inserted
  <2>6. ASSUME NEW j \in 1 .. Len(builder')
        PROVE  builder'[j].name = rom[builder'[j].resident].name
    BY <2>1, <2>5 DEF RomInv, NodesInv
  <2>7. ASSUME NEW j \in 1 .. Len(builder'), NEW l \in 1 .. Len(builder'), j # l
        PROVE  builder'[j].name # builder'[l].name
    <3>1. CASE j = i \/ l = i
      BY <2>1, <2>2, <2>5, <2>7, <3>1
    <3>2. CASE j # i /\ l # i
      <4>1. from(j) # from(l)
        BY <2>3, <2>5, <2>7, <3>2
      <4> HIDE DEF from
      <4> QED BY <2>5, <3>2, <4>1 DEF RomInv, NodesInv
    <3> QED BY <3>1, <3>2
  <2> QED BY <1>1, <1>2, <2>4, <2>5, <2>6, <2>7
<1>3. ASSUME NEW i \in Named(rom[a].name), builder' = [builder EXCEPT ![i].resident = a],
             count' = count
      PROVE  /\ builder' \in Seq(Nodes)
             /\ count' = Len(builder') + 1
             /\ \A j \in 1 .. Len(builder') :
                  builder'[j].name = rom[builder'[j].resident].name
             /\ \A j, l \in 1 .. Len(builder') :
                  j # l => builder'[j].name # builder'[l].name
  <2>1. i \in 1 .. Len(builder) /\ builder[i].name = rom[a].name
    BY <1>1 DEF Named
  <2>2. /\ builder' \in Seq(Nodes) /\ Len(builder') = Len(builder)
        /\ builder'[i].resident = a
        /\ \A j \in 1 .. Len(builder) : /\ builder'[j].name = builder[j].name
                                        /\ j # i => builder'[j].resident = builder[j].resident
    BY <1>1, <1>3, <2>1, ResidentReplaced
  <2> QED BY <1>1, <1>3, <2>1, <2>2 DEF RomInv, NodesInv
<1>4. CASE builder' = builder /\ count' = count
  BY <1>1, <1>4 DEF RomInv, NodesInv
<1>5. Typed
  BY DEF RomInv
<1> QED BY <1>2, <1>3, <1>4, <1>5, AddCases

\* The word looked at, if it is a tag, is one the scan reaches.
LEMMA HereReached ==
    ASSUME RomInv, p <= RomSize, rom[p].tag
    PROVE  p \in Reached
<1>1. p \in 1 .. RomSize /\ RomSize \in Nat
  BY RomAssumption DEF RomInv, Typed, IsRom
<1>2. \A b \in 1 .. (p - 1) : b \in Reached => rom[b].end <= p
  BY <1>1 DEF RomInv, ScanInv
<1> QED BY <1>1, <1>2, ReachedScanned DEF RomInv, Typed, Scan

\* Behind a module the scan has left nothing out.
LEMMA BehindModule ==
    ASSUME RomInv, p \in Reached, NEW a \in Reached, a < rom[p].end
    PROVE  rom[a].end <= rom[p].end
<1>1. /\ p \in Nat /\ a \in Nat /\ a \in 1 .. RomSize /\ p \in 1 .. RomSize
      /\ rom[p].end \in Nat /\ rom[a].end \in Nat /\ p < rom[p].end
      /\ RomSize \in Nat
  BY ReachedTag, RomAssumption DEF RomInv, Typed, IsRom
<1>2. CASE a < p
  <2>1. rom[a].end <= p
    BY <1>2 DEF RomInv, ScanInv
  <2> QED BY <1>1, <2>1
<1>3. CASE a = p
  BY <1>1, <1>3
<1>4. CASE p < a
  <2>1. p \in 1 .. (a - 1)
    BY <1>1, <1>4
  <2>2. rom[p].end <= a
    BY <1>1, <2>1, ReachedScanned DEF RomInv, Typed, Scan
  <2> QED BY <1>1, <2>2
<1> QED BY <1>1, <1>2, <1>3, <1>4

\* Before it starts.
LEMMA RomInit == Init => RomInv
<1> SUFFICES ASSUME Init PROVE RomInv
  OBVIOUS
<1> USE DEF Init
<1>1. Len(builder) = 0 /\ \A i \in 1 .. Len(builder) : FALSE
  OBVIOUS
<1>2. Typed
  <2>1. << >> \in Seq(Nodes) /\ << >> \in Seq(Reached)
    BY EmptySeq
  <2> QED BY <2>1 DEF Typed, Phases
<1>3. ScanInv
  <2>1. \A a \in Reached : a \in Nat /\ a > 0
    <3>1. Reached \subseteq 1 .. RomSize /\ RomSize \in Nat
      BY ReachedScanned, RomAssumption DEF Scan, IsRom
    <3> QED BY <3>1
  <2> QED BY <2>1 DEF ScanInv
<1>4. CountInv
  BY <1>1 DEF CountInv
<1>5. NodesInv
  BY <1>1 DEF NodesInv
<1> QED BY <1>2, <1>3, <1>4, <1>5 DEF RomInv

\* Every step keeps the invariant.
LEMMA RomStep == RomInv /\ [Next]_romVars => RomInv'
<1> SUFFICES ASSUME RomInv, [Next]_romVars PROVE RomInv'
  OBVIOUS
<1>1. rom' = rom
  BY DEF Next, romVars, SearchTag, SearchOn, SearchEnds, FlattenBegins, FlattenNode,
         FlattenEnds, Skip, Initialise, InitialiseEnds
<1>2. Reached' = Reached
  BY <1>1 DEF Reached
<1>3. Names' = Names /\ Nodes' = Nodes
  BY <1>1, <1>2 DEF Names, Nodes
<1>4. RomSize \in Nat
  BY RomAssumption DEF IsRom
<1>5. Typed /\ ScanInv /\ CountInv /\ NodesInv
  BY DEF RomInv
<1>6. CASE SearchTag
  <2>1. p \in Reached
    BY <1>6, HereReached DEF SearchTag
  <2>2. /\ Add(p) /\ p' = rom[p].end /\ phase = "search" /\ phase' = "search"
        /\ UNCHANGED <<array, room, k, inited>>
    BY <1>6 DEF SearchTag
  <2>3. /\ builder' \in Seq(Nodes)
        /\ count' = Len(builder') + 1
        /\ \A i \in 1 .. Len(builder') : builder'[i].name = rom[builder'[i].resident].name
        /\ \A i, j \in 1 .. Len(builder') : i # j => builder'[i].name # builder'[j].name
    BY <2>1, <2>2, AddKeeps
  <2>4. rom[p].end \in Nat \ {0}
    BY <1>5, <2>1, ReachedTag DEF Typed
  <2>5. Len(builder') \in Nat
    BY <2>3
  <2>6. Typed'
    BY <1>1, <1>2, <1>3, <1>5, <2>2, <2>3, <2>4, <2>5 DEF Typed
  <2>7. ScanInv'
    <3>1. \A a \in Reached : a < rom[p].end => rom[a].end <= rom[p].end
      BY <2>1, BehindModule
    <3> QED BY <1>1, <1>2, <2>2, <3>1 DEF ScanInv
  <2>8. CountInv'
    BY <1>5, <2>2, <2>3 DEF CountInv
  <2>9. NodesInv'
    BY <1>1, <2>3 DEF NodesInv
  <2> QED BY <2>6, <2>7, <2>8, <2>9 DEF RomInv
<1>7. CASE SearchOn
  <2> USE <1>7 DEF SearchOn
  <2>1. Typed'
    BY <1>1, <1>2, <1>3, <1>5 DEF Typed
  <2>2. ScanInv'
    <3>1. p \notin Reached
      BY <1>5, ReachedTag DEF Typed
    <3>2. ASSUME NEW a \in Reached, a < p + 1 PROVE rom[a].end <= p + 1
      <4>1. a # p /\ a \in Nat /\ rom[a].end \in Nat /\ p \in Nat
        BY <1>5, <3>1, ReachedTag DEF Typed
      <4>2. rom[a].end <= p
        BY <1>5, <3>2, <4>1 DEF ScanInv
      <4> QED BY <4>1, <4>2
    <3> QED BY <1>1, <1>2, <3>2 DEF ScanInv
  <2>3. CountInv'
    BY <1>5 DEF CountInv
  <2>4. NodesInv'
    BY <1>1, <1>5 DEF NodesInv
  <2> QED BY <2>1, <2>2, <2>3, <2>4 DEF RomInv
<1>8. CASE SearchEnds
  <2> USE <1>8 DEF SearchEnds
  <2>1. Typed'
    BY <1>1, <1>2, <1>3, <1>5 DEF Typed, Phases
  <2>2. ScanInv'
    BY <1>1, <1>2, <1>5 DEF ScanInv
  <2>3. CountInv'
    BY <1>5 DEF CountInv
  <2>4. NodesInv'
    BY <1>1, <1>5 DEF NodesInv
  <2> QED BY <2>1, <2>2, <2>3, <2>4 DEF RomInv
<1>9. CASE FlattenBegins
  <2> USE <1>9 DEF FlattenBegins
  <2>1. Typed'
    BY <1>1, <1>2, <1>3, <1>5 DEF Typed, Phases
  <2>2. ScanInv'
    BY <1>1, <1>2, <1>5 DEF ScanInv
  <2>3. CountInv'
    <3>1. Len(array) = 0 /\ Len(builder) \in Nat
      BY <1>5 DEF CountInv, Typed
    <3> QED BY <1>5, <3>1 DEF CountInv
  <2>4. NodesInv'
    BY <1>1, <1>5 DEF NodesInv
  <2> QED BY <2>1, <2>2, <2>3, <2>4 DEF RomInv
<1>10. CASE FlattenNode
  <2> USE DEF FlattenNode
  <2>1. builder \in Seq(Nodes) /\ builder # << >>
    BY <1>5, <1>10 DEF Typed
  <2>2. /\ Len(builder) \in Nat \ {0}
        /\ Head(builder) = builder[1] /\ builder[1] \in Nodes
        /\ Tail(builder) \in Seq(Nodes) /\ Len(Tail(builder)) = Len(builder) - 1
        /\ \A i \in 1 .. (Len(builder) - 1) : Tail(builder)[i] = builder[i + 1]
    BY <2>1, HeadTailProperties
  <2>3. builder[1].resident \in Reached
    BY <2>2 DEF Nodes
  <2>4. array' \in Seq(Reached) /\ Len(array') = Len(array) + 1 /\ Len(array) \in Nat
    BY <1>5, <1>10, <2>2, <2>3 DEF Typed
  <2>5. builder' = Tail(builder) /\ UNCHANGED <<rom, p, count, room, k, inited, phase>>
        /\ phase = "copy"
    BY <1>10
  <2>6. Typed'
    BY <1>2, <1>3, <1>5, <2>2, <2>4, <2>5 DEF Typed
  <2>7. ScanInv'
    BY <1>1, <1>2, <1>5, <2>5 DEF ScanInv
  <2>8. CountInv'
    BY <1>5, <2>2, <2>4, <2>5 DEF CountInv
  <2>9. NodesInv'
    <3>1. \A i \in 1 .. Len(builder') :
            i + 1 \in 1 .. Len(builder) /\ builder'[i] = builder[i + 1]
      BY <2>2, <2>5
    <3> QED BY <1>1, <1>5, <3>1, SMTT(30) DEF NodesInv
  <2> QED BY <2>6, <2>7, <2>8, <2>9 DEF RomInv
<1>11. CASE FlattenEnds
  <2> USE <1>11 DEF FlattenEnds
  <2>1. Typed'
    BY <1>1, <1>2, <1>3, <1>5 DEF Typed, Phases
  <2>2. ScanInv'
    BY <1>1, <1>2, <1>5 DEF ScanInv
  <2>3. CountInv'
    <3>1. Len(builder) = 0 /\ Len(array) \in Nat
      BY <1>5 DEF Typed
    <3> QED BY <1>5, <3>1 DEF CountInv
  <2>4. NodesInv'
    BY <1>1, <1>5 DEF NodesInv
  <2> QED BY <2>1, <2>2, <2>3, <2>4 DEF RomInv
<1>12. CASE Skip \/ Initialise \/ InitialiseEnds
  <2>1. /\ phase = "initialise"
        /\ phase' \in {"initialise", "idle", "stopped"}
        /\ k' \in {k, k + 1}
        /\ \/ inited' = inited
           \/ k <= Len(array) /\ inited' = Append(inited, array[k])
        /\ UNCHANGED <<rom, p, builder, count, array, room>>
    BY <1>12 DEF Skip, Initialise, InitialiseEnds
  <2>2. inited' \in Seq(Reached)
    <3>1. k <= Len(array) => array[k] \in Reached
      BY <1>5 DEF Typed
    <3> QED BY <1>5, <2>1, <3>1 DEF Typed
  <2>3. Typed'
    BY <1>2, <1>3, <1>5, <2>1, <2>2 DEF Typed, Phases
  <2>4. ScanInv'
    BY <1>1, <1>2, <1>5, <2>1 DEF ScanInv
  <2>5. CountInv'
    BY <1>5, <2>1 DEF CountInv
  <2>6. NodesInv'
    BY <1>1, <1>5, <2>1 DEF NodesInv
  <2> QED BY <2>3, <2>4, <2>5, <2>6 DEF RomInv
<1>13. CASE UNCHANGED romVars
  <2> USE <1>13 DEF romVars
  <2>1. Typed'
    BY <1>1, <1>2, <1>3, <1>5 DEF Typed
  <2>2. ScanInv'
    BY <1>1, <1>2, <1>5 DEF ScanInv
  <2>3. CountInv'
    BY <1>5 DEF CountInv
  <2>4. NodesInv'
    BY <1>1, <1>5 DEF NodesInv
  <2> QED BY <2>1, <2>2, <2>3, <2>4 DEF RomInv
<1> QED BY <1>6, <1>7, <1>8, <1>9, <1>10, <1>11, <1>12, <1>13 DEF Next

\* The invariant of every reachable state, whatever the ROM holds.
THEOREM RomInvariant == Spec => []RomInv
<1>1. Init => RomInv
  BY RomInit
<1>2. RomInv /\ [Next]_romVars => RomInv'
  BY RomStep
<1> QED BY <1>1, <1>2, PTL DEF Spec

\* flatten never stores behind the end of the array it allocated, and leaves
\* no entry of it over, of however many tags and duplicates the ROM has.
THEOREM ArrayNeverOverrun == Spec => []ArrayFits
<1>1. RomInv => ArrayFits
  <2> SUFFICES ASSUME RomInv PROVE ArrayFits
    OBVIOUS
  <2>1. Len(array) \in Nat /\ Len(builder) \in Nat
    BY DEF RomInv, Typed
  <2> QED BY <2>1 DEF RomInv, CountInv, ArrayFits
<1> QED BY <1>1, RomInvariant, PTL

\* The scan never takes a word inside a module for a module, and none that it
\* did not come to gets into the list.
THEOREM ScanSkipsModules == Spec => []NothingInsideModules
<1>1. RomInv => NothingInsideModules
  <2> SUFFICES ASSUME RomInv, NEW i \in DOMAIN builder PROVE builder[i].resident \in Reached
    BY DEF NothingInsideModules
  <2>1. builder[i] \in Nodes
    BY DEF RomInv, Typed
  <2> QED BY <2>1 DEF Nodes
<1> QED BY <1>1, RomInvariant, PTL

-----------------------------------------------------------------------------
(* The order, and what is initialised.  A node keeps the priority of the   *)
(* first tag of its name, and add takes any later one of a higher priority *)
(* in place of a newer: what a name has in the list after the scan is what *)
(* prevails over every other tag of the name, whatever priorities they     *)
(* have.                                                                   *)

\* Of the tags passed, those that prevail.
Kept ==
    {a \in Reached :
        /\ a < p
        /\ \A b \in Reached \ {a} : b < p /\ rom[b].name = rom[a].name => Prevails(a, b)}

\* The residents in the array and those still in the list behind them.
Listed(i) == IF i <= Len(array) THEN array[i] ELSE builder[i - Len(array)].resident
Total == Len(array) + Len(builder)

\* One resident listed for every name met, the one that prevails, by
\* descending place.
ListedInv ==
    /\ \A i \in 1 .. Total : Listed(i) \in Kept
    /\ \A a \in Reached : a < p => \E i \in 1 .. Total : rom[Listed(i)].name = rom[a].name
    /\ \A i, j \in 1 .. Total : i < j =>
         /\ Place(Listed(i)) >= Place(Listed(j))
         /\ rom[Listed(i)].name # rom[Listed(j)].name

PriorityInv ==
    \A i \in 1 .. Len(builder) : builder[i].priority = Place(builder[i].resident)

\* The eligible entries in front of the next have been initialised, in order.
InitedInv ==
    /\ phase \in {"search", "flatten", "copy"} => inited = << >> /\ k = 1
    /\ k <= Len(array) + 1
    /\ phase = "idle" => k = Len(array) + 1
    /\ \A i \in 1 .. Len(inited) :
         \E j \in 1 .. (k - 1) : inited[i] = array[j] /\ Eligible(array[j])
    /\ \A j \in 1 .. (k - 1) :
         Eligible(array[j]) => \E i \in 1 .. Len(inited) : inited[i] = array[j]
    /\ \A i, j \in 1 .. Len(inited) : i < j =>
         /\ Place(inited[i]) >= Place(inited[j])
         /\ inited[i] # inited[j]

OrderInv == ListedInv /\ PriorityInv /\ InitedInv

\* What is said of the tags is said of the ROM alone.
LEMMA SameRom ==
    ASSUME rom' = rom
    PROVE  /\ Reached' = Reached
           /\ \A a : Place(a)' = Place(a)
           /\ \A a, b : Prevails(a, b)' <=> Prevails(a, b)
<1>1. Reached' = Reached
  BY DEF Reached
<1>2. \A a : Place(a)' = Place(a)
  BY <1>1 DEF Place, FirstOf, Resident
<1>3. \A a : Raises(a)' <=> Raises(a)
  BY <1>2 DEF Raises, Resident
<1>4. \A a, b : Prevails(a, b)' <=> Prevails(a, b)
  BY <1>1, <1>3 DEF Prevails, Resident
<1> QED BY <1>1, <1>2, <1>4

\* A name that is met has a first tag, whose priority is the place of each.
LEMMA FirstTag ==
    ASSUME rom \in Roms, NEW a \in Reached
    PROVE  \E f \in Reached :
             /\ rom[f].name = rom[a].name
             /\ \A b \in Reached : rom[b].name = rom[a].name => f <= b
             /\ Place(a) = rom[f].priority
<1> DEFINE S == {b \in Reached : rom[b].name = rom[a].name}
<1>1. S \in SUBSET Nat /\ S # {}
  BY ReachedTag
<1>2. PICK m \in S : \A b \in S : m <= b
  BY <1>1, LeastNatural
<1>3. \E f \in Reached : /\ Resident(f).name = rom[a].name
                         /\ \A b \in Reached : Resident(b).name = rom[a].name => f <= b
  BY <1>2 DEF Resident
<1>4. /\ FirstOf(rom[a].name) \in Reached
      /\ Resident(FirstOf(rom[a].name)).name = rom[a].name
      /\ \A b \in Reached : Resident(b).name = rom[a].name => FirstOf(rom[a].name) <= b
  BY <1>3 DEF FirstOf
<1> QED BY <1>4 DEF Place, Resident

\* Tags of one name have one place, an integer.
LEMMA Places ==
    ASSUME rom \in Roms, NEW a \in Reached
    PROVE  /\ Place(a) \in Int
           /\ \A b \in Reached : rom[b].name = rom[a].name => Place(b) = Place(a)
<1>1. Place(a) \in Int
  BY FirstTag, ReachedTag
<1>2. \A b \in Reached : rom[b].name = rom[a].name => Place(b) = Place(a)
  BY DEF Place, Resident
<1> QED BY <1>1, <1>2

\* The first tag of a name is where its own priority puts it.
LEMMA FirstPlace ==
    ASSUME rom \in Roms, NEW a \in Reached,
           \A b \in Reached : rom[b].name = rom[a].name => ~(b < a)
    PROVE  Place(a) = rom[a].priority
<1>1. PICK f \in Reached : /\ rom[f].name = rom[a].name
                           /\ \A b \in Reached : rom[b].name = rom[a].name => f <= b
                           /\ Place(a) = rom[f].priority
  BY FirstTag
<1>2. f <= a /\ ~(f < a) /\ f \in Nat /\ a \in Nat
  BY <1>1, ReachedTag
<1>3. f = a
  BY <1>2
<1> QED BY <1>1, <1>3

\* The scan passes one tag at a time, and what it had kept stays kept unless
\* the tag it passes takes its place.
LEMMA PassTag ==
    ASSUME RomInv, p \in Reached, p' = rom[p].end, rom' = rom
    PROVE  /\ \A a \in Reached : a < p' <=> a < p \/ a = p
           /\ \A a \in Kept :
                \/ rom[a].name # rom[p].name
                \/ rom[p].version <= rom[a].version /\ ~Raises(p)
                => a \in Kept'
           /\ (\A b \in Reached : b < p /\ rom[b].name = rom[p].name => Prevails(p, b))
              => p \in Kept'
<1>1. \A a \in Reached : a \in Nat /\ rom[a].end \in Nat /\ rom[a].end > a
                         /\ rom[a].version \in Nat
  BY ReachedTag DEF RomInv, Typed
<1>2. ASSUME NEW a \in Reached PROVE a < rom[p].end <=> a < p \/ a = p
  <2>1. ASSUME p < a, a < rom[p].end PROVE FALSE
    <3>1. a \in 1 .. RomSize /\ p \in 1 .. (a - 1)
      BY <1>1, <2>1, ReachedTag DEF RomInv, Typed
    <3>2. rom[p].end <= a
      BY <3>1, ReachedScanned DEF RomInv, Typed, Scan
    <3> QED BY <1>1, <2>1, <3>2
  <2> QED BY <1>1, <2>1
<1>3. Kept' = {a \in Reached :
                 /\ a < rom[p].end
                 /\ \A b \in Reached \ {a} :
                      b < rom[p].end /\ rom[b].name = rom[a].name => Prevails(a, b)}
  BY SameRom DEF Kept
<1>4. ASSUME NEW a \in Kept,
             \/ rom[a].name # rom[p].name
             \/ rom[p].version <= rom[a].version /\ ~Raises(p)
      PROVE  a \in Kept'
  <2>1. /\ a \in Reached /\ a < p
        /\ \A b \in Reached \ {a} : b < p /\ rom[b].name = rom[a].name => Prevails(a, b)
    BY DEF Kept
  <2>2. rom[p].name = rom[a].name => Prevails(a, p)
    BY <1>4, <2>1 DEF Prevails, Resident
  <2>3. \A b \in Reached \ {a} : b < rom[p].end /\ rom[b].name = rom[a].name => Prevails(a, b)
    BY <1>2, <2>1, <2>2
  <2> QED BY <1>2, <1>3, <2>1, <2>3
<1>5. ASSUME \A b \in Reached : b < p /\ rom[b].name = rom[p].name => Prevails(p, b)
      PROVE  p \in Kept'
  <2>1. \A b \in Reached \ {p} : b < rom[p].end /\ rom[b].name = rom[p].name => Prevails(p, b)
    BY <1>2, <1>5
  <2> QED BY <1>2, <1>3, <2>1
<1> QED BY <1>2, <1>4, <1>5

\* The tag passed prevails over all of its name before it if it is newer than
\* the one that did, or raises the priority.
LEMMA Overtakes ==
    ASSUME RomInv, p \in Reached, NEW r \in Kept, rom[r].name = rom[p].name,
           rom[r].version < rom[p].version \/ Raises(p),
           NEW b \in Reached, b < p, rom[b].name = rom[p].name
    PROVE  Prevails(p, b)
<1>1. /\ r \in Reached /\ r < p
      /\ b # r => Prevails(r, b)
  BY DEF Kept
<1>2. /\ p \in Nat /\ r \in Nat /\ b \in Nat
      /\ rom[p].version \in Nat /\ rom[r].version \in Nat /\ rom[b].version \in Nat
  BY <1>1, ReachedTag DEF RomInv, Typed
<1>3. CASE Raises(p)
  BY <1>2, <1>3 DEF Prevails, Resident
<1>4. CASE rom[r].version < rom[p].version
  <2>1. CASE rom[b].version <= rom[r].version
    BY <1>2, <1>4, <2>1 DEF Prevails, Resident
  <2>2. CASE ~(rom[b].version <= rom[r].version)
    <3>1. PICK c \in Reached : rom[c].name = rom[r].name /\ b < c /\ c <= r /\ Raises(c)
      BY <1>1, <1>2, <2>2 DEF Prevails, Resident
    <3>2. c \in Nat
      BY <3>1, ReachedTag DEF RomInv, Typed
    <3>3. c <= p /\ rom[c].name = rom[p].name
      BY <1>1, <1>2, <3>1, <3>2
    <3> QED BY <1>2, <3>1, <3>2, <3>3 DEF Prevails, Resident
  <2> QED BY <2>1, <2>2
<1> QED BY <1>3, <1>4

\* Of two tags of one name no more than one prevails.
LEMMA KeptApart ==
    ASSUME RomInv, NEW a \in Kept, NEW x \in Kept, rom[a].name = rom[x].name
    PROVE  ~(a < x)
<1> SUFFICES ASSUME a < x PROVE FALSE
  OBVIOUS
<1>1. /\ a \in Reached /\ x \in Reached /\ a < p /\ x < p
      /\ \A c \in Reached \ {a} : c < p /\ rom[c].name = rom[a].name => Prevails(a, c)
      /\ \A c \in Reached \ {x} : c < p /\ rom[c].name = rom[x].name => Prevails(x, c)
  BY DEF Kept
<1>2. /\ p \in Nat
      /\ \A c \in Reached : c \in Nat /\ rom[c].version \in Nat
  BY ReachedTag DEF RomInv, Typed
<1>3. Prevails(a, x) /\ Prevails(x, a)
  BY <1>1, <1>2
<1>4. rom[x].version <= rom[a].version /\ ~Raises(x)
  BY <1>1, <1>2, <1>3 DEF Prevails, Resident
<1>5. PICK c \in Reached : rom[c].name = rom[x].name /\ a < c /\ c <= x /\ Raises(c)
  BY <1>1, <1>2, <1>3, <1>4 DEF Prevails, Resident
<1>6. c # a /\ c < p
  BY <1>1, <1>2, <1>5
<1>7. Prevails(a, c)
  BY <1>1, <1>5, <1>6
<1>8. ~Raises(c)
  BY <1>1, <1>2, <1>5, <1>7 DEF Prevails, Resident
<1> QED BY <1>5, <1>8

\* While the ROM is scanned the list alone holds what is listed.
ListInv(b) ==
    /\ \A i \in 1 .. Len(b) : b[i].resident \in Kept
    /\ \A a \in Reached : a < p => \E i \in 1 .. Len(b) : rom[b[i].resident].name = rom[a].name
    /\ \A i, j \in 1 .. Len(b) : i < j =>
         /\ Place(b[i].resident) >= Place(b[j].resident)
         /\ rom[b[i].resident].name # rom[b[j].resident].name

\* The same said of the listed residents.
LEMMA ListAlone ==
    ASSUME array = << >>, Len(builder) \in Nat
    PROVE  ListedInv <=> ListInv(builder)
<1>1. Len(array) = 0 /\ Total = Len(builder)
  BY DEF Total
<1>2. \A i \in 1 .. Len(builder) : Listed(i) = builder[i].resident
  BY <1>1 DEF Listed
<1> QED BY <1>1, <1>2 DEF ListedInv, ListInv

\* add keeps the list complete, in order and of what prevails.
LEMMA AddListed ==
    ASSUME RomInv, phase = "search", ListInv(builder), PriorityInv,
           p \in Reached, Add(p), p' = rom[p].end, rom' = rom
    PROVE  ListInv(builder)' /\ PriorityInv'
<1> DEFINE node == [name |-> rom[p].name, priority |-> rom[p].priority, resident |-> p]
           R(i) == builder[i].resident
           S(i) == builder'[i].resident
<1>1. /\ builder \in Seq(Nodes) /\ Len(builder) \in Nat /\ DOMAIN builder = 1 .. Len(builder)
      /\ Typed
  BY DEF RomInv, Typed
<1>2. Reached' = Reached /\ \A a : Place(a)' = Place(a)
  BY SameRom
<1>3. /\ \A a \in Reached : a < p' <=> a < p \/ a = p
      /\ \A a \in Kept :
           \/ rom[a].name # rom[p].name
           \/ rom[p].version <= rom[a].version /\ ~Raises(p)
           => a \in Kept'
      /\ (\A b \in Reached : b < p /\ rom[b].name = rom[p].name => Prevails(p, b))
         => p \in Kept'
  BY PassTag
<1>4. ASSUME NEW i \in 1 .. Len(builder)
      PROVE  /\ builder[i] \in Nodes
             /\ builder[i].name = rom[R(i)].name
             /\ builder[i].priority = Place(R(i))
             /\ R(i) \in Kept /\ R(i) \in Reached
             /\ Place(R(i)) \in Int /\ rom[R(i)].version \in Nat
  <2>1. R(i) \in Kept /\ R(i) \in Reached
    BY DEF ListInv, Kept
  <2>2. builder[i] \in Nodes
    BY <1>1
  <2>3. builder[i].name = rom[R(i)].name /\ builder[i].priority = Place(R(i))
    BY DEF RomInv, NodesInv, PriorityInv
  <2>4. Place(R(i)) \in Int /\ rom[R(i)].version \in Nat
    BY <1>1, <2>1, ReachedTag, Places DEF Typed
  <2> QED BY <2>1, <2>2, <2>3, <2>4
<1>5. rom[p].priority \in Int /\ Place(p) \in Int /\ rom[p].version \in Nat
  BY ReachedTag, Places DEF RomInv, Typed
\* What is to be shown of the new list.
<1> DEFINE Good ==
             /\ \A i \in 1 .. Len(builder') : S(i) \in Kept'
             /\ \A a \in Reached : a < p \/ a = p =>
                  \E i \in 1 .. Len(builder') : rom[S(i)].name = rom[a].name
             /\ \A i, j \in 1 .. Len(builder') : i < j =>
                  /\ Place(S(i)) >= Place(S(j))
                  /\ rom[S(i)].name # rom[S(j)].name
             /\ \A i \in 1 .. Len(builder') : builder'[i].priority = Place(S(i))
<1>6. ASSUME Named(rom[p].name) = {}, Enqueue(node) PROVE Good
  <2>1. node \in Nodes
    BY <1>1, AddCases
  <2>2. \A i \in 1 .. Len(builder) : rom[R(i)].name # rom[p].name
    BY <1>1, <1>4, <1>6 DEF Named
  <2>3. p \in Kept'
    <3>1. \A b \in Reached : b < p => rom[b].name # rom[p].name
      BY <2>2 DEF ListInv
    <3> QED BY <1>3, <3>1
  <2>4. node.priority = Place(p) /\ node.resident = p
    <3>1. \A b \in Reached : rom[b].name = rom[p].name => ~(b < p)
      BY <2>2 DEF ListInv
    <3>2. Place(p) = rom[p].priority
      BY <1>1, <3>1, FirstPlace DEF Typed
    <3> QED BY <3>2
  <2> HIDE DEF node
  <2>5. PICK x \in 1 .. (Len(builder) + 1) :
          /\ Inserted(builder, x, node, builder')
          /\ \A j \in 1 .. (x - 1) : builder[j].priority >= node.priority
          /\ x <= Len(builder) => builder[x].priority < node.priority
    BY <1>1, <1>6, <2>1, EnqueueInserts
  <2> DEFINE from(j) == IF j < x THEN j ELSE j - 1
  <2>6. /\ Len(builder') = Len(builder) + 1
        /\ builder'[x] = node
        /\ \A j \in 1 .. Len(builder') : j # x =>
             /\ from(j) \in 1 .. Len(builder)
             /\ builder'[j] = builder[from(j)]
        /\ \A i \in 1 .. Len(builder) :
             \E j \in 1 .. Len(builder') : j # x /\ from(j) = i
    <3>1. ASSUME NEW i \in 1 .. Len(builder)
          PROVE  \E j \in 1 .. (Len(builder) + 1) : j # x /\ from(j) = i
      <4>1. CASE i < x
        BY <1>1, <4>1
      <4>2. CASE ~(i < x)
        <5>1. i + 1 \in 1 .. (Len(builder) + 1) /\ i + 1 # x /\ from(i + 1) = i
          BY <1>1, <4>2
        <5> QED BY <5>1
      <4> QED BY <4>1, <4>2
    <3>2. /\ Len(builder') = Len(builder) + 1
          /\ builder'[x] = node
          /\ \A j \in 1 .. (x - 1) : builder'[j] = builder[j]
          /\ \A j \in (x + 1) .. Len(builder') : builder'[j] = builder[j - 1]
      BY <2>5 DEF Inserted
    <3>3. \A j \in 1 .. Len(builder') : j # x =>
            /\ from(j) \in 1 .. Len(builder)
            /\ builder'[j] = builder[from(j)]
      BY <1>1, <2>5, <3>2
    <3> QED BY <3>1, <3>2, <3>3
  <2>7. \A i \in 1 .. Len(builder) :
          /\ i < x => Place(R(i)) >= Place(p)
          /\ i >= x => Place(R(i)) < Place(p)
    <3>1. ASSUME NEW i \in 1 .. Len(builder), i < x
          PROVE  Place(R(i)) >= Place(p)
      <4>1. i \in 1 .. (x - 1)
        BY <3>1
      <4> QED BY <1>4, <2>4, <2>5, <4>1
    <3>2. ASSUME NEW i \in 1 .. Len(builder), i >= x
          PROVE  Place(R(i)) < Place(p)
      <4>1. x \in 1 .. Len(builder) /\ Place(R(x)) < Place(p)
        BY <1>1, <1>4, <2>4, <2>5, <3>2
      <4>2. i = x \/ Place(R(x)) >= Place(R(i))
        BY <3>2, <4>1 DEF ListInv
      <4> QED BY <1>4, <1>5, <4>1, <4>2
    <3> QED BY <3>1, <3>2
  <2>8. \A i \in 1 .. Len(builder') : S(i) \in Kept'
    BY <1>3, <1>4, <2>2, <2>3, <2>4, <2>6
  <2>9. ASSUME NEW a \in Reached, a < p \/ a = p
        PROVE  \E i \in 1 .. Len(builder') : rom[S(i)].name = rom[a].name
    <3>1. CASE a = p
      BY <1>1, <2>4, <2>6, <3>1
    <3>2. CASE a < p
      <4>1. PICK i \in 1 .. Len(builder) : rom[R(i)].name = rom[a].name
        BY <3>2 DEF ListInv
      <4>2. PICK j \in 1 .. Len(builder') : j # x /\ from(j) = i
        BY <2>6
      <4>3. S(j) = R(i)
        BY <2>6, <4>2
      <4> QED BY <4>1, <4>2, <4>3
    <3> QED BY <2>9, <3>1, <3>2
  <2>10. ASSUME NEW i \in 1 .. Len(builder'), NEW j \in 1 .. Len(builder'), i < j
         PROVE  /\ Place(S(i)) >= Place(S(j))
                /\ rom[S(i)].name # rom[S(j)].name
    <3>1. CASE i = x
      <4>1. from(j) \in 1 .. Len(builder) /\ from(j) >= x /\ S(j) = R(from(j))
        BY <1>1, <2>6, <2>10, <3>1
      <4>2. S(i) = p
        BY <2>4, <2>6, <3>1
      <4> HIDE DEF from
      <4> QED BY <1>4, <1>5, <2>2, <2>7, <4>1, <4>2, SMTT(30)
    <3>2. CASE j = x
      <4>1. from(i) \in 1 .. Len(builder) /\ from(i) < x /\ S(i) = R(from(i))
        BY <1>1, <2>6, <2>10, <3>2
      <4>2. S(j) = p
        BY <2>4, <2>6, <3>2
      <4> HIDE DEF from
      <4> QED BY <1>4, <1>5, <2>2, <2>7, <4>1, <4>2
    <3>3. CASE i # x /\ j # x
      <4>1. /\ from(i) \in 1 .. Len(builder) /\ from(j) \in 1 .. Len(builder)
            /\ S(i) = R(from(i)) /\ S(j) = R(from(j))
        BY <2>6, <3>3
      <4>2. from(i) < from(j)
        BY <2>5, <2>10, <3>3
      <4> HIDE DEF from
      <4> QED BY <4>1, <4>2 DEF ListInv
    <3> QED BY <3>1, <3>2, <3>3
  <2>11. ASSUME NEW i \in 1 .. Len(builder')
         PROVE  builder'[i].priority = Place(S(i))
    <3>1. CASE i = x
      BY <2>4, <2>6, <3>1
    <3>2. CASE i # x
      <4>1. from(i) \in 1 .. Len(builder) /\ builder'[i] = builder[from(i)]
        BY <2>6, <3>2
      <4> HIDE DEF from
      <4> QED BY <1>4, <4>1
    <3> QED BY <3>1, <3>2
  <2> QED BY <2>8, <2>9, <2>10, <2>11
<1>7. ASSUME NEW x \in Named(rom[p].name)
      PROVE  /\ x \in 1 .. Len(builder) /\ rom[R(x)].name = rom[p].name
             /\ builder[x].priority = Place(p) /\ Place(R(x)) = Place(p)
             /\ \A i \in 1 .. Len(builder) : i # x => rom[R(i)].name # rom[p].name
  <2>1. x \in 1 .. Len(builder) /\ rom[R(x)].name = rom[p].name
    BY <1>1, <1>4 DEF Named
  <2>2. R(x) \in Reached
    BY <1>4, <2>1
  <2>3. Place(R(x)) = Place(p)
    BY <1>1, <2>1, <2>2, Places DEF Typed
  <2>4. ASSUME NEW i \in 1 .. Len(builder), i # x PROVE rom[R(i)].name # rom[p].name
    <3>1. i < x \/ x < i
      BY <2>1, <2>4
    <3> QED BY <2>1, <3>1 DEF ListInv
  <2> QED BY <1>4, <2>1, <2>3, <2>4
<1>8. ASSUME NEW x \in Named(rom[p].name), Supersedes(p, builder[x]),
             builder' = [builder EXCEPT ![x].resident = p]
      PROVE  Good
  <2>1. /\ Len(builder') = Len(builder) /\ S(x) = p
        /\ \A j \in 1 .. Len(builder) : /\ builder'[j].priority = builder[j].priority
                                        /\ j # x => S(j) = R(j)
    BY <1>1, <1>7, <1>8, ResidentReplaced
  <2>2. rom[R(x)].version < rom[p].version \/ Raises(p)
    BY <1>4, <1>5, <1>7, <1>8 DEF Supersedes, Raises, Resident
  <2>3. p \in Kept'
    <3>1. R(x) \in Kept /\ rom[R(x)].name = rom[p].name
      BY <1>4, <1>7
    <3>2. \A b \in Reached : b < p /\ rom[b].name = rom[p].name => Prevails(p, b)
      BY <2>2, <3>1, Overtakes
    <3> QED BY <1>3, <3>2
  <2>4. \A i \in 1 .. Len(builder') : S(i) \in Kept'
    BY <1>3, <1>4, <1>7, <2>1, <2>3
  <2>5. \A i \in 1 .. Len(builder) : /\ rom[S(i)].name = rom[R(i)].name
                                     /\ Place(S(i)) = Place(R(i))
    BY <1>4, <1>7, <2>1
  <2>6. \A a \in Reached : a < p \/ a = p =>
          \E i \in 1 .. Len(builder') : rom[S(i)].name = rom[a].name
    BY <1>7, <2>1, <2>5 DEF ListInv
  <2>7. \A i, j \in 1 .. Len(builder') : i < j =>
          /\ Place(S(i)) >= Place(S(j))
          /\ rom[S(i)].name # rom[S(j)].name
    BY <2>1, <2>5 DEF ListInv
  <2>8. \A i \in 1 .. Len(builder') : builder'[i].priority = Place(S(i))
    BY <1>4, <2>1, <2>5
  <2> QED BY <2>4, <2>6, <2>7, <2>8
<1>9. ASSUME NEW x \in Named(rom[p].name), ~Supersedes(p, builder[x]), builder' = builder
      PROVE  Good
  <2>1. rom[p].version <= rom[R(x)].version /\ ~Raises(p)
    BY <1>4, <1>5, <1>7, <1>9 DEF Supersedes, Raises, Resident
  <2>2. \A i \in 1 .. Len(builder') : S(i) \in Kept'
    BY <1>3, <1>4, <1>7, <1>9, <2>1
  <2>3. \A a \in Reached : a < p \/ a = p =>
          \E i \in 1 .. Len(builder') : rom[S(i)].name = rom[a].name
    BY <1>7, <1>9 DEF ListInv
  <2> QED BY <1>4, <1>9, <2>2, <2>3 DEF ListInv
<1>10. Good
  BY <1>1, <1>6, <1>8, <1>9, AddCases
<1> QED BY <1>2, <1>3, <1>10 DEF ListInv, PriorityInv

\* Before it starts nothing is listed.
LEMMA OrderInit == Init => OrderInv
<1> SUFFICES ASSUME Init PROVE OrderInv
  OBVIOUS
<1> USE DEF Init
<1>1. Len(builder) = 0 /\ Len(array) = 0 /\ Len(inited) = 0 /\ Total = 0
  BY DEF Total
<1>2. \A i \in 1 .. 0 : FALSE
  OBVIOUS
<1>3. \A a \in Reached : ~(a < p)
  <2>1. Reached \subseteq 1 .. RomSize /\ RomSize \in Nat
    BY ReachedScanned, RomAssumption DEF Scan, IsRom
  <2> QED BY <2>1
<1>4. ListedInv
  BY <1>1, <1>2, <1>3 DEF ListedInv
<1>5. PriorityInv
  BY <1>1 DEF PriorityInv
<1>6. InitedInv
  BY <1>1 DEF InitedInv
<1> QED BY <1>4, <1>5, <1>6 DEF OrderInv

\* What is listed and its order stay where neither the scan nor the list
\* changes.
LEMMA ListedStays ==
    ASSUME ListedInv, rom' = rom, array' = array, builder' = builder,
           \A a \in Reached : a < p' <=> a < p
    PROVE  ListedInv'
<1>1. Reached' = Reached
  BY DEF Reached
<1>2. Kept' = Kept
  BY SameRom DEF Kept
<1>3. Total' = Total /\ \A i \in 1 .. Total : Listed(i)' = Listed(i)
  BY DEF Total, Listed
<1> QED BY <1>1, <1>2, <1>3, SameRom DEF ListedInv

\* A node's resident moves from the list to the array and keeps its place.
LEMMA FlattenListed ==
    ASSUME RomInv, ListedInv, PriorityInv, FlattenNode
    PROVE  ListedInv' /\ PriorityInv'
<1>1. /\ builder \in Seq(Nodes) /\ builder # << >> /\ array \in Seq(Reached)
      /\ array' = Append(array, Head(builder).resident) /\ builder' = Tail(builder)
      /\ rom' = rom /\ p' = p
  BY DEF FlattenNode, RomInv, Typed
<1>2. /\ Len(builder) \in Nat \ {0} /\ Len(array) \in Nat
      /\ Head(builder) = builder[1] /\ builder[1].resident \in Reached
      /\ Len(builder') = Len(builder) - 1
      /\ \A i \in 1 .. (Len(builder) - 1) : builder'[i] = builder[i + 1]
  <2>1. builder[1] \in Nodes
    BY <1>1
  <2> QED BY <1>1, <2>1, HeadTailProperties DEF Nodes
<1>3. /\ Len(array') = Len(array) + 1
      /\ array'[Len(array) + 1] = builder[1].resident
      /\ \A i \in 1 .. Len(array) : array'[i] = array[i]
  BY <1>1, <1>2, AppendProperties
<1>4. Total' = Total /\ Total \in Nat
  BY <1>2, <1>3 DEF Total
<1>5. ASSUME NEW i \in 1 .. Total PROVE Listed(i)' = Listed(i)
  <2>1. Listed(i)' = IF i <= Len(array') THEN array'[i] ELSE builder'[i - Len(array')].resident
    BY DEF Listed
  <2>2. CASE i <= Len(array)
    BY <1>2, <1>3, <2>1, <2>2 DEF Listed
  <2>3. CASE i = Len(array) + 1
    BY <1>2, <1>3, <2>1, <2>3 DEF Listed
  <2>4. CASE i > Len(array) + 1
    <3>1. /\ i - Len(array') \in 1 .. (Len(builder) - 1)
          /\ (i - Len(array')) + 1 = i - Len(array)
          /\ ~(i <= Len(array')) /\ ~(i <= Len(array))
      BY <1>2, <1>3, <2>4 DEF Total
    <3>2. builder'[i - Len(array')] = builder[i - Len(array)]
      BY <1>2, <3>1
    <3> QED BY <2>1, <3>1, <3>2 DEF Listed
  <2> QED BY <1>2, <2>2, <2>3, <2>4
<1>6. Reached' = Reached
  BY <1>1 DEF Reached
<1>7. Kept' = Kept /\ \A a : Place(a)' = Place(a)
  BY <1>1, SameRom DEF Kept
<1>8. ListedInv'
  <2>1. \A i \in 1 .. Total : Listed(i)' = Listed(i)
    BY <1>5
  <2>2. rom' = rom /\ p' = p /\ Total' = Total
    BY <1>1, <1>4
  <2> QED BY <1>6, <1>7, <2>1, <2>2 DEF ListedInv
<1>9. PriorityInv'
  <2>1. \A i \in 1 .. Len(builder') :
          i + 1 \in 1 .. Len(builder) /\ builder'[i] = builder[i + 1]
    BY <1>2
  <2> QED BY <1>1, <1>7, <2>1 DEF PriorityInv
<1> QED BY <1>8, <1>9

\* The entry looked at is initialised behind those of higher place.
LEMMA InitedGrows ==
    ASSUME RomInv, ListedInv, InitedInv, phase = "initialise", k <= Len(array),
           rom' = rom, array' = array, k' = k + 1, phase' \in {"initialise", "stopped"},
           \/ ~Eligible(array[k]) /\ inited' = inited
           \/ Eligible(array[k]) /\ inited' = Append(inited, array[k])
    PROVE  InitedInv'
<1>1. /\ builder = << >> /\ array \in Seq(Reached) /\ Len(array) \in Nat
      /\ inited \in Seq(Reached) /\ Len(inited) \in Nat /\ k \in Nat \ {0}
  BY DEF RomInv, CountInv, Typed
<1>2. Total = Len(array) /\ \A i \in 1 .. Len(array) : Listed(i) = array[i]
  BY <1>1 DEF Total, Listed
<1>3. \A i, j \in 1 .. Len(array) : i < j =>
        /\ Place(array[i]) >= Place(array[j])
        /\ rom[array[i]].name # rom[array[j]].name
  BY <1>2 DEF ListedInv
<1>4. \A a : (Eligible(a)' <=> Eligible(a)) /\ Place(a)' = Place(a)
  BY SameRom DEF Eligible, Resident
<1>5. k \in 1 .. Len(array) /\ k \in 1 .. (k' - 1) /\ 1 .. (k' - 1) = 1 .. k
  BY <1>1
<1>6. CASE ~Eligible(array[k]) /\ inited' = inited
  BY <1>1, <1>4, <1>5, <1>6 DEF InitedInv
<1>7. CASE Eligible(array[k]) /\ inited' = Append(inited, array[k])
  <2>1. array[k] \in Reached
    BY <1>1, <1>5
  <2>2. /\ Len(inited') = Len(inited) + 1
        /\ inited'[Len(inited) + 1] = array[k]
        /\ \A i \in 1 .. Len(inited) : inited'[i] = inited[i]
    BY <1>1, <1>7, <2>1, AppendProperties
  <2>3. ASSUME NEW i \in 1 .. Len(inited')
        PROVE  \E j \in 1 .. (k' - 1) : inited'[i] = array[j] /\ Eligible(array[j])
    <3>1. CASE i = Len(inited) + 1
      BY <1>5, <1>7, <2>2, <3>1
    <3>2. CASE i # Len(inited) + 1
      <4>1. i \in 1 .. Len(inited)
        BY <1>1, <2>2, <3>2
      <4>2. PICK j \in 1 .. (k - 1) : inited[i] = array[j] /\ Eligible(array[j])
        BY <4>1 DEF InitedInv
      <4>3. j \in 1 .. (k' - 1)
        BY <1>1, <1>5, <4>2
      <4> QED BY <2>2, <4>1, <4>2, <4>3
    <3> QED BY <3>1, <3>2
  <2>4. ASSUME NEW j \in 1 .. (k' - 1), Eligible(array[j])
        PROVE  \E i \in 1 .. Len(inited') : inited'[i] = array[j]
    <3>1. CASE j = k
      <4>1. Len(inited) + 1 \in 1 .. Len(inited')
        BY <1>1, <2>2
      <4> QED BY <2>2, <3>1, <4>1
    <3>2. CASE j # k
      <4>1. j \in 1 .. (k - 1)
        BY <1>1, <1>5, <3>2
      <4>2. PICK i \in 1 .. Len(inited) : inited[i] = array[j]
        BY <2>4, <4>1 DEF InitedInv
      <4>3. i \in 1 .. Len(inited')
        BY <1>1, <2>2
      <4> QED BY <2>2, <4>2, <4>3
    <3> QED BY <3>1, <3>2
  <2>5. ASSUME NEW i \in 1 .. Len(inited'), NEW j \in 1 .. Len(inited'), i < j
        PROVE  /\ Place(inited'[i]) >= Place(inited'[j])
               /\ inited'[i] # inited'[j]
    <3>1. i \in 1 .. Len(inited)
      BY <1>1, <2>2, <2>5
    <3>2. CASE j = Len(inited) + 1
      <4>1. PICK l \in 1 .. (k - 1) : inited[i] = array[l]
        BY <3>1 DEF InitedInv
      <4>2. l \in 1 .. Len(array) /\ l < k
        BY <1>1, <1>5, <4>1
      <4> QED BY <1>3, <1>5, <2>2, <3>1, <3>2, <4>1, <4>2
    <3>3. CASE j # Len(inited) + 1
      <4>1. j \in 1 .. Len(inited)
        BY <1>1, <2>2, <3>3
      <4> QED BY <2>2, <2>5, <3>1, <4>1, SMTT(30) DEF InitedInv
    <3> QED BY <3>2, <3>3
  <2>6. k' <= Len(array') + 1
    BY <1>1, <1>5
  <2> QED BY <1>4, <2>3, <2>4, <2>5, <2>6 DEF InitedInv
<1> QED BY <1>6, <1>7

\* Every step keeps the order.
LEMMA OrderStep ==
    ASSUME RomInv, OrderInv, [Next]_romVars
    PROVE  OrderInv'
<1>1. ListedInv /\ PriorityInv /\ InitedInv
  BY DEF OrderInv
<1>2. /\ builder \in Seq(Nodes) /\ Len(builder) \in Nat /\ Len(array) \in Nat
      /\ p \in Nat /\ k \in Nat \ {0}
  BY DEF RomInv, Typed
<1>3. \A a : rom' = rom => (Eligible(a)' <=> Eligible(a)) /\ Place(a)' = Place(a)
  BY SameRom DEF Eligible, Resident
<1>4. CASE SearchTag
  <2>1. /\ Add(p) /\ p' = rom[p].end /\ phase = "search" /\ phase' = "search"
        /\ rom' = rom /\ array' = array /\ k' = k /\ inited' = inited
    BY <1>4 DEF SearchTag
  <2>2. p \in Reached
    BY <1>4, HereReached DEF SearchTag
  <2>3. array = << >> /\ array' = << >>
    BY <2>1 DEF RomInv, CountInv
  <2>4. ListInv(builder)
    BY <1>1, <1>2, <2>3, ListAlone
  <2>5. ListInv(builder)' /\ PriorityInv'
    BY <1>1, <2>1, <2>2, <2>4, AddListed
  <2>6. Len(builder') \in Nat
    <3>1. builder' \in Seq(Nodes)
      BY <2>1, <2>2, AddKeeps
    <3> QED BY <3>1
  <2>7. ListedInv'
    <3>1. (ListedInv <=> ListInv(builder))'
      <4>1. (array = << >> /\ Len(builder) \in Nat)'
        BY <2>3, <2>6
      <4> QED BY <4>1, ListAlone, PTL
    <3> QED BY <2>5, <3>1
  <2>8. InitedInv'
    BY <1>1, <1>3, <2>1 DEF InitedInv
  <2> QED BY <2>5, <2>7, <2>8 DEF OrderInv
<1>5. CASE SearchOn \/ SearchEnds \/ FlattenBegins \/ FlattenEnds \/ InitialiseEnds
           \/ UNCHANGED romVars
  <2>1. rom' = rom /\ array' = array /\ builder' = builder
    BY <1>5 DEF SearchOn, SearchEnds, FlattenBegins, FlattenEnds, InitialiseEnds, romVars
  <2>2. \A a \in Reached : a < p' <=> a < p
    <3>1. CASE SearchOn
      <4>1. p' = p + 1 /\ p \notin Reached
        BY <3>1, ReachedTag DEF SearchOn, RomInv, Typed
      <4>2. \A a \in Reached : a \in Nat /\ a # p
        BY <4>1, ReachedTag DEF RomInv, Typed
      <4> QED BY <1>2, <4>1, <4>2
    <3>2. CASE ~SearchOn
      BY <1>5, <3>2 DEF SearchEnds, FlattenBegins, FlattenEnds, InitialiseEnds, romVars
    <3> QED BY <3>1, <3>2
  <2>3. ListedInv'
    BY <1>1, <2>1, <2>2, ListedStays
  <2>4. PriorityInv'
    BY <1>1, <1>3, <2>1 DEF PriorityInv
  <2>5. InitedInv'
    <3>1. /\ inited' = inited /\ k' = k
          /\ phase' \in {"search", "flatten", "copy"} => phase \in {"search", "flatten", "copy"}
          /\ phase' = "idle" => phase = "idle" \/ k > Len(array)
      BY <1>5 DEF SearchOn, SearchEnds, FlattenBegins, FlattenEnds, InitialiseEnds, romVars
    <3>2. phase' = "idle" => k = Len(array) + 1
      BY <1>1, <1>2, <3>1 DEF InitedInv
    <3>3. /\ phase' \in {"search", "flatten", "copy"} => inited' = << >> /\ k' = 1
          /\ k' <= Len(array') + 1
      BY <1>1, <2>1, <3>1 DEF InitedInv
    <3> QED BY <1>1, <1>3, <2>1, <3>1, <3>2, <3>3 DEF InitedInv
  <2> QED BY <2>3, <2>4, <2>5 DEF OrderInv
<1>6. CASE FlattenNode
  <2>1. ListedInv' /\ PriorityInv'
    BY <1>1, <1>6, FlattenListed
  <2>2. /\ phase = "copy" /\ phase' = "copy" /\ inited' = inited /\ k' = k /\ rom' = rom
        /\ inited = << >> /\ k = 1
    BY <1>1, <1>6 DEF FlattenNode, InitedInv
  <2>3. Len(array') \in Nat /\ Len(inited') = 0
    <3>1. builder[1] \in Nodes /\ Head(builder) = builder[1]
      BY <1>2, <1>6 DEF FlattenNode
    <3>2. array' \in Seq(Reached)
      BY <1>6, <3>1 DEF FlattenNode, RomInv, Typed, Nodes
    <3> QED BY <2>2, <3>2
  <2>4. InitedInv'
    BY <2>2, <2>3 DEF InitedInv
  <2> QED BY <2>1, <2>4 DEF OrderInv
<1>7. CASE Skip \/ Initialise
  <2>1. /\ phase = "initialise" /\ k <= Len(array) /\ k' = k + 1
        /\ rom' = rom /\ array' = array /\ builder' = builder /\ p' = p
        /\ \/ ~Eligible(array[k]) /\ inited' = inited
           \/ Eligible(array[k]) /\ inited' = Append(inited, array[k])
        /\ phase' \in {"initialise", "stopped"}
    BY <1>7 DEF Skip, Initialise
  <2>2. InitedInv'
    BY <1>1, <2>1, InitedGrows
  <2>3. ListedInv'
    BY <1>1, <2>1, ListedStays
  <2>4. PriorityInv'
    BY <1>1, <1>3, <2>1 DEF PriorityInv
  <2> QED BY <2>2, <2>3, <2>4 DEF OrderInv
<1> QED BY <1>4, <1>5, <1>6, <1>7 DEF Next

\* The order and the choice hold throughout, of every ROM.
THEOREM OrderInvariant == Spec => []OrderInv
<1>1. Init => OrderInv
  BY OrderInit
<1>2. RomInv /\ OrderInv /\ [Next]_romVars => OrderInv'
  BY OrderStep
<1> QED BY <1>1, <1>2, RomInvariant, PTL DEF Spec

\* Modules are initialised by the descending priority of the first tags of
\* their names, however the scan met them, whichever of several of one name was
\* taken and whatever priority that one has.
THEOREM InitialisedInOrder == Spec => []PriorityOrder
<1>1. RomInv /\ OrderInv => PriorityOrder
  <2> SUFFICES ASSUME RomInv, OrderInv, NEW i \in DOMAIN inited, NEW j \in DOMAIN inited, i < j
               PROVE  Place(inited[i]) >= Place(inited[j])
    BY DEF PriorityOrder
  <2>1. DOMAIN inited = 1 .. Len(inited)
    BY DEF RomInv, Typed
  <2> QED BY <2>1 DEF OrderInv, InitedInv
<1> QED BY <1>1, RomInvariant, OrderInvariant, PTL

\* A module is initialised only if it prevails over its name and is of the
\* class and version asked for, and none twice; when startup2 is done none
\* that is due was left out.
OnlyDue ==
    /\ \A i \in DOMAIN inited : inited[i] \in Due
    /\ \A i, j \in DOMAIN inited : i # j => inited[i] # inited[j]
    /\ phase = "idle" => DueInitialised

\* With the whole ROM scanned what was kept is what is taken of every name.
LEMMA AllKept == ASSUME RomInv, p > RomSize PROVE Kept = Taken
<1>1. \A a \in Reached : a < p
  <2>1. \A a \in Reached : a \in 1 .. RomSize
    BY ReachedTag DEF RomInv, Typed
  <2>2. RomSize \in Nat /\ p \in Nat
    BY RomAssumption DEF RomInv, Typed, IsRom
  <2> QED BY <2>1, <2>2
<1> QED BY <1>1 DEF Kept, Taken, Resident

\* As many were initialised as there are different ones among them.
LEMMA CountInited ==
    ASSUME NEW s \in Seq(Reached),
           \A i, j \in 1 .. Len(s) : i < j => s[i] # s[j]
    PROVE  Len(s) = Cardinality({s[i] : i \in DOMAIN s})
<1> DEFINE S == {s[i] : i \in DOMAIN s}
           n == Len(s)
<1>1. n \in Nat /\ DOMAIN s = 1 .. n
  OBVIOUS
<1>2. s \in [1 .. n -> S]
  OBVIOUS
<1>3. \A i, j \in 1 .. n : s[i] = s[j] => i = j
  <2> SUFFICES ASSUME NEW i \in 1 .. n, NEW j \in 1 .. n, s[i] = s[j], i # j PROVE FALSE
    OBVIOUS
  <2>1. i < j \/ j < i
    OBVIOUS
  <2> QED BY <2>1
<1>4. \A x \in S : \E i \in 1 .. n : s[i] = x
  BY <1>1
<1> HIDE DEF S, n
<1>5. s \in Bijection(1 .. n, S)
  BY <1>2, <1>3, <1>4 DEF Bijection, Injection, Surjection, IsInjective
<1>6. ExistsBijection(1 .. n, S)
  BY <1>5 DEF ExistsBijection
<1>7. Cardinality(S) = n
  BY <1>1, <1>6, FS_CountingElements
<1> QED BY <1>7 DEF S, n

\* What startup2 asks for is initialised, once, and nothing else is.
THEOREM InitialisedExactly == Spec => []OnlyDue
<1>1. RomInv /\ OrderInv => OnlyDue
  <2> SUFFICES ASSUME RomInv, OrderInv PROVE OnlyDue
    OBVIOUS
  <2>1. /\ inited \in Seq(Reached) /\ DOMAIN inited = 1 .. Len(inited)
        /\ array \in Seq(Reached) /\ Len(array) \in Nat /\ Len(inited) \in Nat
        /\ k \in Nat
    BY DEF RomInv, Typed
  <2>2. ListedInv /\ InitedInv
    BY DEF OrderInv
  <2>3. CASE phase \in {"search", "flatten", "copy"}
    <3>1. Len(inited) = 0 /\ phase # "idle"
      BY <2>2, <2>3 DEF InitedInv
    <3> QED BY <2>1, <3>1 DEF OnlyDue
  <2>4. CASE phase \in {"initialise", "idle", "stopped"}
    <3>1. /\ builder = << >> /\ Total = Len(array) /\ p > RomSize
          /\ \A i \in 1 .. Len(array) : Listed(i) = array[i]
      BY <2>1, <2>4 DEF RomInv, CountInv, ScanInv, Total, Listed
    <3>2. /\ Kept = Taken
          /\ \A i \in 1 .. Len(array) : array[i] \in Taken
      BY <2>2, <3>1, AllKept DEF ListedInv
    <3>3. ASSUME NEW i \in 1 .. Len(inited) PROVE inited[i] \in Due
      <4>1. PICK j \in 1 .. (k - 1) : inited[i] = array[j] /\ Eligible(array[j])
        BY <2>2 DEF InitedInv
      <4>2. j \in 1 .. Len(array)
        BY <2>1, <2>2 DEF InitedInv
      <4> QED BY <3>2, <4>1, <4>2 DEF Due, Eligible
    <3>4. ASSUME NEW i \in 1 .. Len(inited), NEW j \in 1 .. Len(inited), i # j
          PROVE  inited[i] # inited[j]
      <4>1. i < j \/ j < i
        BY <3>4
      <4> QED BY <2>2, <4>1 DEF InitedInv
    <3>5. ASSUME phase = "idle" PROVE DueInitialised
      <4>1. ASSUME NEW a \in Due PROVE \E i \in 1 .. Len(inited) : inited[i] = a
        <5>1. a \in Reached /\ a \in Taken /\ Eligible(a)
          BY DEF Due, Taken, Eligible
        <5>2. a < p
          BY <3>2, <5>1 DEF Kept
        <5>3. PICK i \in 1 .. Len(array) : rom[array[i]].name = rom[a].name
          BY <2>2, <3>1, <5>1, <5>2 DEF ListedInv
        <5>4. array[i] = a
          <6>1. array[i] \in Kept /\ a \in Kept /\ array[i] \in Nat /\ a \in Nat
            BY <3>2, <5>1, ReachedTag DEF Kept, RomInv, Typed
          <6>2. ~(a < array[i]) /\ ~(array[i] < a)
            BY <5>3, <6>1, KeptApart
          <6> QED BY <6>1, <6>2
        <5>5. i \in 1 .. (k - 1)
          BY <2>1, <2>2, <3>5 DEF InitedInv
        <5> QED BY <2>2, <5>1, <5>4, <5>5 DEF InitedInv
      <4>2. {inited[i] : i \in DOMAIN inited} = Due
        BY <2>1, <3>3, <4>1
      <4>3. Len(inited) = Cardinality({inited[i] : i \in DOMAIN inited})
        <5>1. \A i, j \in 1 .. Len(inited) : i < j => inited[i] # inited[j]
          BY <2>2 DEF InitedInv
        <5> QED BY <2>1, <5>1, CountInited
      <4> QED BY <4>2, <4>3 DEF DueInitialised
    <3> QED BY <2>1, <3>3, <3>4, <3>5 DEF OnlyDue
  <2>5. phase \in Phases
    BY DEF RomInv, Typed
  <2> QED BY <2>3, <2>4, <2>5 DEF Phases
<1> QED BY <1>1, RomInvariant, OrderInvariant, PTL
=============================================================================
