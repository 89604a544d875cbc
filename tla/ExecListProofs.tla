---------------------------- MODULE ExecListProofs ----------------------------
(***************************************************************************)
(* The lists of exec.library between any two stores of any operation: the  *)
(* proofs, for every number of nodes and every priorities.                 *)
(***************************************************************************)
EXTENDS ExecList, Lemmas, SequenceTheorems, TLAPS

\* What has links, and how many steps a walk is given.
Linked == Nodes \cup {HEAD, TAIL}
Enough == Cardinality(Nodes) + 1

\* p runs from one marker to another by way of nodes, and comes to none twice.
Path(p, from, to) ==
    /\ p \in Seq(Linked) /\ Len(p) >= 2
    /\ p[1] = from /\ p[Len(p)] = to
    /\ \A i \in 2 .. (Len(p) - 1) : p[i] \in Nodes
    /\ \A i, j \in 1 .. Len(p) : p[i] = p[j] => i = j

\* The links lead along p.
Follows(link, p) == \A i \in 1 .. (Len(p) - 1) : link[p[i]] = p[i + 1]

-----------------------------------------------------------------------------
(* Walks.                                                                  *)

\* A walk takes one link after the other, and stays where there is none.
LEMMA WalkSteps ==
    ASSUME NEW link \in [Linked -> Linked \cup {NONE}], NEW from \in Linked
    PROVE  /\ Walk(link, from) \in [0 .. Enough -> Linked \cup {NONE}]
           /\ Walk(link, from)[0] = link[from]
           /\ \A i \in 1 .. Enough :
                Walk(link, from)[i] = IF Walk(link, from)[i - 1] \in Nodes
                                      THEN link[Walk(link, from)[i - 1]]
                                      ELSE Walk(link, from)[i - 1]
<1> DEFINE V == Linked \cup {NONE}
           Loop(f) == f = [i \in 0 .. Enough |->
               IF i = 0 THEN link[from]
               ELSE IF f[i - 1] \in Nodes THEN link[f[i - 1]] ELSE f[i - 1]]
           w == CHOOSE f : Loop(f)
           step == [i \in 1 .. Enough |-> [x \in V |-> IF x \in Nodes THEN link[x] ELSE x]]
<1>1. Enough \in Nat
  BY ListAssumption, FS_CardinalityType DEF Enough
<1>2. link[from] \in V /\ step \in [1 .. Enough -> [V -> V]]
  BY DEF Linked
<1>3. \E f : Loop(f)
  <2> HIDE DEF step, V
  <2>1. PICK f : f \in [0 .. Enough -> V] /\ Steps(f, Enough, link[from], step)
    BY <1>1, <1>2, BoundedRecursion
  <2>2. ASSUME NEW i \in 1 .. Enough
        PROVE  f[i] = IF f[i - 1] \in Nodes THEN link[f[i - 1]] ELSE f[i - 1]
    <3>1. f[i - 1] \in V /\ f[i] = step[i][f[i - 1]]
      BY <1>1, <2>1 DEF Steps
    <3>2. step[i][f[i - 1]] = IF f[i - 1] \in Nodes THEN link[f[i - 1]] ELSE f[i - 1]
      BY <3>1 DEF step
    <3> QED BY <3>1, <3>2
  <2>3. ASSUME NEW i \in 0 .. Enough
        PROVE  f[i] = IF i = 0 THEN link[from]
                      ELSE IF f[i - 1] \in Nodes THEN link[f[i - 1]] ELSE f[i - 1]
    <3>1. i = 0 \/ i \in 1 .. Enough
      BY <1>1
    <3> QED BY <2>1, <2>2, <3>1 DEF Steps
  <2>4. Loop(f)
    BY <2>1, <2>3
  <2> QED BY <2>4
<1>4. Loop(w)
  BY <1>3
<1>5. Walk(link, from) = w
  BY DEF Walk, Enough
<1> HIDE DEF w
<1>6. w[0] = link[from]
  BY <1>1, <1>4
<1>7. \A i \in 1 .. Enough : w[i] = IF w[i - 1] \in Nodes THEN link[w[i - 1]] ELSE w[i - 1]
  BY <1>1, <1>4
<1> DEFINE T == {i \in 0 .. Enough : w[i] \in V}
<1>8. \A i \in 0 .. Enough : i \in T
  <2>1. 0 \in T
    BY <1>1, <1>2, <1>6
  <2>2. ASSUME NEW i \in 0 .. (Enough - 1), i \in T PROVE i + 1 \in T
    <3>1. i + 1 \in 1 .. Enough /\ w[i] \in V
      BY <1>1, <2>2
    <3>2. w[i + 1] = IF w[i] \in Nodes THEN link[w[i]] ELSE w[i]
      BY <1>7, <3>1
    <3>3. w[i + 1] \in V
      BY <3>1, <3>2 DEF Linked
    <3> QED BY <1>1, <3>1, <3>3
  <2> HIDE DEF T
  <2> QED BY <1>1, <2>1, <2>2, BoundedInduction
<1>9. w \in [0 .. Enough -> V]
  <2>1. \A i \in 0 .. Enough : w[i] \in V
    BY <1>8
  <2> QED BY <1>4, <2>1
<1> QED BY <1>5, <1>6, <1>7, <1>9

\* A path has no more nodes than there are.
LEMMA PathFits ==
    ASSUME NEW p, NEW from, NEW to, Path(p, from, to)
    PROVE  Len(p) - 2 \in 0 .. Cardinality(Nodes)
<1> DEFINE n == Len(p) - 2
           f == [i \in 1 .. n |-> p[i + 1]]
<1>1. n \in Nat
  BY DEF Path
<1>2. f \in [1 .. n -> Nodes]
  BY <1>1 DEF Path
<1>3. \A i, j \in 1 .. n : f[i] = f[j] => i = j
  <2>1. ASSUME NEW i \in 1 .. n, NEW j \in 1 .. n, f[i] = f[j] PROVE i = j
    <3>1. i + 1 \in 1 .. Len(p) /\ j + 1 \in 1 .. Len(p) /\ p[i + 1] = p[j + 1]
      BY <1>1, <2>1
    <3>2. i + 1 = j + 1
      BY <3>1 DEF Path
    <3> QED BY <3>2
  <2> QED BY <2>1
<1> HIDE DEF f
<1>4. f \in Injection(1 .. n, Nodes)
  BY <1>2, <1>3 DEF Injection, IsInjective
<1>5. IsFiniteSet(1 .. n) /\ Cardinality(1 .. n) = n
  BY <1>1, FS_Interval, SMTT(30)
<1>6. Cardinality(1 .. n) <= Cardinality(Nodes)
  BY <1>4, ListAssumption, FS_Injection
<1>7. Cardinality(Nodes) \in Nat
  BY ListAssumption, FS_CardinalityType
<1> QED BY <1>1, <1>5, <1>6, <1>7

\* A walk along a path comes to its nodes in order, and then to its end.
LEMMA PathWalk ==
    ASSUME NEW link \in [Linked -> Linked \cup {NONE}],
           NEW p, NEW from \in {HEAD, TAIL}, NEW to \in {HEAD, TAIL},
           Path(p, from, to), Follows(link, p)
    PROVE  \A i \in 0 .. Enough :
              Walk(link, from)[i] = IF i <= Len(p) - 2 THEN p[i + 2] ELSE to
<1> DEFINE w == Walk(link, from)
           at(i) == IF i <= Len(p) - 2 THEN p[i + 2] ELSE to
           T == {i \in 0 .. Enough : w[i] = at(i)}
<1>1. /\ w[0] = link[from]
      /\ \A i \in 1 .. Enough : w[i] = IF w[i - 1] \in Nodes THEN link[w[i - 1]] ELSE w[i - 1]
  <2>1. from \in Linked
    BY DEF Linked
  <2> QED BY <2>1, WalkSteps
<1>2. Enough \in Nat
  BY ListAssumption, FS_CardinalityType DEF Enough
<1>3. Len(p) \in Nat /\ Len(p) >= 2 /\ p[1] = from /\ p[Len(p)] = to
  BY DEF Path
<1>4. to \notin Nodes
  BY ListAssumption
<1> HIDE DEF w
<1>5. 0 \in T
  <2>1. link[p[1]] = p[1 + 1]
    BY <1>3 DEF Follows
  <2> QED BY <1>1, <1>2, <1>3, <2>1
<1>6. ASSUME NEW i \in 0 .. (Enough - 1), i \in T PROVE i + 1 \in T
  <2>1. w[i] = at(i) /\ i + 1 \in 1 .. Enough /\ i + 1 \in 0 .. Enough
    BY <1>2, <1>6
  <2>2. w[i + 1] = IF w[i] \in Nodes THEN link[w[i]] ELSE w[i]
    BY <1>1, <2>1
  <2>3. CASE i < Len(p) - 2
    <3>1. i + 2 \in 2 .. (Len(p) - 1) /\ i + 2 \in 1 .. (Len(p) - 1)
      BY <1>3, <2>1, <2>3
    <3>2. w[i] = p[i + 2] /\ p[i + 2] \in Nodes
      BY <1>3, <2>1, <2>3, <3>1 DEF Path
    <3>3. link[p[i + 2]] = p[(i + 2) + 1]
      BY <3>1 DEF Follows
    <3>4. i + 1 <= Len(p) - 2 /\ (i + 2) + 1 = (i + 1) + 2
      BY <1>3, <2>1, <2>3
    <3>5. w[i + 1] = at(i + 1)
      BY <2>2, <3>2, <3>3, <3>4
    <3> QED BY <2>1, <3>5
  <2>4. CASE ~(i < Len(p) - 2)
    <3>1. i = Len(p) - 2 \/ i > Len(p) - 2
      BY <1>3, <2>1, <2>4
    <3>2. w[i] = to
      BY <1>3, <2>1, <3>1
    <3>3. at(i + 1) = to
      BY <1>3, <2>1, <3>1
    <3>4. w[i + 1] = at(i + 1)
      BY <1>4, <2>2, <3>2, <3>3
    <3> QED BY <2>1, <3>4
  <2> QED BY <2>3, <2>4
<1> HIDE DEF T
<1>7. \A i \in 0 .. Enough : i \in T
  BY <1>2, <1>5, <1>6, BoundedInduction
<1> QED BY <1>7 DEF T, w

\* So the walk arrives, and the chain it goes is the path without its ends.
LEMMA PathChain ==
    ASSUME NEW link \in [Linked -> Linked \cup {NONE}],
           NEW p, NEW from \in {HEAD, TAIL}, NEW to \in {HEAD, TAIL},
           Path(p, from, to), Follows(link, p)
    PROVE  /\ Arrives(link, from, to)
           /\ Chain(link, from, to) = [i \in 1 .. (Len(p) - 2) |-> p[i + 1]]
<1> DEFINE w == Walk(link, from)
           n == Len(p) - 2
           Is(i) == w[i] = to /\ \A j \in 0 .. (i - 1) : w[j] # to
           len == CHOOSE i \in DOMAIN w : Is(i)
<1>1. DOMAIN w = 0 .. Enough
  <2>1. from \in Linked
    BY DEF Linked
  <2>2. w \in [0 .. Enough -> Linked \cup {NONE}]
    BY <2>1, WalkSteps
  <2> QED BY <2>2
<1>2. Enough \in Nat /\ Enough = Cardinality(Nodes) + 1 /\ Cardinality(Nodes) \in Nat
  BY ListAssumption, FS_CardinalityType DEF Enough
<1>3. Len(p) \in Nat /\ Len(p) >= 2 /\ p[1] = from /\ p[Len(p)] = to
  BY DEF Path
<1>4. n \in 0 .. Enough
  BY <1>2, PathFits
<1>5. \A i \in 0 .. Enough : w[i] = IF i <= n THEN p[i + 2] ELSE to
  BY PathWalk
<1> HIDE DEF w
<1>6. Is(n)
  <2>1. w[n] = p[n + 2] /\ n + 2 = Len(p)
    BY <1>3, <1>4, <1>5
  <2>2. ASSUME NEW j \in 0 .. (n - 1) PROVE w[j] # to
    <3>1. j + 2 \in 2 .. (Len(p) - 1) /\ j \in 0 .. Enough /\ j <= n
      BY <1>2, <1>3, <1>4
    <3>2. w[j] = p[j + 2] /\ p[j + 2] \in Nodes
      BY <1>5, <3>1 DEF Path
    <3> QED BY <3>2, ListAssumption
  <2> QED BY <1>3, <2>1, <2>2
<1>7. \A i \in 0 .. Enough : Is(i) => i = n
  <2>1. ASSUME NEW i \in 0 .. Enough, Is(i) PROVE i = n
    <3>1. ~(i < n)
      BY <1>4, <1>6, <2>1
    <3>2. ~(n < i)
      BY <1>4, <1>6, <2>1
    <3> QED BY <1>4, <3>1, <3>2
  <2> QED BY <2>1
<1>8. len = n
  <2> HIDE DEF Is, n
  <2> QED BY <1>1, <1>4, <1>6, <1>7
<1>9. Arrives(link, from, to)
  <2>1. w[n] = to
    BY <1>6
  <2> QED BY <1>4, <2>1 DEF Arrives, w, Enough
<1>10. Chain(link, from, to) = [i \in 1 .. len |-> w[i - 1]]
  BY DEF Chain, w
<1>11. ASSUME NEW i \in 1 .. n PROVE w[i - 1] = p[i + 1]
  <2>1. i - 1 \in 0 .. Enough /\ i - 1 <= n /\ (i - 1) + 2 = i + 1
    BY <1>2, <1>3, <1>4
  <2> QED BY <1>5, <2>1
<1>12. Chain(link, from, to) = [i \in 1 .. n |-> w[i - 1]]
  BY <1>8, <1>10
<1> QED BY <1>9, <1>11, <1>12

\* What a walker from the head finds, if the links lead along p.
LEMMA ForwardIsPath ==
    ASSUME next \in [Linked -> Linked \cup {NONE}],
           NEW p, Path(p, HEAD, TAIL), Follows(next, p)
    PROVE  /\ Forward = [i \in 1 .. (Len(p) - 2) |-> p[i + 1]]
           /\ Forward \in Seq(Nodes) /\ Len(Forward) = Len(p) - 2
           /\ Listed = {p[i] : i \in 2 .. (Len(p) - 1)}
           /\ ForwardArrives
<1> DEFINE n == Len(p) - 2
<1>1. Arrives(next, HEAD, TAIL) /\ Forward = [i \in 1 .. n |-> p[i + 1]]
  BY PathChain DEF Forward
<1>2. n \in Nat
  BY DEF Path
<1>3. ASSUME NEW i \in 1 .. n PROVE p[i + 1] \in Nodes
  <2>1. i + 1 \in 2 .. (Len(p) - 1)
    BY <1>2, <1>3
  <2> QED BY <2>1 DEF Path
<1>4. Forward \in Seq(Nodes) /\ Len(Forward) = n /\ DOMAIN Forward = 1 .. n
  <2>1. Forward \in [1 .. n -> Nodes]
    BY <1>1, <1>3
  <2> QED BY <1>2, <2>1
<1>5. Listed = {p[i] : i \in 2 .. (Len(p) - 1)}
  <2>1. ASSUME NEW i \in 1 .. n PROVE Forward[i] \in {p[k] : k \in 2 .. (Len(p) - 1)}
    <3>1. i + 1 \in 2 .. (Len(p) - 1) /\ Forward[i] = p[i + 1]
      BY <1>1, <1>2
    <3> QED BY <3>1
  <2>2. ASSUME NEW k \in 2 .. (Len(p) - 1) PROVE p[k] \in {Forward[i] : i \in 1 .. n}
    <3>1. k - 1 \in 1 .. n /\ (k - 1) + 1 = k
      BY <1>2
    <3>2. Forward[k - 1] = p[k]
      BY <1>1, <3>1
    <3> QED BY <3>1, <3>2
  <2>3. Listed = {Forward[i] : i \in 1 .. n}
    BY <1>4 DEF Listed
  <2> QED BY <2>1, <2>2, <2>3
<1>6. Cardinality(Listed) = Len(Forward)
  <2>1. \A i, j \in 1 .. n : Forward[i] = Forward[j] => i = j
    <3>1. ASSUME NEW i \in 1 .. n, NEW j \in 1 .. n, Forward[i] = Forward[j] PROVE i = j
      <4>1. i + 1 \in 1 .. Len(p) /\ j + 1 \in 1 .. Len(p) /\ p[i + 1] = p[j + 1]
        BY <1>1, <1>2, <3>1
      <4>2. i + 1 = j + 1
        BY <4>1 DEF Path
      <4> QED BY <4>2
    <3> QED BY <3>1
  <2>2. Forward \in [1 .. n -> Listed] /\ \A x \in Listed : \E i \in 1 .. n : Forward[i] = x
    BY <1>1, <1>4 DEF Listed
  <2>3. Forward \in Bijection(1 .. n, Listed)
    BY <1>4, <2>1, <2>2 DEF Bijection, Injection, Surjection, IsInjective
  <2>4. ExistsBijection(1 .. n, Listed)
    BY <2>3 DEF ExistsBijection
  <2>5. IsFiniteSet(1 .. n) /\ Cardinality(1 .. n) = n
    BY <1>2, FS_Interval, SMTT(30)
  <2>6. Cardinality(Listed) = Cardinality(1 .. n)
    BY <2>4, <2>5, FS_Bijection
  <2> QED BY <1>4, <2>5, <2>6
<1> QED BY <1>1, <1>4, <1>5, <1>6 DEF ForwardArrives

\* The links back lead along p, read from its end.
Mirrors(link, p) == \A i \in 1 .. (Len(p) - 1) : link[p[i + 1]] = p[i]

\* What a walker back from the tail finds, if both links lead along p.
LEMMA BackwardIsPath ==
    ASSUME next \in [Linked -> Linked \cup {NONE}], prev \in [Linked -> Linked \cup {NONE}],
           NEW p, Path(p, HEAD, TAIL), Follows(next, p), Mirrors(prev, p)
    PROVE  /\ Arrives(prev, TAIL, HEAD)
           /\ LET back == Chain(prev, TAIL, HEAD)
              IN  /\ Len(back) = Len(Forward)
                  /\ \A i \in DOMAIN back : back[i] = Forward[Len(Forward) + 1 - i]
<1> DEFINE len == Len(p)
           r == [i \in 1 .. len |-> p[len + 1 - i]]
           back == Chain(prev, TAIL, HEAD)
<1>1. len \in Nat /\ len >= 2 /\ p \in [1 .. len -> Linked]
  BY DEF Path
<1>2. r \in Seq(Linked) /\ Len(r) = len /\ DOMAIN r = 1 .. len
  <2>1. \A i \in 1 .. len : len + 1 - i \in 1 .. len
    BY <1>1
  <2>2. r \in [1 .. len -> Linked]
    BY <1>1, <2>1
  <2> QED BY <1>1, <2>2
<1> HIDE DEF len
<1>3. Path(r, TAIL, HEAD)
  <2>1. r[1] = TAIL /\ r[len] = HEAD
    BY <1>1 DEF Path, len
  <2>2. ASSUME NEW i \in 2 .. (len - 1) PROVE r[i] \in Nodes
    <3>1. i \in 1 .. len /\ len + 1 - i \in 2 .. (len - 1)
      BY <1>1
    <3>2. p[len + 1 - i] \in Nodes
      BY <3>1 DEF Path, len
    <3> QED BY <3>1, <3>2
  <2>3. ASSUME NEW i \in 1 .. len, NEW j \in 1 .. len, r[i] = r[j] PROVE i = j
    <3>1. len + 1 - i \in 1 .. len /\ len + 1 - j \in 1 .. len
      BY <1>1
    <3>2. p[len + 1 - i] = p[len + 1 - j]
      BY <2>3
    <3>3. len + 1 - i = len + 1 - j
      BY <3>1, <3>2 DEF Path, len
    <3> QED BY <1>1, <3>3
  <2> HIDE DEF r
  <2> QED BY <1>1, <1>2, <2>1, <2>2, <2>3 DEF Path
<1>4. Follows(prev, r)
  <2>1. ASSUME NEW i \in 1 .. (len - 1) PROVE prev[r[i]] = r[i + 1]
    <3>1. /\ len - i \in 1 .. (len - 1) /\ (len - i) + 1 = len + 1 - i
          /\ len + 1 - (i + 1) = len - i /\ i \in 1 .. len /\ i + 1 \in 1 .. len
      BY <1>1
    <3>2. prev[p[(len - i) + 1]] = p[len - i]
      BY <3>1 DEF Mirrors, len
    <3>3. r[i] = p[(len - i) + 1] /\ r[i + 1] = p[len - i]
      BY <3>1
    <3> QED BY <3>2, <3>3
  <2> HIDE DEF r
  <2> QED BY <1>2, <2>1 DEF Follows
<1> HIDE DEF r
<1>5. Arrives(prev, TAIL, HEAD) /\ back = [i \in 1 .. (len - 2) |-> r[i + 1]]
  BY <1>2, <1>3, <1>4, PathChain
<1>6. Forward = [i \in 1 .. (len - 2) |-> p[i + 1]] /\ Len(Forward) = len - 2
  BY ForwardIsPath DEF len
<1>7. Len(back) = len - 2 /\ DOMAIN back = 1 .. (len - 2)
  <2>1. len - 2 \in Nat
    BY <1>1
  <2> QED BY <1>5, <2>1
<1>8. ASSUME NEW i \in 1 .. (len - 2) PROVE back[i] = Forward[(len - 2) + 1 - i]
  <2>1. /\ (len - 2) + 1 - i \in 1 .. (len - 2) /\ i + 1 \in 1 .. len
        /\ len + 1 - (i + 1) = len - i /\ ((len - 2) + 1 - i) + 1 = len - i
    BY <1>1
  <2>2. back[i] = r[i + 1] /\ r[i + 1] = p[len - i]
    BY <1>5, <2>1 DEF r
  <2>3. Forward[(len - 2) + 1 - i] = p[((len - 2) + 1 - i) + 1]
    BY <1>6, <2>1
  <2> QED BY <2>1, <2>2, <2>3
<1> QED BY <1>5, <1>6, <1>7, <1>8

\* The links of the nodes lead round no circle, and a node that was ever
\* linked leads to the end or to another such node.
NoCircle == \A S \in SUBSET Nodes : S # {} => \E n \in S : next[n] \notin S
LeadsOn ==
    \A n \in Nodes :
        next[n] # NONE => next[n] = TAIL \/ (next[n] \in Nodes /\ next[next[n]] # NONE)

\* So a walk from any node that was ever linked gets to the end.
LEMMA LinkedArrive ==
    ASSUME next \in [Linked -> Linked \cup {NONE}], NoCircle, LeadsOn
    PROVE  RemovedStillLeads
<1> SUFFICES ASSUME NEW n \in Nodes, next[n] # NONE
             PROVE  Arrives(next, n, TAIL)
  BY DEF RemovedStillLeads
<1> DEFINE w == Walk(next, n)
<1>1. Enough \in Nat /\ Enough = Cardinality(Nodes) + 1 /\ Cardinality(Nodes) \in Nat
  BY ListAssumption, FS_CardinalityType DEF Enough
<1>2. /\ w \in [0 .. Enough -> Linked \cup {NONE}]
      /\ w[0] = next[n]
      /\ \A i \in 1 .. Enough : w[i] = IF w[i - 1] \in Nodes THEN next[w[i - 1]] ELSE w[i - 1]
  BY WalkSteps DEF Linked
<1> SUFFICES ASSUME \A i \in 0 .. Enough : w[i] # TAIL
             PROVE  FALSE
  BY DEF Arrives, Enough
<1> HIDE DEF w
<1> DEFINE T == {i \in 0 .. Enough : w[i] \in Nodes /\ next[w[i]] # NONE}
<1>3. \A i \in 0 .. Enough : i \in T
  <2>1. 0 \in T
    <3>1. w[0] # TAIL /\ 0 \in 0 .. Enough
      BY <1>1
    <3> QED BY <1>2, <3>1 DEF LeadsOn
  <2>2. ASSUME NEW i \in 0 .. (Enough - 1), i \in T PROVE i + 1 \in T
    <3>1. i + 1 \in 0 .. Enough /\ i + 1 \in 1 .. Enough /\ w[i + 1] # TAIL
      BY <1>1
    <3>2. w[i] \in Nodes /\ next[w[i]] # NONE
      BY <2>2
    <3>3. w[i + 1] = next[w[i]]
      BY <1>2, <3>1, <3>2
    <3> QED BY <3>1, <3>2, <3>3 DEF LeadsOn
  <2> HIDE DEF T
  <2> QED BY <1>1, <2>1, <2>2, BoundedInduction
<1>4. w \in [0 .. Enough -> Nodes]
  <2>1. \A i \in 0 .. Enough : w[i] \in Nodes
    BY <1>3
  <2> QED BY <1>2, <2>1
<1>5. IsFiniteSet(0 .. Enough) /\ Cardinality(0 .. Enough) = Enough + 1
  BY <1>1, FS_Interval
<1>6. PICK i, j \in 0 .. Enough : i # j /\ w[i] = w[j]
  <2>1. Cardinality(Nodes) < Cardinality(0 .. Enough) /\ IsFiniteSet(Nodes)
    BY <1>1, <1>5, ListAssumption
  <2> QED BY <1>4, <1>5, <2>1, FS_PigeonHole, Zenon
<1>7. ASSUME NEW a \in 0 .. Enough, NEW b \in 0 .. Enough, a < b, w[a] = w[b]
      PROVE  FALSE
  <2> DEFINE S == {w[k] : k \in a .. (b - 1)}
  <2>1. S \in SUBSET Nodes /\ w[a] \in S
    BY <1>1, <1>4, <1>7
  <2>2. ASSUME NEW k \in a .. (b - 1) PROVE next[w[k]] \in S
    <3>1. k + 1 \in 1 .. Enough /\ k \in 0 .. Enough
      BY <1>1
    <3>2. w[k + 1] = next[w[k]]
      BY <1>2, <1>4, <3>1
    <3>3. CASE k + 1 = b
      BY <1>7, <2>1, <3>2, <3>3
    <3>4. CASE k + 1 # b
      <4>1. k + 1 \in a .. (b - 1)
        BY <1>1, <3>4
      <4> QED BY <3>2, <4>1
    <3> QED BY <3>3, <3>4
  <2>3. \A m \in S : next[m] \in S
    BY <2>2
  <2> HIDE DEF S
  <2> QED BY <2>1, <2>3 DEF NoCircle
<1>8. i < j \/ j < i
  BY <1>6
<1> QED BY <1>6, <1>7, <1>8

-----------------------------------------------------------------------------
(* The invariant.  Between two stores there are two lists: s, which the    *)
(* next links lead along now, and t, which both links will lead along when *)
(* the stores yet to be made are made.                                     *)

Stores == [link : {"next", "prev"}, of : Linked, value : Linked]

Typed ==
    /\ next \in [Linked -> Linked \cup {NONE}]
    /\ prev \in [Linked -> Linked \cup {NONE}]
    /\ todo \in Seq(Stores)

\* An operation stores to a link once at most.
EachOnce ==
    \A i, j \in 1 .. Len(todo) :
        todo[i].link = todo[j].link /\ todo[i].of = todo[j].of => i = j

LinkOf(l) == IF l = "next" THEN next ELSE prev

\* What the link l of n is when all stores are made: what the one to it
\* stores, and what it is now if there is none.
Will(l, n, v) ==
    /\ \A i \in 1 .. Len(todo) : todo[i].link = l /\ todo[i].of = n => todo[i].value = v
    /\ (\A i \in 1 .. Len(todo) : ~(todo[i].link = l /\ todo[i].of = n)) => LinkOf(l)[n] = v

WillLink(t) ==
    \A i \in 1 .. (Len(t) - 1) : Will("next", t[i], t[i + 1]) /\ Will("prev", t[i + 1], t[i])

\* A store that prepares the node an insertion is about, not yet in the list.
Prepares(e) == "node" \in DOMAIN job /\ e.of = job.node

\* A store to a next link prepares a node outside the list to lead into it, or
\* else it is the last of the operation, and makes t of s.
Orderly(s, t) ==
    \A i \in 1 .. Len(todo) :
        todo[i].link = "next" =>
            IF Prepares(todo[i])
            THEN /\ \A k \in 1 .. Len(s) : todo[i].of # s[k]
                 /\ \E k \in 2 .. Len(s) : todo[i].value = s[k]
            ELSE /\ \E k \in 1 .. (Len(t) - 1) : todo[i].of = t[k]
                 /\ \A j \in 1 .. Len(todo) : j > i => todo[j].link # "next"

\* The list that s becomes when n is put behind its k-th entry, or its k-th
\* entry is taken out.
With(s, k, n) ==
    [i \in 1 .. (Len(s) + 1) |-> IF i <= k THEN s[i] ELSE IF i = k + 1 THEN n ELSE s[i - 1]]
Without(s, k) ==
    [i \in 1 .. (Len(s) - 1) |-> IF i < k THEN s[i] ELSE s[i + 1]]

\* What the operation r makes of the list s.
Asked(r, s, t) ==
    \/ /\ r.op \in {"unshift", "push", "insert_after", "insert_before", "enqueue"}
       /\ \A i \in 1 .. Len(s) : s[i] # r.node
       /\ \E k \in 1 .. (Len(s) - 1) :
            /\ t = With(s, k, r.node)
            /\ r.op = "unshift" => k = 1
            /\ r.op = "push" => k = Len(s) - 1
            /\ r.op = "insert_after" => k > 1 /\ s[k] = r.at
            /\ r.op = "insert_before" => k + 1 < Len(s) /\ s[k + 1] = r.at
            /\ r.op = "enqueue" =>
                 /\ \A i \in 2 .. k : Priority[s[i]] >= Priority[r.node]
                 /\ k + 1 < Len(s) => Priority[s[k + 1]] < Priority[r.node]
    \/ /\ r.op \in {"remove", "shift", "pop"}
       /\ \E k \in 2 .. (Len(s) - 1) :
            /\ t = Without(s, k)
            /\ r.op = "remove" => s[k] = r.node
            /\ r.op = "shift" => k = 2
            /\ r.op = "pop" => k = Len(s) - 1

\* Until the store that walkers notice is made, s has yet to become t.
Promised(s, t) == IF Unnoticed THEN Asked(job, s, t) ELSE s = t

Between(s, t) ==
    /\ Path(s, HEAD, TAIL) /\ Path(t, HEAD, TAIL)
    /\ Follows(next, s) /\ WillLink(t)
    /\ Orderly(s, t)
    /\ Promised(s, t)

ListInv ==
    /\ Typed /\ EachOnce
    /\ NoCircle /\ LeadsOn
    /\ job = NoJob <=> todo = << >>
    /\ \E s, t : Between(s, t)

-----------------------------------------------------------------------------
(* A store.                                                                *)

\* What Store does, in one form for both links.
LEMMA StoreFacts ==
    ASSUME Typed, Store
    PROVE  /\ Len(todo) \in Nat /\ Len(todo) >= 1 /\ todo[1] \in Stores
           /\ Len(todo') = Len(todo) - 1
           /\ \A i \in 1 .. Len(todo') : i + 1 \in 1 .. Len(todo) /\ todo'[i] = todo[i + 1]
           /\ \A n \in Linked :
                /\ next'[n] = IF todo[1].link = "next" /\ n = todo[1].of
                              THEN todo[1].value ELSE next[n]
                /\ prev'[n] = IF todo[1].link = "prev" /\ n = todo[1].of
                              THEN todo[1].value ELSE prev[n]
           /\ Typed'
<1>1. todo \in Seq(Stores) /\ todo # << >>
  BY DEF Typed, Store
<1>2. /\ Len(todo) \in Nat /\ Len(todo) >= 1 /\ todo[1] \in Stores
      /\ Head(todo) = todo[1]
  BY <1>1
<1>3. todo' = Tail(todo)
  BY DEF Store
<1>4. /\ todo' \in Seq(Stores) /\ Len(todo') = Len(todo) - 1
      /\ \A i \in 1 .. Len(todo') : i + 1 \in 1 .. Len(todo) /\ todo'[i] = todo[i + 1]
  BY <1>1, <1>3
<1> DEFINE e == todo[1]
<1>5. e.link \in {"next", "prev"} /\ e.of \in Linked /\ e.value \in Linked
  BY <1>2 DEF Stores
<1>6. \/ e.link = "next" /\ next' = [next EXCEPT ![e.of] = e.value] /\ prev' = prev
      \/ e.link = "prev" /\ prev' = [prev EXCEPT ![e.of] = e.value] /\ next' = next
  BY <1>2 DEF Store
<1>7. next \in [Linked -> Linked \cup {NONE}] /\ prev \in [Linked -> Linked \cup {NONE}]
  BY DEF Typed
<1> HIDE DEF e
<1>8. CASE e.link = "next"
  <2>1. next' = [next EXCEPT ![e.of] = e.value] /\ prev' = prev
    BY <1>6, <1>8
  <2>2. next' \in [Linked -> Linked \cup {NONE}]
    BY <1>5, <1>7, <2>1
  <2>3. \A n \in Linked : next'[n] = IF n = e.of THEN e.value ELSE next[n]
    BY <1>7, <2>1
  <2> QED BY <1>2, <1>4, <1>7, <1>8, <2>1, <2>2, <2>3 DEF Typed, e
<1>9. CASE e.link = "prev"
  <2>1. prev' = [prev EXCEPT ![e.of] = e.value] /\ next' = next
    BY <1>6, <1>9
  <2>2. prev' \in [Linked -> Linked \cup {NONE}]
    BY <1>5, <1>7, <2>1
  <2>3. \A n \in Linked : prev'[n] = IF n = e.of THEN e.value ELSE prev[n]
    BY <1>7, <2>1
  <2> QED BY <1>2, <1>4, <1>7, <1>9, <2>1, <2>2, <2>3 DEF Typed, e
<1> QED BY <1>5, <1>8, <1>9

\* No store changes what the links will be.
LEMMA WillKept ==
    ASSUME Typed, EachOnce, Store, NEW l \in {"next", "prev"}, NEW n \in Linked, NEW v,
           Will(l, n, v)
    PROVE  Will(l, n, v)'
<1> DEFINE e == todo[1]
<1>1. /\ Len(todo) \in Nat /\ Len(todo) >= 1
      /\ \A i \in 1 .. Len(todo') : i + 1 \in 1 .. Len(todo) /\ todo'[i] = todo[i + 1]
      /\ Len(todo') = Len(todo) - 1
  BY StoreFacts
<1>2. LinkOf(l)'[n] = IF e.link = l /\ n = e.of THEN e.value ELSE LinkOf(l)[n]
  BY StoreFacts DEF LinkOf
<1>3. \A i \in 1 .. Len(todo) : todo[i].link = l /\ todo[i].of = n => todo[i].value = v
  BY DEF Will
<1>4. ASSUME NEW i \in 1 .. Len(todo'), todo'[i].link = l, todo'[i].of = n
      PROVE  todo'[i].value = v
  BY <1>1, <1>3, <1>4
<1>5. ASSUME \A i \in 1 .. Len(todo') : ~(todo'[i].link = l /\ todo'[i].of = n)
      PROVE  LinkOf(l)'[n] = v
  <2>1. CASE e.link = l /\ e.of = n
    <3>1. 1 \in 1 .. Len(todo)
      BY <1>1
    <3>2. e.value = v
      BY <1>3, <2>1, <3>1
    <3> QED BY <1>2, <2>1, <3>2
  <2>2. CASE ~(e.link = l /\ e.of = n)
    <3>1. ASSUME NEW i \in 1 .. Len(todo) PROVE ~(todo[i].link = l /\ todo[i].of = n)
      <4>1. CASE i = 1
        BY <2>2, <4>1
      <4>2. CASE i # 1
        <5>1. i - 1 \in 1 .. Len(todo') /\ (i - 1) + 1 = i
          BY <1>1, <4>2
        <5>2. todo'[i - 1] = todo[i]
          BY <1>1, <5>1
        <5> QED BY <1>5, <5>1, <5>2
      <4> QED BY <4>1, <4>2
    <3>2. LinkOf(l)[n] = v
      BY <3>1 DEF Will
    <3> QED BY <1>2, <2>2, <3>2
  <2> QED BY <2>1, <2>2
<1> QED BY <1>4, <1>5 DEF Will

\* So the links will still lead along t.
LEMMA WillLinkKept ==
    ASSUME Typed, EachOnce, Store, NEW t, Path(t, HEAD, TAIL), WillLink(t)
    PROVE  WillLink(t)'
<1>1. t \in Seq(Linked) /\ Len(t) \in Nat
  BY DEF Path
<1>2. ASSUME NEW i \in 1 .. (Len(t) - 1)
      PROVE  Will("next", t[i], t[i + 1])' /\ Will("prev", t[i + 1], t[i])'
  <2>1. t[i] \in Linked /\ t[i + 1] \in Linked
    BY <1>1
  <2>2. Will("next", t[i], t[i + 1]) /\ Will("prev", t[i + 1], t[i])
    BY DEF WillLink
  <2>3. Will("next", t[i], t[i + 1])'
    BY <2>1, <2>2, WillKept
  <2>4. Will("prev", t[i + 1], t[i])'
    BY <2>1, <2>2, WillKept
  <2> QED BY <2>3, <2>4
<1> QED BY <1>2 DEF WillLink

\* When no operation is at work, both links lead along the list there is.
LEMMA AtRest ==
    ASSUME todo = << >>, NEW s, NEW t, Between(s, t)
    PROVE  s = t /\ Mirrors(prev, s)
<1>1. ~Unnoticed
  BY DEF Unnoticed
<1>2. s = t /\ WillLink(t)
  BY <1>1 DEF Between, Promised
<1>3. Len(todo) = 0
  OBVIOUS
<1> QED BY <1>2, <1>3 DEF WillLink, Will, LinkOf, Mirrors

\* The markers differ from each other and from nullptr.
LEMMA Markers == HEAD # TAIL /\ HEAD # NONE /\ TAIL # NONE
<1>1. ASSUME NEW x, NEW y PROVE Cardinality({x, y}) # 3
  <2>1. IsFiniteSet({x}) /\ Cardinality({x}) = 1
    BY FS_Singleton
  <2>2. Cardinality({x} \cup {y}) = IF y \in {x} THEN Cardinality({x}) ELSE Cardinality({x}) + 1
    BY <2>1, FS_AddElement
  <2>3. Cardinality({x} \cup {y}) # 3
    BY <2>1, <2>2
  <2>4. {x, y} = {x} \cup {y}
    OBVIOUS
  <2> QED BY <2>3, <2>4
<1>2. Cardinality({HEAD, TAIL, NONE}) = 3
  BY ListAssumption
<1>3. CASE HEAD = TAIL
  <2>1. {HEAD, TAIL, NONE} = {TAIL, NONE}
    BY <1>3
  <2>2. Cardinality({TAIL, NONE}) = 3
    BY <1>2, <2>1
  <2> QED BY <1>1, <2>2
<1>4. CASE HEAD = NONE
  <2>1. {HEAD, TAIL, NONE} = {HEAD, TAIL}
    BY <1>4
  <2>2. Cardinality({HEAD, TAIL}) = 3
    BY <1>2, <2>1
  <2> QED BY <1>1, <2>2
<1>5. CASE TAIL = NONE
  <2>1. {HEAD, TAIL, NONE} = {HEAD, TAIL}
    BY <1>5
  <2>2. Cardinality({HEAD, TAIL}) = 3
    BY <1>2, <2>1
  <2> QED BY <1>1, <2>2
<1> QED BY <1>3, <1>4, <1>5

\* Of the next links, only a's changes, to b.
Relinked(a, b) == \A n \in Linked : next'[n] = IF n = a THEN b ELSE next[n]

\* Linking a to a node of a list, from which the links lead along the list to
\* the end, closes no circle.
LEMMA NoCircleKept ==
    ASSUME NoCircle, LeadsOn,
           NEW q, Path(q, HEAD, TAIL), Follows(next, q)',
           NEW a, NEW k \in 2 .. Len(q),
           Relinked(a, q[k])
    PROVE  NoCircle' /\ LeadsOn'
<1> USE DEF Relinked
<1>1. /\ Len(q) \in Nat /\ q[Len(q)] = TAIL /\ \A i \in 1 .. Len(q) : q[i] \in Linked
      /\ \A i \in 2 .. (Len(q) - 1) : q[i] \in Nodes
  BY DEF Path
<1>2. \A i \in 1 .. (Len(q) - 1) : next'[q[i]] = q[i + 1]
  BY DEF Follows
<1>3. TAIL \notin Nodes /\ NONE \notin Linked /\ Nodes \subseteq Linked
  BY Markers, ListAssumption DEF Linked
<1>4. ASSUME NEW S \in SUBSET Nodes, S # {}, \A n \in S : next'[n] \in S
      PROVE  FALSE
  <2>1. CASE a \notin S
    <3>1. \A n \in S : next[n] \in S
      BY <1>3, <1>4, <2>1
    <3> QED BY <1>4, <3>1 DEF NoCircle
  <2>2. CASE a \in S
    <3> DEFINE T == {j \in 0 .. (Len(q) - k) : q[k + j] \in S}
    <3>1. 0 \in T
      <4>1. q[k] \in S
        BY <1>3, <1>4, <2>2
      <4> QED BY <1>1, <4>1
    <3>2. ASSUME NEW j \in 0 .. ((Len(q) - k) - 1), j \in T PROVE j + 1 \in T
      <4>1. /\ k + j \in 1 .. (Len(q) - 1) /\ (k + j) + 1 = k + (j + 1)
            /\ j + 1 \in 0 .. (Len(q) - k) /\ q[k + j] \in S
        BY <1>1, <3>2
      <4>2. next'[q[k + j]] = q[k + (j + 1)]
        BY <1>2, <4>1
      <4>3. q[k + (j + 1)] \in S
        BY <1>4, <4>1, <4>2
      <4> QED BY <4>1, <4>3
    <3> HIDE DEF T
    <3>3. Len(q) - k \in Nat
      BY <1>1
    <3>4. \A j \in 0 .. (Len(q) - k) : j \in T
      BY <3>1, <3>2, <3>3, BoundedInduction
    <3>5. q[k + (Len(q) - k)] \in S
      BY <3>3, <3>4 DEF T
    <3>6. k + (Len(q) - k) = Len(q)
      BY <1>1
    <3> QED BY <1>1, <1>3, <3>5, <3>6
  <2> QED BY <2>1, <2>2
<1>5. ASSUME NEW n \in Nodes, next'[n] # NONE
      PROVE  next'[n] = TAIL \/ (next'[n] \in Nodes /\ next'[next'[n]] # NONE)
  <2>1. n \in Linked /\ q[k] \in Linked
    BY <1>1, <1>3
  <2>2. CASE n = a
    <3>1. next'[n] = q[k]
      BY <2>1, <2>2
    <3>2. CASE k = Len(q)
      BY <1>1, <3>1, <3>2
    <3>3. CASE k # Len(q)
      <4>1. k \in 2 .. (Len(q) - 1) /\ k \in 1 .. (Len(q) - 1) /\ k + 1 \in 1 .. Len(q)
        BY <1>1, <3>3
      <4>2. q[k] \in Nodes /\ next'[q[k]] = q[k + 1] /\ q[k + 1] \in Linked
        BY <1>1, <1>2, <4>1
      <4> QED BY <1>3, <3>1, <4>2
    <3> QED BY <3>2, <3>3
  <2>3. CASE n # a
    <3>1. next'[n] = next[n]
      BY <2>1, <2>3
    <3>2. next[n] = TAIL \/ (next[n] \in Nodes /\ next[next[n]] # NONE)
      BY <1>5, <3>1 DEF LeadsOn
    <3>3. CASE next[n] \in Nodes /\ next[next[n]] # NONE
      <4>1. next[n] \in Linked
        BY <1>3, <3>3
      <4>2. next'[next[n]] # NONE
        BY <1>3, <2>1, <3>3, <4>1
      <4> QED BY <3>1, <3>3, <4>2
    <3> QED BY <3>1, <3>2, <3>3
  <2> QED BY <2>2, <2>3
<1>6. NoCircle'
  BY <1>4 DEF NoCircle
<1> QED BY <1>5, <1>6 DEF LeadsOn

\* A store that walkers do not notice leaves the list they find, and what the
\* operation has promised.
LEMMA QuietStore ==
    ASSUME ListInv, Store, NEW s, NEW t, Between(s, t),
           todo[1].link = "next" => Prepares(todo[1])
    PROVE  /\ Between(s, t)' /\ NoCircle' /\ LeadsOn'
           /\ Unnoticed' <=> Unnoticed
           /\ Unnoticed => job' = job
<1> DEFINE e == todo[1]
<1>1. Typed /\ EachOnce /\ NoCircle /\ LeadsOn
  BY DEF ListInv
<1>2. /\ Path(s, HEAD, TAIL) /\ Path(t, HEAD, TAIL) /\ Follows(next, s) /\ WillLink(t)
      /\ Orderly(s, t) /\ Promised(s, t)
  BY DEF Between
<1>3. /\ Len(todo) \in Nat /\ Len(todo) >= 1
      /\ Len(todo') = Len(todo) - 1
      /\ \A i \in 1 .. Len(todo') : i + 1 \in 1 .. Len(todo) /\ todo'[i] = todo[i + 1]
      /\ \A n \in Linked : next'[n] = IF e.link = "next" /\ n = e.of THEN e.value ELSE next[n]
      /\ todo \in Seq(Stores) /\ todo' \in Seq(Stores)
  BY <1>1, StoreFacts DEF Typed
<1>4. job' = IF Len(todo) = 1 THEN NoJob ELSE job
  BY DEF Store
<1>5. /\ Len(s) \in Nat /\ \A i \in 1 .. Len(s) : s[i] \in Linked
  BY <1>2 DEF Path
<1>6. WillLink(t)'
  BY <1>1, <1>2, WillLinkKept
<1>7. Follows(next, s)' /\ NoCircle' /\ LeadsOn'
  <2>1. CASE e.link = "next"
    <3>1. 1 \in 1 .. Len(todo)
      BY <1>3
    <3>2. /\ \A k \in 1 .. Len(s) : e.of # s[k]
          /\ \E k \in 2 .. Len(s) : e.value = s[k]
      BY <1>2, <2>1, <3>1 DEF Orderly
    <3>3. PICK k \in 2 .. Len(s) : e.value = s[k]
      BY <3>2
    <3>4. Follows(next, s)'
      <4>1. ASSUME NEW i \in 1 .. (Len(s) - 1) PROVE next'[s[i]] = s[i + 1]
        <5>1. i \in 1 .. Len(s)
          BY <1>5
        <5>2. next'[s[i]] = next[s[i]]
          BY <1>3, <1>5, <3>2, <5>1
        <5>3. next[s[i]] = s[i + 1]
          BY <1>2 DEF Follows
        <5> QED BY <5>2, <5>3
      <4> QED BY <4>1 DEF Follows
    <3>5. PICK a : a = e.of
      OBVIOUS
    <3>6. Relinked(a, s[k])
      BY <1>3, <2>1, <3>3, <3>5 DEF Relinked
    <3>7. NoCircle' /\ LeadsOn'
      BY <1>1, <1>2, <3>4, <3>6, NoCircleKept
    <3> QED BY <3>4, <3>7
  <2>2. CASE e.link # "next"
    <3>1. next' = next
      <4>1. \A n \in Linked : next'[n] = next[n]
        BY <1>3, <2>2
      <4>2. next \in [Linked -> Linked \cup {NONE}] /\ next' \in [Linked -> Linked \cup {NONE}]
        BY <1>1, StoreFacts DEF Typed
      <4> HIDE DEF e
      <4> QED BY <4>1, <4>2
    <3> QED BY <1>1, <1>2, <3>1 DEF Follows, NoCircle, LeadsOn
  <2> QED BY <2>1, <2>2
<1>8. \A i \in 1 .. Len(todo') : job' = job
  BY <1>3, <1>4
<1>9. Orderly(s, t)'
  <2>1. ASSUME NEW i \in 1 .. Len(todo'), todo'[i].link = "next"
        PROVE  IF "node" \in DOMAIN job' /\ todo'[i].of = job'.node
               THEN /\ \A k \in 1 .. Len(s) : todo'[i].of # s[k]
                    /\ \E k \in 2 .. Len(s) : todo'[i].value = s[k]
               ELSE /\ \E k \in 1 .. (Len(t) - 1) : todo'[i].of = t[k]
                    /\ \A j \in 1 .. Len(todo') : j > i => todo'[j].link # "next"
    <3>1. i + 1 \in 1 .. Len(todo) /\ todo'[i] = todo[i + 1] /\ job' = job
      BY <1>3, <1>8
    <3>2. IF "node" \in DOMAIN job /\ todo[i + 1].of = job.node
          THEN /\ \A k \in 1 .. Len(s) : todo[i + 1].of # s[k]
               /\ \E k \in 2 .. Len(s) : todo[i + 1].value = s[k]
          ELSE /\ \E k \in 1 .. (Len(t) - 1) : todo[i + 1].of = t[k]
               /\ \A j \in 1 .. Len(todo) : j > i + 1 => todo[j].link # "next"
      BY <1>2, <2>1, <3>1 DEF Orderly, Prepares
    <3>3. ASSUME \A j \in 1 .. Len(todo) : j > i + 1 => todo[j].link # "next",
                 NEW j \in 1 .. Len(todo'), j > i
          PROVE  todo'[j].link # "next"
      <4>1. j + 1 \in 1 .. Len(todo) /\ todo'[j] = todo[j + 1] /\ j + 1 > i + 1
        BY <1>3, <3>3
      <4> QED BY <3>3, <4>1
    <3>4. CASE "node" \in DOMAIN job /\ todo[i + 1].of = job.node
      BY <3>1, <3>2, <3>4
    <3>5. CASE ~("node" \in DOMAIN job /\ todo[i + 1].of = job.node)
      <4>1. \A j \in 1 .. Len(todo') : j > i => todo'[j].link # "next"
        BY <3>2, <3>3, <3>5
      <4> QED BY <3>1, <3>2, <3>5, <4>1
    <3> QED BY <3>4, <3>5
  <2> QED BY <2>1 DEF Orderly, Prepares
<1>10. (Unnoticed' <=> Unnoticed) /\ (Unnoticed => job' = job)
  <2>1. DOMAIN todo = 1 .. Len(todo) /\ DOMAIN todo' = 1 .. Len(todo')
    BY <1>3
  <2>2. ASSUME Unnoticed PROVE Unnoticed' /\ job' = job
    <3>1. PICK i \in 1 .. Len(todo) : todo[i].link = "next" /\ ~Prepares(todo[i])
      BY <2>1, <2>2 DEF Unnoticed, Prepares
    <3>2. i # 1
      BY <3>1
    <3>3. i - 1 \in 1 .. Len(todo') /\ (i - 1) + 1 = i
      BY <1>3, <3>2
    <3>4. todo'[i - 1] = todo[i] /\ job' = job
      BY <1>3, <1>8, <3>3
    <3> QED BY <2>1, <3>1, <3>3, <3>4 DEF Unnoticed, Prepares
  <2>3. ASSUME Unnoticed' PROVE Unnoticed
    <3>1. PICK i \in 1 .. Len(todo') :
              todo'[i].link = "next" /\ ("node" \in DOMAIN job' => todo'[i].of # job'.node)
      BY <2>1, <2>3 DEF Unnoticed
    <3>2. i + 1 \in 1 .. Len(todo) /\ todo'[i] = todo[i + 1] /\ job' = job
      BY <1>3, <1>8
    <3> QED BY <2>1, <3>1, <3>2 DEF Unnoticed
  <2> QED BY <2>2, <2>3
<1>11. Promised(s, t)'
  <2>1. CASE Unnoticed
    BY <1>2, <1>10, <2>1 DEF Promised, Asked
  <2>2. CASE ~Unnoticed
    BY <1>2, <1>10, <2>2 DEF Promised
  <2> QED BY <2>1, <2>2
<1> QED BY <1>2, <1>6, <1>7, <1>9, <1>10, <1>11 DEF Between

\* The store that walkers notice makes t the list they find.
LEMMA NoticedStore ==
    ASSUME ListInv, Store, NEW s, NEW t, Between(s, t),
           todo[1].link = "next", ~Prepares(todo[1])
    PROVE  /\ Between(t, t)' /\ NoCircle' /\ LeadsOn'
           /\ Unnoticed /\ ~Unnoticed'
<1> DEFINE e == todo[1]
<1>1. Typed /\ EachOnce /\ NoCircle /\ LeadsOn
  BY DEF ListInv
<1>2. Path(t, HEAD, TAIL) /\ WillLink(t) /\ Orderly(s, t)
  BY DEF Between
<1>3. /\ Len(todo) \in Nat /\ Len(todo) >= 1
      /\ Len(todo') = Len(todo) - 1
      /\ \A i \in 1 .. Len(todo') : i + 1 \in 1 .. Len(todo) /\ todo'[i] = todo[i + 1]
      /\ \A n \in Linked : next'[n] = IF n = e.of THEN e.value ELSE next[n]
      /\ todo \in Seq(Stores) /\ todo' \in Seq(Stores)
  BY <1>1, StoreFacts DEF Typed
<1>4. 1 \in 1 .. Len(todo)
  BY <1>3
<1>5. /\ \E k \in 1 .. (Len(t) - 1) : e.of = t[k]
      /\ \A j \in 1 .. Len(todo) : j > 1 => todo[j].link # "next"
  BY <1>2, <1>4 DEF Orderly
<1>6. \A i \in 1 .. Len(todo') : todo'[i].link # "next"
  <2>1. ASSUME NEW i \in 1 .. Len(todo') PROVE todo'[i].link # "next"
    <3>1. i + 1 \in 1 .. Len(todo) /\ i + 1 > 1 /\ todo'[i] = todo[i + 1]
      BY <1>3
    <3> QED BY <1>5, <3>1
  <2> QED BY <2>1
<1>7. WillLink(t)'
  BY <1>1, <1>2, WillLinkKept
<1>8. Follows(next, t)'
  BY <1>6, <1>7 DEF WillLink, Will, LinkOf, Follows
<1>9. PICK k \in 1 .. (Len(t) - 1) : e.of = t[k]
  BY <1>5
<1>10. NoCircle' /\ LeadsOn'
  <2>1. Will("next", t[k], t[k + 1])
    BY <1>2 DEF WillLink
  <2>2. e.value = t[k + 1]
    BY <1>4, <1>9, <2>1 DEF Will
  <2>3. PICK a : a = e.of
    OBVIOUS
  <2>4. k + 1 \in 2 .. Len(t)
    BY <1>2 DEF Path
  <2>5. Relinked(a, t[k + 1])
    BY <1>3, <2>2, <2>3 DEF Relinked
  <2> QED BY <1>1, <1>2, <1>8, <2>4, <2>5, NoCircleKept
<1>11. DOMAIN todo = 1 .. Len(todo) /\ DOMAIN todo' = 1 .. Len(todo')
  BY <1>3
<1>12. Unnoticed /\ ~Unnoticed'
  BY <1>4, <1>6, <1>11 DEF Unnoticed, Prepares
<1>13. Orderly(t, t)'
  BY <1>6 DEF Orderly
<1>14. Promised(t, t)'
  BY <1>12 DEF Promised
<1> QED BY <1>2, <1>7, <1>8, <1>10, <1>12, <1>13, <1>14 DEF Between

\* A store keeps the invariant.
LEMMA StoreKeepsInv == ListInv /\ Store => ListInv'
<1> SUFFICES ASSUME ListInv, Store PROVE ListInv'
  OBVIOUS
<1>1. Typed /\ EachOnce /\ (job = NoJob <=> todo = << >>)
  BY DEF ListInv
<1>2. /\ Len(todo) \in Nat /\ Len(todo) >= 1
      /\ Len(todo') = Len(todo) - 1
      /\ \A i \in 1 .. Len(todo') : i + 1 \in 1 .. Len(todo) /\ todo'[i] = todo[i + 1]
      /\ Typed' /\ todo' \in Seq(Stores)
  BY <1>1, StoreFacts DEF Typed
<1>3. EachOnce'
  <2>1. ASSUME NEW i \in 1 .. Len(todo'), NEW j \in 1 .. Len(todo'),
               todo'[i].link = todo'[j].link, todo'[i].of = todo'[j].of
        PROVE  i = j
    <3>1. /\ i + 1 \in 1 .. Len(todo) /\ j + 1 \in 1 .. Len(todo)
          /\ todo[i + 1].link = todo[j + 1].link /\ todo[i + 1].of = todo[j + 1].of
      BY <1>2, <2>1
    <3>2. i + 1 = j + 1
      BY <1>1, <3>1 DEF EachOnce
    <3> QED BY <3>2
  <2> QED BY <2>1 DEF EachOnce
<1>4. (job = NoJob <=> todo = << >>)'
  <2>1. job # NoJob
    BY <1>1 DEF Store
  <2>2. job' = IF Len(todo) = 1 THEN NoJob ELSE job
    BY DEF Store
  <2>3. todo' = << >> <=> Len(todo') = 0
    BY <1>2
  <2>4. Len(todo') = 0 <=> Len(todo) = 1
    BY <1>2
  <2> QED BY <2>1, <2>2, <2>3, <2>4
<1>5. PICK s, t : Between(s, t)
  BY DEF ListInv
<1>6. NoCircle' /\ LeadsOn' /\ \E x, y : Between(x, y)'
  <2>1. CASE todo[1].link = "next" /\ ~Prepares(todo[1])
    <3>1. Between(t, t)' /\ NoCircle' /\ LeadsOn'
      BY <1>5, <2>1, NoticedStore
    <3> QED BY <3>1
  <2>2. CASE ~(todo[1].link = "next" /\ ~Prepares(todo[1]))
    <3>1. Between(s, t)' /\ NoCircle' /\ LeadsOn'
      BY <1>5, <2>2, QuietStore
    <3> QED BY <3>1
  <2> QED BY <2>1, <2>2
<1> QED BY <1>2, <1>3, <1>4, <1>6 DEF ListInv

-----------------------------------------------------------------------------
(* A call.                                                                 *)

\* With puts a node into a path, and the path stays one.
LEMMA WithPath ==
    ASSUME NEW s, Path(s, HEAD, TAIL), NEW k \in 1 .. (Len(s) - 1), NEW n \in Nodes,
           \A i \in 1 .. Len(s) : s[i] # n
    PROVE  /\ Path(With(s, k, n), HEAD, TAIL)
           /\ Len(With(s, k, n)) = Len(s) + 1
<1> DEFINE t == With(s, k, n)
           len == Len(s)
<1>1. /\ len \in Nat /\ len >= 2 /\ s[1] = HEAD /\ s[len] = TAIL
      /\ \A i \in 1 .. len : s[i] \in Linked
      /\ \A i \in 2 .. (len - 1) : s[i] \in Nodes
      /\ \A i, j \in 1 .. len : s[i] = s[j] => i = j
  BY DEF Path
<1>2. t = [i \in 1 .. (len + 1) |-> IF i <= k THEN s[i] ELSE IF i = k + 1 THEN n ELSE s[i - 1]]
  BY DEF With
<1> HIDE DEF t, len
<1>3. \A i \in 1 .. (len + 1) :
          \/ i <= k /\ t[i] = s[i] /\ i \in 1 .. len
          \/ i = k + 1 /\ t[i] = n
          \/ i > k + 1 /\ t[i] = s[i - 1] /\ i - 1 \in 1 .. len
  BY <1>1, <1>2 DEF len
<1>4. t \in [1 .. (len + 1) -> Linked]
  <2>1. \A i \in 1 .. (len + 1) : t[i] \in Linked
    BY <1>1, <1>3 DEF Linked
  <2> QED BY <1>2, <2>1
<1>5. t \in Seq(Linked) /\ Len(t) = len + 1
  BY <1>1, <1>4
<1>6. t[1] = HEAD /\ t[len + 1] = TAIL
  <2>1. k \in 1 .. (len - 1)
    BY DEF len
  <2> QED BY <1>1, <1>2, <2>1
<1>7. ASSUME NEW i \in 2 .. len PROVE t[i] \in Nodes
  <2>1. CASE i <= k
    <3>1. i \in 2 .. (len - 1) /\ t[i] = s[i]
      BY <1>1, <1>2, <1>7, <2>1 DEF len
    <3> QED BY <1>1, <3>1
  <2>2. CASE i = k + 1
    BY <1>1, <1>3, <1>7, <2>2
  <2>3. CASE i > k + 1
    <3>1. i - 1 \in 2 .. (len - 1) /\ t[i] = s[i - 1]
      BY <1>1, <1>2, <1>7, <2>3 DEF len
    <3> QED BY <1>1, <3>1
  <2> QED BY <2>1, <2>2, <2>3
<1>8. ASSUME NEW i \in 1 .. (len + 1), NEW j \in 1 .. (len + 1), t[i] = t[j] PROVE i = j
  <2>1. \A m \in 1 .. len : s[m] # n
    BY DEF len
  <2>2. \/ i <= k /\ t[i] = s[i] /\ i \in 1 .. len
        \/ i = k + 1 /\ t[i] = n
        \/ i > k + 1 /\ t[i] = s[i - 1] /\ i - 1 \in 1 .. len
    BY <1>3
  <2>3. \/ j <= k /\ t[j] = s[j] /\ j \in 1 .. len
        \/ j = k + 1 /\ t[j] = n
        \/ j > k + 1 /\ t[j] = s[j - 1] /\ j - 1 \in 1 .. len
    BY <1>3
  <2> QED BY <1>1, <1>8, <2>1, <2>2, <2>3
<1>9. len + 1 >= 2 /\ (len + 1) - 1 = len
  BY <1>1
<1>10. Path(t, HEAD, TAIL)
  BY <1>5, <1>6, <1>7, <1>8, <1>9 DEF Path
<1> QED BY <1>5, <1>10 DEF t, len

\* Without takes one out, and the path stays one.
LEMMA WithoutPath ==
    ASSUME NEW s, Path(s, HEAD, TAIL), NEW k \in 2 .. (Len(s) - 1)
    PROVE  /\ Path(Without(s, k), HEAD, TAIL)
           /\ Len(Without(s, k)) = Len(s) - 1
<1> DEFINE t == Without(s, k)
           len == Len(s)
<1>1. /\ len \in Nat /\ len >= 2 /\ s[1] = HEAD /\ s[len] = TAIL
      /\ \A i \in 1 .. len : s[i] \in Linked
      /\ \A i \in 2 .. (len - 1) : s[i] \in Nodes
      /\ \A i, j \in 1 .. len : s[i] = s[j] => i = j
  BY DEF Path
<1>2. t = [i \in 1 .. (len - 1) |-> IF i < k THEN s[i] ELSE s[i + 1]]
  BY DEF Without
<1>3. k \in 2 .. (len - 1)
  OBVIOUS
<1> HIDE DEF t, len
<1>4. \A i \in 1 .. (len - 1) :
          \/ i < k /\ t[i] = s[i] /\ i \in 1 .. len
          \/ i >= k /\ t[i] = s[i + 1] /\ i + 1 \in 1 .. len
  BY <1>1, <1>2, <1>3
<1>5. t \in [1 .. (len - 1) -> Linked]
  <2>1. \A i \in 1 .. (len - 1) : t[i] \in Linked
    BY <1>1, <1>4
  <2> QED BY <1>2, <2>1
<1>6. t \in Seq(Linked) /\ Len(t) = len - 1 /\ len - 1 >= 2
  BY <1>1, <1>3, <1>5
<1>7. t[1] = HEAD /\ t[len - 1] = TAIL
  BY <1>1, <1>2, <1>3
<1>8. ASSUME NEW i \in 2 .. ((len - 1) - 1) PROVE t[i] \in Nodes
  <2>1. CASE i < k
    <3>1. i \in 2 .. (len - 1) /\ t[i] = s[i]
      BY <1>1, <1>2, <1>8, <2>1
    <3> QED BY <1>1, <3>1
  <2>2. CASE i >= k
    <3>1. i + 1 \in 2 .. (len - 1) /\ t[i] = s[i + 1]
      BY <1>1, <1>2, <1>3, <1>8, <2>2
    <3> QED BY <1>1, <3>1
  <2> QED BY <1>3, <1>8, <2>1, <2>2
<1>9. ASSUME NEW i \in 1 .. (len - 1), NEW j \in 1 .. (len - 1), t[i] = t[j] PROVE i = j
  <2>1. \/ i < k /\ t[i] = s[i] /\ i \in 1 .. len
        \/ i >= k /\ t[i] = s[i + 1] /\ i + 1 \in 1 .. len
    BY <1>4
  <2>2. \/ j < k /\ t[j] = s[j] /\ j \in 1 .. len
        \/ j >= k /\ t[j] = s[j + 1] /\ j + 1 \in 1 .. len
    BY <1>4
  <2> QED BY <1>1, <1>3, <1>9, <2>1, <2>2
<1>10. Path(t, HEAD, TAIL)
  BY <1>6, <1>7, <1>8, <1>9 DEF Path
<1> QED BY <1>6, <1>10 DEF t, len

\* The four stores that put n between x and y, in one of the orders that let a
\* walker pass: n leads on to y before x leads to n.
Inserting(ss, n, x, y) ==
    /\ ss \in Seq(Stores)
    /\ \A i \in 1 .. Len(ss) : ss[i] \in {Next_(n, y), Next_(x, n), Prev_(n, x), Prev_(y, n)}
    /\ \A i, j \in 1 .. Len(ss) : ss[i] = ss[j] => i = j
    /\ \E i \in 1 .. Len(ss) : ss[i] = Prev_(n, x)
    /\ \E i \in 1 .. Len(ss) : ss[i] = Prev_(y, n)
    /\ \E i, j \in 1 .. Len(ss) : i < j /\ ss[i] = Next_(n, y) /\ ss[j] = Next_(x, n)

\* A call that is to put n behind the k-th entry promises the list with n there.
LEMMA InsertBegins ==
    ASSUME ListInv, todo = << >>,
           NEW s, Path(s, HEAD, TAIL), Follows(next, s), Mirrors(prev, s),
           NEW k \in 1 .. (Len(s) - 1), NEW n \in Nodes, \A i \in 1 .. Len(s) : s[i] # n,
           NEW r, "node" \in DOMAIN r, r.node = n, Asked(r, s, With(s, k, n)),
           NEW ss, Inserting(ss, n, s[k], s[k + 1]), Begin(r, ss)
    PROVE  Between(s, With(s, k, n))' /\ Typed' /\ EachOnce' /\ Unnoticed'
<1> DEFINE t == With(s, k, n)
           x == s[k]
           y == s[k + 1]
           len == Len(s)
<1>1. /\ len \in Nat /\ len >= 2
      /\ \A i \in 1 .. len : s[i] \in Linked /\ s[i] # n
      /\ \A i, j \in 1 .. len : s[i] = s[j] => i = j
      /\ k \in 1 .. len /\ k + 1 \in 1 .. len
  BY DEF Path
<1>2. Path(t, HEAD, TAIL) /\ Len(t) = len + 1
  BY WithPath
<1>3. \A i \in 1 .. (len + 1) : t[i] = IF i <= k THEN s[i] ELSE IF i = k + 1 THEN n ELSE s[i - 1]
  BY DEF With
<1>4. x \in Linked /\ y \in Linked /\ x # n /\ y # n /\ x # y /\ n \in Linked
  BY <1>1 DEF Linked
<1>5. todo' = ss /\ job' = r /\ next' = next /\ prev' = prev
  BY DEF Begin
<1>6. /\ ss \in Seq(Stores) /\ DOMAIN ss = 1 .. Len(ss)
      /\ \A i \in 1 .. Len(ss) : ss[i] \in {Next_(n, y), Next_(x, n), Prev_(n, x), Prev_(y, n)}
      /\ \A i, j \in 1 .. Len(ss) : ss[i] = ss[j] => i = j
  BY DEF Inserting
<1>7. /\ \E i \in 1 .. Len(ss) : ss[i] = Prev_(n, x)
      /\ \E i \in 1 .. Len(ss) : ss[i] = Prev_(y, n)
  BY DEF Inserting
<1>8. PICK i1, i2 \in 1 .. Len(ss) : i1 < i2 /\ ss[i1] = Next_(n, y) /\ ss[i2] = Next_(x, n)
  BY DEF Inserting
<1> HIDE DEF t, x, y, len
<1>9. \A i \in 1 .. Len(ss) :
          /\ ss[i].link = "next" => \/ i = i1 /\ ss[i].of = n /\ ss[i].value = y
                                    \/ i = i2 /\ ss[i].of = x /\ ss[i].value = n
          /\ ss[i].link = "prev" => \/ ss[i] = Prev_(n, x) /\ ss[i].of = n /\ ss[i].value = x
                                    \/ ss[i] = Prev_(y, n) /\ ss[i].of = y /\ ss[i].value = n
          /\ ss[i].link \in {"next", "prev"}
  <2>1. ASSUME NEW i \in 1 .. Len(ss), ss[i] = Next_(n, y) \/ ss[i] = Next_(x, n)
        PROVE  /\ ss[i].link = "next"
               /\ \/ i = i1 /\ ss[i].of = n /\ ss[i].value = y
                  \/ i = i2 /\ ss[i].of = x /\ ss[i].value = n
    BY <1>6, <1>8, <2>1 DEF Next_
  <2>2. ASSUME NEW i \in 1 .. Len(ss), ss[i] = Prev_(n, x) \/ ss[i] = Prev_(y, n)
        PROVE  /\ ss[i].link = "prev"
               /\ \/ ss[i] = Prev_(n, x) /\ ss[i].of = n /\ ss[i].value = x
                  \/ ss[i] = Prev_(y, n) /\ ss[i].of = y /\ ss[i].value = n
    BY <2>2 DEF Prev_
  <2> QED BY <1>6, <2>1, <2>2
<1>10. Typed'
  BY <1>5, <1>6 DEF Typed, ListInv
<1>11. EachOnce'
  <2>1. ASSUME NEW i \in 1 .. Len(ss), NEW j \in 1 .. Len(ss),
               ss[i].link = ss[j].link, ss[i].of = ss[j].of
        PROVE  i = j
    <3>1. CASE ss[i].link = "next"
      BY <1>4, <1>9, <2>1, <3>1
    <3>2. CASE ss[i].link = "prev"
      <4>1. ss[i] = ss[j]
        BY <1>4, <1>9, <2>1, <3>2
      <4> QED BY <1>6, <4>1
    <3> QED BY <1>9, <3>1, <3>2
  <2> QED BY <1>5, <2>1 DEF EachOnce
<1>12. /\ Will("next", x, n)' /\ Will("next", n, y)'
       /\ \A v : \A m \in Linked : m # n /\ m # x /\ next[m] = v => Will("next", m, v)'
  <2>1. ss[i1].link = "next" /\ ss[i1].of = n /\ ss[i2].link = "next" /\ ss[i2].of = x
    BY <1>8 DEF Next_
  <2>2. Will("next", x, n)'
    BY <1>4, <1>5, <1>9, <2>1 DEF Will
  <2>3. Will("next", n, y)'
    BY <1>4, <1>5, <1>9, <2>1 DEF Will
  <2>4. ASSUME NEW m \in Linked, NEW v, m # n, m # x, next[m] = v PROVE Will("next", m, v)'
    BY <1>5, <1>9, <2>4 DEF Will, LinkOf
  <2> QED BY <2>2, <2>3, <2>4
<1>13. /\ Will("prev", y, n)' /\ Will("prev", n, x)'
       /\ \A v : \A m \in Linked : m # n /\ m # y /\ prev[m] = v => Will("prev", m, v)'
  <2>1. PICK i \in 1 .. Len(ss) : ss[i].link = "prev" /\ ss[i].of = n
    BY <1>7 DEF Prev_
  <2>2. PICK j \in 1 .. Len(ss) : ss[j].link = "prev" /\ ss[j].of = y
    BY <1>7 DEF Prev_
  <2>3. Will("prev", y, n)'
    BY <1>4, <1>5, <1>9, <2>2 DEF Will
  <2>4. Will("prev", n, x)'
    BY <1>4, <1>5, <1>9, <2>1 DEF Will
  <2>5. ASSUME NEW m \in Linked, NEW v, m # n, m # y, prev[m] = v PROVE Will("prev", m, v)'
    BY <1>5, <1>9, <2>5 DEF Will, LinkOf
  <2> QED BY <2>3, <2>4, <2>5
<1>14. WillLink(t)'
  <2>1. ASSUME NEW i \in 1 .. len
        PROVE  Will("next", t[i], t[i + 1])' /\ Will("prev", t[i + 1], t[i])'
    <3>1. CASE i < k
      <4>1. /\ i \in 1 .. (len - 1) /\ i \in 1 .. len /\ i + 1 \in 1 .. len
            /\ t[i] = s[i] /\ t[i + 1] = s[i + 1]
        BY <1>1, <1>3, <3>1
      <4>2. next[s[i]] = s[i + 1] /\ prev[s[i + 1]] = s[i]
        BY <4>1 DEF Follows, Mirrors, len
      <4>3. s[i] # x /\ s[i + 1] # y
        BY <1>1, <3>1, <4>1 DEF x, y
      <4> QED BY <1>1, <1>12, <1>13, <4>1, <4>2, <4>3
    <3>2. CASE i = k
      <4>1. t[i] = x /\ t[i + 1] = n
        BY <1>1, <1>3, <3>2 DEF x
      <4> QED BY <1>12, <1>13, <4>1
    <3>3. CASE i = k + 1
      <4>1. t[i] = n /\ t[i + 1] = y
        BY <1>1, <1>3, <3>3 DEF y
      <4> QED BY <1>12, <1>13, <4>1
    <3>4. CASE i > k + 1
      <4>1. /\ i - 1 \in 1 .. (len - 1) /\ i - 1 \in 1 .. len /\ (i - 1) + 1 = i
            /\ i \in 1 .. (len + 1) /\ i + 1 \in 1 .. (len + 1) /\ (i + 1) - 1 = i
            /\ i + 1 # k + 1 /\ i # k + 1 /\ ~(i <= k) /\ ~(i + 1 <= k)
        <5>1. i \in Int /\ k \in Int /\ len \in Int /\ 1 <= k /\ i > k + 1 /\ i <= len
          BY <1>1, <3>4
        <5> QED BY <5>1, SMTT(30)
      <4>2. t[i] = s[i - 1] /\ t[i + 1] = s[i]
        BY <1>3, <3>4, <4>1
      <4>3. next[s[i - 1]] = s[i] /\ prev[s[i]] = s[i - 1]
        BY <4>1 DEF Follows, Mirrors, len
      <4>4. s[i - 1] # x /\ s[i] # y
        BY <1>1, <3>4, <4>1 DEF x, y
      <4> QED BY <1>1, <1>12, <1>13, <4>1, <4>2, <4>3, <4>4
    <3> QED BY <1>1, <3>1, <3>2, <3>3, <3>4
  <2>2. (len + 1) - 1 = len
    BY <1>1
  <2> QED BY <1>2, <2>1, <2>2 DEF WillLink
<1>15. Orderly(s, t)'
  <2>1. k \in 1 .. (Len(t) - 1) /\ t[k] = x
    BY <1>1, <1>2, <1>3 DEF x
  <2>2. k + 1 \in 2 .. len /\ s[k + 1] = y
    BY <1>1 DEF y
  <2>3. ASSUME NEW i \in 1 .. Len(ss), ss[i].link = "next"
        PROVE  IF ss[i].of = n
               THEN /\ \A m \in 1 .. len : ss[i].of # s[m]
                    /\ \E m \in 2 .. len : ss[i].value = s[m]
               ELSE /\ \E m \in 1 .. (Len(t) - 1) : ss[i].of = t[m]
                    /\ \A j \in 1 .. Len(ss) : j > i => ss[j].link # "next"
    BY <1>1, <1>4, <1>8, <1>9, <2>1, <2>2, <2>3
  <2> QED BY <1>5, <2>3 DEF Orderly, Prepares, len
<1>16. Unnoticed'
  <2>1. ss[i2].link = "next" /\ ss[i2].of = x
    BY <1>8 DEF Next_
  <2> QED BY <1>4, <1>5, <1>6, <2>1 DEF Unnoticed
<1>17. Promised(s, t)'
  BY <1>5, <1>16 DEF Promised, Asked, t
<1>18. Follows(next, s)'
  BY <1>5 DEF Follows
<1> QED BY <1>2, <1>10, <1>11, <1>14, <1>15, <1>16, <1>17, <1>18 DEF Between, t

\* A call that is to take the k-th entry out promises the list without it.
LEMMA RemoveBegins ==
    ASSUME ListInv, todo = << >>,
           NEW s, Path(s, HEAD, TAIL), Follows(next, s), Mirrors(prev, s),
           NEW k \in 2 .. (Len(s) - 1),
           NEW r, "node" \in DOMAIN r => r.node = s[k], Asked(r, s, Without(s, k)),
           Begin(r, << Next_(s[k - 1], s[k + 1]), Prev_(s[k + 1], s[k - 1]) >>)
    PROVE  Between(s, Without(s, k))' /\ Typed' /\ EachOnce' /\ Unnoticed'
<1> DEFINE t == Without(s, k)
           x == s[k - 1]
           y == s[k + 1]
           len == Len(s)
           ss == << Next_(x, y), Prev_(y, x) >>
<1>1. /\ len \in Nat /\ len >= 2
      /\ \A i \in 1 .. len : s[i] \in Linked
      /\ \A i, j \in 1 .. len : s[i] = s[j] => i = j
      /\ k \in 2 .. (len - 1) /\ k - 1 \in 1 .. len /\ k + 1 \in 1 .. len /\ k \in 1 .. len
  BY DEF Path
<1>2. Path(t, HEAD, TAIL) /\ Len(t) = len - 1
  BY WithoutPath
<1>3. \A i \in 1 .. (len - 1) : t[i] = IF i < k THEN s[i] ELSE s[i + 1]
  BY DEF Without
<1>4. x \in Linked /\ y \in Linked /\ x # s[k]
  BY <1>1
<1>5. todo' = ss /\ job' = r /\ next' = next /\ prev' = prev
  BY DEF Begin
<1>6. /\ ss \in Seq(Stores) /\ Len(ss) = 2 /\ DOMAIN ss = 1 .. 2
      /\ ss[1].link = "next" /\ ss[1].of = x /\ ss[1].value = y
      /\ ss[2].link = "prev" /\ ss[2].of = y /\ ss[2].value = x
  BY <1>4 DEF Next_, Prev_, Stores
<1> HIDE DEF t, x, y, len, ss
<1>7. \A i \in 1 .. 2 : i = 1 \/ i = 2
  OBVIOUS
<1>8. Typed'
  BY <1>5, <1>6 DEF Typed, ListInv
<1>9. EachOnce'
  BY <1>5, <1>6, <1>7 DEF EachOnce
<1>10. /\ Will("next", x, y)'
       /\ \A v : \A m \in Linked : m # x /\ next[m] = v => Will("next", m, v)'
  <2>1. Will("next", x, y)'
    BY <1>5, <1>6, <1>7 DEF Will
  <2>2. ASSUME NEW m \in Linked, NEW v, m # x, next[m] = v PROVE Will("next", m, v)'
    BY <1>5, <1>6, <1>7, <2>2 DEF Will, LinkOf
  <2> QED BY <2>1, <2>2
<1>11. /\ Will("prev", y, x)'
       /\ \A v : \A m \in Linked : m # y /\ prev[m] = v => Will("prev", m, v)'
  <2>1. Will("prev", y, x)'
    BY <1>5, <1>6, <1>7 DEF Will
  <2>2. ASSUME NEW m \in Linked, NEW v, m # y, prev[m] = v PROVE Will("prev", m, v)'
    BY <1>5, <1>6, <1>7, <2>2 DEF Will, LinkOf
  <2> QED BY <2>1, <2>2
<1>12. WillLink(t)'
  <2>1. ASSUME NEW i \in 1 .. ((len - 1) - 1)
        PROVE  Will("next", t[i], t[i + 1])' /\ Will("prev", t[i + 1], t[i])'
    <3>1. CASE i < k - 1
      <4>1. /\ i \in 1 .. (len - 1) /\ i \in 1 .. len /\ i + 1 \in 1 .. len /\ i + 1 \in 1 .. (len - 1)
            /\ i < k /\ i + 1 < k
        BY <1>1, <3>1
      <4>2. t[i] = s[i] /\ t[i + 1] = s[i + 1]
        BY <1>3, <4>1
      <4>3. next[s[i]] = s[i + 1] /\ prev[s[i + 1]] = s[i]
        BY <4>1 DEF Follows, Mirrors, len
      <4>4. s[i] # x /\ s[i + 1] # y
        BY <1>1, <3>1, <4>1 DEF x, y
      <4> QED BY <1>1, <1>10, <1>11, <4>1, <4>2, <4>3, <4>4
    <3>2. CASE i = k - 1
      <4>1. /\ i \in 1 .. (len - 1) /\ i + 1 \in 1 .. (len - 1) /\ i + 1 = k
            /\ i < k /\ ~(i + 1 < k)
        BY <1>1, <3>2
      <4>2. t[i] = x /\ t[i + 1] = y
        BY <1>3, <3>2, <4>1 DEF x, y
      <4> QED BY <1>10, <1>11, <4>2
    <3>3. CASE i > k - 1
      <4>1. /\ i + 1 \in 1 .. (len - 1) /\ i \in 1 .. (len - 1)
            /\ i + 1 \in 1 .. len /\ (i + 1) + 1 \in 1 .. len
            /\ ~(i < k) /\ ~(i + 1 < k) /\ i + 1 # k - 1 /\ (i + 1) + 1 # k + 1
        <5>1. i \in Int /\ k \in Int /\ len \in Int /\ 2 <= k /\ i > k - 1 /\ i <= len - 2
          BY <1>1, <3>3
        <5> QED BY <5>1
      <4>2. t[i] = s[i + 1] /\ t[i + 1] = s[(i + 1) + 1]
        BY <1>3, <4>1
      <4>3. next[s[i + 1]] = s[(i + 1) + 1] /\ prev[s[(i + 1) + 1]] = s[i + 1]
        BY <4>1 DEF Follows, Mirrors, len
      <4>4. s[i + 1] # x /\ s[(i + 1) + 1] # y
        BY <1>1, <3>3, <4>1 DEF x, y
      <4> QED BY <1>1, <1>10, <1>11, <4>1, <4>2, <4>3, <4>4
    <3> QED BY <1>1, <3>1, <3>2, <3>3
  <2> QED BY <1>2, <2>1 DEF WillLink
<1>13. Orderly(s, t)'
  <2>1. k - 1 \in 1 .. (Len(t) - 1) /\ t[k - 1] = x
    BY <1>1, <1>2, <1>3 DEF x
  <2>2. ~("node" \in DOMAIN r /\ ss[1].of = r.node)
    BY <1>4, <1>6
  <2>3. ASSUME NEW i \in 1 .. 2, ss[i].link = "next"
        PROVE  IF "node" \in DOMAIN r /\ ss[i].of = r.node
               THEN /\ \A m \in 1 .. len : ss[i].of # s[m]
                    /\ \E m \in 2 .. len : ss[i].value = s[m]
               ELSE /\ \E m \in 1 .. (Len(t) - 1) : ss[i].of = t[m]
                    /\ \A j \in 1 .. 2 : j > i => ss[j].link # "next"
    <3>1. i = 1
      BY <1>6, <1>7, <2>3
    <3>2. \A j \in 1 .. 2 : j > i => ss[j].link # "next"
      BY <1>6, <1>7, <3>1
    <3>3. \E m \in 1 .. (Len(t) - 1) : ss[i].of = t[m]
      BY <1>6, <2>1, <3>1
    <3> QED BY <2>2, <3>1, <3>2, <3>3
  <2> QED BY <1>5, <1>6, <2>3 DEF Orderly, Prepares, len
<1>14. Unnoticed'
  BY <1>4, <1>5, <1>6 DEF Unnoticed
<1>15. Promised(s, t)'
  BY <1>5, <1>14 DEF Promised, Asked, t
<1>16. Follows(next, s)'
  BY <1>5 DEF Follows
<1> QED BY <1>2, <1>8, <1>9, <1>12, <1>13, <1>14, <1>15, <1>16 DEF Between, t

\* The two orders in which the insertions store.
LEMMA InsertingOrders ==
    ASSUME NEW n \in Linked, NEW x \in Linked, NEW y \in Linked, n # x, n # y, x # y
    PROVE  /\ Inserting(<< Next_(n, y), Prev_(n, x), Prev_(y, n), Next_(x, n) >>, n, x, y)
           /\ Inserting(<< Prev_(n, x), Next_(n, y), Next_(x, n), Prev_(y, n) >>, n, x, y)
<1> DEFINE a == << Next_(n, y), Prev_(n, x), Prev_(y, n), Next_(x, n) >>
           b == << Prev_(n, x), Next_(n, y), Next_(x, n), Prev_(y, n) >>
<1>1. /\ Next_(n, y) \in Stores /\ Next_(x, n) \in Stores
      /\ Prev_(n, x) \in Stores /\ Prev_(y, n) \in Stores
  BY DEF Next_, Prev_, Stores
<1>2. /\ Next_(n, y) # Next_(x, n) /\ Next_(n, y) # Prev_(n, x) /\ Next_(n, y) # Prev_(y, n)
      /\ Next_(x, n) # Prev_(n, x) /\ Next_(x, n) # Prev_(y, n) /\ Prev_(n, x) # Prev_(y, n)
  BY DEF Next_, Prev_
<1>3. \A i \in 1 .. 4 : i = 1 \/ i = 2 \/ i = 3 \/ i = 4
  OBVIOUS
<1>4. /\ a \in Seq(Stores) /\ Len(a) = 4
      /\ a[1] = Next_(n, y) /\ a[2] = Prev_(n, x) /\ a[3] = Prev_(y, n) /\ a[4] = Next_(x, n)
  BY <1>1
<1>5. /\ b \in Seq(Stores) /\ Len(b) = 4
      /\ b[1] = Prev_(n, x) /\ b[2] = Next_(n, y) /\ b[3] = Next_(x, n) /\ b[4] = Prev_(y, n)
  BY <1>1
<1> HIDE DEF a, b
<1>6. Inserting(a, n, x, y)
  BY <1>2, <1>3, <1>4 DEF Inserting
<1>7. Inserting(b, n, x, y)
  BY <1>2, <1>3, <1>5 DEF Inserting
<1> QED BY <1>6, <1>7 DEF a, b

\* What callers may ask of the list: to put in a node that is not in it, next
\* to one that is, or to take out one that is.
Proper(r) ==
    \/ /\ r.op \in {"unshift", "push", "enqueue"}
       /\ r = [op |-> r.op, node |-> r.node] /\ r.node \in Unlisted
    \/ /\ r.op \in {"insert_after", "insert_before"}
       /\ r = [op |-> r.op, node |-> r.node, at |-> r.at]
       /\ r.node \in Unlisted /\ r.at \in Listed
    \/ /\ r.op = "remove"
       /\ r = [op |-> r.op, node |-> r.node] /\ r.node \in Listed
    \/ /\ r.op \in {"shift", "pop"}
       /\ r = [op |-> r.op] /\ Forward # << >>

\* What a call leaves: a promise, of which walkers notice nothing yet.
Called(s) ==
    /\ Typed' /\ EachOnce' /\ UNCHANGED <<next, prev>>
    /\ Unnoticed' /\ job' # NoJob /\ Proper(job')
    /\ \E t : Between(s, t)'

\* A list at rest: both links lead along s.
Resting(s) ==
    /\ todo = << >>
    /\ Path(s, HEAD, TAIL) /\ Follows(next, s) /\ Mirrors(prev, s)

\* At rest the nodes of the list are the inner ones of its path.
LEMMA RestingFacts ==
    ASSUME ListInv, NEW s, Resting(s)
    PROVE  /\ Len(s) \in Nat /\ Len(s) >= 2 /\ s[1] = HEAD /\ s[Len(s)] = TAIL
           /\ \A i \in 1 .. Len(s) : s[i] \in Linked
           /\ \A i, j \in 1 .. Len(s) : s[i] = s[j] => i = j
           /\ Listed = {s[i] : i \in 2 .. (Len(s) - 1)} /\ Listed \subseteq Nodes
           /\ Forward = [i \in 1 .. (Len(s) - 2) |-> s[i + 1]] /\ Len(Forward) = Len(s) - 2
           /\ \A n \in Unlisted : n \in Nodes /\ \A i \in 1 .. Len(s) : s[i] # n
<1>1. Path(s, HEAD, TAIL) /\ Follows(next, s)
  BY DEF Resting
<1>2. next \in [Linked -> Linked \cup {NONE}]
  BY DEF ListInv, Typed
<1>3. /\ Len(s) \in Nat /\ Len(s) >= 2 /\ s[1] = HEAD /\ s[Len(s)] = TAIL
      /\ \A i \in 1 .. Len(s) : s[i] \in Linked
      /\ \A i \in 2 .. (Len(s) - 1) : s[i] \in Nodes
      /\ \A i, j \in 1 .. Len(s) : s[i] = s[j] => i = j
  BY <1>1 DEF Path
<1>4. /\ Listed = {s[i] : i \in 2 .. (Len(s) - 1)}
      /\ Forward = [i \in 1 .. (Len(s) - 2) |-> s[i + 1]] /\ Len(Forward) = Len(s) - 2
  BY <1>1, <1>2, ForwardIsPath
<1>5. ASSUME NEW n \in Unlisted, NEW i \in 1 .. Len(s) PROVE n \in Nodes /\ s[i] # n
  <2>1. n \in Nodes /\ n \notin Listed /\ n # HEAD /\ n # TAIL
    BY ListAssumption DEF Unlisted
  <2>2. i = 1 \/ i = Len(s) \/ i \in 2 .. (Len(s) - 1)
    BY <1>3
  <2> QED BY <1>3, <1>4, <2>1, <2>2
<1>6. ASSUME NEW n \in Unlisted PROVE n \in Nodes
  BY DEF Unlisted
<1> QED BY <1>3, <1>4, <1>5, <1>6

\* What the calls that insert have in common.
LEMMA InsertCall ==
    ASSUME ListInv, NEW s, Resting(s), NEW k \in 1 .. (Len(s) - 1), NEW n \in Unlisted,
           NEW r, "node" \in DOMAIN r, r.node = n, r.op # "none", Proper(r),
           Asked(r, s, With(s, k, n)),
           NEW x, x = s[k], NEW y, y = s[k + 1],
           \/ Begin(r, << Next_(n, y), Prev_(n, x), Prev_(y, n), Next_(x, n) >>)
           \/ Begin(r, << Prev_(n, x), Next_(n, y), Next_(x, n), Prev_(y, n) >>)
    PROVE  Called(s)
<1>1. /\ n \in Nodes /\ \A i \in 1 .. Len(s) : s[i] # n
      /\ Len(s) \in Nat
      /\ \A i \in 1 .. Len(s) : s[i] \in Linked
      /\ \A i, j \in 1 .. Len(s) : s[i] = s[j] => i = j
  BY RestingFacts
<1>2. n \in Linked /\ x \in Linked /\ y \in Linked /\ n # x /\ n # y /\ x # y
  BY <1>1 DEF Linked
<1>3. PICK ss : Inserting(ss, n, s[k], s[k + 1]) /\ Begin(r, ss)
  BY <1>2, InsertingOrders
<1>4. Between(s, With(s, k, n))' /\ Typed' /\ EachOnce' /\ Unnoticed'
  BY <1>1, <1>3, InsertBegins DEF Resting
<1>5. job' = r /\ UNCHANGED <<next, prev>>
  BY <1>3 DEF Begin
<1> QED BY <1>4, <1>5 DEF Called, NoJob

\* What the calls that remove have in common.
LEMMA RemoveCall ==
    ASSUME ListInv, NEW s, Resting(s), NEW k \in 2 .. (Len(s) - 1),
           NEW r, "node" \in DOMAIN r => r.node = s[k], r.op # "none", Proper(r),
           Asked(r, s, Without(s, k)), Begin(r, RemoveStores(s[k]))
    PROVE  Called(s)
<1>1. Len(s) \in Nat
  BY RestingFacts
<1>2. prev[s[k]] = s[k - 1] /\ next[s[k]] = s[k + 1]
  <2>1. k - 1 \in 1 .. (Len(s) - 1) /\ (k - 1) + 1 = k /\ k \in 1 .. (Len(s) - 1)
    BY <1>1
  <2> QED BY <2>1 DEF Resting, Follows, Mirrors
<1>3. Begin(r, << Next_(s[k - 1], s[k + 1]), Prev_(s[k + 1], s[k - 1]) >>)
  BY <1>2 DEF RemoveStores
<1>4. Between(s, Without(s, k))' /\ Typed' /\ EachOnce' /\ Unnoticed'
  BY <1>3, RemoveBegins DEF Resting
<1>5. job' = r /\ UNCHANGED <<next, prev>>
  BY DEF Begin
<1> QED BY <1>4, <1>5 DEF Called, NoJob

\* unshift: behind the start-of-list marker.
LEMMA UnshiftCalled == ASSUME ListInv, NEW s, Resting(s), Unshift PROVE Called(s)
<1>1. PICK n \in Unlisted : Begin([op |-> "unshift", node |-> n], UnshiftStores(n))
  BY DEF Unshift
<1> DEFINE r == [op |-> "unshift", node |-> n]
<1>2. /\ Len(s) \in Nat /\ Len(s) >= 2 /\ s[1] = HEAD
      /\ \A i \in 1 .. Len(s) : s[i] # n
  BY RestingFacts
<1>3. 1 \in 1 .. (Len(s) - 1) /\ next[HEAD] = s[1 + 1]
  BY <1>2 DEF Resting, Follows
<1>4. Begin(r, << Next_(n, s[1 + 1]), Prev_(n, s[1]), Prev_(s[1 + 1], n), Next_(s[1], n) >>)
  BY <1>1, <1>2, <1>3 DEF UnshiftStores
<1>5. Asked(r, s, With(s, 1, n))
  BY <1>2, <1>3 DEF Asked
<1>6. Proper(r)
  BY DEF Proper
<1>7. "node" \in DOMAIN r /\ r.node = n /\ r.op # "none"
  OBVIOUS
<1> HIDE DEF r
<1> QED BY <1>3, <1>4, <1>5, <1>6, <1>7, InsertCall

\* push: before the end-of-list marker.
LEMMA PushStoresCalled ==
    ASSUME ListInv, NEW s, Resting(s), NEW n \in Unlisted,
           NEW r, "node" \in DOMAIN r, r.node = n, r.op # "none", Proper(r),
           Asked(r, s, With(s, Len(s) - 1, n)), Begin(r, PushStores(n))
    PROVE  Called(s)
<1>1. Len(s) \in Nat /\ Len(s) >= 2 /\ s[Len(s)] = TAIL
  BY RestingFacts
<1> DEFINE k == Len(s) - 1
<1>2. k \in 1 .. (Len(s) - 1) /\ k + 1 = Len(s)
  BY <1>1
<1>3. prev[TAIL] = s[k] /\ s[k + 1] = TAIL
  BY <1>1, <1>2 DEF Resting, Mirrors
<1>4. Begin(r, << Prev_(n, s[k]), Next_(n, s[k + 1]), Next_(s[k], n), Prev_(s[k + 1], n) >>)
  BY <1>3 DEF PushStores
<1>5. Asked(r, s, With(s, k, n))
  OBVIOUS
<1> HIDE DEF k
<1> QED BY <1>2, <1>4, <1>5, InsertCall

\* push makes its node the last.
LEMMA PushCalled == ASSUME ListInv, NEW s, Resting(s), Push PROVE Called(s)
<1>1. PICK n \in Unlisted : Begin([op |-> "push", node |-> n], PushStores(n))
  BY DEF Push
<1> DEFINE r == [op |-> "push", node |-> n]
<1>2. /\ Len(s) \in Nat /\ Len(s) >= 2
      /\ \A i \in 1 .. Len(s) : s[i] # n
  BY RestingFacts
<1>3. Asked(r, s, With(s, Len(s) - 1, n))
  <2>1. Len(s) - 1 \in 1 .. (Len(s) - 1)
    BY <1>2
  <2> QED BY <1>2, <2>1 DEF Asked
<1>4. Proper(r)
  BY DEF Proper
<1>5. "node" \in DOMAIN r /\ r.node = n /\ r.op # "none"
  OBVIOUS
<1> HIDE DEF r
<1>6. Begin(r, PushStores(n))
  BY <1>1 DEF r
<1> QED BY <1>3, <1>4, <1>5, <1>6, PushStoresCalled

\* insert_after: behind the node at, and so before the one that follows it.
LEMMA InsertAfterCalled == ASSUME ListInv, NEW s, Resting(s), InsertAfter PROVE Called(s)
<1>1. PICK n \in Unlisted, at \in Listed :
          Begin([op |-> "insert_after", node |-> n, at |-> at], InsertAfterStores(n, at))
  BY DEF InsertAfter
<1> DEFINE r == [op |-> "insert_after", node |-> n, at |-> at]
<1>2. /\ Len(s) \in Nat /\ Len(s) >= 2
      /\ \A i \in 1 .. Len(s) : s[i] # n
      /\ Listed = {s[i] : i \in 2 .. (Len(s) - 1)}
  BY RestingFacts
<1>3. PICK k \in 2 .. (Len(s) - 1) : s[k] = at
  BY <1>2
<1>4. k \in 1 .. (Len(s) - 1) /\ next[at] = s[k + 1]
  <2>1. k \in 1 .. (Len(s) - 1)
    BY <1>2
  <2> QED BY <1>3, <2>1 DEF Resting, Follows
<1>5. Begin(r, << Prev_(n, s[k]), Next_(n, s[k + 1]), Next_(s[k], n), Prev_(s[k + 1], n) >>)
  BY <1>1, <1>3, <1>4 DEF InsertAfterStores
<1>6. Asked(r, s, With(s, k, n))
  <2>1. k > 1
    BY <1>2
  <2> QED BY <1>2, <1>3, <1>4, <2>1 DEF Asked
<1>7. Proper(r)
  BY DEF Proper
<1>8. "node" \in DOMAIN r /\ r.node = n /\ r.op # "none"
  OBVIOUS
<1> HIDE DEF r
<1> QED BY <1>4, <1>5, <1>6, <1>7, <1>8, InsertCall

\* insert_before: before the node at, and so behind the one it follows.
LEMMA InsertBeforeStoresCalled ==
    ASSUME ListInv, NEW s, Resting(s), NEW n \in Unlisted, NEW k \in 1 .. (Len(s) - 2),
           NEW r, "node" \in DOMAIN r, r.node = n, r.op # "none", Proper(r),
           Asked(r, s, With(s, k, n)), Begin(r, InsertBeforeStores(n, s[k + 1]))
    PROVE  Called(s)
<1>1. Len(s) \in Nat
  BY RestingFacts
<1>2. k \in 1 .. (Len(s) - 1) /\ prev[s[k + 1]] = s[k]
  <2>1. k \in 1 .. (Len(s) - 1)
    BY <1>1
  <2> QED BY <2>1 DEF Resting, Mirrors
<1>3. Begin(r, << Next_(n, s[k + 1]), Prev_(n, s[k]), Prev_(s[k + 1], n), Next_(s[k], n) >>)
  BY <1>2 DEF InsertBeforeStores
<1> QED BY <1>2, <1>3, InsertCall

\* insert_before puts its node in front of the one it is given.
LEMMA InsertBeforeCalled == ASSUME ListInv, NEW s, Resting(s), InsertBefore PROVE Called(s)
<1>1. PICK n \in Unlisted, at \in Listed :
          Begin([op |-> "insert_before", node |-> n, at |-> at], InsertBeforeStores(n, at))
  BY DEF InsertBefore
<1> DEFINE r == [op |-> "insert_before", node |-> n, at |-> at]
<1>2. /\ Len(s) \in Nat /\ Len(s) >= 2
      /\ \A i \in 1 .. Len(s) : s[i] # n
      /\ Listed = {s[i] : i \in 2 .. (Len(s) - 1)}
  BY RestingFacts
<1>3. PICK i \in 2 .. (Len(s) - 1) : s[i] = at
  BY <1>2
<1>4. PICK k \in 1 .. (Len(s) - 2) : s[k + 1] = at
  <2>1. i - 1 \in 1 .. (Len(s) - 2) /\ (i - 1) + 1 = i
    BY <1>2
  <2> QED BY <1>3, <2>1
<1>5. k \in 1 .. (Len(s) - 1) /\ k + 1 < Len(s)
  BY <1>2
<1>6. Asked(r, s, With(s, k, n))
  BY <1>2, <1>4, <1>5 DEF Asked
<1>7. Proper(r)
  BY DEF Proper
<1>8. "node" \in DOMAIN r /\ r.node = n /\ r.op # "none"
  OBVIOUS
<1> HIDE DEF r
<1>9. Begin(r, InsertBeforeStores(n, s[k + 1]))
  BY <1>1, <1>4 DEF r
<1> QED BY <1>4, <1>6, <1>7, <1>8, <1>9, InsertBeforeStoresCalled

\* enqueue: before the first node of lower priority, or at the end.
LEMMA EnqueueCalled == ASSUME ListInv, NEW s, Resting(s), Enqueue PROVE Called(s)
<1>1. PICK n \in Unlisted :
          \/ \E at \in FirstSlower(n) :
                Begin([op |-> "enqueue", node |-> n], InsertBeforeStores(n, at))
          \/ /\ FirstSlower(n) = {}
             /\ Begin([op |-> "enqueue", node |-> n], PushStores(n))
  BY DEF Enqueue
<1> DEFINE r == [op |-> "enqueue", node |-> n]
           len == Len(s)
<1>2. /\ len \in Nat /\ len >= 2
      /\ n \in Nodes /\ \A i \in 1 .. len : s[i] # n
      /\ \A i, j \in 1 .. len : s[i] = s[j] => i = j
      /\ Listed = {s[i] : i \in 2 .. (len - 1)} /\ Listed \subseteq Nodes
      /\ Forward = [i \in 1 .. (len - 2) |-> s[i + 1]]
  BY RestingFacts
<1>3. \A m \in Nodes : Priority[m] \in Int
  BY ListAssumption
<1>4. Proper(r)
  BY DEF Proper
<1>5. "node" \in DOMAIN r /\ r.node = n /\ r.op # "none" /\ r.op = "enqueue"
  OBVIOUS
<1> HIDE DEF r, len
<1>6. \A m \in Listed : m \in FirstSlower(n) <=>
          /\ Priority[m] < Priority[n]
          /\ \A i \in DOMAIN Forward :
               (\E j \in DOMAIN Forward : i < j /\ Forward[j] = m) => Priority[Forward[i]] >= Priority[n]
  BY DEF FirstSlower
<1>7. DOMAIN Forward = 1 .. (len - 2) /\ \A i \in 1 .. (len - 2) : Forward[i] = s[i + 1]
  BY <1>2
<1>8. ASSUME NEW at \in FirstSlower(n), Begin(r, InsertBeforeStores(n, at)) PROVE Called(s)
  <2>1. at \in Listed
    BY DEF FirstSlower
  <2>2. PICK i \in 2 .. (len - 1) : s[i] = at
    BY <1>2, <2>1
  <2>3. PICK k \in 1 .. (len - 2) : s[k + 1] = at
    <3>1. i - 1 \in 1 .. (len - 2) /\ (i - 1) + 1 = i
      BY <1>2
    <3> QED BY <2>2, <3>1
  <2>4. Priority[s[k + 1]] < Priority[n]
    BY <1>6, <2>1, <2>3
  <2>5. ASSUME NEW j \in 2 .. k PROVE Priority[s[j]] >= Priority[n]
    <3>1. j - 1 \in 1 .. (len - 2) /\ j - 1 < k /\ k \in 1 .. (len - 2) /\ (j - 1) + 1 = j
      BY <1>2
    <3>2. Forward[k] = at /\ Forward[j - 1] = s[j]
      BY <1>7, <2>3, <3>1
    <3>3. Priority[Forward[j - 1]] >= Priority[n]
      BY <1>6, <1>7, <2>1, <3>1, <3>2
    <3> QED BY <3>2, <3>3
  <2>6. k \in 1 .. (len - 1) /\ k + 1 < len
    BY <1>2
  <2>7. Asked(r, s, With(s, k, n))
    BY <1>2, <1>5, <2>4, <2>5, <2>6 DEF Asked, len
  <2>8. Begin(r, InsertBeforeStores(n, s[k + 1]))
    BY <1>8, <2>3
  <2> QED BY <1>4, <1>5, <2>7, <2>8, InsertBeforeStoresCalled DEF len
<1>9. ASSUME FirstSlower(n) = {}, Begin(r, PushStores(n)) PROVE Called(s)
  <2> DEFINE Slower == {i \in 1 .. (len - 2) : Priority[s[i + 1]] < Priority[n]}
  <2>1. Slower = {}
    <3> SUFFICES ASSUME Slower # {} PROVE FALSE
      OBVIOUS
    <3>1. Slower \in SUBSET Nat
      BY <1>2
    <3>2. PICK k \in Slower : \A j \in Slower : k <= j
      <4> HIDE DEF Slower
      <4> QED BY <3>1, LeastNatural
    <3>3. k \in 1 .. (len - 2) /\ k + 1 \in 2 .. (len - 1) /\ Priority[s[k + 1]] < Priority[n]
      BY <1>2
    <3>4. s[k + 1] \in Listed
      BY <1>2, <3>3
    <3>5. ASSUME NEW i \in 1 .. (len - 2), NEW j \in 1 .. (len - 2), i < j, Forward[j] = s[k + 1]
          PROVE  Priority[Forward[i]] >= Priority[n]
      <4>1. j + 1 \in 1 .. len /\ k + 1 \in 1 .. len /\ s[j + 1] = s[k + 1]
        BY <1>2, <1>7, <3>3, <3>5
      <4>2. j = k
        BY <1>2, <4>1
      <4>3. i \notin Slower
        BY <3>2, <3>5, <4>2
      <4>4. ~(Priority[s[i + 1]] < Priority[n])
        BY <4>3
      <4>5. i + 1 \in 2 .. (len - 1)
        BY <1>2
      <4>6. s[i + 1] \in Nodes
        BY <1>2, <4>5
      <4>7. Priority[s[i + 1]] \in Int /\ Priority[n] \in Int
        BY <1>2, <1>3, <4>6
      <4>8. Forward[i] = s[i + 1]
        BY <1>7
      <4> QED BY <4>4, <4>7, <4>8
    <3>6. s[k + 1] \in FirstSlower(n)
      BY <1>6, <1>7, <3>3, <3>4, <3>5
    <3> QED BY <1>9, <3>6
  <2>2. ASSUME NEW i \in 2 .. (len - 1) PROVE Priority[s[i]] >= Priority[n]
    <3>1. i - 1 \in 1 .. (len - 2) /\ (i - 1) + 1 = i
      BY <1>2
    <3>2. ~(Priority[s[i]] < Priority[n])
      BY <2>1, <3>1
    <3>3. s[i] \in Nodes
      BY <1>2
    <3>4. Priority[s[i]] \in Int /\ Priority[n] \in Int
      BY <1>2, <1>3, <3>3
    <3> QED BY <3>2, <3>4
  <2>3. Asked(r, s, With(s, len - 1, n))
    <3>1. len - 1 \in 1 .. (len - 1) /\ ~((len - 1) + 1 < len)
      BY <1>2
    <3> QED BY <1>2, <1>5, <2>2, <3>1 DEF Asked, len
  <2> QED BY <1>4, <1>5, <1>9, <2>3, PushStoresCalled DEF len
<1> QED BY <1>1, <1>8, <1>9 DEF r

\* remove: a node of the list.
LEMMA RemoveCalled == ASSUME ListInv, NEW s, Resting(s), Remove PROVE Called(s)
<1>1. PICK n \in Listed : Begin([op |-> "remove", node |-> n], RemoveStores(n))
  BY DEF Remove
<1> DEFINE r == [op |-> "remove", node |-> n]
<1>2. Len(s) \in Nat /\ Listed = {s[i] : i \in 2 .. (Len(s) - 1)}
  BY RestingFacts
<1>3. PICK k \in 2 .. (Len(s) - 1) : s[k] = n
  BY <1>2
<1>4. Asked(r, s, Without(s, k))
  BY <1>3 DEF Asked
<1>5. Proper(r)
  BY DEF Proper
<1>6. ("node" \in DOMAIN r => r.node = s[k]) /\ r.op # "none"
  BY <1>3
<1> HIDE DEF r
<1>7. Begin(r, RemoveStores(s[k]))
  BY <1>1, <1>3 DEF r
<1> QED BY <1>4, <1>5, <1>6, <1>7, RemoveCall

\* A list that is not empty has a first node and a last one.
LEMMA NotEmpty ==
    ASSUME ListInv, NEW s, Resting(s), ~IsEmpty
    PROVE  /\ Len(s) >= 3 /\ Forward # << >>
           /\ next[HEAD] = s[2] /\ prev[TAIL] = s[Len(s) - 1]
<1>1. /\ Len(s) \in Nat /\ Len(s) >= 2 /\ s[1] = HEAD /\ s[Len(s)] = TAIL
      /\ Len(Forward) = Len(s) - 2
  BY RestingFacts
<1>2. /\ 1 \in 1 .. (Len(s) - 1) /\ 1 + 1 = 2
      /\ Len(s) - 1 \in 1 .. (Len(s) - 1) /\ (Len(s) - 1) + 1 = Len(s)
  BY <1>1
<1>3. next[s[1]] = s[2] /\ prev[s[Len(s)]] = s[Len(s) - 1]
  BY <1>2 DEF Resting, Follows, Mirrors
<1>4. Len(s) # 2
  BY <1>1, <1>3 DEF IsEmpty
<1>5. Forward # << >>
  BY <1>1, <1>4
<1> QED BY <1>1, <1>3, <1>4, <1>5

\* shift: the first node.
LEMMA ShiftCalled == ASSUME ListInv, NEW s, Resting(s), Shift PROVE Called(s)
<1> DEFINE r == [op |-> "shift"]
<1>1. ~IsEmpty /\ Begin(r, RemoveStores(next[HEAD]))
  BY DEF Shift
<1>2. Len(s) \in Nat /\ Len(s) >= 3 /\ Forward # << >> /\ next[HEAD] = s[2]
  BY <1>1, NotEmpty, RestingFacts
<1>3. 2 \in 2 .. (Len(s) - 1)
  BY <1>2
<1>4. Asked(r, s, Without(s, 2))
  BY <1>3 DEF Asked
<1>5. Proper(r)
  BY <1>2 DEF Proper
<1>6. "node" \notin DOMAIN r /\ r.op # "none"
  OBVIOUS
<1> HIDE DEF r
<1>7. Begin(r, RemoveStores(s[2]))
  BY <1>1, <1>2
<1> QED BY <1>3, <1>4, <1>5, <1>6, <1>7, RemoveCall

\* pop: the last one.
LEMMA PopCalled == ASSUME ListInv, NEW s, Resting(s), Pop PROVE Called(s)
<1> DEFINE r == [op |-> "pop"]
           k == Len(s) - 1
<1>1. ~IsEmpty /\ Begin(r, RemoveStores(prev[TAIL]))
  BY DEF Pop
<1>2. Len(s) \in Nat /\ Len(s) >= 3 /\ Forward # << >> /\ prev[TAIL] = s[k]
  BY <1>1, NotEmpty, RestingFacts
<1>3. k \in 2 .. (Len(s) - 1)
  BY <1>2
<1>4. Asked(r, s, Without(s, k))
  BY <1>3 DEF Asked
<1>5. Proper(r)
  BY <1>2 DEF Proper
<1>6. "node" \notin DOMAIN r /\ r.op # "none"
  OBVIOUS
<1> HIDE DEF r, k
<1>7. Begin(r, RemoveStores(s[k]))
  BY <1>1, <1>2
<1> QED BY <1>3, <1>4, <1>5, <1>6, <1>7, RemoveCall

-----------------------------------------------------------------------------
(* The invariant holds.                                                    *)

\* The empty list.
LEMMA InitInv == Init => ListInv
<1> SUFFICES ASSUME Init PROVE ListInv
  OBVIOUS
<1> DEFINE s == << HEAD, TAIL >>
<1>1. /\ next = [n \in Linked |-> IF n = HEAD THEN TAIL ELSE NONE]
      /\ prev = [n \in Linked |-> IF n = TAIL THEN HEAD ELSE NONE]
      /\ job = NoJob /\ todo = << >>
  BY DEF Init, Linked
<1>2. HEAD \in Linked /\ TAIL \in Linked /\ Nodes \subseteq Linked
  BY DEF Linked
<1>3. HEAD \notin Nodes /\ TAIL \notin Nodes /\ NONE \notin Nodes
  BY ListAssumption
<1>4. Len(todo) = 0
  BY <1>1
<1>5. Typed /\ EachOnce
  BY <1>1, <1>2, <1>4 DEF Typed, EachOnce
<1>6. NoCircle /\ LeadsOn
  <2>1. \A n \in Nodes : next[n] = NONE
    BY <1>1, <1>2, <1>3
  <2> QED BY <1>3, <2>1 DEF NoCircle, LeadsOn
<1>7. s \in Seq(Linked) /\ Len(s) = 2 /\ s[1] = HEAD /\ s[2] = TAIL
  BY <1>2
<1>8. \A i \in 1 .. 2 : i = 1 \/ i = 2
  OBVIOUS
<1> HIDE DEF s
<1>9. Path(s, HEAD, TAIL)
  BY <1>7, <1>8, Markers DEF Path
<1>10. next[HEAD] = TAIL /\ prev[TAIL] = HEAD
  BY <1>1, <1>2, Markers
<1>11. Follows(next, s)
  BY <1>7, <1>10 DEF Follows
<1>12. WillLink(s)
  BY <1>4, <1>7, <1>10 DEF WillLink, Will, LinkOf
<1>13. Orderly(s, s)
  BY <1>4 DEF Orderly
<1>14. ~Unnoticed
  BY <1>1 DEF Unnoticed
<1>15. Between(s, s)
  BY <1>9, <1>11, <1>12, <1>13, <1>14 DEF Between, Promised
<1>16. \E x, y : Between(x, y)
  BY <1>15
<1> QED BY <1>1, <1>5, <1>6, <1>16 DEF ListInv

\* Whichever operation is called on a list at rest, it promises what is asked.
LEMMA CallPromises ==
    ASSUME ListInv, todo = << >>,
           Unshift \/ Push \/ InsertAfter \/ InsertBefore \/ Enqueue \/ Remove \/ Shift \/ Pop
    PROVE  \E s : Resting(s) /\ Called(s)
<1>1. PICK s, t : Between(s, t)
  BY DEF ListInv
<1>2. Resting(s)
  BY <1>1, AtRest DEF Resting, Between
<1>3. Called(s)
  BY <1>2, UnshiftCalled, PushCalled, InsertAfterCalled, InsertBeforeCalled,
     EnqueueCalled, RemoveCalled, ShiftCalled, PopCalled
<1> QED BY <1>2, <1>3

\* A call keeps the invariant.
LEMMA CallKeepsInv ==
    ASSUME ListInv, NEW s, Called(s)
    PROVE  ListInv'
<1>1. /\ Typed' /\ EachOnce' /\ next' = next /\ job' # NoJob /\ Unnoticed'
      /\ \E t : Between(s, t)'
  BY DEF Called
<1>2. todo' # << >>
  BY <1>1 DEF Unnoticed
<1>3. NoCircle' /\ LeadsOn'
  BY <1>1 DEF ListInv, NoCircle, LeadsOn
<1>4. (\E x, y : Between(x, y))'
  BY <1>1
<1> QED BY <1>1, <1>2, <1>3, <1>4 DEF ListInv

\* Every step keeps the invariant.
LEMMA StepKeepsInv == ListInv /\ [Next]_vars => ListInv'
<1> SUFFICES ASSUME ListInv, [Next]_vars PROVE ListInv'
  OBVIOUS
<1>1. CASE UNCHANGED vars
  <2>1. next' = next /\ prev' = prev /\ job' = job /\ todo' = todo
    BY <1>1 DEF vars
  <2>2. Typed' /\ EachOnce' /\ NoCircle' /\ LeadsOn' /\ (job = NoJob <=> todo = << >>)'
    BY <2>1 DEF ListInv, Typed, EachOnce, NoCircle, LeadsOn
  <2>3. PICK s, t : Between(s, t)
    BY DEF ListInv
  <2>4. Between(s, t)'
    <3>1. Follows(next, s)' /\ WillLink(t)'
      BY <2>1, <2>3 DEF Between, Follows, WillLink, Will, LinkOf
    <3>2. Orderly(s, t)'
      BY <2>1, <2>3 DEF Between, Orderly, Prepares
    <3>3. Promised(s, t)'
      BY <2>1, <2>3 DEF Between, Promised, Unnoticed
    <3> QED BY <2>3, <3>1, <3>2, <3>3 DEF Between
  <2> QED BY <2>2, <2>4 DEF ListInv
<1>2. CASE Store
  BY <1>2, StoreKeepsInv
<1>3. CASE /\ todo = << >>
           /\ Unshift \/ Push \/ InsertAfter \/ InsertBefore \/ Enqueue \/ Remove \/ Shift \/ Pop
  BY <1>3, CallPromises, CallKeepsInv
<1> QED BY <1>1, <1>2, <1>3 DEF Next

\* The invariant of every list.
THEOREM ListInvariant == Spec => []ListInv
<1> QED BY InitInv, StepKeepsInv, PTL DEF Spec

\* Between any two stores of MinList::unshift, push, insert_after,
\* insert_before, remove, shift and pop, and of List's enqueue, a walk from
\* the head gets to the end-of-list marker and comes to no node twice.
THEOREM AlwaysWalkable == Spec => []ForwardArrives
<1>1. ListInv => ForwardArrives
  <2> SUFFICES ASSUME ListInv PROVE ForwardArrives
    OBVIOUS
  <2>1. PICK s, t : Between(s, t)
    BY DEF ListInv
  <2> QED BY <2>1, ForwardIsPath DEF Between, ListInv, Typed
<1> QED BY <1>1, ListInvariant, PTL

\* Whenever no operation is at work the prev links lead back through the same
\* nodes: what MinNode::remove and pop rely on.
THEOREM SameListBackwards == Spec => []BackwardMirrors
<1>1. ListInv => BackwardMirrors
  <2> SUFFICES ASSUME ListInv, todo = << >>
               PROVE  /\ Arrives(prev, TAIL, HEAD)
                      /\ LET back == Chain(prev, TAIL, HEAD)
                         IN  /\ Len(back) = Len(Forward)
                             /\ \A i \in DOMAIN back : back[i] = Forward[Len(Forward) + 1 - i]
    BY DEF BackwardMirrors
  <2>1. PICK s, t : Between(s, t)
    BY DEF ListInv
  <2>2. Path(s, HEAD, TAIL) /\ Follows(next, s) /\ Mirrors(prev, s)
    BY <2>1, AtRest DEF Between
  <2> QED BY <2>2, BackwardIsPath DEF ListInv, Typed
<1> QED BY <1>1, ListInvariant, PTL

\* A walker that stands on a node while it is removed, put elsewhere, or while
\* its neighbours are, still gets to the end-of-list marker: remove leaves the
\* node's own links alone.
THEOREM RemovedLeadsOn == Spec => []RemovedStillLeads
<1>1. ListInv => RemovedStillLeads
  BY LinkedArrive DEF ListInv, Typed
<1> QED BY <1>1, ListInvariant, PTL

-----------------------------------------------------------------------------
(* The refinement: to walkers from the head, every operation is one change *)
(* of a sequence (NodeList).                                               *)

\* What lies between the markers of a path.
Inner(s) == [i \in 1 .. (Len(s) - 2) |-> s[i + 1]]

\* Its nodes are those of the path but for the first and the last.
LEMMA InnerFacts ==
    ASSUME NEW s, Path(s, HEAD, TAIL)
    PROVE  /\ Inner(s) \in Seq(Nodes) /\ Len(s) \in Nat /\ Len(s) >= 2
           /\ Len(Inner(s)) = Len(s) - 2 /\ DOMAIN Inner(s) = 1 .. (Len(s) - 2)
           /\ \A i \in 1 .. (Len(s) - 2) : Inner(s)[i] = s[i + 1]
           /\ \A i, j \in 1 .. (Len(s) - 2) : Inner(s)[i] = Inner(s)[j] => i = j
<1>1. /\ Len(s) \in Nat /\ Len(s) >= 2
      /\ \A i \in 2 .. (Len(s) - 1) : s[i] \in Nodes
      /\ \A i, j \in 1 .. Len(s) : s[i] = s[j] => i = j
  BY DEF Path
<1>2. ASSUME NEW i \in 1 .. (Len(s) - 2) PROVE s[i + 1] \in Nodes
  <2>1. i + 1 \in 2 .. (Len(s) - 1)
    BY <1>1
  <2> QED BY <1>1, <2>1
<1>3. Inner(s) \in [1 .. (Len(s) - 2) -> Nodes]
  BY <1>2 DEF Inner
<1>4. Len(s) - 2 \in Nat
  BY <1>1
<1>5. Inner(s) \in Seq(Nodes) /\ Len(Inner(s)) = Len(s) - 2
  BY <1>3, <1>4
<1>6. ASSUME NEW i \in 1 .. (Len(s) - 2), NEW j \in 1 .. (Len(s) - 2), Inner(s)[i] = Inner(s)[j]
      PROVE  i = j
  <2>1. i + 1 \in 1 .. Len(s) /\ j + 1 \in 1 .. Len(s) /\ s[i + 1] = s[j + 1]
    BY <1>1, <1>6 DEF Inner
  <2>2. i + 1 = j + 1
    BY <1>1, <2>1
  <2> QED BY <2>2
<1> QED BY <1>1, <1>3, <1>5, <1>6 DEF Inner

\* With puts a node in the middle of the sequence.
LEMMA InnerWith ==
    ASSUME NEW s, Path(s, HEAD, TAIL), NEW k \in 1 .. (Len(s) - 1), NEW n \in Nodes,
           \A i \in 1 .. Len(s) : s[i] # n
    PROVE  Inner(With(s, k, n)) =
             SubSeq(Inner(s), 1, k - 1) \o << n >> \o SubSeq(Inner(s), k, Len(Inner(s)))
<1> DEFINE t == With(s, k, n)
           q == Inner(s)
           len == Len(s) - 2
           a == SubSeq(q, 1, k - 1)
           b == SubSeq(q, k, Len(q))
<1>1. /\ q \in Seq(Nodes) /\ len \in Nat /\ Len(q) = len /\ k \in 1 .. (len + 1)
      /\ \A i \in 1 .. len : q[i] = s[i + 1]
  BY InnerFacts
<1>2. /\ Inner(t) \in Seq(Nodes) /\ Len(Inner(t)) = len + 1
      /\ \A i \in 1 .. (len + 1) : Inner(t)[i] = t[i + 1]
  <2>1. Path(t, HEAD, TAIL) /\ Len(t) = Len(s) + 1
    BY WithPath
  <2>2. /\ Inner(t) \in Seq(Nodes) /\ Len(Inner(t)) = Len(t) - 2
        /\ \A i \in 1 .. (Len(t) - 2) : Inner(t)[i] = t[i + 1]
    BY <2>1, InnerFacts
  <2>3. Len(t) - 2 = len + 1
    BY <1>1, <2>1, InnerFacts
  <2> QED BY <2>2, <2>3
<1>3. \A i \in 1 .. (len + 2) :
          t[i] = IF i <= k THEN s[i] ELSE IF i = k + 1 THEN n ELSE s[i - 1]
  <2>1. len + 2 \in 1 .. (Len(s) + 1)
    BY <1>1, InnerFacts
  <2> QED BY <2>1, InnerFacts DEF With
<1> HIDE DEF t, q, len
<1>4. /\ a \in Seq(Nodes) /\ Len(a) = k - 1 /\ \A i \in 1 .. (k - 1) : a[i] = q[i]
  BY <1>1
<1>5. /\ b \in Seq(Nodes) /\ Len(b) = len - k + 1
      /\ \A i \in 1 .. (len - k + 1) : b[i] = q[k + i - 1]
  BY <1>1
<1> HIDE DEF a, b
<1>6. /\ a \o << n >> \in Seq(Nodes) /\ Len(a \o << n >>) = k
      /\ \A i \in 1 .. k : (a \o << n >>)[i] = IF i < k THEN q[i] ELSE n
  BY <1>1, <1>4
<1> DEFINE c == a \o << n >>
<1> HIDE DEF c
<1>7. /\ c \o b \in Seq(Nodes) /\ Len(c \o b) = len + 1
      /\ \A i \in 1 .. (len + 1) :
           (c \o b)[i] = IF i < k THEN q[i] ELSE IF i = k THEN n ELSE q[i - 1]
  <2>1. c \in Seq(Nodes) /\ Len(c) = k /\ \A i \in 1 .. k : c[i] = IF i < k THEN q[i] ELSE n
    BY <1>6 DEF c
  <2>2. c \o b \in Seq(Nodes) /\ Len(c \o b) = k + (len - k + 1)
    BY <1>5, <2>1, ConcatProperties
  <2>3. ASSUME NEW i \in 1 .. (len + 1)
        PROVE  (c \o b)[i] = IF i < k THEN q[i] ELSE IF i = k THEN n ELSE q[i - 1]
    <3>1. CASE i <= k
      <4>1. (c \o b)[i] = c[i]
        BY <1>1, <1>5, <2>1, <3>1, ConcatProperties
      <4> QED BY <1>1, <2>1, <3>1, <4>1
    <3>2. CASE i > k
      <4>1. (c \o b)[i] = b[i - k]
        BY <1>1, <1>5, <2>1, <3>2, ConcatProperties, SMTT(30)
      <4>2. i - k \in 1 .. (len - k + 1) /\ k + (i - k) - 1 = i - 1
        BY <1>1, <3>2
      <4>3. b[i - k] = q[i - 1]
        BY <1>5, <4>2
      <4> QED BY <1>1, <3>2, <4>1, <4>3
    <3>3. i <= k \/ i > k
      BY <1>1
    <3> QED BY <3>1, <3>2, <3>3
  <2> QED BY <1>1, <2>2, <2>3
<1>8. ASSUME NEW i \in 1 .. (len + 1) PROVE Inner(t)[i] = (c \o b)[i]
  <2>1. Inner(t)[i] = t[i + 1] /\ i + 1 \in 1 .. (len + 2)
    BY <1>1, <1>2
  <2>2. CASE i < k
    <3>1. i + 1 <= k /\ i \in 1 .. len
      BY <1>1, <2>2
    <3>2. t[i + 1] = s[i + 1] /\ q[i] = s[i + 1]
      BY <1>1, <1>3, <2>1, <3>1
    <3> QED BY <1>7, <2>1, <2>2, <3>2
  <2>3. CASE i = k
    <3>1. t[i + 1] = n
      BY <1>1, <1>3, <2>1, <2>3
    <3> QED BY <1>1, <1>7, <2>1, <2>3, <3>1
  <2>4. CASE i > k
    <3>1. ~(i + 1 <= k) /\ i + 1 # k + 1 /\ (i + 1) - 1 = i /\ i - 1 \in 1 .. len /\ (i - 1) + 1 = i
      BY <1>1, <2>4
    <3>2. t[i + 1] = s[i]
      BY <1>3, <2>1, <3>1
    <3>3. q[i - 1] = s[i]
      BY <1>1, <3>1
    <3>4. ~(i < k) /\ i # k
      BY <1>1, <2>4
    <3>5. (c \o b)[i] = q[i - 1]
      BY <1>7, <3>4
    <3> QED BY <2>1, <3>2, <3>3, <3>5
  <2>5. i < k \/ i = k \/ i > k
    BY <1>1
  <2> QED BY <2>2, <2>3, <2>4, <2>5
<1>9. Inner(t) = c \o b
  BY <1>2, <1>7, <1>8, SeqEqual
<1> QED BY <1>9 DEF a, b, c, t, q

\* Without takes one out of the middle.
LEMMA InnerWithout ==
    ASSUME NEW s, Path(s, HEAD, TAIL), NEW k \in 2 .. (Len(s) - 1)
    PROVE  Inner(Without(s, k)) =
             SubSeq(Inner(s), 1, (k - 1) - 1) \o SubSeq(Inner(s), (k - 1) + 1, Len(Inner(s)))
<1> DEFINE t == Without(s, k)
           q == Inner(s)
           len == Len(s) - 2
           j == k - 1
           a == SubSeq(q, 1, j - 1)
           b == SubSeq(q, j + 1, Len(q))
<1>1. /\ q \in Seq(Nodes) /\ len \in Nat /\ Len(q) = len /\ j \in 1 .. len
      /\ k = j + 1 /\ \A i \in 1 .. len : q[i] = s[i + 1]
  BY InnerFacts
<1>2. /\ Inner(t) \in Seq(Nodes) /\ Len(Inner(t)) = len - 1
      /\ \A i \in 1 .. (len - 1) : Inner(t)[i] = t[i + 1]
  <2>1. Path(t, HEAD, TAIL) /\ Len(t) = Len(s) - 1
    BY WithoutPath
  <2>2. /\ Inner(t) \in Seq(Nodes) /\ Len(Inner(t)) = Len(t) - 2
        /\ \A i \in 1 .. (Len(t) - 2) : Inner(t)[i] = t[i + 1]
    BY <2>1, InnerFacts
  <2>3. Len(t) - 2 = len - 1
    BY <1>1, <2>1, InnerFacts
  <2> QED BY <2>2, <2>3
<1>3. \A i \in 1 .. len : t[i] = IF i < k THEN s[i] ELSE s[i + 1]
  <2>1. len \in 1 .. (Len(s) - 1)
    BY <1>1, InnerFacts
  <2> QED BY <2>1, InnerFacts DEF Without
<1> HIDE DEF t, q, len, j
<1>4. /\ a \in Seq(Nodes) /\ Len(a) = j - 1 /\ \A i \in 1 .. (j - 1) : a[i] = q[i]
  BY <1>1
<1>5. /\ b \in Seq(Nodes) /\ Len(b) = len - j
      /\ \A i \in 1 .. (len - j) : b[i] = q[j + i]
  BY <1>1
<1> HIDE DEF a, b
<1>6. /\ a \o b \in Seq(Nodes) /\ Len(a \o b) = len - 1
      /\ \A i \in 1 .. (len - 1) : (a \o b)[i] = IF i < j THEN q[i] ELSE q[i + 1]
  <2>1. /\ a \o b \in Seq(Nodes) /\ Len(a \o b) = (j - 1) + (len - j)
        /\ \A i \in 1 .. ((j - 1) + (len - j)) :
             (a \o b)[i] = IF i <= j - 1 THEN a[i] ELSE b[i - (j - 1)]
    <3>1. /\ a \o b \in Seq(Nodes) /\ Len(a \o b) = Len(a) + Len(b)
          /\ \A i \in 1 .. (Len(a) + Len(b)) :
               (a \o b)[i] = IF i <= Len(a) THEN a[i] ELSE b[i - Len(a)]
      <4>1. a \in Seq(Nodes) /\ b \in Seq(Nodes)
        BY <1>4, <1>5
      <4> QED BY <4>1, ConcatProperties
    <3>2. Len(a) = j - 1 /\ Len(b) = len - j
      BY <1>4, <1>5
    <3> QED BY <3>1, <3>2
  <2>2. ASSUME NEW i \in 1 .. (len - 1)
        PROVE  (a \o b)[i] = IF i < j THEN q[i] ELSE q[i + 1]
    <3>1. CASE i < j
      <4>1. i \in 1 .. (j - 1) /\ i <= j - 1 /\ i \in 1 .. ((j - 1) + (len - j))
        BY <1>1, <3>1
      <4> QED BY <1>4, <2>1, <3>1, <4>1
    <3>2. CASE i >= j
      <4>1. (a \o b)[i] = b[i - (j - 1)]
        <5>1. ~(i <= j - 1) /\ i \in 1 .. ((j - 1) + (len - j))
          BY <1>1, <3>2
        <5> QED BY <2>1, <5>1
      <4>2. i - (j - 1) \in 1 .. (len - j) /\ j + (i - (j - 1)) = i + 1 /\ ~(i < j)
        BY <1>1, <3>2
      <4>3. b[i - (j - 1)] = q[i + 1]
        BY <1>5, <4>2
      <4> QED BY <4>1, <4>2, <4>3
    <3>3. i < j \/ i >= j
      BY <1>1
    <3> QED BY <3>1, <3>2, <3>3
  <2>3. (j - 1) + (len - j) = len - 1
    BY <1>1
  <2> QED BY <2>1, <2>2, <2>3
<1>7. ASSUME NEW i \in 1 .. (len - 1) PROVE Inner(t)[i] = (a \o b)[i]
  <2>1. Inner(t)[i] = t[i + 1] /\ i + 1 \in 1 .. len /\ i \in 1 .. len
    BY <1>1, <1>2
  <2>2. CASE i < j
    <3>1. i + 1 < k
      BY <1>1, <2>2
    <3>2. t[i + 1] = s[i + 1] /\ q[i] = s[i + 1]
      BY <1>1, <1>3, <2>1, <3>1
    <3> QED BY <1>6, <2>1, <2>2, <3>2
  <2>3. CASE i >= j
    <3>1. ~(i + 1 < k) /\ ~(i < j)
      BY <1>1, <2>3
    <3>2. t[i + 1] = s[(i + 1) + 1]
      BY <1>3, <2>1, <3>1
    <3>3. q[i + 1] = s[(i + 1) + 1]
      BY <1>1, <2>1
    <3>4. (a \o b)[i] = q[i + 1]
      BY <1>6, <3>1
    <3> QED BY <2>1, <3>2, <3>3, <3>4
  <2>4. i < j \/ i >= j
    BY <1>1
  <2> QED BY <2>2, <2>3, <2>4
<1>8. Inner(t) = a \o b
  BY <1>2, <1>6, <1>7, SeqEqual
<1> QED BY <1>8 DEF a, b, t, q, j

\* Between walkers find the inner nodes of s.
LEMMA BetweenForward ==
    ASSUME ListInv, NEW s, NEW t, Between(s, t)
    PROVE  Forward = Inner(s)
  BY ForwardIsPath DEF Between, ListInv, Typed, Inner

\* The list at first is the empty sequence, of which nothing is asked.
LEMMA InitImplements == Init => Abstract!Init
<1> SUFFICES ASSUME Init PROVE Abstract!Init
  OBVIOUS
<1>1. ~Unnoticed
  BY DEF Init, Unnoticed
<1>2. Forward = << >>
  <2>1. next = [n \in Linked |-> IF n = HEAD THEN TAIL ELSE NONE]
    BY DEF Init, Linked
  <2>2. next \in [Linked -> Linked \cup {NONE}] /\ next[HEAD] = TAIL
    BY <2>1 DEF Linked
  <2> DEFINE s == << HEAD, TAIL >>
  <2>3. s \in Seq(Linked) /\ Len(s) = 2 /\ s[1] = HEAD /\ s[2] = TAIL
    BY DEF Linked
  <2>4. \A i \in 1 .. 2 : i = 1 \/ i = 2
    OBVIOUS
  <2> HIDE DEF s
  <2>5. Path(s, HEAD, TAIL) /\ Follows(next, s)
    BY <2>2, <2>3, <2>4, Markers DEF Path, Follows
  <2>6. Forward \in Seq(Nodes) /\ Len(Forward) = 0
    <3>1. Forward \in Seq(Nodes) /\ Len(Forward) = Len(s) - 2
      BY <2>2, <2>5, ForwardIsPath
    <3> QED BY <2>3, <3>1
  <2> QED BY <2>6
<1> QED BY <1>1, <1>2 DEF Abstract!Init, Abstract!NoRequest, NoJob

\* The noticed store does to the sequence what was asked.
LEMMA AskedIsEffect ==
    ASSUME NEW s, NEW t, Path(s, HEAD, TAIL), Path(t, HEAD, TAIL), Asked(job, s, t),
           Forward = Inner(s), Forward' = Inner(t), Unnoticed, ~Unnoticed'
    PROVE  Abstract!Effect
<1> DEFINE q == Forward
           len == Len(s) - 2
           request == IF Unnoticed THEN job ELSE NoJob
<1>1. /\ q \in Seq(Nodes) /\ len \in Nat /\ Len(q) = len /\ DOMAIN q = 1 .. len
      /\ Len(s) = len + 2
      /\ \A i \in 1 .. len : q[i] = s[i + 1]
      /\ \A i, j \in 1 .. len : q[i] = q[j] => i = j
  <2>1. Len(s) \in Nat /\ Len(s) >= 2 /\ Len(s) = (Len(s) - 2) + 2
    BY InnerFacts
  <2>2. /\ Inner(s) \in Seq(Nodes) /\ Len(Inner(s)) = len /\ DOMAIN Inner(s) = 1 .. len
        /\ \A i \in 1 .. len : Inner(s)[i] = s[i + 1]
        /\ \A i, j \in 1 .. len : Inner(s)[i] = Inner(s)[j] => i = j
    BY InnerFacts
  <2>3. q = Inner(s)
    OBVIOUS
  <2>4. len \in Nat
    BY <2>1
  <2> HIDE DEF q
  <2> QED BY <2>1, <2>2, <2>3, <2>4
<1>2. request = job /\ request' = NoJob
  OBVIOUS
<1>3. \A i \in 1 .. len : Abstract!IndexOf(q[i]) = i
  <2> HIDE DEF q
  <2>1. ASSUME NEW i \in 1 .. len
        PROVE  (CHOOSE j \in DOMAIN q : q[j] = q[i]) = i
    BY <1>1
  <2> QED BY <2>1 DEF Abstract!IndexOf, q
<1>4. ASSUME job.op \in {"unshift", "push", "insert_after", "insert_before", "enqueue"},
             \A i \in 1 .. Len(s) : s[i] # job.node,
             NEW k \in 1 .. (Len(s) - 1),
             t = With(s, k, job.node),
             job.op = "unshift" => k = 1,
             job.op = "push" => k = Len(s) - 1,
             job.op = "insert_after" => k > 1 /\ s[k] = job.at,
             job.op = "insert_before" => k + 1 < Len(s) /\ s[k + 1] = job.at,
             job.op = "enqueue" =>
                 /\ \A i \in 2 .. k : Priority[s[i]] >= Priority[job.node]
                 /\ k + 1 < Len(s) => Priority[s[k + 1]] < Priority[job.node]
      PROVE  Abstract!Effect
  <2>1. PICK n : n = job.node
    OBVIOUS
  <2>2. n \in Nodes
    <3>1. Len(t) = Len(s) + 1 /\ t[k + 1] = n
      <4>1. k + 1 \in 1 .. (Len(s) + 1) /\ Len(s) + 1 \in Nat
        BY <1>1
      <4> QED BY <1>4, <2>1, <4>1 DEF With
    <3>2. k + 1 \in 2 .. (Len(t) - 1)
      BY <1>1, <3>1
    <3> QED BY <3>1, <3>2 DEF Path
  <2>3. Forward' = SubSeq(q, 1, k - 1) \o << n >> \o SubSeq(q, k, Len(q))
    <3>1. Inner(With(s, k, n)) = SubSeq(Inner(s), 1, k - 1) \o << n >> \o SubSeq(Inner(s), k, Len(Inner(s)))
      BY <1>4, <2>1, <2>2, InnerWith
    <3> QED BY <1>4, <2>1, <3>1
  <2>4. Abstract!Insert(n, k)
    BY <2>3 DEF Abstract!Insert
  <2>5. k \in 1 .. (len + 1)
    BY <1>1
  <2>6. CASE job.op = "unshift"
    <3>1. Abstract!Insert(job.node, 1)
      BY <1>4, <2>1, <2>4, <2>6
    <3> QED BY <1>2, <2>6, <3>1 DEF Abstract!Effect, Abstract!NoRequest, NoJob
  <2>7. CASE job.op = "push"
    <3>1. k = Len(q) + 1
      BY <1>1, <1>4, <2>7
    <3>2. Abstract!Insert(job.node, Len(q) + 1)
      BY <2>1, <2>4, <3>1
    <3> QED BY <1>2, <2>7, <3>2 DEF Abstract!Effect, Abstract!NoRequest, NoJob
  <2>8. CASE job.op = "insert_after"
    <3>1. k - 1 \in 1 .. len /\ (k - 1) + 1 = k
      BY <1>1, <1>4, <2>5, <2>8
    <3>2. q[k - 1] = job.at
      BY <1>1, <1>4, <2>8, <3>1
    <3>3. Abstract!IndexOf(job.at) = k - 1
      BY <1>3, <3>1, <3>2
    <3>4. Abstract!Insert(job.node, Abstract!IndexOf(job.at) + 1)
      BY <2>1, <2>4, <3>1, <3>3
    <3> QED BY <1>2, <2>8, <3>4 DEF Abstract!Effect, Abstract!NoRequest, NoJob
  <2>9. CASE job.op = "insert_before"
    <3>1. k \in 1 .. len
      BY <1>1, <1>4, <2>5, <2>9
    <3>2. q[k] = job.at
      BY <1>1, <1>4, <2>9, <3>1
    <3>3. Abstract!IndexOf(job.at) = k
      BY <1>3, <3>1, <3>2
    <3>4. Abstract!Insert(job.node, Abstract!IndexOf(job.at))
      BY <2>1, <2>4, <3>3
    <3> QED BY <1>2, <2>9, <3>4 DEF Abstract!Effect, Abstract!NoRequest, NoJob
  <2>10. CASE job.op = "enqueue"
    <3>1. k \in 1 .. (Len(q) + 1)
      BY <1>1, <2>5
    <3>2. ASSUME NEW i \in 1 .. (k - 1) PROVE Priority[q[i]] >= Priority[job.node]
      <4>1. i \in 1 .. len /\ i + 1 \in 2 .. k
        BY <1>1, <2>5
      <4> QED BY <1>1, <1>4, <2>10, <4>1
    <3>3. ASSUME k <= Len(q) PROVE Priority[q[k]] < Priority[job.node]
      <4>1. k \in 1 .. len /\ k + 1 < Len(s)
        BY <1>1, <2>5, <3>3
      <4> QED BY <1>1, <1>4, <2>10, <4>1
    <3>4. Abstract!Insert(job.node, k)
      BY <2>1, <2>4
    <3> HIDE DEF q
    <3>5. Abstract!Enqueued(job.node)
      BY <3>1, <3>2, <3>3, <3>4 DEF Abstract!Enqueued, q
    <3> QED BY <1>2, <2>10, <3>5 DEF Abstract!Effect, Abstract!NoRequest, NoJob
  <2> QED BY <1>4, <2>6, <2>7, <2>8, <2>9, <2>10
<1>5. ASSUME job.op \in {"remove", "shift", "pop"},
             NEW k \in 2 .. (Len(s) - 1),
             t = Without(s, k),
             job.op = "remove" => s[k] = job.node,
             job.op = "shift" => k = 2,
             job.op = "pop" => k = Len(s) - 1
      PROVE  Abstract!Effect
  <2>1. Forward' = SubSeq(q, 1, (k - 1) - 1) \o SubSeq(q, (k - 1) + 1, Len(q))
    BY <1>5, InnerWithout
  <2>2. Abstract!Delete(k - 1)
    BY <2>1 DEF Abstract!Delete
  <2>3. k - 1 \in 1 .. len /\ (k - 1) + 1 = k
    BY <1>1
  <2>4. CASE job.op = "remove"
    <3>1. q[k - 1] = job.node
      BY <1>1, <1>5, <2>3, <2>4
    <3>2. Abstract!IndexOf(job.node) = k - 1
      BY <1>3, <2>3, <3>1
    <3>3. Abstract!Delete(Abstract!IndexOf(job.node))
      BY <2>2, <3>2
    <3> QED BY <1>2, <2>4, <3>3 DEF Abstract!Effect, Abstract!NoRequest, NoJob
  <2>5. CASE job.op = "shift"
    <3>1. Abstract!Delete(1)
      BY <1>5, <2>2, <2>5
    <3> QED BY <1>2, <2>5, <3>1 DEF Abstract!Effect, Abstract!NoRequest, NoJob
  <2>6. CASE job.op = "pop"
    <3>1. k - 1 = Len(q)
      BY <1>1, <1>5, <2>6
    <3>2. Abstract!Delete(Len(q))
      BY <2>2, <3>1
    <3> QED BY <1>2, <2>6, <3>2 DEF Abstract!Effect, Abstract!NoRequest, NoJob
  <2> QED BY <1>5, <2>4, <2>5, <2>6
<1> QED BY <1>4, <1>5 DEF Asked

\* A call is a call of the sequence.
LEMMA CallImplements ==
    ASSUME ListInv, todo = << >>, NEW s, Called(s)
    PROVE  Abstract!Next
<1> DEFINE r == job'
<1>1. /\ UNCHANGED <<next, prev>> /\ Unnoticed' /\ Proper(r)
  BY DEF Called
<1>2. ~Unnoticed
  BY DEF Unnoticed
<1>3. Forward' = Forward
  BY <1>1 DEF Forward
<1>4. Abstract!Listed = Listed
  BY DEF Abstract!Listed, Listed
<1>5. Listed \subseteq Nodes /\ Unlisted \subseteq Nodes /\ \A n \in Unlisted : n \notin Listed
  <2>1. PICK u, v : Between(u, v)
    BY DEF ListInv
  <2>2. Forward \in Seq(Nodes)
    BY <2>1, ForwardIsPath DEF Between, ListInv, Typed
  <2>3. Listed \subseteq Nodes
    BY <2>2 DEF Listed
  <2> QED BY <2>3 DEF Unlisted
<1> HIDE DEF r
<1>6. r \in Abstract!Requests /\ Abstract!Legal(r)
  <2>1. CASE /\ r.op \in {"unshift", "push", "enqueue"}
             /\ r = [op |-> r.op, node |-> r.node] /\ r.node \in Unlisted
    <3>1. r.node \in Nodes /\ r.node \notin Listed
      BY <1>5, <2>1
    <3>2. r \in [op : {"unshift", "push", "enqueue", "remove"}, node : Nodes]
      BY <2>1, <3>1
    <3>3. Abstract!Legal(r)
      BY <1>4, <2>1, <3>1 DEF Abstract!Legal
    <3> QED BY <3>2, <3>3 DEF Abstract!Requests
  <2>2. CASE /\ r.op \in {"insert_after", "insert_before"}
             /\ r = [op |-> r.op, node |-> r.node, at |-> r.at]
             /\ r.node \in Unlisted /\ r.at \in Listed
    <3>1. r.node \in Nodes /\ r.node \notin Listed /\ r.at \in Nodes
      BY <1>5, <2>2
    <3>2. r \in [op : {"insert_after", "insert_before"}, node : Nodes, at : Nodes]
      BY <2>2, <3>1
    <3>3. Abstract!Legal(r)
      BY <1>4, <2>2, <3>1 DEF Abstract!Legal
    <3> QED BY <3>2, <3>3 DEF Abstract!Requests
  <2>3. CASE /\ r.op = "remove"
             /\ r = [op |-> r.op, node |-> r.node] /\ r.node \in Listed
    <3>1. r.node \in Nodes
      BY <1>5, <2>3
    <3>2. r \in [op : {"unshift", "push", "enqueue", "remove"}, node : Nodes]
      BY <2>3, <3>1
    <3>3. Abstract!Legal(r)
      BY <1>4, <2>3 DEF Abstract!Legal
    <3> QED BY <3>2, <3>3 DEF Abstract!Requests
  <2>4. CASE /\ r.op \in {"shift", "pop"}
             /\ r = [op |-> r.op] /\ Forward # << >>
    <3>1. r \in [op : {"shift", "pop"}]
      BY <2>4
    <3>2. Abstract!Legal(r)
      BY <2>4 DEF Abstract!Legal
    <3> QED BY <3>1, <3>2 DEF Abstract!Requests
  <2> QED BY <1>1, <2>1, <2>2, <2>3, <2>4 DEF Proper
<1>7. Abstract!Call(r)
  BY <1>1, <1>2, <1>3, <1>6 DEF Abstract!Call, Abstract!NoRequest, NoJob, r
<1>8. PICK c : c = r
  OBVIOUS
<1>9. c \in Abstract!Requests /\ Abstract!Call(c)
  BY <1>6, <1>7, <1>8
<1> QED BY <1>9 DEF Abstract!Next

\* A store is what was asked taking effect, or nothing that walkers notice.
LEMMA StoreImplements ==
    ASSUME ListInv, Store
    PROVE  Abstract!Effect \/ UNCHANGED Abstract!listVars
<1>1. PICK s, t : Between(s, t)
  BY DEF ListInv
<1>2. Forward = Inner(s) /\ Path(s, HEAD, TAIL) /\ Path(t, HEAD, TAIL)
  BY <1>1, BetweenForward DEF Between
<1>3. next' \in [Linked -> Linked \cup {NONE}]
  BY StoreFacts DEF ListInv, Typed
<1>4. ASSUME NEW u, Path(u, HEAD, TAIL), Follows(next, u)' PROVE Forward' = Inner(u)
  <2>1. Chain(next', HEAD, TAIL) = [i \in 1 .. (Len(u) - 2) |-> u[i + 1]]
    <3>1. \A i \in 1 .. (Len(u) - 1) : next'[u[i]] = u[i + 1]
      BY <1>4 DEF Follows
    <3>2. PICK link : link = next'
      OBVIOUS
    <3>3. link \in [Linked -> Linked \cup {NONE}] /\ Follows(link, u)
      BY <1>3, <3>1, <3>2 DEF Follows
    <3>4. Chain(link, HEAD, TAIL) = [i \in 1 .. (Len(u) - 2) |-> u[i + 1]]
      BY <1>4, <3>3, PathChain
    <3> QED BY <3>2, <3>4
  <2> QED BY <2>1 DEF Forward, Inner
<1>5. CASE todo[1].link = "next" /\ ~Prepares(todo[1])
  <2>1. Between(t, t)' /\ Unnoticed /\ ~Unnoticed'
    BY <1>1, <1>5, NoticedStore
  <2>2. Forward' = Inner(t)
    BY <1>2, <1>4, <2>1 DEF Between
  <2>3. Asked(job, s, t)
    BY <1>1, <2>1 DEF Between, Promised
  <2> QED BY <1>2, <2>1, <2>2, <2>3, AskedIsEffect
<1>6. CASE ~(todo[1].link = "next" /\ ~Prepares(todo[1]))
  <2>1. Between(s, t)' /\ (Unnoticed' <=> Unnoticed) /\ (Unnoticed => job' = job)
    BY <1>1, <1>6, QuietStore
  <2>2. Forward' = Forward
    BY <1>2, <1>4, <2>1 DEF Between
  <2>3. (IF Unnoticed' THEN job' ELSE NoJob) = IF Unnoticed THEN job ELSE NoJob
    BY <2>1
  <2>4. NoJob' = NoJob
    BY DEF NoJob
  <2> QED BY <2>2, <2>3, <2>4 DEF Abstract!listVars
<1> QED BY <1>5, <1>6

\* Every step of a list is a step of the sequence or none.
LEMMA StepImplements == ListInv /\ [Next]_vars => [Abstract!Next]_Abstract!listVars
<1> SUFFICES ASSUME ListInv, [Next]_vars
             PROVE  Abstract!Next \/ UNCHANGED Abstract!listVars
  OBVIOUS
<1>1. CASE UNCHANGED vars
  BY <1>1 DEF vars, Abstract!listVars, Forward, Unnoticed, NoJob
<1>2. CASE Store
  BY <1>2, StoreImplements DEF Abstract!Next
<1>3. CASE /\ todo = << >>
           /\ Unshift \/ Push \/ InsertAfter \/ InsertBefore \/ Enqueue \/ Remove \/ Shift \/ Pop
  <2>1. PICK s : Called(s)
    BY <1>3, CallPromises
  <2> QED BY <1>3, <2>1, CallImplements
<1> QED BY <1>1, <1>2, <1>3 DEF Next

\* To walkers from the head every operation of a list, enqueue's place by
\* priority included, is one instantaneous change of a sequence, between its
\* call and its return.
THEOREM ListImplementsSequence == Spec => Implements
<1> QED BY InitImplements, StepImplements, ListInvariant, PTL DEF Spec, Implements, Abstract!Spec
=============================================================================
