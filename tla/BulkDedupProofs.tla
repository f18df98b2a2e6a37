-------------------------- MODULE BulkDedupProofs --------------------------
(* Proofs about BulkDedup for any batch, any names and any likeness: the   *)
(* pool, the forest, what the passes agree on, and the ends of what is     *)
(* saved.                                                                  *)
EXTENDS BulkDedup, FiniteSetTheorems, WellFoundedInduction, TLAPS

(* A bounded function takes its greatest value somewhere.                  *)
LEMMA Greatest ==
    ASSUME NEW B \in Nat, NEW S, S # {}, NEW h \in [S -> 0..B]
    PROVE  \E d \in S : \A e \in S : h[e] <= h[d]
<1> DEFINE R == {ss \in Nat \X Nat : ss[1] < ss[2]}
           T == {B - h[d] : d \in S}
<1>1. IsWellFoundedOn(R, Nat)
  BY NatLessThanWellFounded DEF OpToRel
<1>2. T \subseteq Nat /\ T # {}
  OBVIOUS
<1>3. PICK t \in T : \A u \in T : <<u, t>> \notin R
  <2> HIDE DEF R, T
  <2>1. QED  BY <1>1, <1>2, WFMin
<1>4. PICK d \in S : t = B - h[d]
  OBVIOUS
<1>5. ASSUME NEW e \in S  PROVE h[e] <= h[d]
  <2>1. B - h[e] \in T /\ B - h[e] \in Nat /\ t \in Nat
    BY <1>2
  <2>2. ~(B - h[e] < t)
    BY <2>1, <1>3
  <2>3. h[e] \in 0..B /\ h[d] \in 0..B
    OBVIOUS
  <2>4. QED  BY <2>2, <2>3, <1>4
<1>6. QED  BY <1>5

(* Of nodes that are alike at all, one is most alike.                      *)
LEMMA MostAlike ==
    ASSUME BulkAssumption, name \in [Node -> Name], NEW n \in Node, NEW S \in SUBSET Node,
           NEW c \in S, Likeness[<<name[n], name[c]>>] > 0
    PROVE  Alike(n, S) # {}
<1> DEFINE h == [d \in S |-> Likeness[<<name[n], name[d]>>]]
<1>1. Same \in Nat /\ h \in [S -> 0..Same]
  BY DEF BulkAssumption
<1>2. PICK d \in S : \A e \in S : h[e] <= h[d]
  <2> HIDE DEF h
  <2>1. QED  BY <1>1, Greatest
<1>3. h[c] <= h[d] /\ h[c] \in 0..Same /\ h[d] \in 0..Same
  BY <1>1, <1>2
<1>4. h[c] > 0
  OBVIOUS
<1>5. h[d] > 0
  <2>1. \A x, y \in Nat : x <= y /\ x > 0 => y > 0
    OBVIOUS
  <2>2. h[c] \in Nat /\ h[d] \in Nat
    BY <1>1, <1>3
  <2> HIDE DEF h
  <2>3. QED  BY <1>3, <1>4, <2>1, <2>2
<1>6. d \in Alike(n, S)
  BY <1>2, <1>5 DEF Alike
<1>7. QED  BY <1>6
-----------------------------------------------------------------------------
(* The state of the second pass.  What a duplicate was recognised by stays *)
(* in the pool, so it is recognised again if the node comes up again.      *)
Recognised(n, P, nm) ==
    \/ \E c \in P : nm[c] = nm[n]
    \/ nm[n] \notin Short /\ \E c \in P : Likeness[<<nm[n], nm[c]>>] > 0

Known(p, P, nm, first) ==
    \/ p[1] \in ExtractedNode /\ p[2] = first[p[1]]
    \/ p[1] \notin P /\ Recognised(p[1], P, nm) /\ p[2] \in P

PoolTypeOK ==
    /\ name \in [Node -> Name]
    /\ resolved \in [ExtractedNode -> Node \cup {NoNode}]
    /\ pool \in Seq(Node)
    /\ seen \in 0..Len(Extracted)
    /\ pairs \in Seq(Node \X Node)
    /\ phase = "first" => pool = <<>> /\ pairs = <<>>
    /\ phase # "first" => \A n \in ExtractedNode : resolved[n] \in Node

PairsKnown == \A i \in DOMAIN pairs : Known(pairs[i], Canonicals, name, resolved)

PoolInv == PoolTypeOK /\ OneCanonicalPerName /\ PairsKnown

LEMMA PoolInit == BulkAssumption /\ Init => PoolInv
  BY DEF BulkAssumption, Init, PoolInv, PoolTypeOK, OneCanonicalPerName, PairsKnown

(* A known pair stays known while the pool grows beside its source.        *)
LEMMA StaysKnown ==
    ASSUME NEW p, NEW P, NEW Q, NEW nm, NEW first, Known(p, P, nm, first),
           P \subseteq Q, p[1] \in Q => p[1] \in P
    PROVE  Known(p, Q, nm, first)
  BY DEF Known, Recognised

(* Steps that leave the pool and the resolved nodes alone.                 *)
LEMMA PoolKept ==
    ASSUME PoolInv, UNCHANGED <<name, resolved, pool, seen, pairs>>,
           phase = phase' \/ (phase # "first" /\ phase' # "first")
    PROVE  PoolInv'
  BY DEF PoolInv, PoolTypeOK, OneCanonicalPerName, PairsKnown, Canonicals

LEMMA FirstPassPool ==
    ASSUME BulkAssumption, PoolInv, NEW e \in Episode, FirstPass(e)
    PROVE  PoolInv'
<1>1. resolved' \in [ExtractedNode -> Node \cup {NoNode}]
  BY DEF FirstPass, NodesOf, PoolInv, PoolTypeOK
<1>2. PoolTypeOK'
  BY <1>1 DEF FirstPass, PoolInv, PoolTypeOK
<1>3. OneCanonicalPerName'
  BY DEF FirstPass, PoolInv, OneCanonicalPerName
<1>4. PairsKnown'
  BY DEF FirstPass, PoolInv, PoolTypeOK, PairsKnown
<1>5. QED  BY <1>2, <1>3, <1>4 DEF PoolInv

LEMMA StartPoolPool ==
    ASSUME BulkAssumption, PoolInv, StartPool
    PROVE  PoolInv'
<1>1. \A n \in ExtractedNode : resolved[n] \in Node
  BY DEF StartPool, PoolInv, PoolTypeOK
<1>2. \A i \in DOMAIN Extracted : Extracted[i] \in ExtractedNode /\ ExtractedNode \subseteq Node
  BY DEF ExtractedNode, Range, Node
<1>3. pairs' \in Seq(Node \X Node)
  BY <1>1, <1>2 DEF StartPool, BulkAssumption
<1>4. PoolTypeOK'
  BY <1>1, <1>3 DEF StartPool, PoolInv, PoolTypeOK
<1>5. OneCanonicalPerName'
  BY DEF StartPool, PoolInv, OneCanonicalPerName
<1>6. PairsKnown'
  BY <1>2 DEF StartPool, PairsKnown, Known
<1>7. QED  BY <1>4, <1>5, <1>6 DEF PoolInv

(* A resolved node that has a canonical one is no canonical one itself.    *)
LEMMA DuplicateIsNot ==
    ASSUME PoolInv, NEW n \in Node, NEW c \in Canonicals, c # n,
           \/ c \in Namesakes(n, Canonicals)
           \/ Namesakes(n, Canonicals) = {}
    PROVE  n \notin Canonicals
<1>1. SUFFICES ASSUME n \in Canonicals  PROVE FALSE
  OBVIOUS
<1>2. n \in Namesakes(n, Canonicals)
  BY <1>1 DEF Namesakes
<1>3. c \in Namesakes(n, Canonicals)
  BY <1>2
<1>4. PICK i \in DOMAIN pool : pool[i] = n
  BY <1>1 DEF Canonicals, Range
<1>5. PICK k \in DOMAIN pool : pool[k] = c
  BY DEF Canonicals, Range
<1>6. name[pool[i]] = name[pool[k]]
  BY <1>3, <1>4, <1>5 DEF Namesakes
<1>7. i = k
  BY <1>6 DEF PoolInv, OneCanonicalPerName
<1>8. QED  BY <1>4, <1>5, <1>7

LEMMA DuplicatePool ==
    ASSUME BulkAssumption, PoolInv, NEW n \in Node, NEW c \in Canonicals, c \in Node,
           Recognised(n, Canonicals, name), c # n => n \notin Canonicals,
           Duplicate(n, c), UNCHANGED <<phase, name, resolved>>, seen' \in 0..Len(Extracted),
           phase # "first"
    PROVE  PoolInv'
<1>1. pairs' \in Seq(Node \X Node)
  BY DEF Duplicate, PoolInv, PoolTypeOK
<1>2. PoolTypeOK'
  BY <1>1 DEF Duplicate, PoolInv, PoolTypeOK
<1>3. OneCanonicalPerName'
  BY DEF Duplicate, PoolInv, OneCanonicalPerName
<1>4. Canonicals' = Canonicals
  BY DEF Canonicals, Duplicate
<1>5. ASSUME NEW i \in DOMAIN pairs'
      PROVE  Known(pairs'[i], Canonicals, name, resolved)
  <2>1. CASE i \in DOMAIN pairs
    <3>1. pairs'[i] = pairs[i]
      BY <2>1 DEF Duplicate, PoolInv, PoolTypeOK
    <3>2. QED  BY <2>1, <3>1 DEF PoolInv, PairsKnown
  <2>2. CASE i \notin DOMAIN pairs
    <3>1. c # n /\ pairs'[i] = <<n, c>>
      BY <2>2 DEF Duplicate, PoolInv, PoolTypeOK
    <3>2. QED  BY <3>1 DEF Known
  <2>3. QED  BY <2>1, <2>2
<1>6. PairsKnown'
  BY <1>4, <1>5 DEF PairsKnown
<1>7. QED  BY <1>2, <1>3, <1>6 DEF PoolInv

LEMMA CanonicalPool ==
    ASSUME BulkAssumption, PoolInv, NEW n \in Node, ~ Recognised(n, Canonicals, name),
           pool' = Append(pool, n), UNCHANGED <<phase, name, resolved, pairs>>,
           seen' \in 0..Len(Extracted), phase # "first"
    PROVE  PoolInv'
<1>1. pool \in Seq(Node) /\ pool' \in Seq(Node)
  BY DEF PoolInv, PoolTypeOK
<1>2. PoolTypeOK'
  BY <1>1 DEF PoolInv, PoolTypeOK
<1>3. /\ DOMAIN pool' = DOMAIN pool \cup {Len(pool) + 1}
      /\ \A i \in DOMAIN pool : pool'[i] = pool[i]
      /\ pool'[Len(pool) + 1] = n
  BY <1>1
<1>4. Canonicals' = Canonicals \cup {n}
  BY <1>3 DEF Canonicals, Range
<1>5. \A i \in DOMAIN pool : name[pool[i]] # name[n]
  BY DEF Recognised, Canonicals, Range
<1>6. OneCanonicalPerName'
  BY <1>3, <1>5 DEF PoolInv, OneCanonicalPerName
<1>7. ASSUME NEW i \in DOMAIN pairs'
      PROVE  Known(pairs'[i], Canonicals', name, resolved)
  <2>1. Known(pairs[i], Canonicals, name, resolved)
    BY DEF PoolInv, PairsKnown
  <2>2. CASE pairs[i][1] = n
    BY <2>1, <2>2 DEF Known
  <2>3. CASE pairs[i][1] # n
    BY <2>1, <2>3, <1>4, StaysKnown
  <2>4. QED  BY <2>2, <2>3
<1>8. PairsKnown'
  BY <1>7 DEF PairsKnown
<1>9. QED  BY <1>2, <1>6, <1>8 DEF PoolInv

LEMMA SecondPassPool ==
    ASSUME BulkAssumption, PoolInv, SecondPass
    PROVE  PoolInv'
<1> DEFINE n == resolved[Extracted[seen + 1]]
<1>1. n \in Node
  <2>1. seen + 1 \in DOMAIN Extracted
    BY DEF SecondPass, PoolInv, PoolTypeOK, BulkAssumption
  <2>2. Extracted[seen + 1] \in ExtractedNode
    BY <2>1 DEF BulkAssumption
  <2>3. QED  BY <2>2 DEF SecondPass, PoolInv, PoolTypeOK
<1>2. seen' \in 0..Len(Extracted)
  BY DEF SecondPass, PoolInv, PoolTypeOK, BulkAssumption
<1>3. phase # "first" /\ UNCHANGED <<phase, name, resolved>>
  BY DEF SecondPass
<1>4. \A i \in DOMAIN pool : pool[i] \in Node
  BY DEF PoolInv, PoolTypeOK
<1>5. Canonicals \subseteq Node
  BY <1>4 DEF Canonicals, Range
<1>6. name \in [Node -> Name]
  BY DEF PoolInv, PoolTypeOK
<1>7. ASSUME NEW c \in Namesakes(n, Canonicals), Duplicate(n, c)  PROVE PoolInv'
  <2>1. c \in Canonicals /\ c \in Node /\ name[c] = name[n]
    BY <1>5, <1>7 DEF Namesakes
  <2>2. Recognised(n, Canonicals, name)
    BY <2>1 DEF Recognised
  <2>3. c # n => n \notin Canonicals
    <3> HIDE DEF n
    <3>1. QED  BY <1>1, <1>7, <2>1, DuplicateIsNot
  <2> HIDE DEF n
  <2>4. QED  BY <1>1, <1>2, <1>3, <1>7, <2>1, <2>2, <2>3, DuplicatePool
<1>8. ASSUME Namesakes(n, Canonicals) = {}, name[n] \notin Short,
             NEW c \in Alike(n, Canonicals), Duplicate(n, c)
      PROVE  PoolInv'
  <2>1. c \in Canonicals /\ c \in Node /\ Likeness[<<name[n], name[c]>>] > 0
    BY <1>5, <1>8 DEF Alike
  <2>2. Recognised(n, Canonicals, name)
    BY <2>1, <1>8 DEF Recognised
  <2>3. c # n => n \notin Canonicals
    <3> HIDE DEF n
    <3>1. QED  BY <1>1, <1>8, <2>1, DuplicateIsNot
  <2> HIDE DEF n
  <2>4. QED  BY <1>1, <1>2, <1>3, <1>8, <2>1, <2>2, <2>3, DuplicatePool
<1>9. ASSUME Namesakes(n, Canonicals) = {}, name[n] \in Short \/ Alike(n, Canonicals) = {},
             pool' = Append(pool, n), UNCHANGED pairs
      PROVE  PoolInv'
  <2>1. \A c \in Canonicals : name[c] # name[n]
    BY <1>9 DEF Namesakes
  <2>2. ASSUME NEW c \in Canonicals, Likeness[<<name[n], name[c]>>] > 0, name[n] \notin Short
        PROVE  FALSE
    <3>1. Alike(n, Canonicals) = {}
      BY <1>9, <2>2
    <3> HIDE DEF n
    <3>2. QED  BY <1>1, <1>5, <1>6, <2>2, <3>1, MostAlike
  <2>3. ~ Recognised(n, Canonicals, name)
    BY <2>1, <2>2 DEF Recognised
  <2> HIDE DEF n
  <2>4. QED  BY <1>1, <1>2, <1>3, <1>9, <2>3, CanonicalPool
<1>10. QED  BY <1>7, <1>8, <1>9 DEF SecondPass

LEMMA UnionPool ==
    ASSUME PoolInv, Union
    PROVE  PoolInv'
<1>1. pairs \in Seq(Node \X Node) /\ pairs # <<>> /\ pairs' = Tail(pairs)
  BY DEF PoolInv, PoolTypeOK, Union
<1>2. /\ pairs' \in Seq(Node \X Node)
      /\ \A i \in DOMAIN pairs' : i + 1 \in DOMAIN pairs /\ pairs'[i] = pairs[i + 1]
  BY <1>1
<1>3. UNCHANGED <<phase, name, resolved, pool, seen>> /\ phase # "first"
  BY DEF Union
<1>4. PoolTypeOK'
  BY <1>2, <1>3 DEF PoolInv, PoolTypeOK
<1>5. OneCanonicalPerName'
  BY <1>3 DEF PoolInv, OneCanonicalPerName
<1>6. PairsKnown'
  BY <1>2, <1>3 DEF PoolInv, PairsKnown, Canonicals
<1>7. QED  BY <1>4, <1>5, <1>6 DEF PoolInv

LEMMA PoolNext == BulkAssumption /\ PoolInv /\ [Next]_vars => PoolInv'
<1> SUFFICES ASSUME BulkAssumption, PoolInv, [Next]_vars  PROVE PoolInv'
  OBVIOUS
<1>1. ASSUME NEW e \in Episode, FirstPass(e)  PROVE PoolInv'
  BY <1>1, FirstPassPool
<1>2. CASE StartPool
  BY <1>2, StartPoolPool
<1>3. CASE SecondPass
  BY <1>3, SecondPassPool
<1>4. CASE Union
  BY <1>4, UnionPool
<1>5. CASE MapNodes
  BY <1>5, PoolKept DEF MapNodes
<1>6. ASSUME NEW f \in Fact, ResolveFact(f)  PROVE PoolInv'
  BY <1>6, PoolKept DEF ResolveFact, nodeVars
<1>7. CASE KeepFacts
  BY <1>7, PoolKept DEF KeepFacts, nodeVars
<1>8. ASSUME NEW e \in Episode, ResolveAgain(e)  PROVE PoolInv'
  BY <1>8, PoolKept DEF ResolveAgain, nodeVars
<1>9. CASE Save
  BY <1>9, PoolKept DEF Save, nodeVars
<1>10. CASE UNCHANGED vars
  BY <1>10, PoolKept DEF vars, nodeVars
<1>11. QED
  BY <1>1, <1>2, <1>3, <1>4, <1>5, <1>6, <1>7, <1>8, <1>9, <1>10 DEF Next, Done

LEMMA PoolAlways == Spec => []PoolInv
  BY BulkAssumption, PoolInit, PoolNext, PTL DEF Spec

(* dedupe_nodes_bulk never has two canonical nodes of one name, and what   *)
(* was a duplicate in the second pass never becomes canonical, however     *)
(* often the node comes up and however the pool has grown meanwhile.       *)
THEOREM PoolStaysSound == Spec => []PoolSound
<1>1. PoolInv => OneCanonicalPerName
  BY DEF PoolInv
<1>2. PoolInv => DuplicatesStayOut
  BY DEF PoolInv, PairsKnown, Known, DuplicatesStayOut
<1>3. QED  BY <1>1, <1>2, PoolAlways, PTL DEF PoolSound
-----------------------------------------------------------------------------
(* Walks in the forest.  Those of find are as long as there are nodes; the *)
(* least number at which a claim about them fails is ruled out.            *)
LEMMA LeastNat ==
    ASSUME NEW T \in SUBSET Nat, T # {}
    PROVE  \E m \in T : \A y \in T : m <= y
<1> DEFINE R == {ss \in Nat \X Nat : ss[1] < ss[2]}
<1>1. IsWellFoundedOn(R, Nat)
  BY NatLessThanWellFounded DEF OpToRel
<1>2. PICK m \in T : \A y \in T : <<y, m>> \notin R
  <2> HIDE DEF R
  <2>1. QED  BY <1>1, WFMin
<1>3. ASSUME NEW y \in T, ~ (m <= y)  PROVE FALSE
  <2>1. m \in Nat /\ y \in Nat
    OBVIOUS
  <2>2. <<y, m>> \in R
    BY <1>3, <2>1
  <2>3. QED  BY <1>2, <2>2
<1>4. QED  BY <1>3

(* A set of numbers up to n that has 0, and what follows what it has.      *)
LEMMA AllUpTo ==
    ASSUME NEW n \in Nat, NEW T, 0 \in T, \A i \in 1..n : i - 1 \in T => i \in T
    PROVE  0..n \subseteq T
<1> DEFINE Bad == {i \in 0..n : i \notin T}
<1>1. SUFFICES ASSUME Bad # {}  PROVE FALSE
  OBVIOUS
<1>2. PICK m \in Bad : \A y \in Bad : m <= y
  <2>1. Bad \in SUBSET Nat
    OBVIOUS
  <2> HIDE DEF Bad
  <2>2. QED  BY <1>1, <2>1, LeastNat
<1>3. m \in 0..n /\ m \notin T /\ m # 0
  BY <1>2
<1>4. m \in 1..n /\ m - 1 \in 0..n /\ ~ (m <= m - 1)
  BY <1>3
<1>5. m - 1 \in T
  BY <1>2, <1>4
<1>6. QED  BY <1>3, <1>4, <1>5

Goes(g, f, x, n) ==
    /\ g = [i \in 0..n |-> g[i]]
    /\ \A i \in 0..n : g[i] = IF i = 0 THEN x ELSE f[g[i - 1]]

LEMMA GoesOn ==
    ASSUME NEW f, NEW x, NEW n \in Nat
    PROVE  \E g : Goes(g, f, x, n)
<1> DEFINE T == {i \in 0..n : \E g : Goes(g, f, x, i)}
<1>1. 0 \in T
  <2>1. Goes([i \in 0..0 |-> x], f, x, 0)
    BY DEF Goes
  <2>2. QED  BY <2>1
<1>2. ASSUME NEW m \in 1..n, m - 1 \in T  PROVE m \in T
  <2>1. PICK g : Goes(g, f, x, m - 1)
    BY <1>2
  <2> DEFINE k == [i \in 0..m |-> IF i = m THEN f[g[m - 1]] ELSE g[i]]
  <2>2. ASSUME NEW i \in 0..m  PROVE k[i] = IF i = 0 THEN x ELSE f[k[i - 1]]
    <3>1. CASE i = m
      BY <3>1
    <3>2. CASE i # m
      <4>1. i \in 0..m - 1 /\ (i # 0 => i - 1 \in 0..m /\ i - 1 # m)
        BY <3>2
      <4>2. k[i] = g[i] /\ (i # 0 => k[i - 1] = g[i - 1])
        BY <3>2, <4>1
      <4>3. g[i] = IF i = 0 THEN x ELSE f[g[i - 1]]
        BY <2>1, <4>1 DEF Goes
      <4> HIDE DEF k
      <4>4. QED  BY <4>2, <4>3
    <3>3. QED  BY <3>1, <3>2
  <2>3. k = [i \in 0..m |-> k[i]]
    OBVIOUS
  <2> HIDE DEF k
  <2>4. Goes(k, f, x, m)
    BY <2>2, <2>3 DEF Goes
  <2>5. QED  BY <2>4
<1>3. 0..n \subseteq T
  <2> HIDE DEF T
  <2>1. QED  BY <1>1, <1>2, AllUpTo
<1>4. QED  BY <1>3

Steps == Cardinality(Node)

LEMMA NodesCounted ==
           IsFiniteSet(Node) /\ Steps \in Nat
<1>1. PICK n \in Nat : DOMAIN Extracted = 1..n
  <2>1. Len(Extracted) \in Nat /\ DOMAIN Extracted = 1..Len(Extracted)
    BY BulkAssumption DEF BulkAssumption
  <2>2. QED  BY <2>1
<1>2. IsFiniteSet(1..n)
  BY FS_Interval
<1>3. Extracted \in Surjection(1..n, ExtractedNode)
  BY <1>1, BulkAssumption DEF BulkAssumption, Surjection, ExtractedNode, Range
<1>4. IsFiniteSet(ExtractedNode)
  BY <1>2, <1>3, FS_Surjection
<1>5. IsFiniteSet(Node)
  BY <1>4, FS_Union, BulkAssumption DEF BulkAssumption, Node
<1>6. QED  BY <1>5, FS_CardinalityType DEF Steps

LEMMA Walking ==
    ASSUME NEW f, NEW x
    PROVE  /\ Walk(f, x)[0] = x
           /\ \A i \in 1..Steps : Walk(f, x)[i] = f[Walk(f, x)[i - 1]]
<1> DEFINE W(g) == [i \in 0..Steps |-> IF i = 0 THEN x ELSE f[g[i - 1]]]
           at == CHOOSE g : g = W(g)
<1>1. Steps \in Nat
  BY NodesCounted
<1>2. PICK g : Goes(g, f, x, Steps)
  BY <1>1, GoesOn
<1>3. g = W(g)
  <2>1. [i \in 0..Steps |-> g[i]] = W(g)
    BY <1>2 DEF Goes
  <2>2. QED  BY <1>2, <2>1 DEF Goes
<1>4. at = W(at)
  <2> HIDE DEF W
  <2>1. QED  BY <1>3
<1>5. Walk(f, x) = at
  BY DEF Walk, Steps
<1>6. at[0] = x /\ \A i \in 1..Steps : at[i] = f[at[i - 1]]
  <2> HIDE DEF at
  <2>1. QED  BY <1>1, <1>4
<1>7. QED  BY <1>5, <1>6
-----------------------------------------------------------------------------
(* A forest: every node has a set of nodes that shrinks along each edge,   *)
(* so that a walk comes to an end before it has taken all its steps.       *)
Shrinks(f, A) ==
    \A n \in Node : n \in A[n] /\ (f[n] # n => A[f[n]] \subseteq A[n] \ {n})

(* What it has is of its own tree.                                         *)
OwnTree(f, A) == \A n \in Node : \A z \in A[n] : Root(f, z) = Root(f, n)

IsForest(f) ==
    /\ f \in [Node -> Node]
    /\ \E A \in [Node -> SUBSET Node] : Shrinks(f, A) /\ OwnTree(f, A)

LEMMA Fewer ==
    ASSUME NEW S \in SUBSET Node, NEW y \in S, NEW T \in SUBSET (S \ {y})
    PROVE  /\ Cardinality(S) \in Nat /\ Cardinality(T) \in Nat
           /\ Cardinality(T) + 1 <= Cardinality(S) /\ Cardinality(S) <= Steps
<1>1. IsFiniteSet(Node) /\ Steps \in Nat
  BY NodesCounted
<1>2. IsFiniteSet(S) /\ Cardinality(S) <= Steps
  BY <1>1, FS_Subset DEF Steps
<1>3. T \in SUBSET S /\ S # T
  OBVIOUS
<1>4. IsFiniteSet(T) /\ Cardinality(T) <= Cardinality(S) /\ Cardinality(T) # Cardinality(S)
  BY <1>2, <1>3, FS_Subset
<1>5. Cardinality(S) \in Nat /\ Cardinality(T) \in Nat
  BY <1>2, <1>4, FS_CardinalityType
<1>6. QED  BY <1>2, <1>4, <1>5

LEMMA Rooted ==
    ASSUME NEW f \in [Node -> Node], NEW A \in [Node -> SUBSET Node],
           Shrinks(f, A), NEW x \in Node
    PROVE  Root(f, x) \in Node /\ f[Root(f, x)] = Root(f, x) /\ A[Root(f, x)] \subseteq A[x]
<1> DEFINE w == Walk(f, x)
           size(n) == Cardinality(A[n])
           T == {i \in 0..Steps :
                   /\ w[i] \in Node /\ A[w[i]] \subseteq A[x]
                   /\ f[w[i]] = w[i] \/ size(w[i]) + i <= size(x)}
<1>1. Steps \in Nat
  BY NodesCounted
<1>2. w[0] = x /\ \A i \in 1..Steps : w[i] = f[w[i - 1]]
  BY Walking
<1>3. \A n \in Node : size(n) \in Nat /\ size(n) <= Steps
  <2>1. SUFFICES ASSUME NEW n \in Node  PROVE size(n) \in Nat /\ size(n) <= Steps
    OBVIOUS
  <2>2. A[n] \in SUBSET Node /\ n \in A[n] /\ {} \in SUBSET (A[n] \ {n})
    BY DEF Shrinks
  <2>3. QED  BY <2>2, Fewer
<1>4. 0 \in T
  BY <1>1, <1>2, <1>3
<1>5. ASSUME NEW i \in 1..Steps, i - 1 \in T  PROVE i \in T
  <2>1. PICK v \in Node : v = w[i - 1]
    BY <1>5
  <2>2. w[i] = f[v] /\ f[v] \in Node /\ A[v] \subseteq A[x]
    BY <1>2, <1>5, <2>1
  <2>3. CASE f[v] = v
    BY <1>5, <2>1, <2>2, <2>3
  <2>4. CASE f[v] # v
    <3>1. A[f[v]] \subseteq A[v] \ {v} /\ v \in A[v]
      BY <2>4 DEF Shrinks
    <3>2. size(f[v]) + 1 <= size(v)
      <4>1. A[v] \in SUBSET Node
        OBVIOUS
      <4>2. QED  BY <3>1, <4>1, Fewer
    <3>3. size(v) + (i - 1) <= size(x)
      BY <1>5, <2>1, <2>4
    <3>4. size(f[v]) \in Nat /\ size(v) \in Nat /\ size(x) \in Nat
      BY <1>3, <2>2
    <3>5. size(f[v]) + i <= size(x)
      <4> HIDE DEF size
      <4>1. QED  BY <3>2, <3>3, <3>4
    <3>6. A[f[v]] \subseteq A[x]
      BY <2>2, <3>1
    <3>7. QED  BY <2>2, <3>5, <3>6
  <2>5. QED  BY <2>3, <2>4
<1>6. Steps \in T
  <2>1. 0..Steps \subseteq T
    <3> HIDE DEF T
    <3>1. QED  BY <1>1, <1>4, <1>5, AllUpTo
  <2> HIDE DEF T
  <2>2. QED  BY <1>1, <2>1
<1>7. f[w[Steps]] = w[Steps]
  <2>1. SUFFICES ASSUME f[w[Steps]] # w[Steps]  PROVE FALSE
    OBVIOUS
  <2>2. PICK v \in Node : v = w[Steps]
    BY <1>6
  <2>3. size(v) + Steps <= size(x) /\ size(x) <= Steps /\ size(x) \in Nat /\ size(v) \in Nat
    BY <1>3, <1>6, <2>1, <2>2
  <2>4. size(v) = 0
    <3> HIDE DEF size
    <3>1. QED  BY <1>1, <2>3
  <2>5. v \in A[v] /\ A[v] \in SUBSET Node /\ {} \in SUBSET (A[v] \ {v})
    BY DEF Shrinks
  <2>6. Cardinality({}) + 1 <= size(v) /\ Cardinality({}) \in Nat
    BY <2>5, Fewer
  <2>7. QED  BY <2>4, <2>6
<1>8. Root(f, x) = w[Steps]
  BY DEF Root, Steps
<1>9. QED  BY <1>6, <1>7, <1>8

(* On a walk the root stays the same, and a root is its own.               *)
LEMMA FixedRoot ==
    ASSUME NEW f, NEW x, f[x] = x
    PROVE  Root(f, x) = x
<1> DEFINE T == {i \in 0..Steps : Walk(f, x)[i] = x}
<1>1. Steps \in Nat
  BY NodesCounted
<1>2. 0 \in T
  BY <1>1, Walking
<1>3. ASSUME NEW i \in 1..Steps, i - 1 \in T  PROVE i \in T
  BY <1>3, Walking
<1>4. 0..Steps \subseteq T
  <2> HIDE DEF T
  <2>1. QED  BY <1>1, <1>2, <1>3, AllUpTo
<1>5. QED  BY <1>1, <1>4 DEF Root, Steps

LEMMA NextOnWalk ==
    ASSUME NEW f, NEW x
    PROVE  Root(f, f[x]) = f[Root(f, x)]
<1> DEFINE T == {i \in 0..Steps : Walk(f, f[x])[i] = f[Walk(f, x)[i]]}
<1>1. Steps \in Nat
  BY NodesCounted
<1>2. 0 \in T
  BY <1>1, Walking
<1>3. ASSUME NEW i \in 1..Steps, i - 1 \in T  PROVE i \in T
  <2>1. Walk(f, f[x])[i] = f[Walk(f, f[x])[i - 1]] /\ Walk(f, x)[i] = f[Walk(f, x)[i - 1]]
    BY Walking
  <2>2. QED  BY <1>3, <2>1
<1>4. 0..Steps \subseteq T
  <2> HIDE DEF T
  <2>1. QED  BY <1>1, <1>2, <1>3, AllUpTo
<1>5. QED  BY <1>1, <1>4 DEF Root, Steps

LEMMA ForestRoots ==
    ASSUME NEW f, IsForest(f), NEW x \in Node
    PROVE  /\ f[x] \in Node /\ Root(f, x) \in Node /\ f[Root(f, x)] = Root(f, x)
           /\ Root(f, f[x]) = Root(f, x) /\ Root(f, Root(f, x)) = Root(f, x)
           /\ f[x] = x <=> Root(f, x) = x
<1>1. PICK A \in [Node -> SUBSET Node] : Shrinks(f, A)
  BY DEF IsForest
<1>2. f[x] \in Node /\ Root(f, x) \in Node /\ f[Root(f, x)] = Root(f, x)
  BY <1>1, Rooted DEF IsForest
<1>3. Root(f, f[x]) = Root(f, x)
  BY <1>2, NextOnWalk
<1>4. Root(f, Root(f, x)) = Root(f, x)
  BY <1>2, FixedRoot
<1>5. f[x] = x <=> Root(f, x) = x
  BY <1>2, FixedRoot
<1>6. QED  BY <1>2, <1>3, <1>4, <1>5

(* A node on the walk of x has the root of x.                              *)
LEMMA WalkKeepsRoot ==
    ASSUME NEW f, IsForest(f), NEW x \in Node, NEW k \in 0..Steps
    PROVE  Walk(f, x)[k] \in Node /\ Root(f, Walk(f, x)[k]) = Root(f, x)
<1> DEFINE T == {i \in 0..Steps : Walk(f, x)[i] \in Node /\ Root(f, Walk(f, x)[i]) = Root(f, x)}
<1>1. Steps \in Nat
  BY NodesCounted
<1>2. 0 \in T
  BY <1>1, Walking
<1>3. ASSUME NEW i \in 1..Steps, i - 1 \in T  PROVE i \in T
  <2>1. Walk(f, x)[i] = f[Walk(f, x)[i - 1]]
    BY Walking
  <2>2. QED  BY <1>3, <2>1, ForestRoots
<1>4. 0..Steps \subseteq T
  <2> HIDE DEF T
  <2>1. QED  BY <1>1, <1>2, <1>3, AllUpTo
<1>5. QED  BY <1>4

(* If every edge of g keeps to what c says and ends where c does not move, *)
(* c says the roots of g.                                                  *)
Leads(g, c) == \A y \in Node : c[g[y]] = c[y] /\ (g[y] = y => c[y] = y)

LEMMA RootsAre ==
    ASSUME NEW g \in [Node -> Node], NEW A \in [Node -> SUBSET Node], Shrinks(g, A),
           NEW c \in [Node -> Node], Leads(g, c), NEW x \in Node
    PROVE  Root(g, x) = c[x]
<1> DEFINE T == {i \in 0..Steps : Walk(g, x)[i] \in Node /\ c[Walk(g, x)[i]] = c[x]}
<1>1. Steps \in Nat
  BY NodesCounted
<1>2. 0 \in T
  BY <1>1, Walking
<1>3. ASSUME NEW i \in 1..Steps, i - 1 \in T  PROVE i \in T
  <2>1. Walk(g, x)[i] = g[Walk(g, x)[i - 1]]
    BY Walking
  <2>2. QED  BY <1>3, <2>1 DEF Leads
<1>4. 0..Steps \subseteq T
  <2> HIDE DEF T
  <2>1. QED  BY <1>1, <1>2, <1>3, AllUpTo
<1>5. Root(g, x) \in Node /\ c[Root(g, x)] = c[x]
  BY <1>1, <1>4 DEF Root, Steps
<1>6. g[Root(g, x)] = Root(g, x)
  BY Rooted
<1>7. QED  BY <1>5, <1>6 DEF Leads
-----------------------------------------------------------------------------
(* Compressing a path keeps the forest and its roots.                      *)
LEMMA ShortcutsKeepRoots ==
    ASSUME NEW f, IsForest(f), NEW g \in [Node -> Node],
           \A y \in Node : g[y] \in {f[y], Root(f, y)}
    PROVE  IsForest(g) /\ \A y \in Node : Root(g, y) = Root(f, y)
<1>1. PICK A \in [Node -> SUBSET Node] : Shrinks(f, A) /\ OwnTree(f, A)
  BY DEF IsForest
<1>2. ASSUME NEW y \in Node
      PROVE  y \in A[y] /\ (g[y] # y => A[g[y]] \subseteq A[y] \ {y})
  <2>1. y \in A[y]
    BY <1>1 DEF Shrinks
  <2>2. CASE g[y] = f[y]
    BY <1>1, <2>1, <2>2 DEF Shrinks
  <2>3. CASE g[y] = Root(f, y) /\ g[y] # y
    <3>1. f[y] # y /\ f[y] \in Node /\ Root(f, f[y]) = Root(f, y)
      BY <2>3, ForestRoots
    <3>2. A[f[y]] \subseteq A[y] \ {y}
      BY <1>1, <3>1 DEF Shrinks
    <3>3. A[Root(f, y)] \subseteq A[f[y]]
      BY <1>1, <3>1, Rooted DEF IsForest
    <3>4. QED  BY <2>1, <2>3, <3>2, <3>3
  <2>4. QED  BY <2>1, <2>2, <2>3
<1>3. Shrinks(g, A)
  BY <1>2 DEF Shrinks
<1> DEFINE stands == [y \in Node |-> Root(f, y)]
<1>4. Leads(g, stands)
  <2>1. SUFFICES ASSUME NEW y \in Node
                 PROVE  Root(f, g[y]) = Root(f, y) /\ (g[y] = y => Root(f, y) = y)
    BY DEF Leads
  <2>2. QED  BY ForestRoots
<1>5. ASSUME NEW y \in Node  PROVE Root(g, y) = stands[y]
  <2>0. stands \in [Node -> Node]
    BY ForestRoots
  <2> HIDE DEF stands
  <2>1. QED  BY <1>3, <1>4, <2>0, RootsAre
<1>6. \A y \in Node : Root(g, y) = Root(f, y)
  BY <1>5
<1>7. OwnTree(g, A)
  <2>1. SUFFICES ASSUME NEW y \in Node, NEW z \in A[y]  PROVE Root(g, z) = Root(g, y)
    BY DEF OwnTree
  <2>2. z \in Node
    OBVIOUS
  <2>3. Root(f, z) = Root(f, y)
    BY <1>1 DEF OwnTree
  <2>4. QED  BY <1>6, <2>2, <2>3
<1>8. QED  BY <1>3, <1>6, <1>7 DEF IsForest

LEMMA CompressKeepsRoots ==
    ASSUME NEW f, IsForest(f), NEW x \in Node
    PROVE  /\ IsForest(Compress(f, x))
           /\ \A y \in Node : Root(Compress(f, x), y) = Root(f, y)
<1> DEFINE g == Compress(f, x)
<1>1. ASSUME NEW y \in Node  PROVE g[y] \in Node /\ g[y] \in {f[y], Root(f, y)}
  <2>1. CASE \E i \in 0..Steps : y = Walk(f, x)[i]
    <3>1. Root(f, y) = Root(f, x)
      BY <2>1, WalkKeepsRoot
    <3>2. g[y] = Root(f, x)
      BY <2>1 DEF Compress, Steps
    <3>3. QED  BY <3>1, <3>2, ForestRoots
  <2>2. CASE ~ \E i \in 0..Steps : y = Walk(f, x)[i]
    <3>1. g[y] = f[y]
      BY <2>2 DEF Compress, Steps
    <3>2. QED  BY <3>1, ForestRoots
  <2>3. QED  BY <2>1, <2>2
<1>2. g = [y \in Node |-> g[y]]
  BY DEF Compress
<1> HIDE DEF g
<1>3. g \in [Node -> Node]
  BY <1>1, <1>2
<1>4. IsForest(g) /\ \A y \in Node : Root(g, y) = Root(f, y)
  BY <1>1, <1>3, ShortcutsKeepRoots
<1>5. QED  BY <1>4 DEF g

(* Hanging one root below another redirects all that had the first one.    *)
LEMMA HangBelow ==
    ASSUME NEW f, IsForest(f), NEW p \in Node, NEW r \in Node,
           Root(f, p) = p, Root(f, r) = r,
           NEW g \in [Node -> Node], g[p] = r, \A y \in Node : y # p => g[y] = f[y]
    PROVE  /\ IsForest(g)
           /\ \A y \in Node : Root(g, y) = IF Root(f, y) = p THEN r ELSE Root(f, y)
<1>1. f \in [Node -> Node] /\ f[p] = p /\ f[r] = r
  BY ForestRoots DEF IsForest
<1>2. CASE p = r
  <2>1. \A y \in Node : g[y] = f[y]
    BY <1>1, <1>2
  <2>2. g = f
    BY <1>1, <2>1
  <2>3. QED  BY <1>2, <2>2
<1>3. CASE p # r
  <2>1. PICK A \in [Node -> SUBSET Node] : Shrinks(f, A) /\ OwnTree(f, A)
    BY DEF IsForest
  <2> DEFINE B == [y \in Node |-> IF Root(f, y) = p THEN A[y] \cup A[r] ELSE A[y]]
             stands == [y \in Node |-> IF Root(f, y) = p THEN r ELSE Root(f, y)]
  <2>2. B \in [Node -> SUBSET Node]
    OBVIOUS
  <2>3. \A y \in Node : /\ Root(f, f[y]) = Root(f, y) /\ f[y] \in Node /\ stands[y] \in Node
                        /\ f[y] = y => Root(f, y) = y
    BY ForestRoots
  <2>4. ASSUME NEW y \in Node, NEW z \in B[y]
        PROVE  z \in Node /\ stands[z] = stands[y]
    <3>1. CASE z \in A[y]
      <4>1. z \in Node /\ Root(f, z) = Root(f, y)
        BY <2>1, <3>1 DEF OwnTree
      <4>2. QED  BY <4>1
    <3>2. CASE z \in A[r] /\ Root(f, y) = p
      <4>1. z \in Node /\ Root(f, z) = r
        BY <2>1, <3>2 DEF OwnTree
      <4>2. stands[z] = r /\ stands[y] = r
        BY <1>3, <3>2, <4>1
      <4>3. QED  BY <4>1, <4>2
    <3>3. QED  BY <2>4, <3>1, <3>2
  <2>5. ASSUME NEW y \in Node
        PROVE  y \in B[y] /\ (g[y] # y => B[g[y]] \subseteq B[y] \ {y})
    <3>1. y \in A[y] /\ r \in A[r]
      BY <2>1 DEF Shrinks
    <3>2. Root(f, y) # r => y \notin A[r]
      BY <2>1 DEF OwnTree
    <3>3. CASE y = p
      <4>1. B[g[y]] = A[r] /\ B[y] = A[p] \cup A[r]
        BY <1>3, <2>2, <3>3
      <4>2. p \notin A[r]
        BY <1>3, <3>2, <3>3
      <4>3. QED  BY <3>1, <3>3, <4>1, <4>2
    <3>4. CASE y # p /\ f[y] # y
      <4>1. A[f[y]] \subseteq A[y] \ {y} /\ g[y] = f[y]
        BY <2>1, <2>2, <3>4 DEF Shrinks
      <4>2. CASE Root(f, y) = p
        <5>1. B[g[y]] = A[f[y]] \cup A[r] /\ B[y] = A[y] \cup A[r]
          BY <2>3, <4>1, <4>2
        <5>2. QED  BY <1>3, <3>1, <3>2, <4>1, <4>2, <5>1
      <4>3. CASE Root(f, y) # p
        <5>1. B[g[y]] = A[f[y]] /\ B[y] = A[y]
          BY <2>3, <4>1, <4>3
        <5>2. QED  BY <3>1, <4>1, <5>1
      <4>4. QED  BY <4>2, <4>3
    <3>5. CASE y # p /\ f[y] = y
      BY <2>2, <3>1, <3>5
    <3>6. QED  BY <3>3, <3>4, <3>5
  <2>6. Leads(g, stands)
    <3>1. SUFFICES ASSUME NEW y \in Node  PROVE stands[g[y]] = stands[y] /\ (g[y] = y => stands[y] = y)
      BY DEF Leads
    <3>2. CASE y = p
      BY <1>3, <2>2, <3>2
    <3>3. CASE y # p
      BY <2>2, <2>3, <3>3
    <3>4. QED  BY <3>2, <3>3
  <2>12. stands \in [Node -> Node]
    BY <2>3
  <2> HIDE DEF B, stands
  <2>7. Shrinks(g, B)
    BY <2>5 DEF Shrinks
  <2>8. ASSUME NEW y \in Node  PROVE Root(g, y) = stands[y]
    BY <2>2, <2>6, <2>7, <2>12, RootsAre
  <2>9. ASSUME NEW y \in Node, NEW z \in B[y]  PROVE Root(g, z) = Root(g, y)
    <3>1. z \in Node /\ stands[z] = stands[y]
      BY <2>4
    <3>2. QED  BY <2>8, <3>1
  <2>10. IsForest(g)
    BY <2>2, <2>7, <2>9 DEF IsForest, OwnTree
  <2>11. QED  BY <2>8, <2>10 DEF stands
<1>4. QED  BY <1>2, <1>3

(* One pair, path compression and all, redirects what stands for its first *)
(* node.                                                                   *)
LEMMA HangRedirects ==
    ASSUME NEW f, IsForest(f), NEW s \in Node, NEW t \in Node
    PROVE  /\ IsForest(Hang(f, s, t))
           /\ \A y \in Node : Root(Hang(f, s, t), y) =
                                IF Root(f, y) = Root(f, s) THEN Root(f, t) ELSE Root(f, y)
<1> DEFINE e == Compress(f, t)
           g == Compress(e, s)
<1>1. IsForest(e) /\ \A y \in Node : Root(e, y) = Root(f, y)
  BY CompressKeepsRoots
<1>2. IsForest(g) /\ \A y \in Node : Root(g, y) = Root(e, y)
  <2> HIDE DEF e
  <2>1. QED  BY <1>1, CompressKeepsRoots
<1>3. \A y \in Node : Root(g, y) = Root(f, y)
  BY <1>1, <1>2
<1>4. Hang(f, s, t) = [g EXCEPT ![Root(g, s)] = Root(g, t)]
  BY DEF Hang
<1> HIDE DEF g, e
<1>5. Root(g, s) \in Node /\ Root(g, Root(g, s)) = Root(g, s)
      /\ Root(g, t) \in Node /\ Root(g, Root(g, t)) = Root(g, t)
  BY <1>2, ForestRoots
<1> DEFINE hung == Hang(f, s, t)
           low == Root(g, s)
           high == Root(g, t)
<1>6. IsForest(hung) /\ \A y \in Node : Root(hung, y) = IF Root(g, y) = low THEN high ELSE Root(g, y)
  <2>1. hung \in [Node -> Node] /\ hung[low] = high /\ \A y \in Node : y # low => hung[y] = g[y]
    BY <1>2, <1>4, <1>5 DEF IsForest
  <2>2. low \in Node /\ high \in Node /\ Root(g, low) = low /\ Root(g, high) = high
    BY <1>5
  <2> HIDE DEF hung, low, high
  <2>3. QED  BY <1>2, <2>1, <2>2, HangBelow
<1>7. QED  BY <1>3, <1>6

LEMMA ItselfIsForest ==
    ASSUME NEW f, f = [n \in Node |-> n]
    PROVE  IsForest(f) /\ \A n \in Node : Root(f, n) = n
<1>1. \A n \in Node : Root(f, n) = n
  BY FixedRoot
<1> DEFINE A == [n \in Node |-> {n}]
<1>2. A \in [Node -> SUBSET Node] /\ Shrinks(f, A)
  BY DEF Shrinks
<1>3. OwnTree(f, A)
  BY DEF OwnTree
<1>4. IsForest(f)
  <2> HIDE DEF A
  <2>1. QED  BY <1>2, <1>3 DEF IsForest
<1>5. QED  BY <1>1, <1>4
-----------------------------------------------------------------------------
(* The forest stands for the map: it is one all along, and nothing hangs   *)
(* below anything before every pair is found.                              *)
ForestInv ==
    /\ IsForest(parent)
    /\ phase = "first" \/ seen < Len(Extracted) => parent = [n \in Node |-> n]

LEMMA ForestInit == Init => ForestInv
  BY ItselfIsForest DEF Init, ForestInv

LEMMA UnionRedirects ==
    ASSUME PoolInv, ForestInv, Union
    PROVE  /\ pairs[1] \in Node \X Node /\ pairs[1][1] \in Node /\ pairs[1][2] \in Node
           /\ IsForest(parent')
           /\ \A y \in Node : Root(parent', y) =
                IF Root(parent, y) = Root(parent, pairs[1][1]) THEN Root(parent, pairs[1][2])
                ELSE Root(parent, y)
<1>1. pairs \in Seq(Node \X Node) /\ pairs # <<>>
  BY DEF PoolInv, PoolTypeOK, Union
<1>2. pairs[1] \in Node \X Node
  BY <1>1
<1>3. PICK s \in Node, t \in Node : s = pairs[1][1] /\ t = pairs[1][2]
  BY <1>2
<1>4. parent' = Hang(parent, s, t) /\ IsForest(parent)
  BY <1>3 DEF Union, ForestInv
<1>5. /\ IsForest(Hang(parent, s, t))
      /\ \A y \in Node : Root(Hang(parent, s, t), y) =
           IF Root(parent, y) = Root(parent, s) THEN Root(parent, t) ELSE Root(parent, y)
  BY <1>4, HangRedirects
<1>6. QED  BY <1>2, <1>3, <1>4, <1>5

LEMMA ForestNext == PoolInv /\ ForestInv /\ [Next]_vars => ForestInv'
<1> SUFFICES ASSUME PoolInv, ForestInv, [Next]_vars  PROVE ForestInv'
  OBVIOUS
<1>1. CASE Union
  BY <1>1, UnionRedirects DEF ForestInv, Union, PoolInv, PoolTypeOK
<1>2. CASE StartPool
  BY <1>2 DEF ForestInv, StartPool
<1>3. CASE SecondPass
  <2>1. parent' = parent /\ parent = [n \in Node |-> n]
    BY <1>3 DEF ForestInv, SecondPass
  <2>2. QED  BY <2>1 DEF ForestInv
<1>4. ASSUME NEW e \in Episode, FirstPass(e)  PROVE ForestInv'
  BY <1>4 DEF ForestInv, FirstPass
<1>5. CASE UNCHANGED <<parent, seen>> /\ phase # "first" /\ phase' # "first"
  BY <1>5 DEF ForestInv
<1>6. CASE UNCHANGED vars
  BY <1>6 DEF ForestInv, vars, nodeVars
<1>7. QED
  BY <1>1, <1>2, <1>3, <1>4, <1>5, <1>6 DEF Next, MapNodes, ResolveFact, KeepFacts, ResolveAgain,
     Save, Done, nodeVars

LEMMA ForestAlways == Spec => [](PoolInv /\ ForestInv)
<1>1. Init => ForestInv
  BY ForestInit
<1>2. PoolInv /\ ForestInv /\ [Next]_vars => ForestInv'
  BY ForestNext
<1>3. Init => PoolInv
  BY BulkAssumption, PoolInit
<1>4. PoolInv /\ [Next]_vars => PoolInv'
  BY BulkAssumption, PoolNext
<1>5. QED  BY <1>1, <1>2, <1>3, <1>4, PTL DEF Spec

LEMMA MapInit == Init => Map!Init
<1> SUFFICES ASSUME Init  PROVE Map!Init
  OBVIOUS
<1>1. parent = [n \in Node |-> n] /\ pairs = <<>>
  BY DEF Init
<1>2. \A n \in Node : Root(parent, n) = n
  BY <1>1, ItselfIsForest
<1>3. pairs \in Seq(Node \X Node)
  BY <1>1
<1>4. QED  BY <1>2, <1>3 DEF Map!Init, Map!Itself

(* More pairs are found while every node stands for itself.                *)
LEMMA MapFinds ==
    ASSUME parent = [n \in Node |-> n], parent' = parent, pairs' \in Seq(Node \X Node)
    PROVE  Map!Find
<1>1. \A n \in Node : Root(parent, n) = n
  BY ItselfIsForest
<1>2. QED  BY <1>1 DEF Map!Find, Map!Itself

LEMMA MapNext == (PoolInv /\ ForestInv) /\ (PoolInv /\ ForestInv)' /\ [Next]_vars => [Map!Next]_(Map!vars)
<1> SUFFICES ASSUME PoolInv, ForestInv, PoolInv', ForestInv', [Next]_vars
             PROVE  [Map!Next]_(Map!vars)
  OBVIOUS
<1>1. pairs' \in Seq(Node \X Node)
  BY DEF PoolInv, PoolTypeOK
<1>2. CASE StartPool
  <2>1. Map!Find
    BY <1>1, <1>2, MapFinds DEF StartPool, ForestInv
  <2>2. QED  BY <2>1 DEF Map!Next
<1>3. CASE SecondPass
  <2>1. Map!Find
    BY <1>1, <1>3, MapFinds DEF SecondPass, ForestInv
  <2>2. QED  BY <2>1 DEF Map!Next
<1>4. CASE Union
  <2> DEFINE now == [n \in Node |-> Root(parent, n)]
             then == [n \in Node |-> Root(parent', n)]
             s == pairs[1][1]
             t == pairs[1][2]
  <2>1. s \in Node /\ t \in Node
    BY <1>4, UnionRedirects
  <2>2. \A y \in Node : then[y] = IF now[y] = now[s] THEN now[t] ELSE now[y]
    BY <1>4, <2>1, UnionRedirects
  <2>3. then = [y \in Node |-> IF now[y] = now[s] THEN now[t] ELSE now[y]]
    <3>1. then = [y \in Node |-> then[y]]
      OBVIOUS
    <3> HIDE DEF now, then, s, t
    <3>2. QED  BY <2>2, <3>1
  <2>4. then = Map!Redirect(now, s, t)
    <3> HIDE DEF now, then, s, t
    <3>1. QED  BY <2>3 DEF Map!Redirect
  <2>5. Map!Apply
    BY <1>4, <2>4 DEF Map!Apply, Union
  <2>6. QED  BY <2>5 DEF Map!Next
<1>5. CASE UNCHANGED <<pairs, parent>>
  BY <1>5 DEF Map!vars
<1>6. QED
  BY <1>2, <1>3, <1>4, <1>5 DEF Next, MapNodes, FirstPass, ResolveFact, KeepFacts, ResolveAgain,
     Save, Done, vars, nodeVars

(* _build_directed_uuid_map computes the map it stands for: for any pairs  *)
(* in any order the root that find returns, over compressed paths, is what *)
(* redirecting one whole class after the other says.                       *)
THEOREM ForestIsTheMap == Spec => ImplementsMap
<1>1. Init => Map!Init
  BY MapInit
<1>2. (PoolInv /\ ForestInv) /\ (PoolInv /\ ForestInv)' /\ [Next]_vars => [Map!Next]_(Map!vars)
  BY MapNext
<1>3. QED  BY <1>1, <1>2, ForestAlways, PTL DEF Spec, ImplementsMap, Map!Spec
-----------------------------------------------------------------------------
(* What the extracted nodes were resolved to: themselves, or entities of   *)
(* the graph.                                                              *)
Taken == {resolved[n] : n \in ExtractedNode}

OwnOrGraph == \A n \in ExtractedNode : resolved[n] \in {n, NoNode} \cup GraphNode

(* A pair is of the first pass, or names a node of the second and a        *)
(* canonical one.                                                          *)
PairKinds == \A i \in DOMAIN pairs :
    \/ pairs[i][1] \in ExtractedNode /\ pairs[i][2] = resolved[pairs[i][1]]
    \/ pairs[i][1] \in Taken /\ pairs[i][2] \in Canonicals

(* A node that no node was resolved to has one pair, and nothing stands    *)
(* for it but itself as long as that is left.                              *)
OncePaired == \A i, k \in DOMAIN pairs :
    i # k /\ pairs[i][1] = pairs[k][1] => pairs[i][1] \in Taken

AloneTillThen == \A i \in DOMAIN pairs : pairs[i][1] \notin Taken =>
    \A y \in Node : Root(parent, y) = pairs[i][1] <=> y = pairs[i][1]

(* Canonical nodes come to stand for canonical ones.                       *)
CanonicalsStay == \A c \in Canonicals : c \in Taken /\ Root(parent, c) \in Canonicals

(* Two nodes that stand for the same, or will once the pairs are applied.  *)
Linked(x, c) ==
    \/ Root(parent, x) = Root(parent, c)
    \/ \E i \in DOMAIN pairs : pairs[i] = <<x, c>>

(* What the second pass has seen is linked to a canonical node, and to the *)
(* one of its name; a later namesake is recognised and does not become     *)
(* canonical.                                                              *)
Joins(x) ==
    /\ \E c \in Canonicals : Linked(x, c)
    /\ \A c \in Canonicals : name[c] = name[x] => Linked(x, c)
    /\ Recognised(x, Canonicals, name)

Merging ==
    /\ PairKinds /\ OncePaired /\ AloneTillThen /\ CanonicalsStay
    /\ \A n \in ExtractedNode : Linked(n, resolved[n])
    /\ \A i \in 1..seen : Joins(resolved[Extracted[i]])

MergeInv ==
    /\ PoolInv /\ ForestInv /\ OwnOrGraph
    /\ phase = "first" => seen = 0
    /\ phase = "second" => Merging
    /\ OneNodeForEach

(* The resolution picks the node itself or a candidate from the graph.     *)
LEMMA ResolvedToGraph ==
    ASSUME NEW nodes, NEW r, ResolveAll(nodes, r), NEW n \in nodes
    PROVE  r[n] \in {n} \cup GraphNode
<1>1. PICK candidates \in SUBSET GraphNode : \E byName \in Selections(candidates) :
        r[n] \in Resolutions(n, candidates, byName)
  BY DEF ResolveAll
<1>2. PICK byName \in Selections(candidates) : r[n] \in Resolutions(n, candidates, byName)
  BY <1>1
<1>3. byName \subseteq GraphNode
  BY DEF Selections
<1>4. Namesakes(n, candidates) \subseteq GraphNode /\ Alike(n, candidates) \subseteq GraphNode
  BY DEF Namesakes, Alike
<1>5. Resolutions(n, candidates, byName) \subseteq {n} \cup GraphNode
  BY <1>3, <1>4 DEF Resolutions
<1>6. QED  BY <1>2, <1>5

LEMMA OwnOrGraphNext ==
    ASSUME PoolInv, OwnOrGraph, [Next]_vars
    PROVE  OwnOrGraph'
<1>1. ASSUME NEW e \in Episode, FirstPass(e)  PROVE OwnOrGraph'
  <2>1. PICK r \in [NodesOf(e) -> Node] :
          /\ ResolveAll(NodesOf(e), r)
          /\ resolved' = [n \in ExtractedNode |-> IF n \in NodesOf(e) THEN r[n] ELSE resolved[n]]
    BY <1>1 DEF FirstPass
  <2>2. SUFFICES ASSUME NEW n \in ExtractedNode
                 PROVE  resolved'[n] \in {n, NoNode} \cup GraphNode
    BY DEF OwnOrGraph
  <2>3. CASE n \in NodesOf(e)
    <3>1. r[n] \in {n} \cup GraphNode
      BY <2>1, <2>3, ResolvedToGraph
    <3>2. QED  BY <2>1, <2>3, <3>1
  <2>4. CASE n \notin NodesOf(e)
    BY <2>1, <2>4 DEF OwnOrGraph
  <2>5. QED  BY <2>3, <2>4
<1>2. CASE UNCHANGED resolved
  BY <1>2 DEF OwnOrGraph
<1>3. QED
  BY <1>1, <1>2 DEF Next, StartPool, SecondPass, Union, MapNodes, ResolveFact, KeepFacts, ResolveAgain,
     Save, Done, vars, nodeVars

(* The pairs of the first pass are one for each extracted node.            *)
LEMMA MergeStarts ==
    ASSUME PoolInv, ForestInv, OwnOrGraph, StartPool, seen = 0, pool = <<>>
    PROVE  Merging'
<1>1. /\ pairs' = [i \in DOMAIN Extracted |-> <<Extracted[i], resolved[Extracted[i]]>>]
      /\ UNCHANGED <<resolved, pool, seen, parent, name>> /\ parent = [n \in Node |-> n]
  BY DEF StartPool, ForestInv
<1>2. /\ \A i \in DOMAIN Extracted : Extracted[i] \in ExtractedNode
      /\ \A i, k \in DOMAIN Extracted : i # k => Extracted[i] # Extracted[k]
      /\ ExtractedNode \subseteq Node
      /\ \A n \in ExtractedNode : \E i \in DOMAIN Extracted : Extracted[i] = n
  BY BulkAssumption DEF BulkAssumption, ExtractedNode, Range, Node
<1>3. \A n \in Node : Root(parent, n) = n
  BY <1>1, ItselfIsForest
<1>4. /\ DOMAIN pairs' = DOMAIN Extracted
      /\ \A i \in DOMAIN Extracted : /\ pairs'[i][1] = Extracted[i]
                                     /\ pairs'[i] = <<Extracted[i], resolved[Extracted[i]]>>
                                     /\ pairs'[i][2] = resolved[Extracted[i]]
  BY <1>1
<1>5. Canonicals' = {}
  BY <1>1 DEF Canonicals, Range
<1>6. PairKinds' /\ OncePaired'
  BY <1>1, <1>2, <1>4 DEF PairKinds, OncePaired
<1>7. AloneTillThen'
  BY <1>1, <1>2, <1>3, <1>4 DEF AloneTillThen
<1>8. CanonicalsStay'
  BY <1>5 DEF CanonicalsStay
<1>9. ASSUME NEW n \in ExtractedNode  PROVE Linked(n, resolved[n])'
  BY <1>1, <1>2, <1>4 DEF Linked
<1>10. \A i \in 1..seen' : FALSE
  BY <1>1
<1>11. QED  BY <1>6, <1>7, <1>8, <1>9, <1>10 DEF Merging

(* While pairs are added every node stands for itself.                     *)
LEMMA StillAlone ==
    ASSUME parent = [n \in Node |-> n], parent' = parent, pairs' \in Seq(Node \X Node)
    PROVE  AloneTillThen'
<1>1. \A n \in Node : Root(parent, n) = n
  BY ItselfIsForest
<1>2. \A i \in DOMAIN pairs' : pairs'[i][1] \in Node
  OBVIOUS
<1>3. QED  BY <1>1, <1>2 DEF AloneTillThen

(* Which node the second pass is at.                                       *)
LEMMA AtNode ==
    ASSUME PoolInv, OwnOrGraph, phase = "second", seen < Len(Extracted)
    PROVE  /\ seen + 1 \in DOMAIN Extracted /\ Extracted[seen + 1] \in ExtractedNode
           /\ resolved[Extracted[seen + 1]] \in Node /\ resolved[Extracted[seen + 1]] \in Taken
<1>1. seen + 1 \in DOMAIN Extracted /\ Extracted[seen + 1] \in ExtractedNode
  BY BulkAssumption DEF PoolInv, PoolTypeOK, BulkAssumption
<1>2. QED  BY <1>1 DEF PoolInv, PoolTypeOK, Taken

(* A duplicate is linked to the canonical node it is a duplicate of.       *)
LEMMA MergeDuplicate ==
    ASSUME PoolInv, ForestInv, OwnOrGraph, phase = "second", Merging,
           seen < Len(Extracted), seen' = seen + 1,
           NEW n \in Node, n = resolved[Extracted[seen + 1]], n \in Taken,
           NEW c \in Canonicals, c \in Node, Recognised(n, Canonicals, name),
           \A d \in Canonicals : name[d] = name[n] => d = c,
           Duplicate(n, c), UNCHANGED <<name, resolved, parent>>
    PROVE  Merging'
<1>1. pairs \in Seq(Node \X Node) /\ parent = [x \in Node |-> x] /\ seen \in Nat
  BY DEF PoolInv, PoolTypeOK, ForestInv
<1>2. /\ pairs' \in Seq(Node \X Node) /\ DOMAIN pairs \subseteq DOMAIN pairs'
      /\ \A i \in DOMAIN pairs : pairs'[i] = pairs[i]
      /\ \A i \in DOMAIN pairs' : i \in DOMAIN pairs \/ pairs'[i] = <<n, c>>
  BY <1>1 DEF Duplicate
<1>3. c = n \/ \E i \in DOMAIN pairs' : pairs'[i] = <<n, c>>
  BY <1>1 DEF Duplicate
<1>4. Canonicals' = Canonicals /\ Taken' = Taken
  BY DEF Duplicate, Canonicals, Taken
<1>5. ASSUME NEW x, NEW d, Linked(x, d)  PROVE Linked(x, d)'
  BY <1>2, <1>5 DEF Linked
<1>6. Linked(n, c)'
  BY <1>3 DEF Linked
<1>7. ASSUME NEW i \in DOMAIN pairs'
      PROVE  \/ pairs'[i][1] \in ExtractedNode /\ pairs'[i][2] = resolved[pairs'[i][1]]
             \/ pairs'[i][1] \in Taken /\ pairs'[i][2] \in Canonicals
  <2>1. CASE i \in DOMAIN pairs
    BY <1>2, <2>1 DEF Merging, PairKinds
  <2>2. CASE pairs'[i] = <<n, c>>
    BY <2>2
  <2>3. QED  BY <1>2, <2>1, <2>2
<1>8. PairKinds'
  BY <1>4, <1>7 DEF PairKinds
<1>9. OncePaired'
  <2>1. SUFFICES ASSUME NEW i \in DOMAIN pairs', NEW k \in DOMAIN pairs', i # k,
                        pairs'[i][1] = pairs'[k][1]
                 PROVE  pairs'[i][1] \in Taken
    BY <1>4 DEF OncePaired
  <2>2. CASE i \in DOMAIN pairs /\ k \in DOMAIN pairs
    BY <1>2, <2>1, <2>2 DEF Merging, OncePaired
  <2>3. CASE pairs'[i] = <<n, c>> \/ pairs'[k] = <<n, c>>
    BY <2>1, <2>3
  <2>4. QED  BY <1>2, <2>2, <2>3
<1>10. AloneTillThen'
  BY <1>1, <1>2, StillAlone
<1>11. CanonicalsStay'
  BY <1>4 DEF Merging, CanonicalsStay
<1>12. ASSUME NEW m \in ExtractedNode  PROVE Linked(m, resolved[m])'
  BY <1>5 DEF Merging, Linked
<1>13. ASSUME NEW i \in 1..seen'  PROVE Joins(resolved[Extracted[i]])'
  <2>1. CASE i \in 1..seen
    BY <1>4, <1>5, <2>1 DEF Merging, Joins, Recognised
  <2>2. CASE i = seen + 1
    BY <1>4, <1>6, <2>2 DEF Joins, Recognised
  <2>3. QED  BY <1>1, <2>1, <2>2
<1>14. QED  BY <1>8, <1>9, <1>10, <1>11, <1>12, <1>13 DEF Merging

(* A new canonical node is nobody's namesake: it would be recognised.      *)
LEMMA MergeCanonical ==
    ASSUME PoolInv, ForestInv, OwnOrGraph, phase = "second", Merging,
           seen < Len(Extracted), seen' = seen + 1,
           NEW n \in Node, n = resolved[Extracted[seen + 1]], n \in Taken,
           ~ Recognised(n, Canonicals, name),
           pool' = Append(pool, n), UNCHANGED <<name, resolved, parent, pairs>>
    PROVE  Merging'
<1>1. /\ pairs \in Seq(Node \X Node) /\ parent = [x \in Node |-> x] /\ seen \in Nat
      /\ pool \in Seq(Node)
  BY DEF PoolInv, PoolTypeOK, ForestInv
<1>2. Canonicals' = Canonicals \cup {n} /\ Taken' = Taken
  <2>1. /\ DOMAIN pool' = DOMAIN pool \cup {Len(pool) + 1}
        /\ \A i \in DOMAIN pool : pool'[i] = pool[i]
        /\ pool'[Len(pool) + 1] = n
    BY <1>1
  <2>2. QED  BY <2>1 DEF Canonicals, Range, Taken
<1>3. \A x \in Node : Root(parent, x) = x
  BY <1>1, ItselfIsForest
<1>4. ASSUME NEW x, NEW d  PROVE Linked(x, d)' <=> Linked(x, d)
  BY DEF Linked
<1>5. PairKinds' /\ OncePaired'
  BY <1>2 DEF Merging, PairKinds, OncePaired
<1>6. AloneTillThen'
  BY <1>1, StillAlone
<1>7. CanonicalsStay'
  BY <1>2, <1>3 DEF Merging, CanonicalsStay
<1>8. ASSUME NEW m \in ExtractedNode  PROVE Linked(m, resolved[m])'
  BY <1>4 DEF Merging, Linked
<1>9. Linked(n, n)
  BY DEF Linked
<1>10. ASSUME NEW i \in 1..seen'  PROVE Joins(resolved[Extracted[i]])'
  <2>1. PICK x : x = resolved[Extracted[i]]
    OBVIOUS
  <2>2. CASE i \in 1..seen
    <3>1. Joins(x)
      BY <2>1, <2>2 DEF Merging
    <3>2. name[n] # name[x]
      BY <3>1 DEF Joins, Recognised
    <3>3. Joins(x)'
      BY <1>2, <1>4, <3>1, <3>2 DEF Joins, Recognised
    <3>4. QED  BY <2>1, <3>3 DEF Joins, Linked
  <2>3. CASE i = seen + 1
    <3>1. x = n
      BY <2>1, <2>3
    <3>2. \A c \in Canonicals : name[c] # name[n]
      BY DEF Recognised
    <3>3. Joins(n)'
      BY <1>2, <1>4, <1>9, <3>2 DEF Joins, Recognised
    <3>4. QED  BY <2>1, <3>1, <3>3 DEF Joins, Linked
  <2>4. QED  BY <1>1, <2>2, <2>3
<1>11. QED  BY <1>5, <1>6, <1>7, <1>8, <1>10 DEF Merging

(* A pair is applied: what was linked stays so, and what stands for a      *)
(* canonical node goes on to.                                              *)
LEMMA MergeUnion ==
    ASSUME PoolInv, ForestInv, OwnOrGraph, Merging, Union,
           \A n \in ExtractedNode : resolved[n] \in Node
    PROVE  Merging'
<1>1. PICK s \in Node, t \in Node : s = pairs[1][1] /\ t = pairs[1][2] /\ pairs[1] = <<s, t>>
  <2>1. pairs[1] \in Node \X Node
    BY UnionRedirects
  <2>2. QED  BY <2>1
<1>2. \A y \in Node : Root(parent', y) =
         IF Root(parent, y) = Root(parent, s) THEN Root(parent, t) ELSE Root(parent, y)
  BY <1>1, UnionRedirects
<1>3. /\ UNCHANGED <<name, resolved, pool, seen>>
      /\ Canonicals' = Canonicals /\ Taken' = Taken
  BY DEF Union, Canonicals, Taken
<1>4. /\ 1 \in DOMAIN pairs
      /\ \A i \in DOMAIN pairs' : /\ i + 1 \in DOMAIN pairs /\ i + 1 # 1
                                  /\ pairs'[i] = pairs[i + 1] /\ pairs'[i] \in Node \X Node
      /\ \A i \in DOMAIN pairs : i = 1 \/ (i - 1 \in DOMAIN pairs' /\ pairs'[i - 1] = pairs[i])
  <2>1. pairs \in Seq(Node \X Node) /\ pairs # <<>> /\ pairs' = Tail(pairs)
    BY DEF PoolInv, PoolTypeOK, Union
  <2>2. QED  BY <2>1
<1>5. \A y \in Node : Root(parent, y) \in Node
  BY ForestRoots DEF ForestInv
<1>6. Canonicals \subseteq Node /\ ExtractedNode \subseteq Node
  <2>1. \A i \in DOMAIN pool : pool[i] \in Node
    BY DEF PoolInv, PoolTypeOK
  <2>2. QED  BY <2>1 DEF Canonicals, Range, Node
<1>7. t \in Taken
  BY <1>1, <1>4 DEF Merging, PairKinds, CanonicalsStay, Taken
<1>8. s \notin Taken => \A y \in Node : Root(parent, y) = s <=> y = s
  BY <1>1, <1>4 DEF Merging, AloneTillThen
<1>9. PairKinds'
  BY <1>3, <1>4 DEF Merging, PairKinds
<1>10. OncePaired'
  <2>1. SUFFICES ASSUME NEW i \in DOMAIN pairs', NEW k \in DOMAIN pairs', i # k,
                        pairs'[i][1] = pairs'[k][1]
                 PROVE  pairs'[i][1] \in Taken
    BY <1>3 DEF OncePaired
  <2>2. i + 1 \in DOMAIN pairs /\ k + 1 \in DOMAIN pairs /\ i + 1 # k + 1
    <3>1. i \in Nat /\ k \in Nat
      BY DEF PoolInv, PoolTypeOK, Union
    <3>2. QED  BY <1>4, <2>1, <3>1
  <2>3. pairs[i + 1][1] = pairs[k + 1][1] /\ pairs'[i] = pairs[i + 1]
    BY <1>4, <2>1
  <2>4. QED  BY <2>2, <2>3 DEF Merging, OncePaired
<1>11. AloneTillThen'
  <2>1. SUFFICES ASSUME NEW i \in DOMAIN pairs', NEW n, n = pairs'[i][1], n \notin Taken,
                        NEW y \in Node
                 PROVE  Root(parent', y) = n <=> y = n
    BY <1>3 DEF AloneTillThen
  <2>2. n \in Node /\ n = pairs[i + 1][1] /\ i + 1 \in DOMAIN pairs /\ i + 1 # 1
    BY <1>4, <2>1
  <2>3. \A x \in Node : Root(parent, x) = n <=> x = n
    BY <2>1, <2>2 DEF Merging, AloneTillThen
  <2>4. n # s
    <3>1. n = pairs[1][1] => n \in Taken
      BY <1>4, <2>2 DEF Merging, OncePaired
    <3>2. QED  BY <1>1, <2>1, <3>1
  <2>5. n # t
    BY <1>7, <2>1
  <2>6. QED  BY <1>2, <2>2, <2>3, <2>4, <2>5
<1>12. CanonicalsStay'
  <2>1. SUFFICES ASSUME NEW c \in Canonicals  PROVE c \in Taken /\ Root(parent', c) \in Canonicals
    BY <1>3 DEF CanonicalsStay
  <2>2. c \in Taken /\ c \in Node /\ Root(parent, c) \in Canonicals
    BY <1>6 DEF Merging, CanonicalsStay
  <2>3. CASE Root(parent, c) # Root(parent, s)
    BY <1>2, <2>2, <2>3
  <2>4. CASE Root(parent, c) = Root(parent, s) /\ t \in Canonicals
    BY <1>2, <1>6, <2>2, <2>4 DEF Merging, CanonicalsStay
  <2>5. CASE Root(parent, c) = Root(parent, s) /\ s \in ExtractedNode /\ t = resolved[s]
    <3>1. CASE s = t
      BY <1>2, <2>2, <2>5, <3>1
    <3>2. CASE s # t
      <4>1. s \notin Taken
        <5>1. SUFFICES ASSUME NEW m \in ExtractedNode, s = resolved[m]  PROVE FALSE
          BY DEF Taken
        <5>2. s \notin GraphNode /\ s # NoNode
          BY <1>6, <2>5, BulkAssumption DEF BulkAssumption
        <5>3. s = m
          BY <5>1, <5>2 DEF OwnOrGraph
        <5>4. QED  BY <2>5, <3>2, <5>1, <5>3
      <4>2. Root(parent, s) = s /\ c = s
        BY <1>8, <2>2, <2>5, <4>1
      <4>3. QED  BY <2>2, <4>1, <4>2
    <3>3. QED  BY <3>1, <3>2
  <2>6. t \in Canonicals \/ (s \in ExtractedNode /\ t = resolved[s])
    BY <1>1, <1>4 DEF Merging, PairKinds
  <2>7. QED  BY <2>2, <2>3, <2>4, <2>5, <2>6
<1>13. ASSUME NEW x \in Node, NEW d \in Node, Linked(x, d)  PROVE Linked(x, d)'
  <2>1. CASE Root(parent, x) = Root(parent, d)
    BY <1>2, <2>1 DEF Linked
  <2>2. ASSUME NEW i \in DOMAIN pairs, pairs[i] = <<x, d>>  PROVE Linked(x, d)'
    <3>1. CASE i = 1
      <4>1. x = s /\ d = t
        BY <1>1, <2>2, <3>1
      <4>2. Root(parent', s) = Root(parent, t) /\ Root(parent', t) = Root(parent, t)
        BY <1>2
      <4>3. QED  BY <4>1, <4>2 DEF Linked
    <3>2. CASE i # 1
      BY <1>4, <2>2, <3>2 DEF Linked
    <3>3. QED  BY <3>1, <3>2
  <2>3. QED  BY <1>13, <2>1, <2>2 DEF Linked
<1>14. ASSUME NEW n \in ExtractedNode  PROVE Linked(n, resolved[n])'
  <2>1. n \in Node /\ resolved[n] \in Node /\ Linked(n, resolved[n])
    BY <1>6 DEF Merging
  <2>2. PICK x \in Node : x = resolved[n]
    BY <2>1
  <2>3. Linked(n, x)'
    BY <1>13, <2>1, <2>2
  <2>4. QED  BY <1>3, <2>2, <2>3 DEF Linked
<1>15. ASSUME NEW i \in 1..seen'  PROVE Joins(resolved[Extracted[i]])'
  <2>1. i \in 1..seen /\ Extracted[i] \in ExtractedNode
    BY <1>3, BulkAssumption DEF PoolInv, PoolTypeOK, BulkAssumption
  <2>2. PICK x \in Node : x = resolved[Extracted[i]]
    BY <2>1
  <2>3. Joins(x)
    BY <2>1, <2>2 DEF Merging
  <2>4. \A c \in Canonicals : Linked(x, c) => Linked(x, c)'
    BY <1>6, <1>13
  <2>5. \E c \in Canonicals' : Linked(x, c)'
    BY <1>3, <2>3, <2>4 DEF Joins
  <2>6. \A c \in Canonicals' : name'[c] = name'[x] => Linked(x, c)'
    BY <1>3, <2>3, <2>4 DEF Joins
  <2>7. Recognised(x, Canonicals', name')
    BY <1>3, <2>3 DEF Joins
  <2>8. Joins(x)'
    BY <2>5, <2>6, <2>7 DEF Joins
  <2>9. resolved'[Extracted[i]] = x
    BY <1>3, <2>2
  <2>10. QED  BY <2>8, <2>9 DEF Joins, Linked
<1>16. QED  BY <1>9, <1>10, <1>11, <1>12, <1>14, <1>15 DEF Merging

(* With no pair left, linked nodes stand for one.                          *)
LEMMA MergeEnds ==
    ASSUME PoolInv, ForestInv, OwnOrGraph, Merging, MapNodes,
           \A n \in ExtractedNode : resolved[n] \in Node
    PROVE  OneNodeForEach'
<1>1. /\ UNCHANGED <<name, resolved, pool>> /\ Canonicals' = Canonicals
      /\ mapped' = [n \in Node |-> Root(parent, n)] /\ pairs = <<>> /\ seen = Len(Extracted)
  BY DEF MapNodes, Canonicals
<1>2. Canonicals \subseteq Node /\ ExtractedNode \subseteq Node
  <2>1. \A i \in DOMAIN pool : pool[i] \in Node
    BY DEF PoolInv, PoolTypeOK
  <2>2. QED  BY <2>1 DEF Canonicals, Range, Node
<1>3. \A x, y : Linked(x, y) => Root(parent, x) = Root(parent, y)
  BY <1>1 DEF Linked
<1>4. ASSUME NEW n \in ExtractedNode
      PROVE  /\ mapped'[n] \in Canonicals /\ mapped'[resolved[n]] = mapped'[n]
             /\ \A c \in Canonicals : name[resolved[n]] = name[c] => mapped'[n] = mapped'[c]
  <2>1. PICK i \in 1..seen : Extracted[i] = n
    BY <1>1, BulkAssumption DEF BulkAssumption, ExtractedNode, Range
  <2>2. PICK x \in Node : x = resolved[n]
    OBVIOUS
  <2>3. Joins(x) /\ Linked(n, x)
    BY <2>1, <2>2 DEF Merging
  <2>4. mapped'[n] = Root(parent, x) /\ mapped'[x] = Root(parent, x)
    BY <1>1, <1>2, <1>3, <2>3
  <2>5. PICK c \in Canonicals : Root(parent, x) = Root(parent, c)
    BY <1>3, <2>3 DEF Joins
  <2>6. Root(parent, x) \in Canonicals
    BY <2>5 DEF Merging, CanonicalsStay
  <2>7. ASSUME NEW d \in Canonicals, name[x] = name[d]  PROVE mapped'[n] = mapped'[d]
    <3>1. Root(parent, x) = Root(parent, d)
      BY <1>3, <2>3, <2>7 DEF Joins
    <3>2. QED  BY <1>1, <1>2, <2>4, <3>1
  <2>8. QED  BY <2>2, <2>4, <2>6, <2>7
<1>5. CanonicalKnown'
  BY <1>1, <1>4 DEF CanonicalKnown
<1>6. NamesakesMeet'
  BY <1>1, <1>4 DEF NamesakesMeet
<1>7. QED  BY <1>5, <1>6 DEF OneNodeForEach

LEMMA MergeSecondPass ==
    ASSUME MergeInv, SecondPass
    PROVE  Merging'
<1> DEFINE n == resolved[Extracted[seen + 1]]
<1>1. /\ PoolInv /\ ForestInv /\ OwnOrGraph /\ phase = "second" /\ Merging
      /\ seen < Len(Extracted) /\ seen' = seen + 1 /\ UNCHANGED <<name, resolved, parent>>
  BY DEF MergeInv, SecondPass
<1>2. n \in Node /\ n \in Taken
  BY <1>1, AtNode
<1>3. Canonicals \subseteq Node /\ name \in [Node -> Name]
  <2>1. \A i \in DOMAIN pool : pool[i] \in Node
    BY <1>1 DEF PoolInv, PoolTypeOK
  <2>2. QED  BY <1>1, <2>1 DEF PoolInv, PoolTypeOK, Canonicals, Range
<1>4. \A c, d \in Canonicals : name[c] = name[d] => c = d
  BY <1>1 DEF PoolInv, OneCanonicalPerName, Canonicals, Range
<1>5. ASSUME NEW c \in Namesakes(n, Canonicals), Duplicate(n, c)  PROVE Merging'
  <2>1. c \in Canonicals /\ c \in Node /\ name[c] = name[n]
    BY <1>3, <1>5 DEF Namesakes
  <2>2. Recognised(n, Canonicals, name)
    BY <2>1 DEF Recognised
  <2>3. \A d \in Canonicals : name[d] = name[n] => d = c
    BY <1>4, <2>1
  <2>4. QED  BY <1>1, <1>2, <1>5, <2>1, <2>2, <2>3, MergeDuplicate
<1>6. ASSUME Namesakes(n, Canonicals) = {}, name[n] \notin Short,
             NEW c \in Alike(n, Canonicals), Duplicate(n, c)
      PROVE  Merging'
  <2>1. c \in Canonicals /\ c \in Node /\ Likeness[<<name[n], name[c]>>] > 0
    BY <1>3, <1>6 DEF Alike
  <2>2. Recognised(n, Canonicals, name)
    BY <2>1, <1>6 DEF Recognised
  <2>3. \A d \in Canonicals : name[d] = name[n] => d = c
    BY <1>6 DEF Namesakes
  <2>4. QED  BY <1>1, <1>2, <1>6, <2>1, <2>2, <2>3, MergeDuplicate
<1>7. ASSUME Namesakes(n, Canonicals) = {}, name[n] \in Short \/ Alike(n, Canonicals) = {},
             pool' = Append(pool, n), UNCHANGED pairs
      PROVE  Merging'
  <2>1. \A c \in Canonicals : name[c] # name[n]
    BY <1>7 DEF Namesakes
  <2>2. ASSUME NEW c \in Canonicals, Likeness[<<name[n], name[c]>>] > 0, name[n] \notin Short
        PROVE  FALSE
    <3>1. Alike(n, Canonicals) = {}
      BY <1>7, <2>2
    <3> HIDE DEF n
    <3>2. QED  BY <1>2, <1>3, <2>2, <3>1, BulkAssumption, MostAlike
  <2>3. ~ Recognised(n, Canonicals, name)
    BY <2>1, <2>2 DEF Recognised
  <2>4. QED  BY <1>1, <1>2, <1>7, <2>3, MergeCanonical
<1>8. QED  BY <1>5, <1>6, <1>7 DEF SecondPass

LEMMA MergeInit == Init => MergeInv
<1> SUFFICES ASSUME Init  PROVE MergeInv
  OBVIOUS
<1>1. PoolInv /\ ForestInv
  BY BulkAssumption, PoolInit, ForestInit
<1>2. OwnOrGraph /\ seen = 0 /\ phase = "first"
  BY DEF Init, OwnOrGraph
<1>3. OneNodeForEach
  BY <1>2 DEF OneNodeForEach, CanonicalKnown, NamesakesMeet
<1>4. QED  BY <1>1, <1>2, <1>3 DEF MergeInv

LEMMA MergeNext == MergeInv /\ [Next]_vars => MergeInv'
<1> SUFFICES ASSUME MergeInv, [Next]_vars  PROVE MergeInv'
  OBVIOUS
<1>1. PoolInv /\ ForestInv /\ OwnOrGraph
  BY DEF MergeInv
<1>2. PoolInv' /\ ForestInv' /\ OwnOrGraph'
  BY <1>1, BulkAssumption, PoolNext, ForestNext, OwnOrGraphNext
<1>3. phase # "first" => \A n \in ExtractedNode : resolved[n] \in Node
  BY <1>1 DEF PoolInv, PoolTypeOK
<1>4. SUFFICES /\ phase' = "first" => seen' = 0
               /\ phase' = "second" => Merging'
               /\ OneNodeForEach'
  BY <1>2 DEF MergeInv
<1>5. CASE StartPool
  <2>1. seen = 0 /\ pool = <<>>
    BY <1>5 DEF MergeInv, PoolInv, PoolTypeOK, StartPool
  <2>2. Merging'
    BY <1>1, <1>5, <2>1, MergeStarts
  <2>3. phase' = "second"
    BY <1>5 DEF StartPool
  <2>4. OneNodeForEach'
    BY <2>3 DEF OneNodeForEach, CanonicalKnown, NamesakesMeet
  <2>5. QED  BY <2>2, <2>3, <2>4
<1>6. CASE SecondPass
  <2>1. Merging'
    BY <1>6, MergeSecondPass
  <2>2. phase' = "second"
    BY <1>6 DEF SecondPass
  <2>3. OneNodeForEach'
    BY <2>2 DEF OneNodeForEach, CanonicalKnown, NamesakesMeet
  <2>4. QED  BY <2>1, <2>2, <2>3
<1>7. CASE Union
  <2>1. phase = "second" /\ phase' = "second"
    BY <1>7 DEF Union
  <2>2. Merging'
    BY <1>1, <1>3, <1>7, <2>1, MergeUnion DEF MergeInv
  <2>3. OneNodeForEach'
    BY <2>1 DEF OneNodeForEach, CanonicalKnown, NamesakesMeet
  <2>4. QED  BY <2>1, <2>2, <2>3
<1>8. CASE MapNodes
  <2>1. phase = "second" /\ phase' = "facts"
    BY <1>8 DEF MapNodes
  <2>2. OneNodeForEach'
    BY <1>1, <1>3, <1>8, <2>1, MergeEnds DEF MergeInv
  <2>3. QED  BY <2>1, <2>2
<1>9. CASE phase = "first" /\ phase' = "first" /\ UNCHANGED seen
  BY <1>9 DEF MergeInv, OneNodeForEach, CanonicalKnown, NamesakesMeet
<1>10. CASE phase \notin {"first", "second"} /\ phase' \notin {"first", "second"}
            /\ UNCHANGED <<name, nodeVars>> /\ phase \in {"facts", "again", "done"}
  BY <1>10 DEF MergeInv, OneNodeForEach, CanonicalKnown, NamesakesMeet, nodeVars, Canonicals
<1>11. CASE UNCHANGED vars
  <2>1. UNCHANGED <<phase, name, resolved, pool, seen, pairs, parent, mapped>>
    BY <1>11 DEF vars, nodeVars
  <2>2. OneNodeForEach'
    BY <2>1 DEF MergeInv, OneNodeForEach, CanonicalKnown, NamesakesMeet, Canonicals
  <2>3. Merging => Merging'
    BY <2>1 DEF Merging, PairKinds, OncePaired, AloneTillThen, CanonicalsStay, Linked, Joins,
       Recognised, Canonicals, Taken
  <2>4. QED  BY <2>1, <2>2, <2>3 DEF MergeInv
<1>12. ASSUME NEW e \in Episode, FirstPass(e)
       PROVE  phase = "first" /\ phase' = "first" /\ UNCHANGED seen
  BY <1>12 DEF FirstPass
<1>13. QED
  BY <1>5, <1>6, <1>7, <1>8, <1>9, <1>10, <1>11, <1>12 DEF Next, ResolveFact, KeepFacts,
     ResolveAgain, Save, Done

LEMMA MergeAlways == Spec => []MergeInv
  BY MergeInit, MergeNext, PTL DEF Spec

(* The passes of dedupe_nodes_bulk agree: however names match, whatever    *)
(* the language model says and in whatever order pairs were found, every   *)
(* extracted node is mapped to a canonical one, the one that its           *)
(* resolution is mapped to, and namesakes are mapped to the same.          *)
THEOREM PassesAgree == Spec => []OneNodeForEach
<1>1. MergeInv => OneNodeForEach
  BY DEF MergeInv
<1>2. QED  BY <1>1, MergeAlways, PTL
-----------------------------------------------------------------------------
(* What is saved hangs together.  A pointer that was moved at least once   *)
(* is at a node that others were moved to.                                 *)
LEMMA Moving ==
    ASSUME NEW m, NEW n \in Nat \ {0}, NEW S, Pointer(m) \in S, \A x \in S : Pointer(x) \in S
    PROVE  Moved(m, n) \in S
<1> DEFINE M(g) == [i \in 0..n |-> IF i = 0 THEN m ELSE Pointer(g[i - 1])]
           at == CHOOSE g : g = M(g)
<1>0. PICK f : \A x \in {m} \cup S : f[x] = Pointer(x)
  <2>1. \A x \in {m} \cup S : [y \in {m} \cup S |-> Pointer(y)][x] = Pointer(x)
    OBVIOUS
  <2>2. QED  BY <2>1
<1>1. PICK g : Goes(g, f, m, n)
  <2>1. n \in Nat
    OBVIOUS
  <2>2. QED  BY <2>1, GoesOn
<1>2. /\ g[0] = m
      /\ \A i \in 1..n : g[i] = f[g[i - 1]]
  <2>1. \A i \in 0..n : g[i] = IF i = 0 THEN m ELSE f[g[i - 1]]
    BY <1>1 DEF Goes
  <2>2. 0 \in 0..n /\ \A i \in 1..n : i \in 0..n /\ i # 0
    OBVIOUS
  <2>3. QED  BY <2>1, <2>2
<1>3. g = [i \in 0..n |-> g[i]]
  BY <1>1 DEF Goes
<1>4. 0..n \subseteq {i \in 0..n : g[i] \in {m} \cup S}
  <2> DEFINE T == {i \in 0..n : g[i] \in {m} \cup S}
  <2>1. 0 \in T
    BY <1>2
  <2>2. ASSUME NEW i \in 1..n, i - 1 \in T  PROVE i \in T
    <3>1. g[i] = f[g[i - 1]]
      BY <1>2
    <3>2. QED  BY <1>0, <2>2, <3>1
  <2>3. QED
    <3> HIDE DEF T
    <3>1. 0..n \subseteq T
      BY <2>1, <2>2, AllUpTo
    <3>2. QED  BY <3>1 DEF T
<1>5. ASSUME NEW i \in 1..n  PROVE g[i] = Pointer(g[i - 1])
  <2>1. i \in 0..n /\ i # 0 /\ i - 1 \in 0..n
    OBVIOUS
  <2>2. g[i] = f[g[i - 1]] /\ g[i - 1] \in {m} \cup S
    BY <1>2, <1>4, <2>1
  <2>3. QED  BY <1>0, <2>2
<1>6. g = M(g)
  <2>1. \A i \in 0..n : i = 0 \/ i \in 1..n
    OBVIOUS
  <2>2. \A i \in 0..n : g[i] = IF i = 0 THEN m ELSE Pointer(g[i - 1])
    BY <1>2, <1>5, <2>1
  <2>3. [i \in 0..n |-> g[i]] = M(g)
    BY <2>2
  <2>4. QED
    <3> HIDE DEF M
    <3>1. QED  BY <1>3, <2>3
<1>7. at = M(at)
  <2> HIDE DEF M
  <2>1. QED  BY <1>6
<1>8. Moved(m, n) = at[n]
  BY DEF Moved
<1>9. at[0] = m /\ \A i \in 1..n : at[i] = Pointer(at[i - 1])
  <2> HIDE DEF at
  <2>1. QED  BY <1>7
<1>10. 0..n \subseteq {i \in 0..n : i = 0 \/ at[i] \in S}
  <2> HIDE DEF at
  <2> DEFINE T == {i \in 0..n : i = 0 \/ at[i] \in S}
  <2>1. 0 \in T
    OBVIOUS
  <2>2. ASSUME NEW i \in 1..n, i - 1 \in T  PROVE i \in T
    <3>1. CASE i = 1
      BY <1>9, <3>1
    <3>2. CASE i # 1
      BY <1>9, <2>2, <3>2
    <3>3. QED  BY <3>1, <3>2
  <2>3. QED
    <3> HIDE DEF T
    <3>1. 0..n \subseteq T
      BY <2>1, <2>2, AllUpTo
    <3>2. QED  BY <3>1 DEF T
<1>11. n \in 0..n /\ n # 0
  OBVIOUS
<1>12. at[n] \in S
  <2> HIDE DEF at
  <2>1. QED  BY <1>10, <1>11
<1>13. QED  BY <1>8, <1>12

(* The nodes of the batch, those that are saved.                           *)
InBatch == UNION {BatchNodes(e) : e \in Episode}

(* Facts found to say the same join the same nodes, and so do a fact and   *)
(* the one kept for it; only nodes of the batch are resolved again.        *)
EndsInv ==
    /\ \A d \in duplicates : d \in Fact \X Fact /\ Joined(d[1]) = Joined(d[2])
    /\ phase \in {"first", "second"} => duplicates = {}
    /\ phase \in {"again", "done"} =>
          \A f \in Fact : kept[f] \in Fact /\ Joined(kept[f]) = Joined(f)
    /\ final \in [Node -> Node \cup {NoNode}]
    /\ \A n \in Node : final[n] # NoNode =>
          phase \notin {"first", "second", "facts"} /\ n \in InBatch

(* An end of a fact is a node of the batch, in the fact's own episode.     *)
LEMMA EndsInBatch ==
    ASSUME MergeInv, phase \in {"facts", "again", "done"}, NEW n \in ExtractedNode
    PROVE  /\ mapped[n] \in BatchNodes(EpisodeOf[n]) /\ EpisodeOf[n] \in Episode
           /\ mapped[n] \in Node
<1>1. mapped[n] \in Canonicals /\ mapped[resolved[n]] = mapped[n]
  BY DEF MergeInv, OneNodeForEach, CanonicalKnown
<1>2. Canonical(resolved[n]) = mapped[n]
  BY <1>1 DEF Canonical
<1>3. EpisodeOf[n] \in Episode /\ n \in NodesOf(EpisodeOf[n])
  BY BulkAssumption DEF BulkAssumption, NodesOf
<1>4. \A i \in DOMAIN pool : pool[i] \in Node
  BY DEF MergeInv, PoolInv, PoolTypeOK
<1>5. QED  BY <1>1, <1>2, <1>3, <1>4 DEF BatchNodes, Canonicals, Range

(* Facts of one class have the same ends.                                  *)
LEMMA ClassJoins ==
    ASSUME EndsInv, NEW f \in Fact, NEW g \in Fact, SameClass(f, g)
    PROVE  Joined(g) = Joined(f)
<1> DEFINE S == {h \in Fact : Joined(h) = Joined(f)}
<1>1. S \in SUBSET Fact /\ f \in S
  OBVIOUS
<1>2. \A d \in duplicates : d[1] \in S <=> d[2] \in S
  BY DEF EndsInv
<1>3. g \in S
  <2> HIDE DEF S
  <2>1. QED  BY <1>1, <1>2 DEF SameClass
<1>4. QED  BY <1>3

LEMMA EndsInvNext ==
    ASSUME MergeInv, EndsInv, [Next]_vars
    PROVE  EndsInv'
<1>1. ASSUME UNCHANGED <<mapped, resolved, pool>>
      PROVE  InBatch' = InBatch /\ \A f : Joined(f)' = Joined(f)
  BY <1>1 DEF InBatch, BatchNodes, Canonical, Canonicals, Joined
<1>2. CASE UNCHANGED <<duplicates, kept, final, phase>> /\ UNCHANGED <<mapped, resolved, pool>>
  BY <1>1, <1>2 DEF EndsInv
<1>3. CASE /\ UNCHANGED <<duplicates, kept, final>>
           /\ phase \in {"first", "second"} /\ phase' \in {"second", "facts"}
  <2>1. duplicates = {} /\ duplicates' = {}
    BY <1>3 DEF EndsInv
  <2>2. \A n \in Node : final'[n] = NoNode
    BY <1>3 DEF EndsInv
  <2>3. QED  BY <1>3, <2>1, <2>2 DEF EndsInv
<1>4. ASSUME NEW e \in Episode, FirstPass(e)  PROVE EndsInv'
  <2>1. phase = "first" /\ phase' = "first" /\ UNCHANGED <<duplicates, kept, final>>
    BY <1>4 DEF FirstPass, factVars
  <2>2. \A n \in Node : final'[n] = NoNode
    BY <2>1 DEF EndsInv
  <2>3. QED  BY <2>1, <2>2 DEF EndsInv
<1>5. CASE SecondPass \/ Union
  <2>1. phase = "second" /\ phase' = "second" /\ UNCHANGED <<duplicates, kept, final>>
    BY <1>5 DEF SecondPass, Union, factVars
  <2>2. QED  BY <1>3, <2>1
<1>6. ASSUME NEW f \in Fact, ResolveFact(f)  PROVE EndsInv'
  <2>1. /\ phase = "facts" /\ phase' = "facts" /\ UNCHANGED <<kept, final, mapped, resolved, pool>>
        /\ \A d \in duplicates' : d \in duplicates \/ \E g \in Rivals(f) : d = <<f, g>>
    BY <1>6 DEF ResolveFact, nodeVars
  <2>2. \A g \in Rivals(f) : g \in Fact /\ Joined(g) = Joined(f)
    BY DEF Rivals
  <2>3. ASSUME NEW d \in duplicates'  PROVE d \in Fact \X Fact /\ Joined(d[1]) = Joined(d[2])
    <3>1. CASE d \in duplicates
      BY <3>1 DEF EndsInv
    <3>2. CASE \E g \in Rivals(f) : d = <<f, g>>
      BY <2>2, <3>2
    <3>3. QED  BY <2>1, <3>1, <3>2
  <2>4. QED  BY <1>1, <2>1, <2>3 DEF EndsInv
<1>7. CASE KeepFacts
  <2>1. /\ phase = "facts" /\ phase' = "again" /\ UNCHANGED <<duplicates, final, mapped, resolved, pool>>
        /\ kept' \in [Fact -> Fact] /\ \A f \in Fact : SameClass(f, kept'[f])
    BY <1>7 DEF KeepFacts, nodeVars
  <2>2. \A f \in Fact : kept'[f] \in Fact /\ Joined(kept'[f]) = Joined(f)
    BY <2>1, ClassJoins
  <2>3. QED  BY <1>1, <2>1, <2>2 DEF EndsInv
<1>8. ASSUME NEW e \in Episode, ResolveAgain(e)  PROVE EndsInv'
  <2>1. /\ phase = "again" /\ phase' = "again"
        /\ UNCHANGED <<duplicates, kept, mapped, resolved, pool>>
    BY <1>8 DEF ResolveAgain, nodeVars, factVars
  <2>2. PICK r \in [FirstIn(e) -> Node] :
          final' = [n \in Node |-> IF n \in FirstIn(e) THEN r[n] ELSE final[n]]
    BY <1>8 DEF ResolveAgain
  <2>3. FirstIn(e) \subseteq InBatch
    BY DEF FirstIn, InBatch
  <2>4. final' \in [Node -> Node \cup {NoNode}]
    BY <2>2 DEF EndsInv
  <2>5. \A n \in Node : final'[n] # NoNode => n \in InBatch
    BY <2>2, <2>3 DEF EndsInv
  <2>6. QED  BY <1>1, <2>1, <2>4, <2>5 DEF EndsInv
<1>9. CASE Save
  BY <1>1, <1>9 DEF EndsInv, Save, nodeVars, factVars
<1>10. CASE StartPool \/ MapNodes
  BY <1>3, <1>10 DEF StartPool, MapNodes, factVars
<1>11. CASE UNCHANGED vars
  BY <1>2, <1>11 DEF vars, nodeVars, factVars
<1>12. QED
  BY <1>4, <1>5, <1>6, <1>7, <1>8, <1>9, <1>10, <1>11 DEF Next, Done

(* The ends of a kept fact, once all of the batch is resolved.             *)
LEMMA EndMoved ==
    ASSUME MergeInv, EndsInv, phase = "again", NEW k \in {kept[f] : f \in Fact},
           \A n \in InBatch : final[n] # NoNode, NEW n \in ExtractedNode
    PROVE  /\ End(k, n) \in {final[m] : m \in InBatch}
           /\ ~ Chained => End(k, n) = Pointer(mapped[n])
<1>1. mapped[n] \in Node /\ mapped[n] \in InBatch
  BY EndsInBatch DEF InBatch
<1>2. Times(k) \in Nat \ {0}
  <2> DEFINE T == {f \in Fact : kept[f] = k}
  <2>1. PICK f \in Fact : kept[f] = k
    OBVIOUS
  <2>2. IsFiniteSet(T)
    <3>1. T \subseteq Fact /\ IsFiniteSet(Fact)
      BY BulkAssumption DEF BulkAssumption
    <3> HIDE DEF T
    <3>2. QED  BY <3>1, FS_Subset
  <2>3. T # {}
    BY <2>1
  <2>4. Cardinality(T) \in Nat /\ Cardinality(T) # 0
    <3> HIDE DEF T
    <3>1. QED  BY <2>2, <2>3, FS_CardinalityType, FS_EmptySet
  <2>5. QED  BY <2>4 DEF Times
<1>3. End(k, n) \in {final[m] : m \in InBatch}
  <2> DEFINE S == {final[m] : m \in InBatch \cap Node}
  <2>1. Pointer(mapped[n]) \in S
    BY <1>1 DEF Pointer
  <2>2. ASSUME NEW x \in S  PROVE Pointer(x) \in S
    <3>1. x \in Node
      BY DEF EndsInv
    <3>2. CASE final[x] = NoNode
      BY <3>2 DEF Pointer
    <3>3. CASE final[x] # NoNode
      BY <3>1, <3>3 DEF Pointer, EndsInv
    <3>4. QED  BY <3>2, <3>3
  <2>3. Moved(mapped[n], Times(k)) \in S
    <3> HIDE DEF S
    <3>1. QED  BY <1>2, <2>1, <2>2, Moving
  <2>4. QED  BY <2>3 DEF End
<1>4. ASSUME ~ Chained  PROVE End(k, n) = Pointer(mapped[n])
  <2>1. Pointer(Pointer(mapped[n])) = Pointer(mapped[n])
    BY <1>1, <1>4 DEF Chained, Pointer
  <2>2. Moved(mapped[n], Times(k)) \in {Pointer(mapped[n])}
    BY <1>2, <2>1, Moving
  <2>3. QED  BY <2>2 DEF End
<1>5. QED  BY <1>3, <1>4

LEMMA SaveEnds ==
    ASSUME MergeInv, EndsInv, Save
    PROVE  EndsSaved'
<1>1. /\ phase = "again" /\ UNCHANGED <<mapped, resolved, pool, kept, final>>
      /\ \A n \in InBatch : final[n] # NoNode
  BY DEF Save, nodeVars, factVars, InBatch
<1>2. PICK facts \in SUBSET {kept[f] : f \in Fact} :
        saved' = [nodes |-> {final[n] : n \in UNION {BatchNodes(e) : e \in Episode}},
                  mentions |-> UNION {{<<e, Pointer(n)>> : n \in BatchNodes(e)} : e \in Episode},
                  ends |-> [k \in facts |-> Ends(k)]]
  BY DEF Save
<1>3. /\ saved'.nodes = {final[n] : n \in InBatch}
      /\ saved'.mentions = UNION {{<<e, Pointer(n)>> : n \in BatchNodes(e)} : e \in Episode}
      /\ DOMAIN saved'.ends = facts
      /\ \A k \in facts : saved'.ends[k] = <<End(k, From[k]), End(k, To[k])>>
  BY <1>2 DEF InBatch, Ends
<1>4. \A f \in Fact : From[f] \in ExtractedNode /\ To[f] \in ExtractedNode
  BY BulkAssumption DEF BulkAssumption
<1>5. \A k \in facts : k \in Fact
  BY <1>1 DEF EndsInv
<1>6. NoLooseEnds'
  <2>1. ASSUME NEW m \in saved'.mentions  PROVE m[2] \in saved'.nodes
    <3>1. PICK e \in Episode : \E n \in BatchNodes(e) : m = <<e, Pointer(n)>>
      BY <1>3
    <3>2. PICK n \in BatchNodes(e) : m = <<e, Pointer(n)>>
      BY <3>1
    <3>3. n \in InBatch
      BY DEF InBatch
    <3>4. QED  BY <1>1, <1>3, <3>2, <3>3 DEF Pointer
  <2>2. ASSUME NEW k \in DOMAIN saved'.ends  PROVE Range(saved'.ends[k]) \subseteq saved'.nodes
    <3>1. /\ End(k, From[k]) \in saved'.nodes /\ End(k, To[k]) \in saved'.nodes
      BY <1>1, <1>3, <1>4, <1>5, EndMoved
    <3>2. saved'.ends[k] = <<End(k, From[k]), End(k, To[k])>>
      BY <1>3
    <3>3. QED  BY <3>1, <3>2 DEF Range
  <2>3. QED  BY <2>1, <2>2 DEF NoLooseEnds
<1>7. EndsMentioned'
  <2>1. SUFFICES ASSUME ~ Chained, NEW f \in Fact, NEW k \in DOMAIN saved'.ends, kept[f] = k,
                        NEW i \in 1..2
                 PROVE  <<StatedIn[f], saved'.ends[k][i]>> \in saved'.mentions
    BY <1>1 DEF EndsMentioned, Chained, Pointer
  <2>2. k \in facts /\ k \in Fact /\ Joined(k) = Joined(f)
    BY <1>1, <1>3, <1>5, <2>1 DEF EndsInv
  <2>3. mapped[From[k]] = mapped[From[f]] /\ mapped[To[k]] = mapped[To[f]]
    BY <2>2 DEF Joined
  <2>4. /\ EpisodeOf[From[f]] = StatedIn[f] /\ EpisodeOf[To[f]] = StatedIn[f]
    BY BulkAssumption DEF BulkAssumption
  <2>5. /\ mapped[From[f]] \in BatchNodes(StatedIn[f]) /\ mapped[To[f]] \in BatchNodes(StatedIn[f])
        /\ StatedIn[f] \in Episode
    BY <1>1, <1>4, <2>4, EndsInBatch
  <2>6. End(k, From[k]) = Pointer(mapped[From[f]]) /\ End(k, To[k]) = Pointer(mapped[To[f]])
    <3>1. \A n \in ExtractedNode : End(k, n) = Pointer(mapped[n])
      BY <1>1, <2>1, <2>2, EndMoved
    <3>2. QED  BY <1>4, <2>2, <2>3, <3>1
  <2>7. saved'.ends[k] = <<Pointer(mapped[From[f]]), Pointer(mapped[To[f]])>>
    BY <1>3, <2>2, <2>6
  <2>8. \A n \in BatchNodes(StatedIn[f]) : <<StatedIn[f], Pointer(n)>> \in saved'.mentions
    BY <1>3, <2>5
  <2>9. i = 1 \/ i = 2
    OBVIOUS
  <2>10. QED  BY <2>5, <2>7, <2>8, <2>9
<1>8. QED  BY <1>6, <1>7 DEF EndsSaved

(* What add_episode_bulk saves hangs together, whatever the searches and   *)
(* the language model answer: every mention and fact finds its ends in the *)
(* same transaction, and every episode mentions the ends of its facts      *)
(* unless a node became one that became another.                           *)
THEOREM EndsAreSaved == Spec => []EndsSaved
<1>1. Init => EndsInv /\ EndsSaved
  BY DEF Init, EndsInv, EndsSaved, NoLooseEnds, EndsMentioned
<1>2. MergeInv /\ EndsInv /\ EndsSaved /\ [Next]_vars => EndsInv' /\ EndsSaved'
  <2> SUFFICES ASSUME MergeInv, EndsInv, EndsSaved, [Next]_vars  PROVE EndsInv' /\ EndsSaved'
    OBVIOUS
  <2>1. EndsInv'
    BY EndsInvNext
  <2>2. CASE Save
    BY <2>1, <2>2, SaveEnds
  <2>3. CASE phase' # "done"
    BY <2>1, <2>3 DEF EndsSaved, NoLooseEnds, EndsMentioned
  <2>4. CASE UNCHANGED vars
    BY <2>1, <2>4 DEF EndsSaved, NoLooseEnds, EndsMentioned, Chained, Pointer, vars, factVars, nodeVars
  <2>5. phase' = "done" => Save \/ UNCHANGED vars
    BY DEF Next, FirstPass, StartPool, SecondPass, Union, MapNodes, ResolveFact, KeepFacts,
       ResolveAgain, Done
  <2>6. QED  BY <2>2, <2>3, <2>4, <2>5
<1>3. QED  BY <1>1, <1>2, MergeAlways, PTL DEF Spec
=============================================================================
