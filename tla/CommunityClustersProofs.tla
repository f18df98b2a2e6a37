---------------------- MODULE CommunityClustersProofs ----------------------
(* Proofs about CommunityClusters for any number of entities.              *)
EXTENDS CommunityClusters, Integers, FiniteSetTheorems, WellFoundedInduction, TLAPS

(* A bounded set of naturals that is not empty has a largest element.      *)
LEMMA Largest ==
    ASSUME NEW S \in SUBSET Nat, S # {}, NEW b \in Nat, \A s \in S : s <= b
    PROVE  \E x \in S : \A y \in S : y <= x
<1> DEFINE R == {ss \in Nat \X Nat : ss[1] < ss[2]}
           T == {b - s : s \in S}
<1>1. IsWellFoundedOn(R, Nat)
  BY NatLessThanWellFounded DEF OpToRel
<1>2. T \subseteq Nat /\ T # {}
  <2>1. ASSUME NEW s \in S  PROVE b - s \in Nat
    <3>1. s \in Nat /\ s <= b
      BY <2>1
    <3>2. QED  BY <3>1
  <2>2. QED  BY <2>1
<1>3. PICK t \in T : \A u \in T : <<u, t>> \notin R
  <2> HIDE DEF R, T
  <2>1. QED  BY <1>1, <1>2, WFMin
<1>4. PICK x \in S : t = b - x
  OBVIOUS
<1>5. ASSUME NEW y \in S  PROVE y <= x
  <2>1. b - y \in T /\ b - y \in Nat /\ b - x \in Nat
    OBVIOUS
  <2>2. ~(b - y < b - x)
    BY <2>1, <1>3, <1>4
  <2>3. QED  BY <2>2
<1>6. QED  BY <1>5

LEMMA FactsFinite ==
    ASSUME NEW F \in SUBSET Fact
    PROVE  IsFiniteSet(F) /\ Cardinality(F) \in Nat
<1>1. IsFiniteSet(Entity)
  BY ClustersAssumption, FS_Interval DEF Entity
<1>2. IsFiniteSet(Entity \X Entity)
  BY <1>1, FS_Product
<1>3. F \in SUBSET (Entity \X Entity)
  BY DEF Fact
<1>4. QED  BY <1>2, <1>3, FS_Subset, FS_CardinalityType

(* An entity that has candidates adopts one of them.                       *)
LEMMA PluralityIsCandidate ==
    ASSUME NEW n, n \in DOMAIN projection, projection[n] \in SUBSET Fact,
           Candidates(n) # {}, Candidates(n) \subseteq Nat,
           NEW b \in Nat, \A c \in Candidates(n) : c <= b
    PROVE  Plurality(n) \in Candidates(n)
<1> DEFINE C == Candidates(n)
           K == {Count(n, c) : c \in C}
<1>1. ASSUME NEW c  PROVE Count(n, c) \in Nat /\ Count(n, c) <= Cardinality(projection[n])
  <2> DEFINE F == {f \in projection[n] : label[Other(n, f)] = c}
  <2>1. F \in SUBSET projection[n] /\ F \in SUBSET Fact
    OBVIOUS
  <2>2. QED  BY <2>1, FactsFinite, FS_Subset DEF Count
<1>2. Cardinality(projection[n]) \in Nat
  BY FactsFinite
<1>3. K \subseteq Nat /\ K # {} /\ \A k \in K : k <= Cardinality(projection[n])
  BY <1>1
<1>4. PICK k \in K : \A l \in K : l <= k
  <2> HIDE DEF K
  <2>1. QED  BY <1>2, <1>3, Largest
<1> DEFINE D == {c \in C : Count(n, c) = k}
<1>5. D \subseteq Nat /\ D # {} /\ \A d \in D : d <= b
  OBVIOUS
<1>6. PICK c \in D : \A d \in D : d <= c
  <2> HIDE DEF D
  <2>1. QED  BY <1>5, Largest
<1>7. ASSUME NEW d \in C
      PROVE  Count(n, d) < Count(n, c) \/ (Count(n, d) = Count(n, c) /\ d <= c)
  <2>1. Count(n, d) \in Nat /\ Count(n, c) \in Nat /\ Count(n, d) <= k /\ Count(n, c) = k
    BY <1>1, <1>4
  <2>2. Count(n, d) = k => d <= c
    BY <1>6
  <2>3. QED  BY <2>1, <2>2
<1>8. c \in C
  OBVIOUS
<1>9. QED  BY <1>7, <1>8 DEF Plurality
-----------------------------------------------------------------------------
(* Labels are labels of the list, and NewLabel picks one that the entity   *)
(* or one of its neighbours has.                                           *)
LEMMA NewLabelFrom ==
    ASSUME TypeOK, phase = "propagate", NEW n \in listed, Known
    PROVE  NewLabel(n) = label[n] \/ NewLabel(n) \in Candidates(n)
<1>1. N \in Nat /\ Entity \subseteq Nat /\ \A e \in Entity : e <= N
  BY ClustersAssumption DEF Entity
<1>2. n \in DOMAIN projection /\ projection[n] \in SUBSET Fact
  BY DEF TypeOK
<1>3. \A m \in listed : label[m] \in Entity
  BY DEF TypeOK
<1>4. Candidates(n) \subseteq Entity
  BY <1>3 DEF Candidates, Known
<1>5. Candidates(n) # {} => Plurality(n) \in Candidates(n)
  <2>1. Candidates(n) \subseteq Nat /\ \A c \in Candidates(n) : c <= N
    BY <1>1, <1>4
  <2>2. QED  BY <1>1, <1>2, <2>1, PluralityIsCandidate
<1>6. QED  BY <1>5 DEF NewLabel

LEMMA TypeStep == TypeOK /\ [Next]_vars => TypeOK'
<1> SUFFICES ASSUME TypeOK, [Next]_vars  PROVE TypeOK'
  OBVIOUS
<1> USE ClustersAssumption DEF graph, reading, labels
<1>1. ASSUME NEW f \in Fact, AddFact(f)  PROVE TypeOK'
  BY <1>1 DEF AddFact, TypeOK, Ends, Fact
<1>2. ASSUME NEW n \in Entity, DeleteEntity(n)  PROVE TypeOK'
  BY <1>2 DEF DeleteEntity, TypeOK
<1>3. CASE ListEntities
  BY <1>3 DEF ListEntities, TypeOK
<1>4. ASSUME NEW n \in Entity, ReadNeighbours(n)  PROVE TypeOK'
  BY <1>4 DEF ReadNeighbours, FactsAt, TypeOK
<1>5. CASE BeginPropagation
  BY <1>5 DEF BeginPropagation, TypeOK
<1>6. CASE MissNeighbour
  BY <1>6 DEF MissNeighbour, TypeOK
<1>7. CASE Propagate
  <2>1. ASSUME NEW n \in listed  PROVE NewLabel(n) \in Entity
    <3>1. NewLabel(n) = label[n] \/ NewLabel(n) \in Candidates(n)
      BY <1>7, <2>1, NewLabelFrom DEF Propagate
    <3>2. label \in [listed -> Entity] /\ Candidates(n) \subseteq Entity
      BY <1>7, <2>1 DEF Propagate, TypeOK, Candidates, Known
    <3>3. QED  BY <2>1, <3>1, <3>2
  <2>2. label' \in [listed -> Entity]
    BY <1>7, <2>1 DEF Propagate
  <2>3. QED  BY <1>7, <2>2 DEF Propagate, TypeOK
<1>8. CASE UNCHANGED vars
  BY <1>8 DEF vars, TypeOK
<1>9. QED
  BY <1>1, <1>2, <1>3, <1>4, <1>5, <1>6, <1>7, <1>8 DEF Next, Reader

(* The state of the reader and of the graph keeps its shape.               *)
THEOREM ClustersTyped == Spec => []TypeOK
<1>1. Init => TypeOK
  <2> SUFFICES ASSUME Init  PROVE TypeOK
    OBVIOUS
  <2>1. DOMAIN projection = {} /\ projection \in [DOMAIN projection -> SUBSET Fact]
    BY DEF Init
  <2>2. facts \subseteq Fact /\ present \subseteq Entity /\ listed = {}
    BY DEF Init
  <2>3. 0 \in 0..MaxWrites
    BY ClustersAssumption
  <2>4. phase = "list" /\ writes \in 0..MaxWrites
    BY <2>3 DEF Init
  <2>5. grown \in BOOLEAN
    BY DEF Init
  <2>6. QED  BY <2>1, <2>2, <2>4, <2>5 DEF TypeOK
<1>2. QED  BY <1>1, TypeStep, PTL DEF Spec

-----------------------------------------------------------------------------
(* Labels stay within whatever is closed under the neighbours that were    *)
(* read, hence within the connected parts of the graph.                    *)
THEOREM LabelsStayConnected == Spec => []StaysConnected
<1>1. Init => StaysConnected
  BY DEF Init, StaysConnected
<1>2. TypeOK /\ StaysConnected /\ [Next]_vars => StaysConnected'
  <2> SUFFICES ASSUME TypeOK, StaysConnected, [Next]_vars,
                      (phase \in {"propagate", "done"})'
               PROVE  \A S \in SUBSET listed' : Closed(S)' => \A n \in S : label'[n] \in S
    BY DEF StaysConnected
  <2>1. CASE BeginPropagation
    BY <2>1 DEF BeginPropagation, reading
  <2>2. CASE Propagate
    <3>1. listed' = listed /\ projection' = projection
      BY <2>2 DEF Propagate, reading
    <3> SUFFICES ASSUME NEW S \in SUBSET listed, Closed(S), NEW n \in S
                 PROVE  label'[n] \in S
      BY <3>1 DEF Closed, Neighbours
    <3>2. \A m \in S : label[m] \in S
      BY <2>2 DEF Propagate, StaysConnected
    <3>3. Candidates(n) \subseteq S
      BY <3>2 DEF Candidates, Closed
    <3>4. NewLabel(n) = label[n] \/ NewLabel(n) \in Candidates(n)
      BY <2>2, NewLabelFrom DEF Propagate
    <3>5. label'[n] = NewLabel(n)
      BY <2>2 DEF Propagate
    <3>6. QED  BY <3>2, <3>3, <3>4, <3>5
  <2>3. CASE UNCHANGED vars
    BY <2>3 DEF vars, StaysConnected, Closed, Neighbours
  <2>4. QED
    BY <2>1, <2>2, <2>3
       DEF Next, Reader, AddFact, DeleteEntity, ListEntities, ReadNeighbours, MissNeighbour
<1>3. QED  BY <1>1, <1>2, ClustersTyped, PTL DEF Spec

-----------------------------------------------------------------------------
(* Until an entity is added, whatever is or was in the graph is listed.    *)
Covered ==
    /\ phase = "list" => listed = {} /\ DOMAIN projection = {}
    /\ \A f \in facts : Ends(f) \subseteq present
    /\ phase # "list" /\ ~grown =>
          /\ present \subseteq listed
          /\ \A n \in DOMAIN projection : Neighbours(n) \subseteq listed
    /\ phase = "propagate" => DOMAIN projection = listed
    /\ phase = "failed" => grown

(* A KeyError needs an entity that was added while the graph was read.     *)
THEOREM MissesExplained == Spec => []MissedOnlyIfGrown
<1>1. Init => Covered
  BY DEF Init, Covered, Ends
<1>2. TypeOK /\ Covered /\ [Next]_vars => Covered'
  <2> SUFFICES ASSUME TypeOK, Covered, [Next]_vars  PROVE Covered'
    OBVIOUS
  <2> USE DEF graph, reading, labels
  <2>1. ASSUME NEW f \in Fact, AddFact(f)  PROVE Covered'
    BY <2>1 DEF AddFact, Covered, Neighbours
  <2>2. ASSUME NEW n \in Entity, DeleteEntity(n)  PROVE Covered'
    <3>1. \A f \in facts' : Ends(f) \subseteq present'
      BY <2>2 DEF DeleteEntity, Covered
    <3>2. QED  BY <2>2, <3>1 DEF DeleteEntity, Covered, Neighbours
  <2>3. CASE ListEntities
    BY <2>3 DEF ListEntities, Covered
  <2>4. ASSUME NEW n \in Entity, ReadNeighbours(n)  PROVE Covered'
    <3>1. phase = "read" /\ UNCHANGED <<graph, phase, listed, labels>>
      BY <2>4 DEF ReadNeighbours
    <3>2. ASSUME ~grown, NEW m \in DOMAIN projection'  PROVE Neighbours(m)' \subseteq listed
      <4>1. CASE m = n
        <5>1. projection'[m] = {f \in facts : n \in Ends(f)}
          BY <2>4, <3>2, <4>1 DEF ReadNeighbours, FactsAt
        <5>2. \A f \in facts : Other(n, f) \in Ends(f) /\ Ends(f) \subseteq listed
          BY <3>1, <3>2 DEF Covered, Other, Ends
        <5>3. QED  BY <4>1, <5>1, <5>2 DEF Neighbours
      <4>2. CASE m # n
        <5>1. m \in DOMAIN projection /\ projection'[m] = projection[m]
          BY <2>4, <3>2, <4>2 DEF ReadNeighbours
        <5>2. QED  BY <3>1, <3>2, <5>1 DEF Covered, Neighbours
      <4>3. QED  BY <4>1, <4>2
    <3>3. QED  BY <3>1, <3>2 DEF Covered
  <2>5. CASE BeginPropagation
    BY <2>5 DEF BeginPropagation, Covered, Neighbours
  <2>6. CASE MissNeighbour
    BY <2>6 DEF MissNeighbour, Known, Covered, Neighbours
  <2>7. CASE Propagate
    BY <2>7 DEF Propagate, Covered, Neighbours
  <2>8. CASE UNCHANGED vars
    BY <2>8 DEF vars, Covered, Neighbours
  <2>9. QED
    BY <2>1, <2>2, <2>3, <2>4, <2>5, <2>6, <2>7, <2>8 DEF Next, Reader
<1>3. Covered => MissedOnlyIfGrown
  BY DEF Covered, MissedOnlyIfGrown
<1>4. QED  BY <1>1, <1>2, <1>3, ClustersTyped, PTL DEF Spec
=============================================================================
