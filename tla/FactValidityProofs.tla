------------------------- MODULE FactValidityProofs -------------------------
(* Proofs about FactValidity for any number of facts and any dates.        *)
EXTENDS FactValidity, WellFoundedInduction, TLAPS

(* What Over returns.                                                      *)
LEMMA OverDomain ==
    ASSUME NEW f, NEW g  PROVE DOMAIN Over(f, g) = DOMAIN f \cup DOMAIN g
  BY DEF Over

LEMMA OverFirst ==
    ASSUME NEW f, NEW g, NEW x \in DOMAIN f  PROVE Over(f, g)[x] = f[x]
  BY DEF Over

LEMMA OverSecond ==
    ASSUME NEW f, NEW g, NEW x \in DOMAIN g, x \notin DOMAIN f  PROVE Over(f, g)[x] = g[x]
  BY DEF Over

LEMMA OverTyped ==
    ASSUME NEW S, NEW f, f \in [DOMAIN f -> S], NEW g, g \in [DOMAIN g -> S]
    PROVE  Over(f, g) \in [DOMAIN Over(f, g) -> S]
  BY DEF Over

(* Of facts that have a start, one begins first.                           *)
LEMMA FirstExists ==
    ASSUME NEW L \in SUBSET Edge, L # {}, \A c \in L : c.valid \in Nat
    PROVE  \E c \in L : \A d \in L : c.valid <= d.valid
<1> DEFINE R == {ss \in Nat \X Nat : ss[1] < ss[2]}
           T == {c.valid : c \in L}
<1>1. IsWellFoundedOn(R, Nat)
  BY NatLessThanWellFounded DEF OpToRel
<1>2. T \subseteq Nat /\ T # {}
  OBVIOUS
<1>3. PICK t \in T : \A u \in T : <<u, t>> \notin R
  <2> HIDE DEF R, T
  <2>1. QED  BY <1>1, <1>2, WFMin
<1>4. PICK c \in L : t = c.valid
  OBVIOUS
<1>5. ASSUME NEW d \in L  PROVE c.valid <= d.valid
  <2>1. d.valid \in T /\ d.valid \in Nat /\ c.valid \in Nat
    OBVIOUS
  <2>2. ~(d.valid < c.valid)
    BY <2>1, <1>3, <1>4
  <2>3. QED  BY <2>1, <2>2
<1>6. QED  BY <1>5

LEMMA EndedFacts ==
    ASSUME NEW e \in Edge
    PROVE  /\ Ended(e) \in Edge
           /\ Ended(e).valid = e.valid /\ Ended(e).invalid = e.invalid
           /\ e.invalid # Never => Ended(e).expired
           /\ Ended(e).expired => e.expired \/ e.invalid # Never
  BY DEF Ended, Edge

(* A new fact keeps its start; it is left alone or ends where the first of *)
(* the later candidates begins.                                            *)
LEMMA SupersededFacts ==
    ASSUME NEW e \in Edge, NEW C \in SUBSET Edge
    PROVE  /\ Superseded(e, C) \in Edge
           /\ Superseded(e, C).valid = e.valid
           /\ \/ Superseded(e, C) = e
              \/ /\ ~e.expired
                 /\ Superseded(e, C).invalid \in Nat
                 /\ Earlier(e.valid, Superseded(e, C).invalid)
           /\ ~e.expired =>
                \A c \in C : Earlier(e.valid, c.valid)
                                => NotAfter(Superseded(e, C).invalid, c.valid)
<1> DEFINE later == {c \in C : Earlier(e.valid, c.valid)}
           first == CHOOSE c \in later : \A d \in later : c.valid <= d.valid
<1>1. CASE e.expired \/ later = {}
  <2>1. Superseded(e, C) = e
    BY <1>1 DEF Superseded
  <2>2. QED  BY <1>1, <2>1
<1>2. CASE ~e.expired /\ later # {}
  <2>1. later \in SUBSET Edge /\ \A c \in later : c.valid \in Nat
    BY FactValidityAssumption DEF Earlier, Edge, Date
  <2>2. first \in later /\ \A d \in later : first.valid <= d.valid
    <3>1. \E c \in later : \A d \in later : c.valid <= d.valid
      <4> HIDE DEF later
      <4>1. QED  BY <1>2, <2>1, FirstExists
    <3>2. QED  BY <3>1
  <2>3. Superseded(e, C) = [e EXCEPT !.invalid = first.valid, !.expired = TRUE]
    BY <1>2 DEF Superseded
  <2>4. first.valid \in Nat /\ first.valid \in Date /\ Earlier(e.valid, first.valid)
    BY <2>1, <2>2 DEF Edge
  <2> HIDE DEF first
  <2>5. /\ Superseded(e, C) \in Edge
        /\ Superseded(e, C).valid = e.valid
        /\ Superseded(e, C).invalid = first.valid
    BY <2>3, <2>4 DEF Edge
  <2>6. ASSUME NEW c \in C, Earlier(e.valid, c.valid)
        PROVE  NotAfter(first.valid, c.valid)
    <3>1. c \in later
      BY <2>6
    <3>2. first.valid <= c.valid /\ c.valid \in Nat
      BY <3>1, <2>2, <2>1
    <3>3. QED  BY <3>2, <2>4, FactValidityAssumption DEF NotAfter
  <2>7. QED  BY <1>2, <2>4, <2>5, <2>6
<1>3. QED  BY <1>1, <1>2

LEMMA NarrowerReflexive ==
    ASSUME NEW e \in Edge  PROVE Narrower(e, e)
  BY FactValidityAssumption DEF Narrower, Lasts, NotAfter, Earlier, Edge, Date

(* Cutting windows short keeps them apart.                                 *)
LEMMA NarrowerApart ==
    ASSUME NEW e \in Edge, NEW f \in Edge, NEW g \in Edge, NEW h \in Edge,
           Narrower(e, g), Narrower(f, h), Apart(g, h)
    PROVE  Apart(e, f)
  BY FactValidityAssumption DEF Apart, Narrower, NotAfter, Edge, Date

LEMMA ClosedFacts ==
    ASSUME NEW c \in Edge, NEW e \in Edge, Contradicted(c, e)
    PROVE  /\ Closed(c, e) \in Edge
           /\ Narrower(Closed(c, e), c)
           /\ Closed(c, e).invalid # Never
           /\ Apart(e, Closed(c, e))
<1>1. Closed(c, e) \in Edge /\ Closed(c, e).valid = c.valid /\ Closed(c, e).invalid = e.valid
  BY DEF Closed, Edge
<1>2. e.valid # Never /\ e.valid \in Nat /\ c.valid \in Nat /\ c.valid < e.valid
  BY FactValidityAssumption DEF Contradicted, Earlier, Edge, Date
<1>3. c.invalid # Never => c.invalid \in Nat /\ e.valid < c.invalid
  BY <1>2, FactValidityAssumption DEF Contradicted, Apart, NotAfter, Edge, Date
<1>4. QED  BY <1>1, <1>2, <1>3, FactValidityAssumption DEF Narrower, Lasts, NotAfter, Earlier, Apart
-----------------------------------------------------------------------------
(* The stored facts s once resolved facts r and invalidated facts i are saved.*)
Saved(s, r, i) == Over(i, Over(r, s))

(* The graph as saving the running episode would leave it.                 *)
Final == Saved(stored, resolved, invalidated)

(* What the running episode holds of stored facts only cuts them short.    *)
HeldNarrower ==
    /\ \A f \in DOMAIN resolved \cap DOMAIN stored : Narrower(resolved[f], stored[f])
    /\ \A f \in DOMAIN invalidated : Narrower(invalidated[f], stored[f])

Ends(g) == \A f \in DOMAIN g : g[f].expired => g[f].invalid # Never

EndsKnown == Ends(stored) /\ Ends(resolved) /\ Ends(invalidated)

(* Contradictions the running episode settled stay settled when it is      *)
(* saved, unless one of the facts is torn.                                 *)
MetApart ==
    \A p \in met :
        /\ p[1] \in DOMAIN resolved /\ p[2] \in DOMAIN stored
        /\ p[1] \notin torn /\ p[2] \notin torn => Apart(Final[p[1]], Final[p[2]])

ConflictsApart ==
    \A p \in conflicts :
        /\ p[1] \in DOMAIN stored /\ p[2] \in DOMAIN stored
        /\ Apart(stored[p[1]], stored[p[2]])

IInv == TypeOK /\ HeldNarrower /\ EndsKnown /\ MetApart /\ ConflictsApart

(* Every fact is saved as it was written last.                             *)
LEMMA SavedDomain ==
    ASSUME NEW s, NEW r, NEW i
    PROVE  DOMAIN Saved(s, r, i) = DOMAIN i \cup DOMAIN r \cup DOMAIN s
<1>1. DOMAIN Over(r, s) = DOMAIN r \cup DOMAIN s
  BY OverDomain
<1>2. DOMAIN Saved(s, r, i) = DOMAIN i \cup DOMAIN Over(r, s)
  BY OverDomain DEF Saved
<1>3. QED  BY <1>1, <1>2

LEMMA SavedInvalidated ==
    ASSUME NEW s, NEW r, NEW i, NEW f \in DOMAIN i
    PROVE  Saved(s, r, i)[f] = i[f]
  BY OverFirst DEF Saved

LEMMA SavedResolved ==
    ASSUME NEW s, NEW r, NEW i, NEW f \in DOMAIN r, f \notin DOMAIN i
    PROVE  Saved(s, r, i)[f] = r[f]
<1>1. f \in DOMAIN Over(r, s)
  BY OverDomain
<1>2. Over(r, s)[f] = r[f]
  BY OverFirst
<1>3. Over(i, Over(r, s))[f] = Over(r, s)[f]
  BY <1>1, OverSecond
<1>4. QED  BY <1>2, <1>3 DEF Saved

LEMMA SavedStored ==
    ASSUME NEW s, NEW r, NEW i, NEW f \in DOMAIN s, f \notin DOMAIN r, f \notin DOMAIN i
    PROVE  Saved(s, r, i)[f] = s[f]
<1>1. f \in DOMAIN Over(r, s)
  BY OverDomain
<1>2. Over(r, s)[f] = s[f]
  BY OverSecond
<1>3. Over(i, Over(r, s))[f] = Over(r, s)[f]
  BY <1>1, OverSecond
<1>4. QED  BY <1>2, <1>3 DEF Saved

LEMMA SavedNarrower ==
    ASSUME NEW s, s \in [DOMAIN s -> Edge],
           NEW r, r \in [DOMAIN r -> Edge],
           NEW i, i \in [DOMAIN i -> Edge],
           \A x \in DOMAIN r \cap DOMAIN s : Narrower(r[x], s[x]),
           \A x \in DOMAIN i : Narrower(i[x], s[x]),
           NEW f \in DOMAIN s
    PROVE  Saved(s, r, i)[f] \in Edge /\ Narrower(Saved(s, r, i)[f], s[f])
<1>1. CASE f \in DOMAIN i
  <2>1. Saved(s, r, i)[f] = i[f]
    BY <1>1, SavedInvalidated
  <2>2. QED  BY <1>1, <2>1
<1>2. CASE f \in DOMAIN r /\ f \notin DOMAIN i
  <2>1. Saved(s, r, i)[f] = r[f]
    BY <1>2, SavedResolved
  <2>2. QED  BY <1>2, <2>1
<1>3. CASE f \notin DOMAIN r /\ f \notin DOMAIN i
  <2>1. Saved(s, r, i)[f] = s[f]
    BY <1>3, SavedStored
  <2>2. QED  BY <2>1, NarrowerReflexive
<1>4. QED  BY <1>1, <1>2, <1>3
-----------------------------------------------------------------------------
(* What a resolution makes of fact id, taken from e, against C.            *)
New(id, e, C) == Superseded(Ended(e), {stored[c] : c \in C \ {id}})
Hit(id, e, C) == {c \in C \ {id} : Contradicted(stored[c], New(id, e, C))}

LEMMA NewFacts ==
    ASSUME TypeOK, NEW id, NEW e \in Edge, NEW C \in SUBSET DOMAIN stored
    PROVE  /\ New(id, e, C) \in Edge
           /\ Narrower(New(id, e, C), e)
           /\ (e.expired => e.invalid # Never)
                => (New(id, e, C).expired => New(id, e, C).invalid # Never)
           /\ (e.expired => e.invalid # Never) =>
                \A k \in C \ {id} :
                    /\ e.invalid = Never /\ Earlier(e.valid, stored[k].valid)
                    => NotAfter(New(id, e, C).invalid, stored[k].valid)
<1> DEFINE Cs == {stored[c] : c \in C \ {id}}
           d == Ended(e)
           n == New(id, e, C)
<1>1. Cs \in SUBSET Edge
  BY DEF TypeOK
<1>2. /\ d \in Edge /\ d.valid = e.valid /\ d.invalid = e.invalid
      /\ e.invalid # Never => d.expired
      /\ d.expired => e.expired \/ e.invalid # Never
  BY EndedFacts
<1>3. n = Superseded(d, Cs)
  BY DEF New
<1> HIDE DEF d, n, Cs
<1>4. /\ n \in Edge /\ n.valid = d.valid
      /\ \/ n = d
         \/ ~d.expired /\ n.invalid \in Nat /\ Earlier(d.valid, n.invalid)
      /\ ~d.expired => \A c \in Cs : Earlier(d.valid, c.valid) => NotAfter(n.invalid, c.valid)
  BY <1>1, <1>2, <1>3, SupersededFacts
<1>5. CASE n = d
  <2>1. Narrower(d, e)
    BY <1>2, NarrowerReflexive DEF Narrower, Lasts
  <2>2. QED  BY <1>2, <1>4, <1>5, <2>1 DEF Cs, n
<1>6. CASE ~d.expired /\ n.invalid \in Nat /\ Earlier(d.valid, n.invalid)
  <2>1. e.invalid = Never
    BY <1>2, <1>6
  <2>2. Narrower(n, e)
    BY <1>2, <1>4, <2>1 DEF Narrower, Lasts, Earlier
  <2>3. QED  BY <1>2, <1>4, <1>6, <2>1, <2>2, FactValidityAssumption DEF Cs, n
<1>7. QED  BY <1>4, <1>5, <1>6

(* The state after a resolution, fact by fact.                             *)
LEMMA WriteFacts ==
    ASSUME TypeOK, NEW id \in 1..made', made' \in 0..MaxFacts, made <= made',
           NEW e \in Edge, NEW C \in SUBSET DOMAIN stored, Write(id, e, C)
    PROVE  /\ DOMAIN resolved' = {id} \cup DOMAIN resolved
           /\ resolved'[id] = New(id, e, C)
           /\ \A f \in DOMAIN resolved \ {id} : resolved'[f] = resolved[f]
           /\ DOMAIN invalidated' = Hit(id, e, C) \cup DOMAIN invalidated
           /\ \A f \in Hit(id, e, C) : invalidated'[f] = Closed(stored[f], New(id, e, C))
           /\ \A f \in DOMAIN invalidated \ Hit(id, e, C) : invalidated'[f] = invalidated[f]
           /\ torn' = torn \cup (({id} \cup Hit(id, e, C))
                                    \cap (DOMAIN resolved \cup DOMAIN invalidated))
           /\ resolved' \in [DOMAIN resolved' -> Edge]
           /\ invalidated' \in [DOMAIN invalidated' -> Edge]
<1> DEFINE n == New(id, e, C)
           h == Hit(id, e, C)
           r == [f \in {id} |-> n]
           i == [c \in h |-> Closed(stored[c], n)]
<1>1. /\ resolved' = Over(r, resolved)
      /\ invalidated' = Over(i, invalidated)
      /\ torn' = torn \cup (({id} \cup h) \cap (DOMAIN resolved \cup DOMAIN invalidated))
  BY DEF Write, New, Hit
<1>2. n \in Edge
  BY NewFacts
<1>3. ASSUME NEW f \in h  PROVE Closed(stored[f], n) \in Edge
  <2>1. stored[f] \in Edge /\ Contradicted(stored[f], n)
    BY DEF Hit, TypeOK
  <2>2. QED  BY <1>2, <2>1, ClosedFacts
<1> HIDE DEF n, h
<1>4. r \in [DOMAIN r -> Edge] /\ i \in [DOMAIN i -> Edge]
  BY <1>2, <1>3
<1>5. DOMAIN r = {id} /\ r[id] = n /\ DOMAIN i = h /\ \A f \in h : i[f] = Closed(stored[f], n)
  OBVIOUS
<1> HIDE DEF r, i
<1>6. DOMAIN resolved' = {id} \cup DOMAIN resolved /\ resolved'[id] = n
  <2>1. DOMAIN resolved' = {id} \cup DOMAIN resolved
    BY <1>1, <1>5, OverDomain
  <2>2. resolved'[id] = n
    BY <1>1, <1>5, OverFirst
  <2>3. QED  BY <2>1, <2>2
<1>7. ASSUME NEW f \in DOMAIN resolved \ {id}  PROVE resolved'[f] = resolved[f]
  BY <1>1, <1>5, OverDomain, OverFirst, OverSecond
<1>8. DOMAIN invalidated' = h \cup DOMAIN invalidated
  BY <1>1, <1>5, OverDomain, OverFirst, OverSecond
<1>9. ASSUME NEW f \in h  PROVE invalidated'[f] = Closed(stored[f], n)
  BY <1>1, <1>5, OverDomain, OverFirst, OverSecond
<1>10. ASSUME NEW f \in DOMAIN invalidated \ h  PROVE invalidated'[f] = invalidated[f]
  BY <1>1, <1>5, OverDomain, OverFirst, OverSecond
<1>11. resolved' \in [DOMAIN resolved' -> Edge] /\ invalidated' \in [DOMAIN invalidated' -> Edge]
  BY <1>1, <1>4, OverTyped DEF TypeOK
<1>12. QED  BY <1>1, <1>6, <1>7, <1>8, <1>9, <1>10, <1>11 DEF n, h

(* What a resolution that touches the facts T leaves of the contradictions *)
(* found before it: facts it touches again are torn, facts it cuts short   *)
(* stay apart.                                                             *)
LEMMA MetKept ==
    ASSUME IInv, TypeOK', HeldNarrower', stored' = stored,
           NEW T,
           torn' = torn \cup (T \cap (DOMAIN resolved \cup DOMAIN invalidated)),
           DOMAIN resolved \subseteq DOMAIN resolved',
           DOMAIN resolved' \subseteq DOMAIN resolved \cup T,
           \A f \in DOMAIN resolved \ T : resolved'[f] = resolved[f],
           DOMAIN invalidated \subseteq DOMAIN invalidated',
           DOMAIN invalidated' \subseteq DOMAIN invalidated \cup T,
           \A f \in DOMAIN invalidated \ T : invalidated'[f] = invalidated[f],
           NEW p \in met
    PROVE  /\ p[1] \in DOMAIN resolved' /\ p[2] \in DOMAIN stored'
           /\ p[1] \notin torn' /\ p[2] \notin torn' => Apart(Final'[p[1]], Final'[p[2]])
<1> USE DEF IInv
<1>0. p[1] \in DOMAIN resolved /\ p[2] \in DOMAIN stored
  BY DEF MetApart
<1> SUFFICES ASSUME p[1] \notin torn', p[2] \notin torn'
             PROVE  Apart(Final'[p[1]], Final'[p[2]])
  BY <1>0
<1>1. /\ p[1] \in DOMAIN resolved /\ p[2] \in DOMAIN stored
      /\ p[1] \notin torn /\ p[2] \notin torn
      /\ Apart(Final[p[1]], Final[p[2]])
  BY DEF MetApart
<1>2. p[1] \notin T
  BY <1>1
<1>3. Final'[p[1]] = Final[p[1]] /\ Final[p[1]] \in Edge
  <2>1. CASE p[1] \in DOMAIN invalidated
    <3>1. Final[p[1]] = invalidated[p[1]] /\ p[1] \in DOMAIN invalidated'
      BY <1>2, <2>1, SavedInvalidated DEF Final
    <3>2. Final'[p[1]] = invalidated'[p[1]]
      BY <3>1, SavedInvalidated DEF Final
    <3>3. QED  BY <1>2, <2>1, <3>1, <3>2 DEF TypeOK
  <2>2. CASE p[1] \notin DOMAIN invalidated
    <3>1. Final[p[1]] = resolved[p[1]]
      BY <1>1, <2>2, SavedResolved DEF Final
    <3>2. p[1] \in DOMAIN resolved' /\ p[1] \notin DOMAIN invalidated'
      BY <1>1, <1>2, <2>2
    <3>3. Final'[p[1]] = resolved'[p[1]]
      BY <3>2, SavedResolved DEF Final
    <3>4. QED  BY <1>1, <1>2, <3>1, <3>3 DEF TypeOK
  <2>3. QED  BY <2>1, <2>2
<1>4. CASE p[2] \in DOMAIN resolved \cup DOMAIN invalidated
  <2>1. p[2] \notin T
    BY <1>4
  <2>2. Final'[p[2]] = Final[p[2]]
    <3>1. CASE p[2] \in DOMAIN invalidated
      <4>1. Final[p[2]] = invalidated[p[2]] /\ p[2] \in DOMAIN invalidated'
        BY <1>2, <3>1, SavedInvalidated DEF Final
      <4>2. Final'[p[2]] = invalidated'[p[2]]
        BY <4>1, SavedInvalidated DEF Final
      <4>3. QED  BY <1>2, <2>1, <3>1, <4>1, <4>2
    <3>2. CASE p[2] \in DOMAIN resolved /\ p[2] \notin DOMAIN invalidated
      <4>1. Final[p[2]] = resolved[p[2]]
        BY <3>2, SavedResolved DEF Final
      <4>2. p[2] \in DOMAIN resolved' /\ p[2] \notin DOMAIN invalidated'
        BY <1>2, <2>1, <3>2
      <4>3. Final'[p[2]] = resolved'[p[2]]
        BY <4>2, SavedResolved DEF Final
      <4>4. QED  BY <1>2, <2>1, <3>2, <4>1, <4>3
    <3>3. QED  BY <1>4, <3>1, <3>2
  <2>3. QED  BY <1>1, <1>3, <2>2
<1>5. CASE p[2] \notin DOMAIN resolved \cup DOMAIN invalidated
  <2>1. Final[p[2]] = stored[p[2]] /\ stored[p[2]] \in Edge
    BY <1>1, <1>5, SavedStored DEF Final, TypeOK
  <2>2. Final'[p[2]] \in Edge /\ Narrower(Final'[p[2]], stored[p[2]])
    BY <1>1, SavedNarrower DEF Final, TypeOK, HeldNarrower
  <2>3. Narrower(Final[p[1]], Final[p[1]])
    BY <1>3, NarrowerReflexive
  <2>4. QED  BY <1>1, <1>3, <2>1, <2>2, <2>3, NarrowerApart
<1>6. QED  BY <1>4, <1>5

(* A resolution preserves the invariant, whether the fact is new or stored.*)
LEMMA WritePreserves ==
    ASSUME IInv, Another, made' \in 0..MaxFacts, made <= made',
           NEW id \in 1..made', NEW e \in Edge, NEW C \in SUBSET DOMAIN stored,
           Write(id, e, C),
           id \in DOMAIN stored => e = stored[id],
           e.expired => e.invalid # Never
    PROVE  IInv'
<1> DEFINE n == New(id, e, C)
           h == Hit(id, e, C)
<1> USE DEF IInv
<1>1. stored' = stored /\ conflicts' = conflicts /\ met' = met \cup Settled(id, e, C \ {id})
  BY DEF Write
<1>2. /\ DOMAIN resolved' = {id} \cup DOMAIN resolved
      /\ resolved'[id] = n
      /\ \A f \in DOMAIN resolved \ {id} : resolved'[f] = resolved[f]
      /\ DOMAIN invalidated' = h \cup DOMAIN invalidated
      /\ \A f \in h : invalidated'[f] = Closed(stored[f], n)
      /\ \A f \in DOMAIN invalidated \ h : invalidated'[f] = invalidated[f]
      /\ torn' = torn \cup (({id} \cup h) \cap (DOMAIN resolved \cup DOMAIN invalidated))
      /\ resolved' \in [DOMAIN resolved' -> Edge]
      /\ invalidated' \in [DOMAIN invalidated' -> Edge]
  BY WriteFacts
<1>3. /\ n \in Edge /\ Narrower(n, e) /\ (n.expired => n.invalid # Never)
      /\ \A k \in C \ {id} : e.invalid = Never /\ Earlier(e.valid, stored[k].valid)
                                => NotAfter(n.invalid, stored[k].valid)
  BY NewFacts
<1>4. /\ h \subseteq DOMAIN stored /\ id \notin h
      /\ \A f \in h : /\ stored[f] \in Edge /\ Contradicted(stored[f], n)
                      /\ Closed(stored[f], n) \in Edge
                      /\ Narrower(Closed(stored[f], n), stored[f])
                      /\ Closed(stored[f], n).invalid # Never
                      /\ Apart(n, Closed(stored[f], n))
  <2>1. h \subseteq DOMAIN stored /\ id \notin h
    BY DEF Hit
  <2>2. ASSUME NEW f \in h  PROVE stored[f] \in Edge /\ Contradicted(stored[f], n)
    BY <2>1 DEF Hit, TypeOK
  <2>3. QED  BY <1>3, <2>1, <2>2, ClosedFacts
<1>5. Settled(id, e, C \ {id}) \subseteq {id} \X (C \ {id})
  BY DEF Settled
<1> HIDE DEF n, h
<1>6. TypeOK'
  <2>1. DOMAIN resolved' \subseteq 1..made' /\ DOMAIN stored' \subseteq 1..made'
    BY <1>1, <1>2, FactValidityAssumption DEF TypeOK
  <2>2. DOMAIN invalidated' \subseteq DOMAIN stored'
    BY <1>1, <1>2, <1>4 DEF TypeOK
  <2>3. id \in Fact /\ DOMAIN stored \subseteq Fact
    BY FactValidityAssumption DEF TypeOK, Fact
  <2>4. torn' \subseteq Fact
    BY <1>2, <1>4, <2>3 DEF TypeOK
  <2>5. met' \subseteq Fact \X Fact
    BY <1>1, <1>5, <2>3 DEF TypeOK
  <2>6. done' \in 0..MaxPerEpisode
    BY FactValidityAssumption DEF TypeOK, Another
  <2>7. QED  BY <1>1, <1>2, <2>1, <2>2, <2>4, <2>5, <2>6 DEF TypeOK
<1>7. HeldNarrower'
  <2>1. ASSUME NEW f \in DOMAIN resolved', f \in DOMAIN stored
        PROVE  Narrower(resolved'[f], stored[f])
    BY <1>2, <1>3, <2>1 DEF HeldNarrower
  <2>2. ASSUME NEW f \in DOMAIN invalidated'
        PROVE  Narrower(invalidated'[f], stored[f])
    BY <1>2, <1>4 DEF HeldNarrower
  <2>3. QED  BY <1>1, <2>1, <2>2 DEF HeldNarrower
<1>8. EndsKnown'
  <2>1. Ends(resolved')
    BY <1>2, <1>3 DEF EndsKnown, Ends
  <2>2. Ends(invalidated')
    BY <1>2, <1>4 DEF EndsKnown, Ends
  <2>3. QED  BY <1>1, <2>1, <2>2 DEF EndsKnown
<1>9. MetApart'
  <2>1. ASSUME NEW f \in DOMAIN stored
        PROVE  Final'[f] \in Edge /\ Narrower(Final'[f], stored[f])
    BY <1>1, <1>6, <1>7, SavedNarrower DEF Final, TypeOK, HeldNarrower
  <2>2. ASSUME NEW p \in met
        PROVE  /\ p[1] \in DOMAIN resolved' /\ p[2] \in DOMAIN stored'
               /\ p[1] \notin torn' /\ p[2] \notin torn' => Apart(Final'[p[1]], Final'[p[2]])
    <3> DEFINE T == {id} \cup h
    <3>1. /\ torn' = torn \cup (T \cap (DOMAIN resolved \cup DOMAIN invalidated))
          /\ DOMAIN resolved \subseteq DOMAIN resolved'
          /\ DOMAIN resolved' \subseteq DOMAIN resolved \cup T
          /\ \A f \in DOMAIN resolved \ T : resolved'[f] = resolved[f]
          /\ DOMAIN invalidated \subseteq DOMAIN invalidated'
          /\ DOMAIN invalidated' \subseteq DOMAIN invalidated \cup T
          /\ \A f \in DOMAIN invalidated \ T : invalidated'[f] = invalidated[f]
      BY <1>2
    <3> HIDE DEF T
    <3>2. QED  BY <1>1, <1>6, <1>7, <3>1, MetKept
  <2>3. ASSUME NEW k \in C \ {id}, <<id, k>> \in Settled(id, e, C \ {id}),
               id \notin torn', k \notin torn'
        PROVE  Apart(Final'[id], Final'[k])
    <3>1. k \in DOMAIN stored /\ stored[k] \in Edge
      BY DEF TypeOK
    <3>2. id \notin DOMAIN invalidated'
      BY <1>2, <1>4, <2>3
    <3>3. Final'[id] = n
      BY <1>2, <3>2, SavedResolved DEF Final
    <3>4. CASE k \in h
      <4>1. Final'[k] = Closed(stored[k], n)
        BY <1>2, <3>4, SavedInvalidated DEF Final
      <4>2. QED  BY <1>4, <3>3, <3>4, <4>1
    <3>5. CASE k \notin h
      <4>1. Apart(n, stored[k])
        <5>1. ~Contradicted(stored[k], n)
          BY <3>5 DEF Hit, h, n
        <5>2. n.valid = e.valid
          BY <1>3 DEF Narrower
        <5>3. \/ Earlier(stored[k].valid, e.valid)
              \/ e.invalid = Never /\ Earlier(e.valid, stored[k].valid)
          BY <2>3 DEF Settled
        <5>4. CASE Earlier(stored[k].valid, e.valid)
          BY <5>1, <5>2, <5>4 DEF Contradicted, Apart
        <5>5. CASE e.invalid = Never /\ Earlier(e.valid, stored[k].valid)
          BY <1>3, <5>5 DEF Apart
        <5>6. QED  BY <5>3, <5>4, <5>5
      <4>2. Final'[k] \in Edge /\ Narrower(Final'[k], stored[k])
        BY <2>1, <3>1
      <4>3. Narrower(n, n)
        BY <1>3, NarrowerReflexive
      <4>4. QED  BY <1>3, <3>1, <3>3, <4>1, <4>2, <4>3, NarrowerApart
    <3>6. QED  BY <3>4, <3>5
  <2>4. ASSUME NEW p \in met'
        PROVE  /\ p[1] \in DOMAIN resolved' /\ p[2] \in DOMAIN stored
               /\ p[1] \notin torn' /\ p[2] \notin torn' => Apart(Final'[p[1]], Final'[p[2]])
    <3>1. CASE p \in met
      BY <1>1, <2>2, <3>1
    <3>2. CASE p \in Settled(id, e, C \ {id})
      <4>1. PICK k \in C \ {id} : p = <<id, k>>
        BY <1>5, <3>2
      <4>2. p[1] = id /\ p[2] = k
        BY <4>1
      <4>3. QED  BY <1>2, <2>3, <3>2, <4>1, <4>2
    <3>3. QED  BY <1>1, <3>1, <3>2
  <2>5. QED  BY <1>1, <2>4 DEF MetApart
<1>10. ConflictsApart'
  BY <1>1 DEF ConflictsApart
<1>11. QED  BY <1>6, <1>7, <1>8, <1>9, <1>10

(* So does a resolution that writes fact id alone.                         *)
LEMMA KeepPreserves ==
    ASSUME IInv, Another, made' \in 0..MaxFacts, made <= made',
           NEW id \in 1..made', NEW e \in Edge,
           resolved' = Over([f \in {id} |-> e], resolved),
           torn' = torn \cup ({id} \cap (DOMAIN resolved \cup DOMAIN invalidated)),
           UNCHANGED <<stored, invalidated, met, conflicts>>,
           id \in DOMAIN stored => e = stored[id],
           e.expired => e.invalid # Never
    PROVE  IInv'
<1> USE DEF IInv
<1> DEFINE r == [f \in {id} |-> e]
<1>1. r \in [DOMAIN r -> Edge] /\ DOMAIN r = {id} /\ r[id] = e
  OBVIOUS
<1>2. resolved' = Over(r, resolved)
  OBVIOUS
<1> HIDE DEF r
<1>3. DOMAIN resolved' = {id} \cup DOMAIN resolved
  BY <1>1, <1>2, OverDomain
<1>4. resolved'[id] = e
  BY <1>1, <1>2, OverFirst
<1>5. ASSUME NEW f \in DOMAIN resolved \ {id}  PROVE resolved'[f] = resolved[f]
  BY <1>1, <1>2, OverSecond
<1>6. resolved' \in [DOMAIN resolved' -> Edge]
  BY <1>1, <1>2, OverTyped DEF TypeOK
<1>7. TypeOK'
  <2>1. DOMAIN resolved' \subseteq 1..made' /\ DOMAIN stored' \subseteq 1..made'
    BY <1>3, FactValidityAssumption DEF TypeOK
  <2>2. torn' \subseteq Fact
    BY FactValidityAssumption DEF TypeOK, Fact
  <2>3. done' \in 0..MaxPerEpisode
    BY FactValidityAssumption DEF TypeOK, Another
  <2>4. QED  BY <1>6, <2>1, <2>2, <2>3 DEF TypeOK
<1>8. HeldNarrower'
  <2>1. ASSUME NEW f \in DOMAIN resolved', f \in DOMAIN stored
        PROVE  Narrower(resolved'[f], stored[f])
    BY <1>3, <1>4, <1>5, <2>1, NarrowerReflexive DEF HeldNarrower
  <2>2. QED  BY <2>1 DEF HeldNarrower
<1>9. EndsKnown'
  BY <1>3, <1>4, <1>5 DEF EndsKnown, Ends
<1>10. MetApart'
  <2>1. ASSUME NEW p \in met
        PROVE  /\ p[1] \in DOMAIN resolved' /\ p[2] \in DOMAIN stored'
               /\ p[1] \notin torn' /\ p[2] \notin torn' => Apart(Final'[p[1]], Final'[p[2]])
    <3> DEFINE T == {id}
    <3>1. /\ torn' = torn \cup (T \cap (DOMAIN resolved \cup DOMAIN invalidated))
          /\ DOMAIN resolved \subseteq DOMAIN resolved'
          /\ DOMAIN resolved' \subseteq DOMAIN resolved \cup T
          /\ \A f \in DOMAIN resolved \ T : resolved'[f] = resolved[f]
          /\ invalidated' = invalidated /\ stored' = stored
      BY <1>3, <1>5
    <3> HIDE DEF T
    <3>2. QED  BY <1>7, <1>8, <3>1, MetKept
  <2>2. QED  BY <2>1 DEF MetApart
<1>11. ConflictsApart'
  BY DEF ConflictsApart
<1>12. QED  BY <1>7, <1>8, <1>9, <1>10, <1>11

(* So does saving the episode.                                             *)
LEMMA SavePreserves ==
    ASSUME IInv, SaveEpisode  PROVE IInv'
<1> USE DEF IInv
<1>0. stored' = Saved(stored, resolved, invalidated)
  BY DEF SaveEpisode, Saved
<1>1. /\ stored' = Final
      /\ resolved' = Empty /\ invalidated' = Empty /\ done' = 0 /\ made' = made
      /\ torn' = {} /\ met' = {}
      /\ conflicts' = conflicts \cup {p \in met : p[1] \notin torn /\ p[2] \notin torn}
  BY DEF SaveEpisode, Saved, Final
<1>2. DOMAIN Empty = {} /\ Empty \in [DOMAIN Empty -> Edge]
  BY DEF Empty
<1>3. DOMAIN stored' = DOMAIN invalidated \cup DOMAIN resolved \cup DOMAIN stored
  BY <1>0, SavedDomain
<1>4. stored' \in [DOMAIN stored' -> Edge]
  <2>1. Over(resolved, stored) \in [DOMAIN Over(resolved, stored) -> Edge]
    BY OverTyped DEF TypeOK
  <2>2. stored' = Over(invalidated, Over(resolved, stored))
    BY <1>0 DEF Saved
  <2>3. QED  BY <2>1, <2>2, OverTyped DEF TypeOK
<1>5. ASSUME NEW f \in DOMAIN stored
      PROVE  stored'[f] \in Edge /\ Narrower(stored'[f], stored[f])
  BY <1>0, SavedNarrower DEF TypeOK, HeldNarrower
<1>6. TypeOK'
  BY <1>1, <1>2, <1>3, <1>4, FactValidityAssumption DEF TypeOK
<1>7. HeldNarrower'
  BY <1>1, <1>2 DEF HeldNarrower
<1>8. Ends(stored')
  <2>1. ASSUME NEW f \in DOMAIN invalidated  PROVE stored'[f] = invalidated[f]
    BY <1>0, SavedInvalidated
  <2>2. ASSUME NEW f \in DOMAIN resolved, f \notin DOMAIN invalidated
        PROVE  stored'[f] = resolved[f]
    BY <1>0, <2>2, SavedResolved
  <2>3. ASSUME NEW f \in DOMAIN stored, f \notin DOMAIN resolved, f \notin DOMAIN invalidated
        PROVE  stored'[f] = stored[f]
    BY <1>0, <2>3, SavedStored
  <2>4. QED  BY <1>3, <2>1, <2>2, <2>3 DEF EndsKnown, Ends
<1>9. EndsKnown'
  BY <1>1, <1>2, <1>8 DEF EndsKnown, Ends
<1>10. MetApart'
  BY <1>1 DEF MetApart
<1>11. ConflictsApart'
  <2>1. ASSUME NEW p \in conflicts
        PROVE  /\ p[1] \in DOMAIN stored /\ p[2] \in DOMAIN stored
               /\ Apart(stored'[p[1]], stored'[p[2]])
    <3>1. /\ p[1] \in DOMAIN stored /\ p[2] \in DOMAIN stored
          /\ Apart(stored[p[1]], stored[p[2]])
      BY DEF ConflictsApart
    <3>2. stored[p[1]] \in Edge /\ stored[p[2]] \in Edge
      BY <3>1 DEF TypeOK
    <3>3. QED  BY <1>5, <3>1, <3>2, NarrowerApart
  <2>2. ASSUME NEW p \in met, p[1] \notin torn, p[2] \notin torn
        PROVE  /\ p[1] \in DOMAIN resolved /\ p[2] \in DOMAIN stored
               /\ Apart(stored'[p[1]], stored'[p[2]])
    BY <1>1, <2>2 DEF MetApart
  <2>3. QED  BY <1>1, <1>3, <2>1, <2>2 DEF ConflictsApart
<1>12. QED  BY <1>6, <1>7, <1>9, <1>10, <1>11
-----------------------------------------------------------------------------
LEMMA InitInv == Init => IInv
<1> SUFFICES ASSUME Init PROVE IInv  OBVIOUS
<1>1. DOMAIN Empty = {} /\ Empty \in [DOMAIN Empty -> Edge]
  BY DEF Empty
<1>2. TypeOK
  BY <1>1, FactValidityAssumption DEF Init, TypeOK
<1>3. HeldNarrower /\ EndsKnown
  BY <1>1 DEF Init, HeldNarrower, EndsKnown, Ends
<1>4. MetApart /\ ConflictsApart
  BY DEF Init, MetApart, ConflictsApart
<1>5. QED  BY <1>2, <1>3, <1>4 DEF IInv

LEMMA ExtractedTyped ==
    ASSUME NEW e \in Extracted  PROVE e \in Edge /\ ~e.expired
<1>1. PICK w \in Window : e = [valid |-> w[1], invalid |-> w[2], expired |-> FALSE]
  BY DEF Extracted
<1>2. w[1] \in Date /\ w[2] \in Date
  BY FactValidityAssumption DEF Date
<1>3. QED  BY <1>1, <1>2 DEF Edge

LEMMA NextInv ==
    ASSUME IInv, [Next]_vars  PROVE IInv'
<1>1. CASE \E e \in Extracted : KeepExtracted(e)
  <2>1. PICK e \in Extracted : KeepExtracted(e)
    BY <1>1
  <2>2. e \in Edge /\ ~e.expired
    BY ExtractedTyped
  <2>3. /\ made \in Nat /\ made' = made + 1 /\ made' \in 0..MaxFacts
        /\ made' \in 1..made' /\ made <= made'
    BY <2>1, FactValidityAssumption DEF KeepExtracted, IInv, TypeOK
  <2>4. made' \notin DOMAIN stored \cup DOMAIN resolved \cup DOMAIN invalidated
    BY <2>3 DEF IInv, TypeOK
  <2>5. torn' = torn \cup ({made'} \cap (DOMAIN resolved \cup DOMAIN invalidated))
    BY <2>1, <2>4 DEF KeepExtracted
  <2>6. /\ resolved' = Over([f \in {made'} |-> e], resolved)
        /\ UNCHANGED <<stored, invalidated, met, conflicts>> /\ Another
    BY <2>1, <2>3 DEF KeepExtracted
  <2>7. QED  BY <2>2, <2>3, <2>4, <2>5, <2>6, KeepPreserves
<1>2. CASE \E id \in Fact : Repeat(id)
  <2>1. PICK id \in Fact : Repeat(id)
    BY <1>2
  <2>2. /\ id \in DOMAIN stored /\ stored[id] \in Edge
        /\ stored[id].expired => stored[id].invalid # Never
        /\ made' \in 0..MaxFacts /\ made <= made' /\ id \in 1..made'
    BY <2>1 DEF Repeat, IInv, TypeOK, EndsKnown, Ends
  <2>3. /\ resolved' = Over([f \in {id} |-> stored[id]], resolved)
        /\ torn' = torn \cup ({id} \cap (DOMAIN resolved \cup DOMAIN invalidated))
        /\ UNCHANGED <<stored, invalidated, met, conflicts>> /\ Another
    BY <2>1 DEF Repeat
  <2>4. QED  BY <2>2, <2>3, KeepPreserves
<1>3. CASE \E e \in Extracted, C \in SUBSET DOMAIN stored : ResolveNew(e, C)
  <2>1. PICK e \in Extracted, C \in SUBSET DOMAIN stored : ResolveNew(e, C)
    BY <1>3
  <2>2. e \in Edge /\ ~e.expired
    BY ExtractedTyped
  <2>3. /\ made \in Nat /\ made' = made + 1 /\ made' \in 0..MaxFacts
        /\ made' \in 1..made' /\ made <= made'
    BY <2>1, FactValidityAssumption DEF ResolveNew, IInv, TypeOK
  <2>4. made' \notin DOMAIN stored
    BY <2>3 DEF IInv, TypeOK
  <2>5. Write(made', e, C) /\ Another
    BY <2>1, <2>3 DEF ResolveNew
  <2>6. QED  BY <2>2, <2>3, <2>4, <2>5, WritePreserves
<1>4. CASE \E id \in Fact, C \in SUBSET DOMAIN stored : ResolveDuplicate(id, C)
  <2>1. PICK id \in Fact, C \in SUBSET DOMAIN stored : ResolveDuplicate(id, C)
    BY <1>4
  <2>2. /\ id \in DOMAIN stored /\ stored[id] \in Edge
        /\ stored[id].expired => stored[id].invalid # Never
        /\ made' \in 0..MaxFacts /\ made <= made' /\ id \in 1..made'
    BY <2>1 DEF ResolveDuplicate, IInv, TypeOK, EndsKnown, Ends
  <2>3. QED  BY <2>1, <2>2, FactValidityAssumption, WritePreserves DEF ResolveDuplicate
<1>5. CASE SaveEpisode
  BY <1>5, SavePreserves
<1>6. CASE UNCHANGED vars
  <2>1. UNCHANGED <<stored, resolved, invalidated, made, done, torn, met, conflicts>>
    BY <1>6 DEF vars
  <2>2. TypeOK'
    BY <2>1 DEF IInv, TypeOK
  <2>3. HeldNarrower' /\ EndsKnown'
    BY <2>1 DEF IInv, HeldNarrower, EndsKnown, Ends
  <2>4. MetApart' /\ ConflictsApart'
    BY <2>1 DEF IInv, MetApart, ConflictsApart, Final
  <2>5. QED  BY <2>2, <2>3, <2>4 DEF IInv
<1>7. QED  BY <1>1, <1>2, <1>3, <1>4, <1>5, <1>6 DEF Next

LEMMA Inductive == Spec => []IInv
  BY InitInv, NextInv, PTL DEF Spec

(* Windows keep their shape, and only facts of the graph are invalidated.  *)
THEOREM ValidityTyped == Spec => []TypeOK
<1>1. IInv => TypeOK
  BY DEF IInv
<1>2. QED  BY Inductive, <1>1, PTL

(* Contradictions that were settled stay settled in all later episodes     *)
(* (resolve_edge_contradictions and the end of resolve_extracted_edge).    *)
THEOREM ContradictionsStayApart == Spec => []ContradictionsApart
<1>1. IInv => ContradictionsApart
  BY DEF IInv, ConflictsApart, ContradictionsApart
<1>2. QED  BY Inductive, <1>1, PTL

(* A fact that is marked expired has an end.                               *)
THEOREM ExpiredFactsEnd == Spec => []ExpiredHaveEnds
<1>1. IInv => ExpiredHaveEnds
  BY DEF IInv, EndsKnown, Ends, ExpiredHaveEnds
<1>2. QED  BY Inductive, <1>1, PTL

(* No episode widens, moves or empties the window of a fact, and none      *)
(* loses one.                                                              *)
THEOREM WindowsNeverGrow == Spec => WindowsOnlyShrink
<1> DEFINE A == \A f \in DOMAIN stored :
                    f \in DOMAIN stored' /\ Narrower(stored'[f], stored[f])
<1>1. ASSUME IInv, [Next]_vars  PROVE [A]_vars
  <2>1. CASE SaveEpisode
    <3>1. stored' = Saved(stored, resolved, invalidated)
      BY <2>1 DEF SaveEpisode, Saved
    <3>2. DOMAIN stored \subseteq DOMAIN stored'
      <4>1. DOMAIN stored' = DOMAIN invalidated \cup DOMAIN resolved \cup DOMAIN stored
        BY <3>1, SavedDomain
      <4>2. QED  BY <4>1
    <3>3. ASSUME NEW f \in DOMAIN stored  PROVE Narrower(stored'[f], stored[f])
      BY <1>1, <3>1, SavedNarrower DEF IInv, TypeOK, HeldNarrower
    <3>4. QED  BY <3>2, <3>3
  <2>2. CASE stored' = stored
    <3>1. ASSUME NEW f \in DOMAIN stored  PROVE Narrower(stored[f], stored[f])
      BY <1>1, NarrowerReflexive DEF IInv, TypeOK
    <3>2. QED  BY <2>2, <3>1
  <2>3. SaveEpisode \/ stored' = stored
    BY <1>1 DEF Next, vars, KeepExtracted, Repeat, ResolveNew, ResolveDuplicate, Write
  <2>4. QED  BY <2>1, <2>2, <2>3
<1>2. QED  BY Inductive, <1>1, PTL DEF Spec, WindowsOnlyShrink
=============================================================================
