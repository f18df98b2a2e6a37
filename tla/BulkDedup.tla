------------------------------ MODULE BulkDedup ------------------------------
(***************************************************************************)
(* add_episode_bulk of graphiti_core: the entities and facts extracted     *)
(* from a batch of episodes are resolved against the graph, merged among   *)
(* themselves, resolved against the graph once more and saved.             *)
(*                                                                         *)
(* A node is an extracted entity, by its fresh uuid, or an entity the      *)
(* graph has.  Its name is the normalised one; how alike two names are is  *)
(* a number, 0 when it is under the threshold of the fuzzy match or when   *)
(* the buckets keep the two apart.  The search and the language model      *)
(* choose freely.  Facts the graph already has are left out.               *)
(***************************************************************************)
EXTENDS Naturals, FiniteSets, Sequences, Functions

CONSTANTS
    Episode,      \* the episodes of the batch, in order: 1..n
    Extracted,    \* the extracted nodes: a sequence, by episode
    EpisodeOf,    \* the episode of an extracted node
    StatedIn,     \* the episode of an extracted fact
    GraphNode,    \* the entities the graph has
    NoNode,
    Name, Short,  \* names, and those of too little entropy to compare
    Likeness,     \* how alike two names are: from 0 to Same
    Same,
    NameOf,       \* the names that the nodes may have: functions on Node
    Fact,         \* the extracted facts: 1..m
    From, To,     \* the extracted nodes they join
    TextOf        \* what they may say: functions on Fact

ExtractedNode == Range(Extracted)
Node == ExtractedNode \cup GraphNode

ASSUME BulkAssumption ==
    /\ Extracted \in Seq(ExtractedNode)
    /\ \A i, k \in DOMAIN Extracted : i # k => Extracted[i] # Extracted[k]
    /\ ExtractedNode \cap GraphNode = {} /\ NoNode \notin Node
    /\ Episode \subseteq Nat /\ Fact \subseteq Nat
    /\ IsFiniteSet(GraphNode) /\ IsFiniteSet(Fact)
    /\ EpisodeOf \in [ExtractedNode -> Episode] /\ StatedIn \in [Fact -> Episode]
    /\ Short \subseteq Name
    /\ Same \in Nat /\ Likeness \in [Name \X Name -> 0..Same]
    /\ NameOf \subseteq [Node -> Name]
    /\ \A t \in TextOf : DOMAIN t = Fact
    /\ From \in [Fact -> ExtractedNode] /\ To \in [Fact -> ExtractedNode]
    /\ \A f \in Fact : EpisodeOf[From[f]] = StatedIn[f] /\ EpisodeOf[To[f]] = StatedIn[f]

VARIABLES
    phase,        \* how far the call has got
    name,         \* the names of the nodes
    text,         \* the texts of the facts
    resolved,     \* what the first pass made of each extracted node
    pool,         \* canonical_nodes, in the order of insertion
    seen,         \* how many resolved nodes the second pass has seen
    pairs,        \* union_pairs, those not yet applied
    parent,       \* the forest of _build_directed_uuid_map
    mapped,       \* compressed_map
    compared,     \* the facts resolved within the batch
    duplicates,   \* pairs of facts found to say the same
    episodes,     \* the episodes each fact lists
    kept,         \* the fact that stands for each extracted one
    final,        \* what the pass over the graph made of each canonical node
    saved         \* what the last transaction saves

nodeVars == <<resolved, pool, seen, pairs, parent, mapped>>
factVars == <<compared, duplicates, episodes, kept>>
vars == <<phase, name, text, nodeVars, factVars, final, saved>>

NothingSaved == [nodes |-> {}, mentions |-> {}, ends |-> [f \in {} |-> {}]]

Init ==
    /\ phase = "first"
    /\ name \in NameOf
    /\ text \in TextOf
    /\ resolved = [n \in ExtractedNode |-> NoNode]
    /\ pool = <<>> /\ seen = 0 /\ pairs = <<>>
    /\ parent = [n \in Node |-> n] /\ mapped = [n \in Node |-> n]
    /\ compared = {} /\ duplicates = {}
    /\ episodes = [f \in Fact |-> {StatedIn[f]}]
    /\ kept = [f \in Fact |-> f]
    /\ final = [n \in Node |-> NoNode]
    /\ saved = NothingSaved
-----------------------------------------------------------------------------
(* resolve_extracted_nodes, for one node against the candidates that the   *)
(* search returned: one namesake is taken, else the one most alike; a      *)
(* short name, several namesakes, or none alike are for the language       *)
(* model, which picks a name, and so one candidate of each, or none.       *)
Namesakes(n, others) == {c \in others : name[c] = name[n]}
Alike(n, others) == {c \in others :
    /\ Likeness[<<name[n], name[c]>>] > 0
    /\ \A d \in others : Likeness[<<name[n], name[d]>>] <= Likeness[<<name[n], name[c]>>]}

Resolutions(n, candidates, byName) ==
    IF name[n] \in Short \/ Cardinality(Namesakes(n, candidates)) > 1
    THEN {n} \cup byName
    ELSE IF Namesakes(n, candidates) # {} THEN Namesakes(n, candidates)
    ELSE IF Alike(n, candidates) # {} THEN Alike(n, candidates)
    ELSE {n} \cup byName

Selections(candidates) == {s \in SUBSET candidates :
    \A c \in candidates : Cardinality(Namesakes(c, s)) = 1}

(* The nodes of one episode are resolved against the same candidates.      *)
ResolveAll(nodes, result) ==
    \E candidates \in SUBSET GraphNode : \E byName \in Selections(candidates) :
        result \in {r \in [nodes -> Node] :
            \A n \in nodes : r[n] \in Resolutions(n, candidates, byName)}

NodesOf(e) == {n \in ExtractedNode : EpisodeOf[n] = e}

FirstPass(e) ==
    /\ phase = "first"
    /\ \A n \in NodesOf(e) : resolved[n] = NoNode
    /\ NodesOf(e) # {}
    /\ \E r \in [NodesOf(e) -> Node] :
          /\ ResolveAll(NodesOf(e), r)
          /\ resolved' = [n \in ExtractedNode |-> IF n \in NodesOf(e) THEN r[n] ELSE resolved[n]]
    /\ UNCHANGED <<phase, name, text, pool, seen, pairs, parent, mapped, factVars, final, saved>>

(* The pairs of the first pass are applied before those of the second.     *)
StartPool ==
    /\ phase = "first"
    /\ \A n \in ExtractedNode : resolved[n] # NoNode
    /\ phase' = "second"
    /\ pairs' = [i \in DOMAIN Extracted |-> <<Extracted[i], resolved[Extracted[i]]>>]
    /\ UNCHANGED <<name, text, resolved, pool, seen, parent, mapped, factVars, final, saved>>

(* The second pass, for the next resolved node: the canonical node of its  *)
(* name stands for it, or the one most alike, or it becomes canonical.     *)
Canonicals == Range(pool)

(* Mutant: the pair is not noted.                                          *)
DuplicateUnnoted(n, c) == UNCHANGED <<pairs, pool>>

Duplicate(n, c) ==
    /\ pairs' = IF c = n THEN pairs ELSE Append(pairs, <<n, c>>)
    /\ UNCHANGED pool

(* Mutant: names are not compared for being the same.                      *)
SecondPassFuzzyOnly ==
    /\ phase = "second" /\ seen < Len(Extracted)
    /\ seen' = seen + 1
    /\ LET n == resolved[Extracted[seen + 1]] IN
          \/ /\ name[n] \notin Short
             /\ \E c \in Alike(n, Canonicals) : Duplicate(n, c)
          \/ /\ name[n] \in Short \/ Alike(n, Canonicals) = {}
             /\ pool' = Append(pool, n)
             /\ UNCHANGED pairs
    /\ UNCHANGED <<phase, name, text, resolved, parent, mapped, factVars, final, saved>>

(* Mutant: only the canonical nodes of the same episode are compared.      *)
SecondPassWithinEpisode ==
    /\ phase = "second" /\ seen < Len(Extracted)
    /\ seen' = seen + 1
    /\ LET n == resolved[Extracted[seen + 1]]
           here == Canonicals \cap {resolved[x] : x \in NodesOf(EpisodeOf[Extracted[seen + 1]])} IN
          \/ \E c \in Namesakes(n, here) : Duplicate(n, c)
          \/ /\ Namesakes(n, here) = {} /\ name[n] \notin Short
             /\ \E c \in Alike(n, here) : Duplicate(n, c)
          \/ /\ Namesakes(n, here) = {}
             /\ name[n] \in Short \/ Alike(n, here) = {}
             /\ pool' = Append(pool, n)
             /\ UNCHANGED pairs
    /\ UNCHANGED <<phase, name, text, resolved, parent, mapped, factVars, final, saved>>

SecondPass ==
    /\ phase = "second" /\ seen < Len(Extracted)
    /\ seen' = seen + 1
    /\ LET n == resolved[Extracted[seen + 1]] IN
          \/ \E c \in Namesakes(n, Canonicals) : Duplicate(n, c)
          \/ /\ Namesakes(n, Canonicals) = {} /\ name[n] \notin Short
             /\ \E c \in Alike(n, Canonicals) : Duplicate(n, c)
          \/ /\ Namesakes(n, Canonicals) = {}
             /\ name[n] \in Short \/ Alike(n, Canonicals) = {}
             /\ pool' = Append(pool, n)
             /\ UNCHANGED pairs
    /\ UNCHANGED <<phase, name, text, resolved, parent, mapped, factVars, final, saved>>

(* _build_directed_uuid_map: find walks up to the root and hangs all it    *)
(* passed below it; the root of a source is hung below that of its target. *)
Walk(f, x) ==
    LET at[i \in 0..Cardinality(Node)] == IF i = 0 THEN x ELSE f[at[i - 1]] IN at
Root(f, x) == Walk(f, x)[Cardinality(Node)]
Compress(f, x) == [y \in Node |->
    IF \E i \in 0..Cardinality(Node) : y = Walk(f, x)[i] THEN Root(f, x) ELSE f[y]]
(* Mutant: the root of the target is hung below that of the source.        *)
HangReversed(f, s, t) ==
    LET g == Compress(Compress(f, t), s) IN [g EXCEPT ![Root(g, t)] = Root(g, s)]
Hang(f, s, t) ==
    LET g == Compress(Compress(f, t), s) IN [g EXCEPT ![Root(g, s)] = Root(g, t)]

Union ==
    /\ phase = "second" /\ seen = Len(Extracted) /\ pairs # <<>>
    /\ parent' = Hang(parent, pairs[1][1], pairs[1][2])
    /\ pairs' = Tail(pairs)
    /\ UNCHANGED <<phase, name, text, resolved, pool, seen, mapped, factVars, final, saved>>

MapNodes ==
    /\ phase = "second" /\ seen = Len(Extracted) /\ pairs = <<>>
    /\ mapped' = [n \in Node |-> Root(parent, n)]
    /\ phase' = "facts"
    /\ UNCHANGED <<name, text, resolved, pool, seen, pairs, parent, factVars, final, saved>>
-----------------------------------------------------------------------------
(* dedupe_edges_bulk: a fact is compared with the facts of the batch that  *)
(* join the same nodes.  One that says the same word for word takes the    *)
(* episode, and no pair is noted; else the language model chooses.  The    *)
(* comparisons run side by side; what they add does not depend on their    *)
(* order, so they are taken one after the other.                           *)
Joined(f) == <<mapped[From[f]], mapped[To[f]]>>
Rivals(f) == {g \in Fact \ {f} : Joined(g) = Joined(f)}
Lists(f, e) == episodes' = [episodes EXCEPT ![f] = @ \cup {e}]

ResolveFact(f) ==
    /\ phase = "facts" /\ f \notin compared /\ \A g \in Fact : g < f => g \in compared
    /\ compared' = compared \cup {f}
    /\ \/ \E g \in Rivals(f) :
             /\ text[g] = text[f]
             /\ Lists(g, StatedIn[f])
             /\ UNCHANGED duplicates
       \/ /\ \A g \in Rivals(f) : text[g] # text[f]
          /\ \E same \in SUBSET Rivals(f) :
                /\ duplicates' = duplicates \cup {<<f, g>> : g \in same}
                /\ IF same = {} THEN UNCHANGED episodes
                   ELSE \E g \in same : Lists(g, StatedIn[f])
    /\ UNCHANGED <<phase, name, text, nodeVars, kept, final, saved>>

(* compress_uuid_map: the fact of the smallest uuid stands for its class.  *)
SameClass(f, g) == \A S \in SUBSET Fact :
    (f \in S /\ \A d \in duplicates : d[1] \in S <=> d[2] \in S) => g \in S

KeepFacts ==
    /\ phase = "facts" /\ compared = Fact
    /\ \E k \in [Fact -> Fact] :
          /\ \A f, g \in Fact : SameClass(f, g) => k[f] = k[g]
          /\ \A f \in Fact : SameClass(f, k[f])
          /\ kept' = k
    /\ phase' = "again"
    /\ UNCHANGED <<name, text, nodeVars, compared, duplicates, episodes, final, saved>>
-----------------------------------------------------------------------------
(* _resolve_nodes_and_edges_bulk: a canonical node is resolved against the *)
(* graph once more, in the first episode that has it.                      *)
Canonical(n) == IF mapped[n] \in Canonicals THEN mapped[n] ELSE n
BatchNodes(e) == {Canonical(resolved[n]) : n \in NodesOf(e)}
FirstIn(e) == BatchNodes(e) \ UNION {BatchNodes(d) : d \in {d \in Episode : d < e}}

ResolveAgain(e) ==
    /\ phase = "again" /\ FirstIn(e) # {}
    /\ \A n \in FirstIn(e) : final[n] = NoNode
    /\ \E r \in [FirstIn(e) -> Node] :
          /\ ResolveAll(FirstIn(e), r)
          /\ final' = [n \in Node |-> IF n \in FirstIn(e) THEN r[n] ELSE final[n]]
    /\ UNCHANGED <<phase, name, text, nodeVars, factVars, saved>>

(* A fact that stands for several is one object: its pointers are moved    *)
(* once for each of them.                                                  *)
PointerOld(n) == n  \* mutant: final_uuid_map is not applied
Pointer(n) == IF final[n] = NoNode THEN n ELSE final[n]
Moved(n, times) ==
    LET at[i \in 0..times] == IF i = 0 THEN n ELSE Pointer(at[i - 1]) IN at[times]
Times(k) == Cardinality({f \in Fact : kept[f] = k})
EndUnmapped(k, n) == Moved(n, Times(k))  \* mutant: uuid_map is not applied
End(k, n) == Moved(mapped[n], Times(k))
EpisodesWith(k) == {StatedIn[f] : f \in {f \in Fact : kept[f] = k}}
ListedBy(k) == CHOOSE e \in EpisodesWith(k) : \A d \in EpisodesWith(k) : e <= d
Ends(k) == <<End(k, From[k]), End(k, To[k])>>

(* The facts of one episode that say the same of the same nodes are one;   *)
(* all is saved in one transaction.                                        *)
Save ==
    /\ phase = "again"
    /\ \A e \in Episode : \A n \in BatchNodes(e) : final[n] # NoNode
    /\ phase' = "done"
    /\ \E facts \in SUBSET {kept[f] : f \in Fact} :
          /\ \A f \in Fact : Cardinality({k \in facts :
                ListedBy(k) = ListedBy(kept[f]) /\ Ends(k) = Ends(kept[f])
                /\ text[k] = text[kept[f]]}) = 1
          /\ saved' = [nodes |-> {final[n] : n \in UNION {BatchNodes(e) : e \in Episode}},
                       mentions |-> UNION {{<<e, Pointer(n)>> : n \in BatchNodes(e)} :
                                           e \in Episode},
                       ends |-> [k \in facts |-> Ends(k)]]
    /\ UNCHANGED <<name, text, nodeVars, factVars, final>>

Done == phase = "done" /\ UNCHANGED vars

Next ==
    \/ \E e \in Episode : FirstPass(e) \/ ResolveAgain(e)
    \/ StartPool \/ SecondPass \/ Union \/ MapNodes
    \/ \E f \in Fact : ResolveFact(f)
    \/ KeepFacts \/ Save \/ Done

Spec == Init /\ [][Next]_vars
-----------------------------------------------------------------------------
(* The variables have their types.                                         *)
TypeOK ==
    /\ phase \in {"first", "second", "facts", "again", "done"}
    /\ name \in NameOf
    /\ text \in TextOf
    /\ resolved \in [ExtractedNode -> Node \cup {NoNode}]
    /\ pool \in Seq(Node)
    /\ seen \in 0..Len(Extracted)
    /\ pairs \in Seq(Node \X Node)
    /\ parent \in [Node -> Node] /\ mapped \in [Node -> Node]
    /\ compared \subseteq Fact /\ duplicates \subseteq Fact \X Fact
    /\ episodes \in [Fact -> SUBSET Episode]
    /\ kept \in [Fact -> Fact]
    /\ final \in [Node -> Node \cup {NoNode}]

(* No two canonical nodes have the same name: next() over the pool finds   *)
(* the only one.                                                           *)
OneCanonicalPerName ==
    \A i, k \in DOMAIN pool : name[pool[i]] = name[pool[k]] => i = k

(* A node found to be a duplicate in the second pass never becomes         *)
(* canonical, though the same node of the graph may come up again when the *)
(* pool has grown: no pair of the second pass starts at a canonical node.  *)
DuplicatesStayOut ==
    \A i \in DOMAIN pairs : pairs[i][1] \notin ExtractedNode \/ pairs[i][2] # resolved[pairs[i][1]]
       => pairs[i][1] \notin Canonicals /\ pairs[i][2] \in Canonicals

(* One name has one canonical node, which was not a duplicate before.      *)
PoolSound == OneCanonicalPerName /\ DuplicatesStayOut

(* Every extracted node is mapped to a canonical one, the one its resolved *)
(* node is mapped to: "Canonical node missing" is never logged, and no     *)
(* pointer is left at a node that will not be saved.                       *)
CanonicalKnown == phase \in {"facts", "again", "done"} =>
    \A n \in ExtractedNode :
       mapped[n] \in Canonicals /\ mapped[resolved[n]] = mapped[n]

(* What resolved to a node with the name of a canonical one is mapped as   *)
(* that one is: one entity named in two episodes becomes one node.         *)
NamesakesMeet == phase \in {"facts", "again", "done"} =>
    \A n \in ExtractedNode : \A c \in Canonicals :
       name[resolved[n]] = name[c] => mapped[n] = mapped[c]

(* The passes agree on one canonical node for whatever was extracted.      *)
OneNodeForEach == CanonicalKnown /\ NamesakesMeet

(* Both ends of every mention and fact are saved in the same transaction:  *)
(* MATCH finds them, and no relationship is silently dropped.              *)
NoLooseEnds == phase = "done" =>
    /\ \A m \in saved.mentions : m[2] \in saved.nodes
    /\ \A k \in DOMAIN saved.ends : Range(saved.ends[k]) \subseteq saved.nodes

(* A canonical node became one that became yet another in its own call.     *)
Chained == \E n \in Node : final[n] \notin {n, NoNode} /\ Pointer(final[n]) # final[n]

(* Unless that happened, an episode mentions both ends of its facts.  When *)
(* it did, the mention follows one step and a fact shared by two extracted *)
(* ones follows two.                                                       *)
EndsMentioned == phase = "done" /\ ~ Chained =>
    \A f \in Fact : \A k \in DOMAIN saved.ends : kept[f] = k =>
       \A i \in 1..2 : <<StatedIn[f], saved.ends[k][i]>> \in saved.mentions

(* What is saved hangs together.                                           *)
EndsSaved == NoLooseEnds /\ EndsMentioned

(* The forest with its path compression is the map it stands for, pair by  *)
(* pair, whatever the order of the pairs.                                  *)
Map == INSTANCE CanonicalMap WITH canonical <- [n \in Node |-> Root(parent, n)]
ImplementsMap == Map!Spec
=============================================================================
