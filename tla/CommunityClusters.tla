-------------------------- MODULE CommunityClusters --------------------------
(***************************************************************************)
(* get_community_clusters of graphiti_core for one group: the entities of  *)
(* the group are listed, the facts of each are counted by a query of its   *)
(* own, and label_propagation works on what was read.  Episodes and        *)
(* deletions may change the graph between two queries.                     *)
(*                                                                         *)
(* Entities are numbered in the order in which they are listed.  The label *)
(* an entity starts with is its position in that list; since labels are    *)
(* only compared, its number stands for it.                                *)
(***************************************************************************)
EXTENDS Naturals, FiniteSets

CONSTANTS
    N,            \* the number of entities there can be
    MaxFacts,     \* bound on the facts between them
    MaxWrites     \* bound on the writes that come while the graph is read

ASSUME ClustersAssumption == N \in Nat /\ MaxFacts \in Nat /\ MaxWrites \in Nat

Entity == 1..N
Fact == {f \in Entity \X Entity : f[1] # f[2]}  \* from, to; at most one each way
Ends(f) == {f[1], f[2]}
Other(n, f) == IF f[1] = n THEN f[2] ELSE f[1]

VARIABLES
    present,      \* the Entity nodes of the group
    facts,        \* the RELATES_TO edges between them
    phase,        \* where get_community_clusters is
    listed,       \* the entities it listed
    projection,   \* the facts it read at each entity
    label,        \* community_map
    before,       \* history: the community_map of the round before
    writes,       \* the number of writes so far
    grown         \* history: an entity was added since the list was read

vars == <<present, facts, phase, listed, projection, label, before, writes, grown>>
graph == <<present, facts, writes, grown>>
reading == <<listed, projection>>
labels == <<label, before>>

Init ==
    /\ present \in SUBSET Entity
    /\ facts \in SUBSET {f \in Fact : Ends(f) \subseteq present}
    /\ Cardinality(facts) <= MaxFacts
    /\ phase = "list"
    /\ listed = {} /\ projection = [n \in {} |-> {}]
    /\ label = [n \in {} |-> n] /\ before = label
    /\ writes = 0 /\ grown = FALSE
-----------------------------------------------------------------------------
(* External: an episode adds a fact, and the entities it is about.         *)
AddFact(f) ==
    /\ phase = "read" /\ writes < MaxWrites
    /\ f \notin facts /\ Cardinality(facts) < MaxFacts
    /\ facts' = facts \cup {f}
    /\ present' = present \cup Ends(f)
    /\ grown' = (grown \/ ~ Ends(f) \subseteq present)
    /\ writes' = writes + 1
    /\ UNCHANGED <<phase, reading, labels>>

(* External: an entity is deleted with its facts.                          *)
DeleteEntity(n) ==
    /\ phase = "read" /\ writes < MaxWrites /\ n \in present
    /\ present' = present \ {n}
    /\ facts' = {f \in facts : n \notin Ends(f)}
    /\ writes' = writes + 1
    /\ UNCHANGED <<phase, reading, labels, grown>>

(* Mutant: a page of the list is left out.                                 *)
ListPage ==
    /\ phase = "list"
    /\ phase' = "read"
    /\ listed' = present \ {N}
    /\ UNCHANGED <<graph, projection, labels>>

(* EntityNode.get_by_group_ids                                             *)
ListEntities ==
    /\ phase = "list"
    /\ phase' = "read"
    /\ listed' = present
    /\ UNCHANGED <<graph, projection, labels>>

(* Mutant: facts are followed from their source only.                      *)
FactsFrom(n) == {f \in facts : n = f[1]}
FactsAt(n) == {f \in facts : n \in Ends(f)}

(* The query of one entity, in the order of the list.                      *)
ReadNeighbours(n) ==
    /\ phase = "read"
    /\ n \in listed \ DOMAIN projection
    /\ \A m \in listed \ DOMAIN projection : n <= m
    /\ projection' = [m \in DOMAIN projection \cup {n} |->
          IF m = n THEN FactsAt(n) ELSE projection[m]]
    /\ UNCHANGED <<graph, phase, listed, labels>>

BeginPropagation ==
    /\ phase = "read" /\ DOMAIN projection = listed
    /\ phase' = "propagate"
    /\ label' = [n \in listed |-> n] /\ before' = label'
    /\ UNCHANGED <<graph, reading>>

Neighbours(n) == {Other(n, f) : f \in projection[n]}
Known == \A n \in listed : Neighbours(n) \subseteq listed

(* community_map[neighbor.node_uuid] raises a KeyError.                    *)
MissNeighbour ==
    /\ phase = "propagate" /\ ~Known
    /\ phase' = "failed"
    /\ UNCHANGED <<graph, reading, labels>>

(* community_candidates, with their counts.                                *)
Candidates(n) == {label[m] : m \in Neighbours(n)}
Count(n, c) == Cardinality({f \in projection[n] : label[Other(n, f)] = c})

(* The head of the sorted list: the highest count, and among equals the    *)
(* highest label.                                                          *)
Plurality(n) ==
    CHOOSE c \in Candidates(n) : \A d \in Candidates(n) :
        \/ Count(n, d) < Count(n, c)
        \/ Count(n, d) = Count(n, c) /\ d <= c

(* Mutant: an entity without neighbours takes the sentinel as its label.   *)
NewLabelSentinel(n) == IF Candidates(n) = {} THEN 0 ELSE Plurality(n)

(* A candidate that only one fact speaks for is adopted if it is higher.   *)
NewLabel(n) ==
    IF Candidates(n) = {} THEN label[n]
    ELSE LET c == Plurality(n)
         IN  IF Count(n, c) > 1 \/ c > label[n] THEN c ELSE label[n]

(* One round of the loop: all entities at once, from the old labels.       *)
Propagate ==
    /\ phase = "propagate" /\ Known
    /\ label' = [n \in listed |-> NewLabel(n)]
    /\ before' = label
    /\ phase' = IF label' = label THEN "done" ELSE "propagate"
    /\ UNCHANGED <<graph, reading>>

Reader ==
    \/ ListEntities \/ (\E n \in Entity : ReadNeighbours(n))
    \/ BeginPropagation \/ MissNeighbour \/ Propagate

Next ==
    \/ \E f \in Fact : AddFact(f)
    \/ \E n \in Entity : DeleteEntity(n)
    \/ Reader

Spec == Init /\ [][Next]_vars /\ WF_vars(Reader)
-----------------------------------------------------------------------------
(* The shape of the state.                                                 *)
TypeOK ==
    /\ present \subseteq Entity /\ facts \subseteq Fact
    /\ phase \in {"list", "read", "propagate", "done", "failed"}
    /\ listed \subseteq Entity /\ (phase = "list" => listed = {})
    /\ projection \in [DOMAIN projection -> SUBSET Fact]
    /\ DOMAIN projection \subseteq listed
    /\ phase \in {"propagate", "done"} =>
          DOMAIN projection = listed /\ label \in [listed -> Entity]
    /\ writes \in 0..MaxWrites /\ grown \in BOOLEAN

Closed(S) == \A n \in S : Neighbours(n) \subseteq S

(* Communities never join what no fact connects: the label of an entity is *)
(* always that of an entity it can be reached from, that is, one in every  *)
(* set that contains the entity and the neighbours of its members.         *)
StaysConnected ==
    phase \in {"propagate", "done"} =>
        \A S \in SUBSET listed : Closed(S) => \A n \in S : label[n] \in S

(* The KeyError needs an entity that came after the list was read: other   *)
(* facts and deletions in between do not lead to it.                       *)
MissedOnlyIfGrown == phase = "failed" => grown

(* When nothing was written while the graph was read, the loop ends, or    *)
(* before long swings between two assignments of labels.                   *)
EndsOrAlternates == <>[][Propagate /\ writes = 0 => label' = before]_vars

(* "Continue until no communities change during propagation": the loop     *)
(* comes to an end.                                                        *)
Terminates == <>(phase \in {"done", "failed"})
=============================================================================
