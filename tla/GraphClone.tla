------------------------------ MODULE GraphClone ------------------------------
(***************************************************************************)
(* graphClone of the backend, together with what the graph service does    *)
(* for it: the nodes of a graph and then its facts are listed and saved    *)
(* one by one under another graph id, while the source is written to,      *)
(* either graph is deleted, another request clones to the same id, and     *)
(* calls fail or outlive their caller.                                     *)
(*                                                                         *)
(* The worker's writes are here what they leave behind; what it does is    *)
(* GraphService.                                                           *)
(***************************************************************************)
EXTENDS BackendRows

CONSTANTS
    Source, Target,   \* the two graphs, in Row
    Entity, Fact,     \* what there can be in the source graph
    Own,              \* the entity that a user or a graph gets when it is created
    From, To,         \* the entities a fact joins
    AtStart,          \* the entities there are at the start
    FactsAtStart,     \* and the facts
    Limit             \* of what is listed: 500 in the code

(* Both are graphs, and no request here creates the source.  What is saved *)
(* for a request is nothing that there was.                                *)
ASSUME CloneAssumption ==
    /\ Source \in Row /\ Target \in Row /\ Source # Target
    /\ \A s \in Scenarios : s.kind[Source] = "graph" /\ s.kind[Target] = "graph"
    /\ IsFiniteSet(Entity) /\ IsFiniteSet(Fact)
    /\ From \in [Fact -> Entity] /\ To \in [Fact -> Entity]
    /\ AtStart \subseteq Entity /\ Entity \cap Fact = {} /\ Own \notin Entity \cup Fact
    /\ FactsAtStart \subseteq {f \in Fact : {From[f], To[f]} \subseteq AtStart}
    /\ \A q \in Request : /\ Op[q] = "clone" => RowOf[q] = Target
                          /\ Op[q] = "create" => RowOf[q] # Source
                          /\ \A x \in Entity \cup Fact \cup {Own} :
                                {<<q, x>>, <<q, x, "subject">>, <<q, x, "object">>}
                                    \cap (Entity \cup Fact) = {}
    /\ Limit \in Nat \ {0}

VARIABLES
    nodes,        \* the entities of all graphs: those of the source, and
                  \* <<request, entity>>, <<clone, fact, which>>
    facts,        \* the facts of all: those of the source, <<clone, fact>>
    todo,         \* what a clone has listed and not yet copied
    matched,      \* nodeUUIDMap: the entities it has copies of
    call,         \* the call it waits for
    serving,      \* calls the service is at: <<clone, what, saves done>>
    listed        \* what a deletion has listed

graphVars == <<nodes, facts, todo, matched, call, serving, listed>>
vars == <<rowVars, graphVars>>

Clones == {q \in made : Op[q] = "clone"}
Nothing == <<>>

Init ==
    /\ RowsInit
    /\ nodes = AtStart
    /\ facts = FactsAtStart
    /\ todo = [q \in Request |-> {}] /\ matched = [q \in Request |-> {}]
    /\ call = [q \in Request |-> Nothing]
    /\ serving = {}
    /\ listed = [q \in Request |-> {}]
-----------------------------------------------------------------------------
GraphOf(x) == IF x \in Entity \cup Fact THEN Source ELSE RowOf[x[1]]

(* The nodes a fact joins.  AddFactTriple takes names: the copy of a fact  *)
(* joins two new nodes that are saved with it, named with the uuids the    *)
(* entities' copies have, and no fact joins those copies.                  *)
EndsOf(f) == IF f \in Fact THEN {From[f], To[f]}
             ELSE {<<f[1], f[2], "subject">>, <<f[1], f[2], "object">>}

(* SELECT of the source's record.                                          *)
SelectSource(q) ==
    /\ q \in Clones /\ pc[q] = "start"
    /\ Begin(q)
    /\ \E executed, err \in BOOLEAN :
          /\ Statement(executed, err)
          /\ IF err \/ rows[Source].life # "live" THEN Answer(q, 404) ELSE Goto(q, "target")
    /\ UNCHANGED <<kind, made, rows, types, copy, applied, graphVars>>

(* INSERT of the target's record.                                          *)
InsertTarget(q) ==
    /\ pc[q] = "target"
    /\ Insert(q, Goto(q, "nodes"))
    /\ UNCHANGED <<kind, made, types, before, graphVars>>

(* Mutant: the limit is taken for the first index left out.                *)
ListsOneShort(q, all) ==
    \E here \in SUBSET all : \E err \in BOOLEAN :
       /\ Statement(~err, err)
       /\ Cardinality(here) = IF Cardinality(all) < Limit THEN Cardinality(all) ELSE Limit - 1
       /\ todo' = [todo EXCEPT ![q] = IF err THEN {} ELSE here]

(* At most Limit of the group are listed; a failed listing is an empty one.*)
Lists(q, all) ==
    \E here \in SUBSET all : \E err \in BOOLEAN :
       /\ Statement(~err, err)
       /\ Cardinality(here) = IF Cardinality(all) < Limit THEN Cardinality(all) ELSE Limit
       /\ todo' = [todo EXCEPT ![q] = IF err THEN {} ELSE here]

SourceNodes == {n \in nodes : GraphOf(n) = Source}
SourceFacts == {f \in facts : GraphOf(f) = Source}

ListNodes(q) ==
    /\ pc[q] = "nodes"
    /\ Lists(q, SourceNodes)
    /\ Goto(q, "copy")
    /\ UNCHANGED <<kind, made, rows, types, copy, before, applied,
                   nodes, facts, matched, call, serving, listed>>

ListEdges(q) ==
    /\ pc[q] = "edges"
    /\ Lists(q, SourceFacts)
    /\ Goto(q, "join")
    /\ UNCHANGED <<kind, made, rows, types, copy, before, applied,
                   nodes, facts, matched, call, serving, listed>>

(* Mutant: an edge whose ends have no copies is added all the same.        *)
WantsAll(q, x) == TRUE
(* An edge is skipped unless both its ends have copies.                    *)
Wants(q, x) == x \in Fact => EndsOf(x) \subseteq matched[q]

(* AddEntityNode or AddFactTriple for the next one listed.                 *)
Send(q) ==
    /\ pc[q] \in {"copy", "join"} /\ call[q] = Nothing
    /\ \E x \in todo[q] :
          /\ todo' = [todo EXCEPT ![q] = @ \ {x}]
          /\ matched' = [matched EXCEPT ![q] = IF x \in Entity THEN @ \cup {x} ELSE @]
          /\ IF Wants(q, x)
             THEN call' = [call EXCEPT ![q] = <<x>>] /\ serving' = serving \cup {<<q, x, 0>>}
             ELSE UNCHANGED <<call, serving>>
    /\ UNCHANGED <<rowVars, nodes, facts, listed>>

(* AddEntityNode for the new user or graph.                                *)
SendOwn(q) ==
    /\ pc[q] = "entity"
    /\ call' = [call EXCEPT ![q] = <<Own>>] /\ serving' = serving \cup {<<q, Own, 0>>}
    /\ Goto(q, "named")
    /\ UNCHANGED <<kind, made, rows, types, copy, before, applied, faults,
                   nodes, facts, todo, matched, listed>>

(* Mutant: the edge is saved before its object.                            *)
SaveNextEdgeEarly(s) ==
    LET q == s[1]  x == s[2]  done == s[3] IN
    /\ nodes' = nodes \cup (IF x \notin Fact THEN {<<q, x>>}
                            ELSE IF done = 0 THEN {<<q, x, "subject">>}
                            ELSE IF done = 2 THEN {<<q, x, "object">>} ELSE {})
    /\ facts' = IF x \in Fact /\ done = 1 /\ EndsOf(<<q, x>>) \subseteq nodes
                THEN facts \cup {<<q, x>>} ELSE facts
    /\ serving' = (serving \ {s}) \cup
                  (IF x \in Fact /\ done < 2 THEN {<<q, x, done + 1>>} ELSE {})

(* POST /entity-node saves one node, POST /add-fact-triple two new nodes   *)
(* and then the edge between them, which is dropped unless MATCH finds     *)
(* both.                                                                   *)
SaveNext(s) ==
    LET q == s[1]  x == s[2]  done == s[3] IN
    /\ nodes' = nodes \cup (IF x \notin Fact THEN {<<q, x>>}
                            ELSE IF done = 0 THEN {<<q, x, "subject">>}
                            ELSE IF done = 1 THEN {<<q, x, "object">>} ELSE {})
    /\ facts' = IF x \in Fact /\ done = 2 /\ EndsOf(<<q, x>>) \subseteq nodes
                THEN facts \cup {<<q, x>>} ELSE facts
    /\ serving' = (serving \ {s}) \cup
                  (IF x \in Fact /\ done < 2 THEN {<<q, x, done + 1>>} ELSE {})

Serve(s) ==
    /\ s \in serving
    /\ SaveNext(s)
    /\ UNCHANGED <<rowVars, todo, matched, call, listed>>

(* The service fails at a call, or never gets it.                          *)
ServiceFails(s) ==
    /\ s \in serving /\ Fault
    /\ serving' = serving \ {s}
    /\ UNCHANGED <<kind, made, rows, types, pc, copy, reply, before, applied,
                   nodes, facts, todo, matched, call, listed>>

(* The call has ended, whichever way: errors are ignored.  Or the handler  *)
(* gives up, and the service goes on with what it was sent.                *)
Receive(q) ==
    /\ call[q] # Nothing /\ pc[q] \in {"copy", "join", "named"}
    /\ \/ (\A s \in serving : s[1] = q => s[2] # call[q][1]) /\ UNCHANGED faults
       \/ (\E s \in serving : s[1] = q /\ s[2] = call[q][1]) /\ Fault
    /\ call' = [call EXCEPT ![q] = Nothing]
    /\ UNCHANGED <<kind, made, rows, types, pc, copy, reply, before, applied,
                   nodes, facts, todo, matched, serving, listed>>

(* The loop has ended, or there was none.                                  *)
LoopEnds(q) ==
    /\ pc[q] \in {"copy", "join", "named"} /\ call[q] = Nothing /\ todo[q] = {}
    /\ IF pc[q] = "copy" THEN Goto(q, "edges") ELSE Answer(q, 200)
    /\ UNCHANGED <<kind, made, rows, types, copy, before, applied, faults, graphVars>>
-----------------------------------------------------------------------------
(* Mutant: the entities stay.                                              *)
DroppedFactsOnly(q, ns, fs) == facts' = facts \ fs /\ UNCHANGED nodes

(* DELETE of a graph: delete_group lists edges, then nodes, and deletes    *)
(* them; DETACH takes the facts of a deleted node along.  The handler      *)
(* ignores an error and goes on to the record.                             *)
Dropped(q, ns, fs) ==
    /\ nodes' = nodes \ ns
    /\ facts' = {f \in facts \ fs : EndsOf(f) \cap ns = {}}

ListGroup(q) ==
    /\ \/ pc[q] = "group" /\ Goto(q, "groupNodes")
          /\ listed' = [listed EXCEPT ![q] = {f \in facts : GraphOf(f) = RowOf[q]}]
       \/ pc[q] = "groupNodes" /\ Goto(q, "dropFacts")
          /\ listed' = [listed EXCEPT ![q] = @ \cup {n \in nodes : GraphOf(n) = RowOf[q]}]
    /\ UNCHANGED <<kind, made, rows, types, copy, before, applied, faults,
                   nodes, facts, todo, matched, call, serving>>

DropGroup(q) ==
    /\ \/ pc[q] = "dropFacts" /\ Goto(q, "dropNodes") /\ Dropped(q, {}, listed[q])
       \/ pc[q] = "dropNodes" /\ Goto(q, "remove") /\ Dropped(q, listed[q], {})
    /\ UNCHANGED <<kind, made, rows, types, copy, before, applied, faults,
                   todo, matched, call, serving, listed>>

DropFails(q) ==
    /\ pc[q] \in {"group", "groupNodes", "dropFacts", "dropNodes"}
    /\ Fault /\ Goto(q, "remove")
    /\ UNCHANGED <<kind, made, rows, types, copy, before, applied, graphVars>>

(* The worker saves a fact and both its ends, in one transaction.          *)
WorkerSaves(q) ==
    /\ q \in made /\ pc[q] = "start" /\ Op[q] = "write"
    /\ Begin(q) /\ Answer(q, 200)
    /\ \E f \in Fact : nodes' = nodes \cup EndsOf(f) /\ facts' = facts \cup {f}
    /\ UNCHANGED <<kind, made, rows, types, copy, applied, faults,
                   todo, matched, call, serving, listed>>

RowsOnly(q) == RowsStep(q) /\ UNCHANGED graphVars
BackendCrash == Crash /\ UNCHANGED graphVars

Next ==
    \/ \E q \in Request :
          \/ RowsOnly(q)
          \/ SelectSource(q) \/ InsertTarget(q) \/ ListNodes(q) \/ ListEdges(q)
          \/ Send(q) \/ SendOwn(q) \/ Receive(q) \/ LoopEnds(q)
          \/ ListGroup(q) \/ DropGroup(q) \/ DropFails(q) \/ WorkerSaves(q)
    \/ \E s \in serving : Serve(s) \/ ServiceFails(s)
    \/ BackendCrash

Spec == Init /\ [][Next]_vars
-----------------------------------------------------------------------------
Deletions(g) == {q \in made : Op[q] = "delete" /\ RowOf[q] = g}

TypeOK ==
    /\ RowsTypeOK
    /\ pc \in [Request -> {"start", "write", "group", "remove", "types", "target",
                           "nodes", "copy", "edges", "join", "entity", "named", "groupNodes",
                           "dropFacts", "dropNodes", "done", "dead"}]
    /\ \A q \in Request : /\ todo[q] \subseteq Entity \cup Fact
                          /\ matched[q] \subseteq Entity
    /\ \A s \in serving : s[1] \in made /\ s[3] \in 0..2

(* No fact of either graph is without the nodes it joins.                  *)
FactsHaveEnds == \A f \in facts : EndsOf(f) \subseteq nodes

(* A fact is copied only if both the entities it joined were.              *)
CopiedWithItsEnds == \A f \in facts : f \notin Fact => EndsOf(f[2]) \subseteq matched[f[1]]

Copies == {n \in nodes : GraphOf(n) = Target}
Calm == serving = {} /\ \A q \in made : pc[q] \in {"start", "done", "dead"}
Overlap(p, q) == p \notin before[q] /\ q \notin before[p]

(* Entities are left under the id of a user or a graph that is not there,  *)
(* where no request finds them, only if its deletion overlapped with the   *)
(* request that saved them, or a call failed.                              *)
LeftoversWereRaced ==
    Calm /\ faults = 0 => \A n \in nodes :
        LET r == GraphOf(n) IN
        r # Source /\ rows[r].life # "live" => \E d \in Deletions(r) : Overlap(n[1], d)

(* Two clones to one id: the unique id keeps the second one out, and what  *)
(* two clones copied is never mixed unless the record was deleted while    *)
(* the first was still copying.                                            *)
NeverMixed ==
    \A m, n \in Copies : m[1] # n[1] =>
        \E d \in Deletions(Target) : d \in applied /\ (Overlap(m[1], d) \/ Overlap(n[1], d) \/ faults > 0)

Writes == {w \in made : Op[w] = "write" /\ pc[w] = "done"}
Meanwhile(q) == Writes \ before[q]

(* A fact that a clone can miss although it has both its ends: it was      *)
(* saved while the clone was at work, and so was not what brought them.    *)
SavedLate(q, f) ==
    /\ f \notin FactsAtStart
    /\ \E w \in Meanwhile(q) : EndsOf(f) \subseteq AtStart \/ Writes # {w}

(* The entities a clone has copies of, and the facts it is through with:   *)
(* copied, or left out for an end that has no copy.                        *)
Copied(q) == {n \in Entity : <<q, n>> \in nodes}
Through(q) == {f \in SourceFacts : <<q, f>> \in facts \/ ~ EndsOf(f) \subseteq Copied(q)}

(* With no deletion and no failure, a clone that is answered has copies of *)
(* as many entities as can be listed, or of all but some saved while it    *)
(* was at work; it is through with as many facts as can be listed, or with *)
(* all but some saved late; and it has copied the ends of those it copied. *)
CloneComplete ==
    \A q \in Clones :
       reply[q] = 200 /\ faults = 0 /\ Deletions(Source) \cup Deletions(Target) = {} =>
          /\ \/ Cardinality(Copied(q)) = Limit
             \/ \A n \in SourceNodes \ Copied(q) : n \notin AtStart /\ Meanwhile(q) # {}
          /\ \/ Cardinality(Through(q)) >= Limit
             \/ \A f \in SourceFacts \ Through(q) : SavedLate(q, f)
          /\ \A f \in Fact : <<q, f>> \in facts => EndsOf(f) \subseteq Copied(q)

(* A fact is copied only if both the entities it joined were, and an       *)
(* undisturbed clone copies what can be listed.                            *)
CloneSound == CopiedWithItsEnds /\ CloneComplete

(* What is in a graph is of one request whose record is there.             *)
GraphsApart == LeftoversWereRaced /\ NeverMixed
=============================================================================
