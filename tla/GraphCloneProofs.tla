--------------------------- MODULE GraphCloneProofs ---------------------------
(***************************************************************************)
(* Proofs about BackendRows and GraphClone for every set of requests that  *)
(* read a row, change the copy and write all of it back, and of clones and *)
(* deletions of graphs beside the worker, however they interleave and      *)
(* whichever statements and calls fail.                                    *)
(***************************************************************************)
EXTENDS GraphClone, Sequences, FiniteSetTheorems, TLAPS

(* Where the handler of a request can be.                                  *)
Passes(q, label) ==
    \/ label \in {"start", "done", "dead"}
    \/ Op[q] = "patch" /\ label = "write"
    \/ Op[q] = "put" /\ label = "types" /\ q \in made
    \/ Op[q] = "delete" /\ label \in {"group", "groupNodes", "dropFacts", "dropNodes", "remove"}
    \/ Op[q] = "create" /\ label \in {"entity", "named"}
    \/ Op[q] = "clone" /\ label \in {"target", "nodes", "copy", "edges", "join"}

Labels == {"start", "write", "group", "remove", "types", "target", "nodes", "copy", "edges",
           "join", "entity", "named", "groupNodes", "dropFacts", "dropNodes", "done", "dead"}
Statuses == {0, 200, 400, 404, 500}

Shape ==
    /\ RowsTypeOK /\ pc \in [Request -> Labels]
    /\ \A q \in Request : Passes(q, pc[q]) /\ (pc[q] # "done" => reply[q] = 0)

(* What a step does to where the handlers are: one of them goes on, and    *)
(* only the handlers of BackendRows serve a PATCH or a PUT.                *)
Moved(q) ==
    /\ UNCHANGED <<kind, made>> /\ faults' \in faults..MaxFaults
    /\ \/ UNCHANGED <<pc, reply, before>>
       \/ /\ pc[q] \notin Over
          /\ Op[q] \in {"patch", "put"} => RowsStep(q)
          /\ before' = before \/ (pc[q] = "start" /\ Begin(q))
          /\ \/ \E label \in Labels \ {"start", "done"} :
                   /\ Passes(q, label) /\ Goto(q, label)
                   /\ label = "target" => pc[q] = "start"
             \/ \E status \in Statuses : Answer(q, status)

(* What it does to the rows: nothing, or one request reads its row, writes *)
(* the copy back, removes the row, or inserts one.                         *)
Still ==
    /\ UNCHANGED <<rows, copy>>
    /\ applied \subseteq applied' /\ applied' \subseteq Request
    /\ \A q \in applied' \ applied : Op[q] = "put" /\ pc[q] = "types"

Reads(q) ==
    /\ pc[q] = "start" /\ rows[RowOf[q]].life = "live"
    /\ copy' = [copy EXCEPT ![q] = rows[RowOf[q]]]
    /\ Begin(q) /\ UNCHANGED <<rows, applied>>

Rewrites(q) ==
    /\ Op[q] = "patch" /\ pc[q] = "write" /\ Hits(q)
    /\ Apply(q, RowOf[q], [rows[RowOf[q]] EXCEPT !.life = copy[q].life, !.value = Merged(q)])
    /\ UNCHANGED <<copy, before>>

Takes(q) ==
    /\ Op[q] = "delete" /\ pc[q] \in {"start", "remove"}
    /\ pc[q] = "start" => q \in made /\ RowKind(q) = "template"
    /\ Apply(q, RowOf[q], Removed(q)) /\ UNCHANGED copy
    /\ pc'[q] = "done"

NewRow(q) == [life |-> "live", uuid |-> rows[RowOf[q]].uuid + 1, value |-> [f \in Field |-> q]]
Brings(q) ==
    /\ Op[q] \in {"create", "clone"} /\ pc[q] \in {"start", "target"} /\ Inserts(q)
    /\ Apply(q, RowOf[q], NewRow(q)) /\ copy' = [copy EXCEPT ![q] = NewRow(q)]
    /\ pc'[q] \notin {"start", "target"}

LEMMA StatementFaults ==
    ASSUME Shape, NEW executed \in BOOLEAN, NEW err \in BOOLEAN, Statement(executed, err)
    PROVE  /\ faults' \in faults..MaxFaults
           /\ faults' = 0 => executed /\ ~err
<1>1. faults \in 0..MaxFaults /\ MaxFaults \in Nat
  BY RowsAssumption DEF Shape, RowsTypeOK
<1>2. QED
  BY <1>1 DEF Statement, Fault

LEMMA FaultFaults ==
    ASSUME Shape
    PROVE  /\ faults \in faults..MaxFaults
           /\ Fault => faults' \in faults..MaxFaults /\ faults' # 0
<1>1. faults \in 0..MaxFaults /\ MaxFaults \in Nat
  BY RowsAssumption DEF Shape, RowsTypeOK
<1>2. QED
  BY <1>1 DEF Fault

(* The two ways a handler moves.                                           *)
LEMMA GoesOn ==
    ASSUME NEW q \in Request, NEW label \in Labels \ {"start", "done"},
           UNCHANGED <<kind, made>>, faults' \in faults..MaxFaults,
           pc[q] \notin Over, Op[q] \in {"patch", "put"} => RowsStep(q),
           before' = before \/ (pc[q] = "start" /\ Begin(q)),
           Passes(q, label), Goto(q, label), label = "target" => pc[q] = "start"
    PROVE  Moved(q)
<1>1. QED
  BY DEF Moved

LEMMA Ends ==
    ASSUME NEW q \in Request, NEW status \in Statuses,
           UNCHANGED <<kind, made>>, faults' \in faults..MaxFaults,
           pc[q] \notin Over, Op[q] \in {"patch", "put"} => RowsStep(q),
           before' = before \/ (pc[q] = "start" /\ Begin(q)),
           Answer(q, status)
    PROVE  Moved(q)
<1>1. QED
  BY DEF Moved

(* The steps of BackendRows.                                               *)
LEMMA RowsMove ==
    ASSUME Shape, NEW q \in Request, RowsStep(q)
    PROVE  Moved(q)
<1>1. q \in Request /\ Passes(q, pc[q])
  BY DEF Shape
<1>2. CASE Select(q)
  <2>1. PICK executed \in BOOLEAN, err \in BOOLEAN :
          /\ Statement(executed, err)
          /\ IF err \/ rows[RowOf[q]].life # "live"
             THEN Answer(q, 404) /\ UNCHANGED copy
             ELSE /\ Goto(q, IF Op[q] = "patch" THEN "write" ELSE "group")
                  /\ copy' = [copy EXCEPT ![q] = rows[RowOf[q]]]
    BY <1>2 DEF Select
  <2>2. faults' \in faults..MaxFaults
    BY <2>1, StatementFaults
  <2>3. /\ UNCHANGED <<kind, made>> /\ pc[q] = "start" /\ Begin(q)
        /\ Op[q] \in {"patch", "delete"}
    BY <1>2 DEF Select
  <2>4. Answer(q, 404) \/ Goto(q, IF Op[q] = "patch" THEN "write" ELSE "group")
    BY <2>1
  <2>5. CASE Answer(q, 404)
    BY <1>2, <2>2, <2>3, <2>5, Ends DEF Statuses, Over, RowsStep
  <2>6. CASE Goto(q, IF Op[q] = "patch" THEN "write" ELSE "group")
    <3> DEFINE label == IF Op[q] = "patch" THEN "write" ELSE "group"
    <3>1. label \in Labels \ {"start", "done"} /\ Passes(q, label) /\ label # "target"
      BY <2>3 DEF Labels, Passes
    <3> HIDE DEF label
    <3>2. Goto(q, label)
      BY <2>6 DEF label
    <3>3. QED
      BY <1>2, <2>2, <2>3, <3>1, <3>2, GoesOn DEF Over, RowsStep
  <2>7. QED
    BY <2>4, <2>5, <2>6
<1>3. CASE Update(q)
  <2>1. PICK executed \in BOOLEAN, err \in BOOLEAN :
          Statement(executed, err) /\ Answer(q, IF err THEN UpdateFailed(q) ELSE 200)
    BY <1>3 DEF Update
  <2>2. faults' \in faults..MaxFaults
    BY <2>1, StatementFaults
  <2>3. \E status \in Statuses : Answer(q, status)
    BY <2>1 DEF UpdateFailed, Statuses
  <2>4. QED
    BY <1>3, <2>2, <2>3, Ends DEF Update, Over, RowsStep
<1>4. CASE Remove(q)
  <2>1. PICK executed \in BOOLEAN, err \in BOOLEAN :
          Statement(executed, err) /\ Answer(q, IF err /\ RowKind(q) # "graph" THEN 500 ELSE 200)
    BY <1>4 DEF Remove
  <2>2. faults' \in faults..MaxFaults
    BY <2>1, StatementFaults
  <2>3. \E status \in Statuses : Answer(q, status)
    BY <2>1 DEF Statuses
  <2>4. /\ pc[q] \in {"start", "remove"} /\ UNCHANGED <<kind, made>>
        /\ before' = before \/ (pc[q] = "start" /\ Begin(q))
    BY <1>4 DEF Remove
  <2>5. QED
    BY <1>4, <2>2, <2>3, <2>4, Ends DEF Over, RowsStep
<1>5. CASE Create(q)
  <2>1. PICK executed \in BOOLEAN, err \in BOOLEAN :
          /\ Statement(executed, err)
          /\ \/ Answer(q, 400) \/ Answer(q, 200) \/ Goto(q, "entity")
    BY <1>5 DEF Create, Insert
  <2>2. faults' \in faults..MaxFaults
    BY <2>1, StatementFaults
  <2>3. /\ pc[q] = "start" /\ Begin(q) /\ UNCHANGED <<kind, made>> /\ Op[q] = "create"
    BY <1>5 DEF Create
  <2>4. QED
    <3>1. CASE Goto(q, "entity")
      <4>1. "entity" \in Labels \ {"start", "done"} /\ Passes(q, "entity")
        BY <2>3 DEF Labels, Passes
      <4>2. QED
        BY <1>5, <2>2, <2>3, <3>1, <4>1, GoesOn DEF Over, RowsStep
    <3>2. QED
      BY <1>5, <2>1, <2>2, <2>3, <3>1, Ends DEF Statuses, Over, RowsStep
<1>6. CASE DeleteTypes(q)
  <2>1. PICK executed \in BOOLEAN, err \in BOOLEAN : Statement(executed, err)
    BY <1>6 DEF DeleteTypes
  <2>2. faults' \in faults..MaxFaults
    BY <2>1, StatementFaults
  <2>3. /\ q \in made /\ pc[q] = "start" /\ Begin(q) /\ UNCHANGED <<kind, made>>
        /\ Op[q] = "put" /\ Goto(q, "types")
    BY <1>6 DEF DeleteTypes
  <2>4. QED
    <3>1. "types" \in Labels \ {"start", "done"} /\ Passes(q, "types")
      BY <2>3 DEF Labels, Passes
    <3>2. QED
      BY <1>6, <2>2, <2>3, <3>1, GoesOn DEF Over, RowsStep
<1>7. CASE InsertTypes(q)
  <2>1. PICK executed \in BOOLEAN, err \in BOOLEAN :
          Statement(executed, err) /\ Answer(q, IF err \/ types # {} THEN 500 ELSE 200)
    BY <1>7 DEF InsertTypes
  <2>2. faults' \in faults..MaxFaults
    BY <2>1, StatementFaults
  <2>3. \E status \in Statuses : Answer(q, status)
    BY <2>1 DEF Statuses
  <2>4. QED
    BY <1>7, <2>2, <2>3, Ends DEF InsertTypes, Over, RowsStep
<1>8. QED
  BY <1>2, <1>3, <1>4, <1>5, <1>6, <1>7 DEF RowsStep

(* The steps of GraphClone that a handler takes by itself.                 *)
CloneStep(q) ==
    \/ SelectSource(q) \/ InsertTarget(q) \/ ListNodes(q) \/ ListEdges(q)
    \/ Send(q) \/ SendOwn(q) \/ Receive(q) \/ LoopEnds(q)
    \/ ListGroup(q) \/ DropGroup(q) \/ DropFails(q) \/ WorkerSaves(q)

LEMMA CloneMoves ==
    ASSUME Shape, NEW q \in Request, CloneStep(q)
    PROVE  Moved(q)
<1>1. /\ Passes(q, pc[q]) /\ faults \in faults..MaxFaults
      /\ Fault => faults' \in faults..MaxFaults
  BY FaultFaults DEF Shape
<1>2. CASE SelectSource(q)
  <2>1. PICK executed \in BOOLEAN, err \in BOOLEAN :
          Statement(executed, err) /\ (Answer(q, 404) \/ Goto(q, "target"))
    BY <1>2 DEF SelectSource
  <2>2. faults' \in faults..MaxFaults
    BY <2>1, StatementFaults
  <2>3. /\ Op[q] = "clone" /\ pc[q] = "start" /\ Begin(q) /\ UNCHANGED <<kind, made>>
    BY <1>2 DEF SelectSource, Clones
  <2>4. QED
    <3>1. CASE Goto(q, "target")
      <4>1. "target" \in Labels \ {"start", "done"} /\ Passes(q, "target")
        BY <2>3 DEF Labels, Passes
      <4>2. QED
        BY <2>2, <2>3, <3>1, <4>1, GoesOn DEF Over
    <3>2. QED
      BY <2>1, <2>2, <2>3, <3>1, Ends DEF Statuses, Over
<1>3. CASE InsertTarget(q)
  <2>1. PICK executed \in BOOLEAN, err \in BOOLEAN :
          /\ Statement(executed, err)
          /\ \/ Answer(q, 400) \/ Goto(q, "nodes")
    BY <1>3 DEF InsertTarget, Insert
  <2>2. faults' \in faults..MaxFaults
    BY <2>1, StatementFaults
  <2>3. /\ Op[q] = "clone" /\ pc[q] = "target" /\ UNCHANGED <<kind, made, before>>
    BY <1>1, <1>3 DEF InsertTarget, Passes
  <2>4. QED
    <3>1. CASE Goto(q, "nodes")
      <4>1. "nodes" \in Labels \ {"start", "done"} /\ Passes(q, "nodes")
        BY <2>3 DEF Labels, Passes
      <4>2. QED
        BY <2>2, <2>3, <3>1, <4>1, GoesOn DEF Over
    <3>2. QED
      BY <2>1, <2>2, <2>3, <3>1, Ends DEF Statuses, Over
<1>4. CASE ListNodes(q)
  <2>1. PICK err \in BOOLEAN : Statement(~err, err)
    BY <1>4 DEF ListNodes, Lists
  <2>2. faults' \in faults..MaxFaults
    BY <2>1, StatementFaults
  <2>3. /\ Op[q] = "clone" /\ pc[q] = "nodes" /\ UNCHANGED <<kind, made, before>>
        /\ Goto(q, "copy")
    BY <1>1, <1>4 DEF ListNodes, Passes
  <2>4. QED
    <3>1. "copy" \in Labels \ {"start", "done"} /\ Passes(q, "copy")
      BY <2>3 DEF Labels, Passes
    <3>2. QED
      BY <2>2, <2>3, <3>1, GoesOn DEF Over
<1>5. CASE ListEdges(q)
  <2>1. PICK err \in BOOLEAN : Statement(~err, err)
    BY <1>5 DEF ListEdges, Lists
  <2>2. faults' \in faults..MaxFaults
    BY <2>1, StatementFaults
  <2>3. /\ Op[q] = "clone" /\ pc[q] = "edges" /\ UNCHANGED <<kind, made, before>>
        /\ Goto(q, "join")
    BY <1>1, <1>5 DEF ListEdges, Passes
  <2>4. QED
    <3>1. "join" \in Labels \ {"start", "done"} /\ Passes(q, "join")
      BY <2>3 DEF Labels, Passes
    <3>2. QED
      BY <2>2, <2>3, <3>1, GoesOn DEF Over
<1>6. CASE Send(q)
  BY <1>1, <1>6 DEF Send, Moved, rowVars
<1>7. CASE SendOwn(q)
  <2>1. /\ Op[q] = "create" /\ pc[q] = "entity" /\ UNCHANGED <<kind, made, before, faults>>
        /\ Goto(q, "named")
    BY <1>1, <1>7 DEF SendOwn, Passes
  <2>2. "named" \in Labels \ {"start", "done"} /\ Passes(q, "named")
    BY <2>1 DEF Labels, Passes
  <2>3. QED
    BY <1>1, <2>1, <2>2, GoesOn DEF Over
<1>8. CASE Receive(q)
  BY <1>1, <1>8 DEF Receive, Moved
<1>9. CASE LoopEnds(q)
  <2>1. /\ pc[q] \in {"copy", "join", "named"} /\ UNCHANGED <<kind, made, before, faults>>
        /\ \/ pc[q] = "copy" /\ Goto(q, "edges")
           \/ Answer(q, 200)
    BY <1>9 DEF LoopEnds
  <2>2. Op[q] \in {"clone", "create"}
    BY <1>1, <2>1 DEF Passes
  <2>3. CASE pc[q] = "copy" /\ Goto(q, "edges")
    <3>1. "edges" \in Labels \ {"start", "done"} /\ Passes(q, "edges")
      BY <1>1, <2>3 DEF Labels, Passes
    <3>2. QED
      BY <1>1, <2>1, <2>2, <2>3, <3>1, GoesOn DEF Over
  <2>4. QED
    BY <1>1, <2>1, <2>2, <2>3, Ends DEF Statuses, Over
<1>10. CASE ListGroup(q) \/ DropGroup(q) \/ DropFails(q)
  <2>1. PICK label \in {"groupNodes", "dropFacts", "dropNodes", "remove"} : Goto(q, label)
    BY <1>10 DEF ListGroup, DropGroup, DropFails
  <2>2. /\ pc[q] \in {"group", "groupNodes", "dropFacts", "dropNodes"}
        /\ UNCHANGED <<kind, made, before>> /\ faults' \in faults..MaxFaults
    BY <1>1, <1>10 DEF ListGroup, DropGroup, DropFails
  <2>3. Op[q] = "delete"
    BY <1>1, <2>2 DEF Passes
  <2>4. label \in Labels \ {"start", "done"} /\ Passes(q, label) /\ label # "target"
    BY <2>3 DEF Labels, Passes
  <2>5. QED
    BY <2>1, <2>2, <2>3, <2>4, GoesOn DEF Over
<1>11. CASE WorkerSaves(q)
  <2>1. /\ pc[q] = "start" /\ Op[q] = "write" /\ Begin(q) /\ Answer(q, 200)
        /\ UNCHANGED <<kind, made, faults>>
    BY <1>11 DEF WorkerSaves
  <2>2. QED
    BY <1>1, <2>1, Ends DEF Statuses, Over
<1>12. QED
  BY <1>2, <1>3, <1>4, <1>5, <1>6, <1>7, <1>8, <1>9, <1>10, <1>11 DEF CloneStep

(* The backend dies: its handlers are dead unless they had ended.          *)
LEMMA CrashMoves ==
    ASSUME Shape, Crash
    PROVE  /\ UNCHANGED <<kind, made, rows, types, copy, reply, before, applied>>
           /\ faults' \in faults..MaxFaults /\ faults' # 0
           /\ pc' \in [Request -> Labels]
           /\ \A q \in Request : pc'[q] = pc[q] \/ (pc'[q] = "dead" /\ pc[q] \notin {"start", "done"})
<1>1. pc \in [Request -> Labels]
  BY DEF Shape
<1>2. pc' = [q \in Request |-> IF pc[q] \in {"start", "done"} THEN pc[q] ELSE "dead"]
  BY DEF Crash
<1>3. pc' \in [Request -> Labels]
  BY <1>1, <1>2 DEF Labels
<1>4. QED
  BY <1>2, <1>3, FaultFaults DEF Crash

(* Only calls are served, and the rest of a step is as it was.             *)
LEMMA ServiceLeaves ==
    ASSUME Shape, NEW s \in serving, Serve(s) \/ ServiceFails(s)
    PROVE  /\ UNCHANGED <<kind, made, rows, types, pc, copy, reply, before, applied>>
           /\ faults' \in faults..MaxFaults
<1>1. CASE Serve(s)
  BY <1>1, FaultFaults DEF Serve, rowVars
<1>2. CASE ServiceFails(s)
  BY <1>2, FaultFaults DEF ServiceFails
<1>3. QED
  BY <1>1, <1>2

(* A step is a handler's, the end of the process, or the service's.        *)
LEMMA StepOf ==
    ASSUME Next
    PROVE  \/ \E q \in Request : RowsStep(q) \/ CloneStep(q)
           \/ Crash
           \/ \E s \in serving : Serve(s) \/ ServiceFails(s)
BY DEF Next, RowsOnly, BackendCrash, CloneStep

(* What the handlers of a step have in common.                             *)
Onward ==
    /\ UNCHANGED <<kind, made>> /\ faults' \in faults..MaxFaults
    /\ pc' \in [Request -> Labels] /\ reply' \in [Request -> Statuses]
    /\ before' \in [Request -> SUBSET Request]
    /\ \A q \in Request :
          /\ Passes(q, pc'[q])
          /\ pc'[q] # "done" => reply'[q] = 0
          /\ pc[q] \in Over => pc'[q] = pc[q] /\ reply'[q] = reply[q]
          /\ pc[q] # "start" => pc'[q] # "start" /\ before'[q] = before[q]
          /\ pc[q] \notin {"start", "target"} => pc'[q] # "target"
          /\ before'[q] = before[q] \/ before'[q] = {p \in Request : pc[p] \in Over}

LEMMA MovedIsOnward ==
    ASSUME Shape, NEW q \in Request, Moved(q)
    PROVE  Onward /\ \A p \in Request \ {q} : pc'[p] = pc[p] /\ reply'[p] = reply[p] /\ before'[p] = before[p]
<1>1. /\ pc \in [Request -> Labels] /\ reply \in [Request -> Statuses]
      /\ before \in [Request -> SUBSET Request]
      /\ \A p \in Request : Passes(p, pc[p]) /\ (pc[p] # "done" => reply[p] = 0)
  BY DEF Shape, RowsTypeOK, Statuses
<1>2. /\ UNCHANGED <<kind, made>> /\ faults' \in faults..MaxFaults
  BY DEF Moved
<1>3. CASE UNCHANGED <<pc, reply, before>>
  BY <1>1, <1>2, <1>3 DEF Onward, Passes
<1>4. CASE ~ UNCHANGED <<pc, reply, before>>
  <2>1. /\ pc[q] \notin Over
        /\ before' = before \/ (pc[q] = "start" /\ Begin(q))
        /\ \/ \E label \in Labels \ {"start", "done"} :
                   /\ Passes(q, label) /\ Goto(q, label)
                   /\ label = "target" => pc[q] = "start"
           \/ \E status \in Statuses : Answer(q, status)
    BY <1>4 DEF Moved
  <2>2. /\ before' \in [Request -> SUBSET Request]
        /\ \A p \in Request \ {q} : before'[p] = before[p]
        /\ pc[q] # "start" => before'[q] = before[q]
        /\ before'[q] = before[q] \/ before'[q] = {p \in Request : pc[p] \in Over}
    <3>1. CASE before' = before
      BY <1>1, <3>1
    <3>2. CASE pc[q] = "start" /\ Begin(q)
      BY <1>1, <3>2 DEF Begin
    <3>3. QED
      BY <2>1, <3>1, <3>2
  <2>3. ASSUME NEW label \in Labels \ {"start", "done"}, Passes(q, label), Goto(q, label),
               label = "target" => pc[q] = "start"
        PROVE  /\ pc' \in [Request -> Labels] /\ reply' \in [Request -> Statuses]
               /\ Passes(q, pc'[q]) /\ reply'[q] = 0 /\ pc'[q] # "start"
               /\ pc[q] # "start" => pc'[q] # "target"
               /\ \A p \in Request \ {q} : pc'[p] = pc[p] /\ reply'[p] = reply[p]
    <3>1. pc' = [pc EXCEPT ![q] = label] /\ reply' = reply
      BY <2>3 DEF Goto
    <3>2. pc'[q] = label /\ pc[q] # "done"
      BY <1>1, <2>1, <3>1 DEF Over
    <3>3. QED
      BY <1>1, <2>3, <3>1, <3>2
  <2>4. ASSUME NEW status \in Statuses, Answer(q, status)
        PROVE  /\ pc' \in [Request -> Labels] /\ reply' \in [Request -> Statuses]
               /\ Passes(q, pc'[q]) /\ pc'[q] = "done"
               /\ \A p \in Request \ {q} : pc'[p] = pc[p] /\ reply'[p] = reply[p]
    BY <1>1, <2>4 DEF Answer, Passes, Labels
  <2>5. /\ pc' \in [Request -> Labels] /\ reply' \in [Request -> Statuses]
        /\ Passes(q, pc'[q]) /\ (pc'[q] # "done" => reply'[q] = 0)
        /\ pc'[q] # "start"
        /\ pc[q] # "start" => pc'[q] # "target"
        /\ \A p \in Request \ {q} : pc'[p] = pc[p] /\ reply'[p] = reply[p]
    BY <2>1, <2>3, <2>4
  <2>6. ASSUME NEW p \in Request
        PROVE  /\ Passes(p, pc'[p])
               /\ pc'[p] # "done" => reply'[p] = 0
               /\ pc[p] \in Over => pc'[p] = pc[p] /\ reply'[p] = reply[p]
               /\ pc[p] # "start" => pc'[p] # "start" /\ before'[p] = before[p]
               /\ pc[p] \notin {"start", "target"} => pc'[p] # "target"
               /\ before'[p] = before[p] \/ before'[p] = {x \in Request : pc[x] \in Over}
    BY <1>1, <2>1, <2>2, <2>5, <2>6 DEF Over
  <2>7. Onward
    BY <1>2, <2>2, <2>5, <2>6 DEF Onward
  <2>8. QED
    BY <2>2, <2>5, <2>7
<1>5. QED
  BY <1>3, <1>4

LEMMA StepsOnward ==
    ASSUME Shape, [Next]_vars
    PROVE  Onward
<1>1. ASSUME UNCHANGED <<kind, made, pc, reply, before>>, faults' \in faults..MaxFaults
      PROVE  Onward
  BY <1>1 DEF Shape, RowsTypeOK, Onward, Passes, Statuses
<1>2. CASE UNCHANGED vars
  BY <1>1, <1>2, FaultFaults DEF vars, rowVars
<1>3. ASSUME NEW q \in Request, RowsStep(q) \/ CloneStep(q) PROVE Onward
  BY <1>3, RowsMove, CloneMoves, MovedIsOnward
<1>4. CASE Crash
  <2>1. \A q \in Request : Passes(q, pc[q]) /\ (pc[q] # "done" => reply[q] = 0)
    BY DEF Shape
  <2>2. reply \in [Request -> Statuses] /\ before \in [Request -> SUBSET Request]
    BY DEF Shape, RowsTypeOK, Statuses
  <2>3. \A q \in Request : Passes(q, pc'[q]) /\ (pc'[q] # "done" => reply[q] = 0)
    BY <1>4, <2>1, CrashMoves DEF Passes
  <2>4. QED
    BY <1>4, <2>2, <2>3, CrashMoves DEF Onward, Over
<1>5. ASSUME NEW s \in serving, Serve(s) \/ ServiceFails(s) PROVE Onward
  BY <1>1, <1>5, ServiceLeaves
<1>6. QED
  BY <1>2, <1>3, <1>4, <1>5, StepOf

(* A PATCH or a PUT moves only by the steps of BackendRows.                *)
LEMMA MovedHere ==
    ASSUME Shape, [Next]_vars, NEW q \in Request, Op[q] \in {"patch", "put"},
           pc'[q] # pc[q], pc'[q] # "dead"
    PROVE  RowsStep(q)
<1>1. ASSUME NEW p \in Request, RowsStep(p) \/ CloneStep(p) PROVE RowsStep(q)
  <2>1. Moved(p) /\ (p # q => pc'[q] = pc[q])
    BY <1>1, RowsMove, CloneMoves, MovedIsOnward
  <2>2. p = q
    BY <2>1
  <2>3. QED
    BY <2>1, <2>2 DEF Moved
<1>2. ~ Crash
  BY CrashMoves
<1>3. ~ UNCHANGED vars
  BY DEF vars, rowVars
<1>4. ~ \E s \in serving : Serve(s) \/ ServiceFails(s)
  BY ServiceLeaves
<1>5. QED
  BY <1>1, <1>2, <1>3, <1>4, StepOf

(* What a step does to the rows.                                           *)
LEMMA RowsChange ==
    ASSUME Shape, [Next]_vars
    PROVE  \/ Still
           \/ \E q \in Request : Reads(q) \/ Rewrites(q) \/ Takes(q) \/ Brings(q)
<1>0. applied \subseteq Request /\ \A q \in Request : Passes(q, pc[q])
      /\ pc \in [Request -> Labels]
  BY DEF Shape, RowsTypeOK
<1>1. ASSUME UNCHANGED <<rows, copy, applied>> PROVE Still
  BY <1>0, <1>1 DEF Still
<1>2. CASE UNCHANGED vars
  BY <1>1, <1>2 DEF vars, rowVars
<1>3. ASSUME NEW q \in Request, Select(q) PROVE Still \/ Reads(q)
  <2>1. /\ pc[q] = "start" /\ Begin(q) /\ UNCHANGED <<rows, applied>>
        /\ \/ UNCHANGED copy
           \/ /\ rows[RowOf[q]].life = "live"
              /\ copy' = [copy EXCEPT ![q] = rows[RowOf[q]]]
    BY <1>3 DEF Select
  <2>2. QED
    BY <1>1, <2>1 DEF Reads
<1>4. ASSUME NEW q \in Request, Update(q) PROVE Still \/ Rewrites(q)
  <2>1. pc[q] = "write" /\ Op[q] = "patch"
    BY <1>0, <1>4 DEF Update, Passes
  <2>2. QED
    BY <1>1, <1>4, <2>1 DEF Update, Rewrites, Skip
<1>5. ASSUME NEW q \in Request, Remove(q) PROVE Still \/ Takes(q)
  <2>1. /\ Op[q] = "delete" /\ pc[q] \in {"start", "remove"}
        /\ pc[q] = "start" => q \in made /\ RowKind(q) = "template"
    BY <1>0, <1>5 DEF Remove, Passes
  <2>2. pc'[q] = "done"
    BY <1>0, <1>5 DEF Remove, Answer
  <2>3. QED
    BY <1>1, <1>5, <2>1, <2>2 DEF Remove, Takes, Skip
<1>6. ASSUME NEW q \in Request, NEW label \in {"entity", "nodes", "done"},
             Insert(q, Goto(q, label)) \/ Insert(q, Answer(q, 200)),
             Op[q] \in {"create", "clone"}, pc[q] \in {"start", "target"}
      PROVE  Still \/ Brings(q)
  <2>1. \A status : Answer(q, status) => pc'[q] = "done"
    BY <1>0 DEF Answer
  <2>2. Goto(q, label) => pc'[q] \notin {"start", "target"}
    BY <1>0 DEF Goto
  <2>3. pc'[q] \notin {"start", "target"}
    BY <1>6, <2>1, <2>2 DEF Insert
  <2>4. QED
    BY <1>1, <1>6, <2>3 DEF Insert, Brings, NewRow, Skip
<1>7. ASSUME NEW q \in Request, Create(q) PROVE Still \/ Brings(q)
  <2>1. Insert(q, Goto(q, "entity")) \/ Insert(q, Answer(q, 200))
    BY <1>7 DEF Create, Insert
  <2>2. QED
    BY <1>6, <1>7, <2>1 DEF Create
<1>8. ASSUME NEW q \in Request, InsertTarget(q) PROVE Still \/ Brings(q)
  <2>1. pc[q] = "target" /\ Op[q] = "clone"
    BY <1>0, <1>8 DEF InsertTarget, Passes
  <2>2. QED
    BY <1>6, <1>8, <2>1 DEF InsertTarget
<1>9. ASSUME NEW q \in Request, DeleteTypes(q) \/ InsertTypes(q) PROVE Still
  <2>1. CASE DeleteTypes(q)
    BY <1>1, <2>1 DEF DeleteTypes
  <2>2. CASE InsertTypes(q)
    <3>1. pc[q] = "types" /\ Op[q] = "put"
      BY <1>0, <2>2 DEF InsertTypes, Passes
    <3>2. UNCHANGED <<rows, copy>> /\ applied' \in {applied, applied \cup {q}}
      BY <2>2 DEF InsertTypes
    <3>3. QED
      BY <1>0, <3>1, <3>2 DEF Still
  <2>3. QED
    BY <1>9, <2>1, <2>2
<1>10. ASSUME NEW q \in Request, CloneStep(q), ~ InsertTarget(q) PROVE Still
  BY <1>1, <1>10 DEF CloneStep, SelectSource, ListNodes, ListEdges, Send, SendOwn, Receive,
       LoopEnds, ListGroup, DropGroup, DropFails, WorkerSaves, rowVars
<1>11. CASE Crash
  BY <1>1, <1>11 DEF Crash
<1>12. ASSUME NEW s \in serving, Serve(s) \/ ServiceFails(s) PROVE Still
  BY <1>1, <1>12, ServiceLeaves
<1>13. QED
  BY <1>2, <1>3, <1>4, <1>5, <1>7, <1>8, <1>9, <1>10, <1>11, <1>12, StepOf DEF RowsStep

(* Numbers of rows are numbers, and what was read is what can be written.  *)
RowTyped(row) ==
    /\ row \in RowRecord
    /\ row.life \in {"absent", "live", "deleted"} /\ row.uuid \in Nat
    /\ row.value \in [Field -> Request \cup {Nobody}]

LEMMA RecordTyped ==
    ASSUME NEW row \in RowRecord
    PROVE  RowTyped(row)
BY DEF RowTyped, RowRecord

LEMMA RewrittenRow ==
    ASSUME NEW q \in Request, Shape, Rewrites(q)
    PROVE  /\ rows' \in [Row -> RowRecord]
           /\ rows'[RowOf[q]].uuid = rows[RowOf[q]].uuid
           /\ rows'[RowOf[q]].life = copy[q].life /\ rows'[RowOf[q]].value = Merged(q)
           /\ \A r \in Row \ {RowOf[q]} : rows'[r] = rows[r]
           /\ applied' = applied \cup {q} /\ copy' = copy /\ before' = before
<1>1. /\ RowOf[q] \in Row /\ rows \in [Row -> RowRecord] /\ copy \in [Request -> RowRecord]
      /\ Sets[q] \subseteq Field
  BY RowsAssumption DEF Shape, RowsTypeOK
<1>2. RowTyped(rows[RowOf[q]]) /\ RowTyped(copy[q])
  BY <1>1, RecordTyped
<1>3. Merged(q) \in [Field -> Request \cup {Nobody}]
  BY <1>2 DEF Merged, RowTyped
<1> DEFINE row == [rows[RowOf[q]] EXCEPT !.life = copy[q].life, !.value = Merged(q)]
<1>4. /\ row \in RowRecord /\ row.uuid = rows[RowOf[q]].uuid
      /\ row.life = copy[q].life /\ row.value = Merged(q)
  <2>1. rows[RowOf[q]] \in RowRecord /\ copy[q].life \in {"absent", "live", "deleted"}
    BY <1>2 DEF RowTyped
  <2>2. QED
    BY <1>3, <2>1 DEF RowRecord
<1>5. rows' = [rows EXCEPT ![RowOf[q]] = row] /\ applied' = applied \cup {q}
      /\ copy' = copy /\ before' = before
  BY DEF Rewrites, Apply
<1> HIDE DEF row
<1>6. QED
  BY <1>1, <1>4, <1>5

LEMMA TakenRow ==
    ASSUME NEW q \in Request, Shape, Takes(q)
    PROVE  /\ rows' \in [Row -> RowRecord]
           /\ rows'[RowOf[q]].uuid = rows[RowOf[q]].uuid
           /\ rows'[RowOf[q]].value = rows[RowOf[q]].value
           /\ rows'[RowOf[q]].life # "live"
           /\ \A r \in Row \ {RowOf[q]} : rows'[r] = rows[r]
           /\ applied' = applied \cup {q} /\ copy' = copy /\ Op[q] = "delete"
<1>1. /\ RowOf[q] \in Row /\ rows \in [Row -> RowRecord]
  BY RowsAssumption DEF Shape, RowsTypeOK
<1>2. /\ Removed(q) \in RowRecord /\ Removed(q).uuid = rows[RowOf[q]].uuid
      /\ Removed(q).value = rows[RowOf[q]].value /\ Removed(q).life # "live"
  <2> DEFINE life == IF RowKind(q) = "user" THEN "deleted" ELSE "absent"
  <2>1. life \in {"absent", "live", "deleted"} /\ life # "live"
    OBVIOUS
  <2>2. Removed(q) = [rows[RowOf[q]] EXCEPT !.life = life] /\ rows[RowOf[q]] \in RowRecord
    BY <1>1 DEF Removed
  <2> HIDE DEF life
  <2>3. QED
    BY <2>1, <2>2 DEF RowRecord
<1>3. rows' = [rows EXCEPT ![RowOf[q]] = Removed(q)] /\ applied' = applied \cup {q}
      /\ copy' = copy /\ Op[q] = "delete"
  BY DEF Takes, Apply
<1>4. QED
  BY <1>1, <1>2, <1>3

LEMMA BroughtRow ==
    ASSUME NEW q \in Request, Shape, Brings(q)
    PROVE  /\ rows' \in [Row -> RowRecord] /\ copy' \in [Request -> RowRecord]
           /\ rows[RowOf[q]].life = "absent"
           /\ rows'[RowOf[q]] = NewRow(q) /\ copy'[q] = NewRow(q)
           /\ NewRow(q).uuid = rows[RowOf[q]].uuid + 1
           /\ \A f \in Field : NewRow(q).value[f] = q
           /\ \A r \in Row \ {RowOf[q]} : rows'[r] = rows[r]
           /\ \A p \in Request \ {q} : copy'[p] = copy[p]
           /\ applied' = applied \cup {q} /\ Op[q] \in {"create", "clone"}
<1>1. /\ RowOf[q] \in Row /\ rows \in [Row -> RowRecord] /\ copy \in [Request -> RowRecord]
  BY RowsAssumption DEF Shape, RowsTypeOK
<1>2. RowTyped(rows[RowOf[q]])
  BY <1>1, RecordTyped
<1>3. NewRow(q) \in RowRecord
  BY <1>2 DEF RowTyped, RowRecord, NewRow
<1>4. NewRow(q).uuid = rows[RowOf[q]].uuid + 1 /\ \A f \in Field : NewRow(q).value[f] = q
  BY DEF NewRow
<1>5. /\ rows' = [rows EXCEPT ![RowOf[q]] = NewRow(q)] /\ applied' = applied \cup {q}
      /\ copy' = [copy EXCEPT ![q] = NewRow(q)] /\ Op[q] \in {"create", "clone"}
      /\ rows[RowOf[q]].life = "absent"
  BY DEF Brings, Apply, Inserts
<1>6. QED
  BY <1>1, <1>3, <1>4, <1>5

LEMMA ReadRow ==
    ASSUME NEW q \in Request, Shape, Reads(q)
    PROVE  /\ copy' \in [Request -> RowRecord]
           /\ copy'[q] = rows[RowOf[q]] /\ rows[RowOf[q]].life = "live"
           /\ \A p \in Request \ {q} : copy'[p] = copy[p]
           /\ before'[q] = {p \in Request : pc[p] \in Over}
           /\ rows' = rows /\ applied' = applied
<1>1. /\ RowOf[q] \in Row /\ rows \in [Row -> RowRecord] /\ copy \in [Request -> RowRecord]
      /\ before \in [Request -> SUBSET Request]
  BY RowsAssumption DEF Shape, RowsTypeOK
<1>2. QED
  BY <1>1 DEF Reads, Begin

(* The types of the entities, as the PUTs change them.                     *)
LEMMA TypesChange ==
    ASSUME Shape, [Next]_vars
    PROVE  \/ types' = types /\ (\A q \in Request : pc[q] = "types" => pc'[q] = pc[q] \/ faults' # 0)
              /\ (\A q \in Request : pc'[q] = "types" => pc[q] = "types")
              /\ (\A q \in Request : Op[q] = "put" /\ pc'[q] = "done" => pc[q] = "done")
           \/ \E q \in Request : DeleteTypes(q) \/ InsertTypes(q)
<1>1. /\ pc \in [Request -> Labels]
      /\ \A q \in Request : Passes(q, pc[q])
  BY DEF Shape
<1>2. CASE UNCHANGED vars
  BY <1>2 DEF vars, rowVars
<1>3. ASSUME NEW q \in Request, RowsStep(q) \/ CloneStep(q)
      PROVE  \/ types' = types /\ pc'[q] # "types" /\ (Op[q] # "put" \/ UNCHANGED pc)
                               /\ (UNCHANGED pc \/ pc[q] # "types")
                /\ \A p \in Request \ {q} : pc'[p] = pc[p]
             \/ UNCHANGED <<pc, types>>
             \/ DeleteTypes(q) \/ InsertTypes(q)
  <2>1. CASE RowsStep(q)
    <3>1. CASE Select(q) \/ Update(q) \/ Remove(q) \/ Create(q)
      <4>1. types' = types /\ Op[q] # "put" /\ pc[q] # "types"
        BY <1>1, <3>1 DEF Select, Update, Remove, Create, Passes
      <4>2. Onward /\ \A p \in Request \ {q} : pc'[p] = pc[p]
        BY <2>1, RowsMove, MovedIsOnward
      <4>3. Passes(q, pc'[q]) /\ made' = made
        BY <4>2 DEF Onward
      <4>4. QED
        BY <4>1, <4>2, <4>3 DEF Passes
    <3>2. QED
      BY <2>1, <3>1 DEF RowsStep
  <2>2. CASE CloneStep(q)
    <3>1. types' = types
      BY <2>2 DEF CloneStep, SelectSource, InsertTarget, ListNodes, ListEdges, Send, SendOwn,
           Receive, LoopEnds, ListGroup, DropGroup, DropFails, WorkerSaves, rowVars
    <3>2. UNCHANGED pc \/ Op[q] # "put"
      BY <1>1, <2>2 DEF CloneStep, SelectSource, InsertTarget, ListNodes, ListEdges, Send,
           SendOwn, Receive, LoopEnds, ListGroup, DropGroup, DropFails, WorkerSaves, rowVars,
           Clones, Passes
    <3>3. Onward /\ \A p \in Request \ {q} : pc'[p] = pc[p]
      BY <2>2, CloneMoves, MovedIsOnward
    <3>4. Passes(q, pc'[q]) /\ made' = made
      BY <3>3 DEF Onward
    <3>5. QED
      BY <1>1, <3>1, <3>2, <3>3, <3>4 DEF Passes
  <2>3. QED
    BY <1>3, <2>1, <2>2
<1>4. CASE Crash
  BY <1>4, CrashMoves
<1>5. ASSUME NEW s \in serving, Serve(s) \/ ServiceFails(s)
      PROVE  UNCHANGED <<pc, types>>
  BY <1>5, ServiceLeaves
<1>6. CASE \E q \in Request : RowsStep(q) \/ CloneStep(q)
  BY <1>3, <1>6
<1>7. QED
  BY <1>2, <1>4, <1>5, <1>6, StepOf

THEOREM ShapeHolds == Spec => []Shape
<1>1. Init => Shape
  <2> SUFFICES ASSUME Init PROVE Shape
    OBVIOUS
  <2>1. PICK s \in Scenarios : kind = s.kind /\ made = s.made
    BY DEF Init, RowsInit
  <2>2. kind \in [Row -> Kinds] /\ made \subseteq Request
    BY <2>1, RowsAssumption
  <2>3. rows \in [Row -> RowRecord]
    BY DEF Init, RowsInit, RowRecord
  <2>4. copy \in [Request -> RowRecord]
    BY <2>3, RowsAssumption DEF Init, RowsInit
  <2>5. /\ types = {Nobody} /\ pc = [q \in Request |-> "start"] /\ reply = [q \in Request |-> 0]
        /\ before = [q \in Request |-> {}] /\ applied = {} /\ faults = 0
    BY DEF Init, RowsInit
  <2>6. QED
    BY <2>2, <2>3, <2>4, <2>5, RowsAssumption DEF Shape, RowsTypeOK, Labels, Passes
<1>2. Shape /\ [Next]_vars => Shape'
  <2> SUFFICES ASSUME Shape, [Next]_vars PROVE Shape'
    OBVIOUS
  <2>1. Onward
    BY StepsOnward
  <2>2. /\ rows \in [Row -> RowRecord] /\ copy \in [Request -> RowRecord]
        /\ kind \in [Row -> Kinds] /\ made \subseteq Request
        /\ types \subseteq Request \cup {Nobody} /\ applied \subseteq Request
        /\ faults \in 0..MaxFaults /\ MaxFaults \in Nat
    BY RowsAssumption DEF Shape, RowsTypeOK
  <2>3. rows' \in [Row -> RowRecord] /\ copy' \in [Request -> RowRecord] /\ applied' \subseteq Request
    <3>1. CASE Still
      BY <2>2, <3>1 DEF Still
    <3>2. ASSUME NEW q \in Request, Reads(q) \/ Rewrites(q) \/ Takes(q) \/ Brings(q)
          PROVE  rows' \in [Row -> RowRecord] /\ copy' \in [Request -> RowRecord] /\ applied' \subseteq Request
      BY <2>2, <3>2, ReadRow, RewrittenRow, TakenRow, BroughtRow
    <3>3. QED
      BY <3>1, <3>2, RowsChange
  <2>4. types' \subseteq Request \cup {Nobody}
    <3>1. CASE types' = types
      BY <2>2, <3>1
    <3>2. ASSUME NEW q \in Request, DeleteTypes(q) \/ InsertTypes(q)
          PROVE  types' \subseteq Request \cup {Nobody}
      BY <2>2, <3>2 DEF DeleteTypes, InsertTypes
    <3>3. QED
      BY <3>1, <3>2, TypesChange
  <2>5. /\ pc' \in [Request -> Labels] /\ reply' \in [Request -> Statuses]
        /\ before' \in [Request -> SUBSET Request]
        /\ kind' = kind /\ made' = made /\ faults' \in faults..MaxFaults
        /\ \A q \in Request : Passes(q, pc'[q]) /\ (pc'[q] # "done" => reply'[q] = 0)
    BY <2>1 DEF Onward
  <2>6. faults' \in 0..MaxFaults
    BY <2>2, <2>5
  <2>7. RowsTypeOK'
    BY <2>2, <2>3, <2>4, <2>5, <2>6 DEF RowsTypeOK, Statuses
  <2>8. \A q \in Request : Passes(q, pc[q])' /\ (pc[q] # "done" => reply[q] = 0)'
    BY <2>5 DEF Passes
  <2>9. QED
    BY <2>5, <2>7, <2>8 DEF Shape
<1>3. QED
  BY <1>1, <1>2, PTL DEF Spec

(* StaysDeleted, whatever was read before the deletion: Hits looks at the  *)
(* row as it is when it is written.                                        *)
THEOREM DeletedRowsStayDeleted == Spec => StaysDeleted
<1> DEFINE Returns == \A r \in Row : rows[r].life # "live" /\ rows'[r].life = "live" =>
                         rows[r].life = "absent" /\ rows'[r].uuid > rows[r].uuid
<1>1. Shape /\ [Next]_vars => Returns
  <2> SUFFICES ASSUME Shape, [Next]_vars, NEW r \in Row,
                      rows[r].life # "live", rows'[r].life = "live"
               PROVE  rows[r].life = "absent" /\ rows'[r].uuid > rows[r].uuid
    OBVIOUS
  <2>1. rows[r].uuid \in Nat
    BY RecordTyped DEF Shape, RowsTypeOK, RowTyped
  <2>2. ~ Still
    BY DEF Still
  <2>3. PICK q \in Request : Reads(q) \/ Rewrites(q) \/ Takes(q) \/ Brings(q)
    BY <2>2, RowsChange
  <2>4. CASE Reads(q)
    BY <2>4 DEF Reads
  <2>5. CASE Rewrites(q)
    <3>1. rows[RowOf[q]].life = "live"
      BY <2>5 DEF Rewrites, Hits
    <3>2. QED
      BY <2>5, <3>1, RewrittenRow
  <2>6. CASE Takes(q)
    BY <2>6, TakenRow
  <2>7. CASE Brings(q)
    BY <2>1, <2>7, BroughtRow
  <2>8. QED
    BY <2>3, <2>4, <2>5, <2>6, <2>7
<1>2. Shape /\ [Next]_vars => [Returns]_rowVars
  BY <1>1
<1> HIDE DEF Returns
<1>3. Spec => [][Returns]_rowVars
  BY <1>2, ShapeHolds, PTL DEF Spec
<1>4. QED
  BY <1>3 DEF Returns, StaysDeleted

-----------------------------------------------------------------------------
(* While a PUT has its old types deleted, the types there are come from a  *)
(* PUT that overlaps with it.                                              *)
Overtaken ==
    faults = 0 => \A q \in Puts : pc[q] = "types" =>
        \A p \in types : p \in Puts \cap applied /\ p # q /\ p \notin before[q]

(* What a handler has found ended when it began, has ended.                *)
Past == \A q \in Request : \A p \in before[q] : p \in Request /\ pc[p] \in Over

TypesInv == Past /\ Overtaken /\ PutsSettle

LEMMA PastStep ==
    ASSUME Shape, Past, Onward
    PROVE  Past'
<1> SUFFICES ASSUME NEW q \in Request, NEW p \in before'[q]
             PROVE  p \in Request /\ pc'[p] \in Over
  BY DEF Past, Over
<1>1. p \in Request /\ pc[p] \in Over
  BY DEF Past, Onward
<1>2. QED
  BY <1>1 DEF Onward

LEMMA NoFaults ==
    ASSUME Shape, Onward, faults' = 0
    PROVE  faults = 0
BY RowsAssumption DEF Shape, RowsTypeOK, Onward

LEMMA FaultsCounted ==
    ASSUME Shape, Onward
    PROVE  faults' > 0 \/ faults' = 0
BY RowsAssumption DEF Shape, RowsTypeOK, Onward

(* Types that a step leaves alone.                                         *)
LEMMA TypesLeft ==
    ASSUME Shape, TypesInv, Onward, types' = types, applied \subseteq applied',
           \A q \in Request : pc[q] = "types" => pc'[q] = pc[q] \/ faults' # 0,
           \A q \in Request : pc'[q] = "types" => pc[q] = "types",
           \A q \in Request : Op[q] = "put" /\ pc'[q] = "done" => pc[q] = "done"
    PROVE  TypesInv'
<1>1. made' = made /\ Puts' = Puts /\ Puts \subseteq Request
  BY DEF Onward, Puts, Shape, RowsTypeOK
<1>2. Past'
  BY PastStep DEF TypesInv
<1>3. ASSUME faults' = 0 PROVE faults = 0
  BY <1>3, NoFaults
<1>4. Overtaken'
  <2> SUFFICES ASSUME faults' = 0, NEW q \in Puts, pc'[q] = "types", NEW p \in types
               PROVE  p \in Puts \cap applied' /\ p # q /\ p \notin before'[q]
    BY <1>1 DEF Overtaken
  <2>1. pc[q] = "types" /\ before'[q] = before[q]
    BY <1>1 DEF Onward
  <2>2. QED
    BY <1>3, <2>1 DEF TypesInv, Overtaken
<1>5. TypesKept'
  <2> SUFFICES ASSUME types = {}, faults' = 0 PROVE \E q \in Puts : pc'[q] = "types"
    BY <1>1, FaultsCounted DEF TypesKept
  <2>1. PICK q \in Puts : pc[q] = "types"
    BY <1>3 DEF TypesInv, PutsSettle, TypesKept
  <2>2. QED
    BY <1>1, <2>1
<1>6. RefusedPutWasOvertaken'
  <2> SUFFICES ASSUME NEW q \in Puts, reply'[q] = 500, faults' = 0
               PROVE  /\ \E p \in Puts \cap applied' : p # q /\ p \notin before'[q]
                      /\ Nobody \notin types
    BY <1>1 DEF RefusedPutWasOvertaken
  <2>1. pc'[q] = "done" /\ Op[q] = "put"
    BY <1>1 DEF Onward, Puts
  <2>2. pc[q] = "done"
    BY <1>1, <2>1
  <2>3. reply[q] = 500 /\ before'[q] = before[q]
    BY <1>1, <2>2 DEF Onward, Over
  <2>4. QED
    BY <1>3, <2>3 DEF TypesInv, PutsSettle, RefusedPutWasOvertaken
<1>7. QED
  BY <1>2, <1>4, <1>5, <1>6 DEF TypesInv, PutsSettle

(* A PUT deletes the types.                                                *)
LEMMA TypesDeleted ==
    ASSUME Shape, TypesInv, Onward, NEW q \in Request, DeleteTypes(q)
    PROVE  TypesInv'
<1>1. made' = made /\ Puts' = Puts /\ Puts \subseteq Request /\ applied' = applied
  BY DEF Onward, Puts, Shape, RowsTypeOK, DeleteTypes
<1>2. Past'
  BY PastStep DEF TypesInv
<1>3. PICK executed \in BOOLEAN, err \in BOOLEAN :
          /\ Statement(executed, err)
          /\ types' = IF executed THEN {} ELSE types
  BY DEF DeleteTypes
<1>4. ASSUME faults' = 0 PROVE faults = 0 /\ types' = {}
  BY <1>3, <1>4, NoFaults, StatementFaults
<1>5. /\ q \in Puts /\ pc[q] = "start" /\ reply' = reply /\ pc'[q] = "types"
  BY DEF DeleteTypes, Puts, Goto, Shape
<1>6. RefusedPutWasOvertaken'
  <2> SUFFICES ASSUME NEW p \in Puts, reply'[p] = 500, faults' = 0
               PROVE  /\ \E x \in Puts \cap applied' : x # p /\ x \notin before'[p]
                      /\ Nobody \notin types'
    BY <1>1 DEF RefusedPutWasOvertaken
  <2>1. reply[p] = 500 /\ pc[p] = "done"
    BY <1>1, <1>5 DEF Shape
  <2>2. before'[p] = before[p]
    BY <1>1, <2>1 DEF Onward
  <2>3. QED
    BY <1>1, <1>4, <2>1, <2>2 DEF TypesInv, PutsSettle, RefusedPutWasOvertaken
<1>7. Overtaken'
  BY <1>4 DEF Overtaken
<1>8. TypesKept'
  BY <1>1, <1>5 DEF TypesKept
<1>9. QED
  BY <1>2, <1>6, <1>7, <1>8 DEF TypesInv, PutsSettle

(* A PUT inserts its types, or is refused.                                 *)
LEMMA TypesInserted ==
    ASSUME Shape, TypesInv, Onward, NEW q \in Request, InsertTypes(q)
    PROVE  TypesInv'
<1>1. /\ made' = made /\ Puts' = Puts /\ Puts \subseteq Request /\ before' = before
      /\ applied \subseteq applied'
  BY DEF Onward, Puts, Shape, RowsTypeOK, InsertTypes
<1>2. Past'
  BY PastStep DEF TypesInv
<1>3. PICK executed \in BOOLEAN, err \in BOOLEAN :
          /\ Statement(executed, err)
          /\ IF executed /\ types = {}
             THEN types' = {q} /\ applied' = applied \cup {q}
             ELSE UNCHANGED <<types, applied>>
          /\ Answer(q, IF err \/ types # {} THEN 500 ELSE 200)
  BY DEF InsertTypes
<1>4. /\ pc[q] = "types" /\ q \in Puts /\ pc'[q] = "done"
      /\ \A p \in Request \ {q} : pc'[p] = pc[p] /\ reply'[p] = reply[p]
  <2>1. pc[q] = "types" /\ Passes(q, pc[q])
    BY DEF InsertTypes, Shape
  <2>2. q \in Puts
    BY <2>1 DEF Passes, Puts
  <2>3. QED
    BY <1>3, <2>1, <2>2 DEF Answer, Shape, RowsTypeOK
<1>5. ASSUME faults' = 0 PROVE faults = 0 /\ executed /\ ~ err
  BY <1>3, <1>5, NoFaults, StatementFaults
<1>6. ASSUME faults' = 0 PROVE types' # {} /\ types' \subseteq Puts \cap applied'
  <2>1. CASE types = {}
    BY <1>3, <1>4, <1>5, <1>6, <2>1
  <2>2. CASE types # {}
    BY <1>1, <1>3, <1>4, <1>5, <1>6, <2>2 DEF TypesInv, Overtaken
  <2>3. QED
    BY <2>1, <2>2
<1>7. Overtaken'
  <2> SUFFICES ASSUME faults' = 0, NEW p \in Puts, pc'[p] = "types", NEW x \in types'
               PROVE  x # p /\ x \notin before[p]
    BY <1>1, <1>6 DEF Overtaken
  <2>1. p # q /\ pc[p] = "types"
    BY <1>1, <1>4
  <2>2. CASE types = {}
    <3>1. x = q
      BY <1>3, <1>5, <2>2
    <3>2. pc[q] \notin Over
      BY <1>4 DEF Over
    <3>3. QED
      BY <1>1, <2>1, <3>1, <3>2 DEF TypesInv, Past
  <2>3. CASE types # {}
    BY <1>3, <1>5, <2>1, <2>3 DEF TypesInv, Overtaken
  <2>4. QED
    BY <2>2, <2>3
<1>8. TypesKept'
  BY <1>6, FaultsCounted DEF TypesKept
<1>9. RefusedPutWasOvertaken'
  <2> SUFFICES ASSUME NEW p \in Puts, reply'[p] = 500, faults' = 0
               PROVE  \E x \in Puts \cap applied' : x # p /\ x \notin before[p]
    <3>1. Nobody \notin Puts
      BY <1>1, RowsAssumption
    <3>2. QED
      BY <1>1, <1>6, <3>1 DEF RefusedPutWasOvertaken
  <2>1. CASE p = q
    <3>1. types # {}
      BY <1>3, <1>5, <2>1 DEF Answer, Shape, RowsTypeOK
    <3>2. QED
      BY <1>1, <1>4, <1>5, <2>1, <3>1 DEF TypesInv, Overtaken
  <2>2. CASE p # q
    <3>1. reply[p] = 500
      BY <1>1, <1>4, <2>2
    <3>2. QED
      BY <1>1, <1>5, <3>1 DEF TypesInv, PutsSettle, RefusedPutWasOvertaken
  <2>3. QED
    BY <2>1, <2>2
<1>10. QED
  BY <1>2, <1>7, <1>8, <1>9 DEF TypesInv, PutsSettle

(* PutsSettle: however PUTs of the entity types meet, one of them stays,   *)
(* and one that is refused was overtaken by it.                            *)
THEOREM OnePutStays == Spec => []PutsSettle
<1>1. Init => TypesInv
  <2> SUFFICES ASSUME Init PROVE TypesInv
    OBVIOUS
  <2>1. /\ types = {Nobody} /\ pc = [q \in Request |-> "start"]
        /\ reply = [q \in Request |-> 0] /\ before = [q \in Request |-> {}]
        /\ Puts \subseteq Request
    <3>1. \A s \in Scenarios : s.made \subseteq Request
      BY RowsAssumption
    <3>2. QED
      BY <3>1 DEF Init, RowsInit, Puts
  <2>2. Past /\ Overtaken /\ TypesKept /\ RefusedPutWasOvertaken
    BY <2>1 DEF Past, Overtaken, TypesKept, RefusedPutWasOvertaken
  <2>3. QED
    BY <2>2 DEF TypesInv, PutsSettle
<1>2. Shape /\ TypesInv /\ [Next]_vars => TypesInv'
  <2> SUFFICES ASSUME Shape, TypesInv, [Next]_vars PROVE TypesInv'
    OBVIOUS
  <2>1. Onward
    BY StepsOnward
  <2>2. applied \subseteq applied'
    <3>1. ASSUME NEW q \in Request, Reads(q) \/ Rewrites(q) \/ Takes(q) \/ Brings(q)
          PROVE  applied \subseteq applied'
      BY <3>1 DEF Reads, Rewrites, Takes, Brings, Apply
    <3>2. QED
      BY <3>1, RowsChange DEF Still
  <2>3. QED
    BY <2>1, <2>2, TypesChange, TypesLeft, TypesDeleted, TypesInserted
<1>3. TypesInv => PutsSettle
  BY DEF TypesInv
<1>4. QED
  BY <1>1, <1>2, <1>3, ShapeHolds, PTL DEF Spec

-----------------------------------------------------------------------------
(* What a row or a copy shows was put there by a request that has changed  *)
(* a table, and a copy is no newer than the row.                           *)
Authors ==
    /\ \A q \in applied : q \in Request /\ pc[q] \notin {"start", "target"}
    /\ \A r \in Row : \A f \in Field : rows[r].value[f] \in applied \cup {Nobody}
    /\ \A q \in Request : \A f \in Field : copy[q].value[f] \in applied \cup {Nobody}

NotNewer == \A q \in Request : copy[q].uuid <= rows[RowOf[q]].uuid

(* NothingInherited, of copies.                                            *)
CopiesInherit ==
    \A q \in Request : \A f \in Field : copy[q].value[f] \in Request =>
        copy[copy[q].value[f]].uuid = copy[q].uuid

(* LostOnlyIfOverlapped, of the copies that will be written: they have     *)
(* what the PATCHes that had ended before them wrote.                      *)
OverlappedAt(q, f) ==
    \E p \in applied \ {q} :
        RowOf[p] = RowOf[q] /\ Op[p] = "patch" /\ (f \in Sets[p] \/ q \notin before[p])

CopiesKeep ==
    \A p \in Request : pc[p] = "write" => \A q \in applied \cap before[p] :
        Op[q] = "patch" /\ RowOf[q] = RowOf[p] /\ copy[q].uuid = copy[p].uuid =>
            \A f \in Sets[q] : copy[p].value[f] = q \/ OverlappedAt(q, f)

RowsInv ==
    /\ Past /\ Authors /\ NotNewer /\ CopiesInherit /\ CopiesKeep
    /\ NothingInherited /\ LostOnlyIfOverlapped

LEMMA Constants ==
    ASSUME NEW q \in Request
    PROVE  RowOf[q] \in Row /\ Sets[q] \subseteq Field /\ Nobody \notin Request
BY RowsAssumption

(* Requests that changed a table are as they were.                         *)
LEMMA AppliedFixed ==
    ASSUME Shape, Authors, Onward, [Next]_vars, NEW q \in Request, pc[q] \notin {"start", "target"}
    PROVE  copy'[q] = copy[q] /\ before'[q] = before[q] /\ pc'[q] \notin {"start", "target"}
<1>1. before'[q] = before[q] /\ pc'[q] \notin {"start", "target"}
  BY DEF Onward
<1>2. ASSUME NEW p \in Request, Reads(p) \/ Rewrites(p) \/ Takes(p) \/ Brings(p)
      PROVE  copy'[q] = copy[q]
  <2>1. CASE Reads(p)
    <3>1. p # q
      BY <2>1 DEF Reads
    <3>2. QED
      BY <2>1, <3>1, ReadRow
  <2>2. CASE Rewrites(p)
    BY <2>2 DEF Rewrites
  <2>3. CASE Takes(p)
    BY <2>3 DEF Takes
  <2>4. CASE Brings(p)
    <3>1. p # q
      BY <2>4 DEF Brings
    <3>2. QED
      BY <2>4, <3>1, BroughtRow
  <2>5. QED
    BY <1>2, <2>1, <2>2, <2>3, <2>4
<1>3. QED
  BY <1>1, <1>2, RowsChange DEF Still

LEMMA AppliedGrow ==
    ASSUME Shape, [Next]_vars
    PROVE  applied \subseteq applied' /\ applied' \subseteq Request
<1>1. ASSUME NEW q \in Request, Reads(q) \/ Rewrites(q) \/ Takes(q) \/ Brings(q)
      PROVE  applied \subseteq applied' /\ applied' \subseteq Request
  BY <1>1 DEF Reads, Rewrites, Takes, Brings, Apply, Shape, RowsTypeOK
<1>2. QED
  BY <1>1, RowsChange DEF Still

LEMMA OverlapStays ==
    ASSUME Shape, Authors, Onward, [Next]_vars, NEW q, NEW f, OverlappedAt(q, f)
    PROVE  \E p \in applied' \ {q} :
              RowOf[p] = RowOf[q] /\ Op[p] = "patch" /\ (f \in Sets[p] \/ q \notin before'[p])
<1>1. PICK p \in applied \ {q} :
          RowOf[p] = RowOf[q] /\ Op[p] = "patch" /\ (f \in Sets[p] \/ q \notin before[p])
  BY DEF OverlappedAt
<1>2. p \in Request /\ pc[p] \notin {"start", "target"}
  BY DEF Authors
<1>3. before'[p] = before[p] /\ p \in applied'
  BY <1>1, <1>2, AppliedFixed, AppliedGrow
<1>4. QED
  BY <1>1, <1>3

(* A row that is not the one that was read, will not be it again.          *)
LEMMA GoneStays ==
    ASSUME Shape, Authors, NotNewer, Onward, [Next]_vars,
           NEW q \in Request, pc[q] \notin {"start", "target"}, ~ Hits(q)
    PROVE  ~ (rows'[RowOf[q]].life = "live" /\ rows'[RowOf[q]].uuid = copy'[q].uuid)
<1>1. copy'[q] = copy[q]
  BY AppliedFixed
<1>2. /\ rows[RowOf[q]].uuid \in Nat /\ copy[q].uuid \in Nat
      /\ copy[q].uuid <= rows[RowOf[q]].uuid
  BY Constants, RecordTyped DEF Shape, RowsTypeOK, RowTyped, NotNewer
<1>3. CASE rows'[RowOf[q]] = rows[RowOf[q]]
  BY <1>1, <1>3 DEF Hits
<1>4. ASSUME NEW p \in Request, Reads(p) \/ Rewrites(p) \/ Takes(p) \/ Brings(p),
             rows'[RowOf[q]] # rows[RowOf[q]]
      PROVE  ~ (rows'[RowOf[q]].life = "live" /\ rows'[RowOf[q]].uuid = copy'[q].uuid)
  <2>1. CASE Reads(p)
    BY <1>4, <2>1 DEF Reads
  <2>2. CASE Rewrites(p)
    <3>1. RowOf[p] = RowOf[q] /\ rows'[RowOf[q]].uuid = rows[RowOf[q]].uuid
      BY <1>4, <2>2, RewrittenRow, Constants
    <3>2. rows[RowOf[q]].life = "live"
      BY <2>2, <3>1 DEF Rewrites, Hits
    <3>3. QED
      BY <1>1, <3>1, <3>2 DEF Hits
  <2>3. CASE Takes(p)
    BY <1>4, <2>3, TakenRow, Constants
  <2>4. CASE Brings(p)
    <3>1. RowOf[p] = RowOf[q] /\ rows'[RowOf[q]].uuid = rows[RowOf[q]].uuid + 1
      BY <1>4, <2>4, BroughtRow, Constants
    <3>2. QED
      BY <1>1, <1>2, <3>1
  <2>5. QED
    BY <1>4, <2>1, <2>2, <2>3, <2>4
<1>5. QED
  BY <1>3, <1>4, RowsChange DEF Still

(* What was read and who had ended by then do not change until it is       *)
(* written.                                                                *)
LEMMA CopiesKeepStep ==
    ASSUME Shape, RowsInv, Onward, [Next]_vars, NEW p \in Request, pc'[p] = "write",
           pc[p] = "write" \/ Reads(p),
           NEW q \in applied' \cap before'[p], Op[q] = "patch", RowOf[q] = RowOf[p],
           copy'[q].uuid = copy'[p].uuid, NEW f \in Sets[q]
    PROVE  \/ copy'[p].value[f] = q
           \/ \E x \in applied' \ {q} :
                 RowOf[x] = RowOf[q] /\ Op[x] = "patch" /\ (f \in Sets[x] \/ q \notin before'[x])
<1>1. q \in Request /\ pc[q] \in Over
  <2>1. CASE pc[p] = "write"
    <3>1. before'[p] = before[p]
      BY <2>1 DEF Onward
    <3>2. QED
      BY <3>1 DEF RowsInv, Past
  <2>2. CASE Reads(p)
    BY <2>2, ReadRow
  <2>3. QED
    BY <2>1, <2>2
<1>2. copy'[q] = copy[q]
  BY <1>1, AppliedFixed DEF Over, RowsInv
<1>3. q \in applied
  <2>1. ASSUME NEW x \in Request, Reads(x) \/ Rewrites(x) \/ Takes(x) \/ Brings(x)
        PROVE  q \in applied
    <3>1. applied' = applied \/ applied' = applied \cup {x}
      BY <2>1 DEF Reads, Rewrites, Takes, Brings, Apply
    <3>2. x # q \/ applied' = applied
      BY <1>1, <2>1 DEF Reads, Rewrites, Takes, Brings, Over
    <3>3. QED
      BY <3>1, <3>2
  <2>2. CASE Still
    BY <2>2 DEF Still
  <2>3. QED
    BY <2>1, <2>2, RowsChange
<1>4. CASE pc[p] = "write"
  <2>1. copy'[p] = copy[p] /\ before'[p] = before[p]
    BY <1>4, AppliedFixed DEF RowsInv
  <2>2. copy[p].value[f] = q \/ OverlappedAt(q, f)
    BY <1>2, <1>3, <1>4, <2>1 DEF RowsInv, CopiesKeep
  <2>3. QED
    BY <2>1, <2>2, OverlapStays DEF RowsInv
<1>5. CASE Reads(p)
  <2>1. copy'[p] = rows[RowOf[p]] /\ rows[RowOf[p]].life = "live"
    BY <1>5, ReadRow
  <2>2. Hits(q)
    BY <1>2, <2>1 DEF Hits
  <2>3. rows[RowOf[q]].value[f] = q \/ OverlappedAt(q, f)
    BY <1>3, <2>2 DEF RowsInv, LostOnlyIfOverlapped, OverlappedAt
  <2>4. QED
    BY <2>1, <2>3, OverlapStays DEF RowsInv
<1>6. QED
  BY <1>4, <1>5

LEMMA CopiesKeepNext ==
    ASSUME Shape, RowsInv, Onward, [Next]_vars
    PROVE  CopiesKeep'
<1>1. ASSUME NEW p \in Request, pc'[p] = "write" PROVE pc[p] = "write" \/ Reads(p)
  <2>1. Op[p] = "patch"
    BY <1>1 DEF Onward, Passes
  <2>2. pc'[p] # pc[p] => RowsStep(p)
    BY <2>1, <1>1, MovedHere
  <2>3. ASSUME Select(p), pc[p] # "write" PROVE Reads(p)
    <3>1. pc[p] = "start" /\ Begin(p) /\ UNCHANGED <<rows, applied>>
      BY <2>3 DEF Select
    <3>2. ~ Answer(p, 404)
      BY <1>1 DEF Answer, Shape
    <3>3. rows[RowOf[p]].life = "live" /\ copy' = [copy EXCEPT ![p] = rows[RowOf[p]]]
      BY <2>3, <3>2 DEF Select
    <3>4. QED
      BY <3>1, <3>3 DEF Reads
  <2>4. ASSUME RowsStep(p), pc[p] # "write" PROVE Select(p)
    BY <2>1, <2>4 DEF RowsStep, Update, Remove, Create, DeleteTypes, InsertTypes, Shape, Passes
  <2>5. QED
    BY <1>1, <2>2, <2>3, <2>4
<1>2. ASSUME NEW p \in Request, pc'[p] = "write",
             NEW q \in applied' \cap before'[p], Op[q] = "patch", RowOf[q] = RowOf[p],
             copy'[q].uuid = copy'[p].uuid, NEW f \in Sets[q]
      PROVE  copy'[p].value[f] = q \/ OverlappedAt(q, f)'
  BY <1>1, <1>2, CopiesKeepStep DEF OverlappedAt
<1>3. QED
  BY <1>2 DEF CopiesKeep

LEMMA AuthorsNext ==
    ASSUME Shape, RowsInv, Onward, [Next]_vars
    PROVE  Authors' /\ NotNewer'
<1> USE Constants
<1>1. /\ \A r \in Row : RowTyped(rows[r])
      /\ \A q \in Request : RowTyped(copy[q])
  BY RecordTyped DEF Shape, RowsTypeOK
<1>2. /\ \A q \in applied : q \in Request /\ pc'[q] \notin {"start", "target"}
      /\ \A q \in Request : copy[q].uuid <= rows[RowOf[q]].uuid
      /\ \A r \in Row : \A f \in Field : rows[r].value[f] \in applied \cup {Nobody}
      /\ \A q \in Request : \A f \in Field : copy[q].value[f] \in applied \cup {Nobody}
  BY DEF RowsInv, Authors, NotNewer, Onward
<1>3. CASE Still
  <2>1. rows' = rows /\ copy' = copy /\ applied \subseteq applied'
    BY <1>3 DEF Still
  <2>2. \A q \in applied' : q \in Request /\ pc'[q] \notin {"start", "target"}
    <3>1. ASSUME NEW q \in applied' \ applied
          PROVE  q \in Request /\ pc'[q] \notin {"start", "target"}
      BY <1>3 DEF Still, Onward
    <3>2. QED
      BY <1>2, <3>1
  <2>3. QED
    BY <1>2, <2>1, <2>2 DEF Authors, NotNewer
<1>4. ASSUME NEW q \in Request, Reads(q) PROVE Authors' /\ NotNewer'
  <2>1. /\ rows' = rows /\ applied' = applied /\ copy'[q] = rows[RowOf[q]]
        /\ \A p \in Request \ {q} : copy'[p] = copy[p]
    BY <1>4, ReadRow
  <2>2. \A p \in Request : \A f \in Field : copy'[p].value[f] \in applied \cup {Nobody}
    BY <1>2, <2>1
  <2>3. \A p \in Request : copy'[p].uuid <= rows[RowOf[p]].uuid
    BY <1>1, <1>2, <2>1 DEF RowTyped
  <2>4. QED
    BY <1>2, <2>1, <2>2, <2>3 DEF Authors, NotNewer
<1>5. ASSUME NEW q \in Request, Rewrites(q) PROVE Authors' /\ NotNewer'
  <2>1. /\ rows'[RowOf[q]].uuid = rows[RowOf[q]].uuid
        /\ rows'[RowOf[q]].value = Merged(q)
        /\ \A r \in Row \ {RowOf[q]} : rows'[r] = rows[r]
        /\ applied' = applied \cup {q} /\ copy' = copy
    BY <1>5, RewrittenRow
  <2>2. \A f \in Field : Merged(q)[f] \in applied' \cup {Nobody}
    BY <1>2, <2>1 DEF Merged
  <2>3. \A r \in Row : \A f \in Field : rows'[r].value[f] \in applied' \cup {Nobody}
    BY <1>2, <2>1, <2>2
  <2>4. \A p \in Request : rows'[RowOf[p]].uuid = rows[RowOf[p]].uuid
    BY <2>1
  <2>5. pc'[q] \notin {"start", "target"}
    BY <1>5 DEF Rewrites, Onward
  <2>6. QED
    BY <1>2, <2>1, <2>3, <2>4, <2>5 DEF Authors, NotNewer
<1>6. ASSUME NEW q \in Request, Takes(q) PROVE Authors' /\ NotNewer'
  <2>1. /\ rows'[RowOf[q]].uuid = rows[RowOf[q]].uuid
        /\ rows'[RowOf[q]].value = rows[RowOf[q]].value
        /\ \A r \in Row \ {RowOf[q]} : rows'[r] = rows[r]
        /\ applied' = applied \cup {q} /\ copy' = copy
    BY <1>6, TakenRow
  <2>2. \A r \in Row : \A f \in Field : rows'[r].value[f] \in applied' \cup {Nobody}
    BY <1>2, <2>1
  <2>3. \A p \in Request : rows'[RowOf[p]].uuid = rows[RowOf[p]].uuid
    BY <2>1
  <2>4. pc'[q] \notin {"start", "target"}
    BY <1>6 DEF Takes
  <2>5. QED
    BY <1>2, <2>1, <2>2, <2>3, <2>4 DEF Authors, NotNewer
<1>7. ASSUME NEW q \in Request, Brings(q) PROVE Authors' /\ NotNewer'
  <2>1. /\ rows'[RowOf[q]] = NewRow(q) /\ copy'[q] = NewRow(q)
        /\ NewRow(q).uuid = rows[RowOf[q]].uuid + 1
        /\ \A f \in Field : NewRow(q).value[f] = q
        /\ \A r \in Row \ {RowOf[q]} : rows'[r] = rows[r]
        /\ \A p \in Request \ {q} : copy'[p] = copy[p]
        /\ applied' = applied \cup {q}
    BY <1>7, BroughtRow
  <2>2. \A r \in Row : \A f \in Field : rows'[r].value[f] \in applied' \cup {Nobody}
    BY <1>2, <2>1
  <2>3. \A p \in Request : \A f \in Field : copy'[p].value[f] \in applied' \cup {Nobody}
    BY <1>2, <2>1
  <2>4. ASSUME NEW p \in Request PROVE copy'[p].uuid <= rows'[RowOf[p]].uuid
    <3>1. CASE p = q
      BY <1>1, <2>1, <3>1 DEF RowTyped
    <3>2. CASE p # q /\ RowOf[p] = RowOf[q]
      BY <1>1, <1>2, <2>1, <3>2 DEF RowTyped
    <3>3. CASE RowOf[p] # RowOf[q]
      BY <1>2, <2>1, <3>3
    <3>4. QED
      BY <3>1, <3>2, <3>3
  <2>5. pc'[q] \notin {"start", "target"}
    BY <1>7 DEF Brings
  <2>6. QED
    BY <1>2, <2>1, <2>2, <2>3, <2>4, <2>5 DEF Authors, NotNewer
<1>8. QED
  BY <1>3, <1>4, <1>5, <1>6, <1>7, RowsChange

(* Values descend from the row they are in.                                *)
LEMMA InheritNext ==
    ASSUME Shape, RowsInv, Onward, [Next]_vars
    PROVE  NothingInherited' /\ CopiesInherit'
<1> USE Constants
<1>1. /\ \A r \in Row : \A f \in Field : rows[r].value[f] \in Request =>
            rows[r].value[f] \in applied /\ copy[rows[r].value[f]].uuid = rows[r].uuid
      /\ \A q \in Request : \A f \in Field : copy[q].value[f] \in Request =>
            copy[q].value[f] \in applied /\ copy[copy[q].value[f]].uuid = copy[q].uuid
  BY DEF RowsInv, Authors, NothingInherited, CopiesInherit
<1>2. \A q \in applied : q \in Request /\ copy'[q] = copy[q]
  BY AppliedFixed DEF RowsInv, Authors
<1>3. \A q \in applied : q \in Request /\ pc[q] \notin {"start", "target"}
  BY DEF RowsInv, Authors
<1>4. CASE Still
  BY <1>1, <1>4 DEF Still, NothingInherited, CopiesInherit
<1>5. ASSUME NEW q \in Request, Reads(q) PROVE NothingInherited' /\ CopiesInherit'
  <2>1. /\ rows' = rows /\ copy'[q] = rows[RowOf[q]]
        /\ \A p \in Request \ {q} : copy'[p] = copy[p]
    BY <1>5, ReadRow
  <2>2. NothingInherited'
    BY <1>1, <1>2, <2>1 DEF NothingInherited
  <2>3. CopiesInherit'
    BY <1>1, <1>2, <2>1 DEF CopiesInherit
  <2>4. QED
    BY <2>2, <2>3
<1>6. ASSUME NEW q \in Request, Rewrites(q) PROVE NothingInherited' /\ CopiesInherit'
  <2>1. /\ rows'[RowOf[q]].uuid = rows[RowOf[q]].uuid
        /\ rows'[RowOf[q]].value = Merged(q)
        /\ \A r \in Row \ {RowOf[q]} : rows'[r] = rows[r]
        /\ copy' = copy
    BY <1>6, RewrittenRow
  <2>2. rows[RowOf[q]].uuid = copy[q].uuid
    BY <1>6 DEF Rewrites, Hits
  <2>3. ASSUME NEW f \in Field, Merged(q)[f] \in Request
        PROVE  copy[Merged(q)[f]].uuid = copy[q].uuid
    <3>1. Merged(q)[f] = q \/ Merged(q)[f] = copy[q].value[f]
      BY DEF Merged
    <3>2. QED
      BY <1>1, <2>3, <3>1
  <2>4. NothingInherited'
    BY <1>1, <2>1, <2>2, <2>3 DEF NothingInherited
  <2>5. CopiesInherit'
    BY <1>1, <2>1 DEF CopiesInherit
  <2>6. QED
    BY <2>4, <2>5
<1>7. ASSUME NEW q \in Request, Takes(q) PROVE NothingInherited' /\ CopiesInherit'
  <2>1. /\ rows'[RowOf[q]].uuid = rows[RowOf[q]].uuid
        /\ rows'[RowOf[q]].value = rows[RowOf[q]].value
        /\ \A r \in Row \ {RowOf[q]} : rows'[r] = rows[r]
        /\ copy' = copy
    BY <1>7, TakenRow
  <2>2. \A r \in Row : rows'[r].uuid = rows[r].uuid /\ rows'[r].value = rows[r].value
    BY <2>1
  <2>3. QED
    BY <1>1, <2>1, <2>2 DEF NothingInherited, CopiesInherit
<1>8. ASSUME NEW q \in Request, Brings(q) PROVE NothingInherited' /\ CopiesInherit'
  <2>1. /\ rows'[RowOf[q]] = NewRow(q) /\ copy'[q] = NewRow(q)
        /\ \A f \in Field : NewRow(q).value[f] = q
        /\ \A r \in Row \ {RowOf[q]} : rows'[r] = rows[r]
        /\ \A p \in Request \ {q} : copy'[p] = copy[p]
    BY <1>8, BroughtRow
  <2>2. NothingInherited'
    BY <1>1, <1>2, <2>1 DEF NothingInherited
  <2>3. CopiesInherit'
    BY <1>1, <1>2, <2>1 DEF CopiesInherit
  <2>4. QED
    BY <2>2, <2>3
<1>9. QED
  BY <1>4, <1>5, <1>6, <1>7, <1>8, RowsChange

(* A PATCH is lost only to one that overlapped.                            *)
LEMMA LostNext ==
    ASSUME Shape, RowsInv, Onward, [Next]_vars
    PROVE  LostOnlyIfOverlapped'
<1> USE Constants
<1> SUFFICES ASSUME NEW q \in applied', Op[q] = "patch", NEW f \in Sets[q],
                    rows'[RowOf[q]].life = "live", rows'[RowOf[q]].uuid = copy'[q].uuid
             PROVE  rows'[RowOf[q]].value[f] = q \/ OverlappedAt(q, f)'
  BY DEF LostOnlyIfOverlapped, Hits, OverlappedAt
<1>1. q \in Request
  BY AppliedGrow
<1>2. ASSUME q \in applied, rows'[RowOf[q]].value = rows[RowOf[q]].value
      PROVE  rows'[RowOf[q]].value[f] = q \/ OverlappedAt(q, f)'
  <2>1. pc[q] \notin {"start", "target"}
    BY <1>2 DEF RowsInv, Authors
  <2>2. Hits(q)
    BY <1>1, <2>1, GoneStays DEF RowsInv
  <2>3. rows[RowOf[q]].value[f] = q \/ OverlappedAt(q, f)
    BY <1>2, <2>2 DEF RowsInv, LostOnlyIfOverlapped, OverlappedAt
  <2>4. QED
    BY <1>2, <2>3, OverlapStays DEF RowsInv, OverlappedAt
<1>3. CASE Still
  BY <1>2, <1>3 DEF Still
<1>4. ASSUME NEW p \in Request, Reads(p)
      PROVE  rows'[RowOf[q]].value[f] = q \/ OverlappedAt(q, f)'
  BY <1>2, <1>4, ReadRow
<1>5. ASSUME NEW p \in Request, Takes(p)
      PROVE  rows'[RowOf[q]].value[f] = q \/ OverlappedAt(q, f)'
  <2>1. q # p /\ q \in applied
    BY <1>5, TakenRow
  <2>2. rows'[RowOf[q]].value = rows[RowOf[q]].value
    BY <1>1, <1>5, TakenRow
  <2>3. QED
    BY <1>2, <2>1, <2>2
<1>6. ASSUME NEW p \in Request, Brings(p)
      PROVE  rows'[RowOf[q]].value[f] = q \/ OverlappedAt(q, f)'
  <2>1. q # p /\ q \in applied
    BY <1>6, BroughtRow
  <2>2. pc[q] \notin {"start", "target"} /\ copy'[q] = copy[q]
    BY <1>1, <1>6, <2>1, BroughtRow DEF RowsInv, Authors
  <2>3. Hits(q)
    BY <1>1, <2>2, GoneStays DEF RowsInv
  <2>4. RowOf[q] # RowOf[p]
    BY <1>6, <2>3, BroughtRow DEF Hits
  <2>5. QED
    BY <1>1, <1>2, <1>6, <2>1, <2>4, BroughtRow
<1>7. ASSUME NEW p \in Request, Rewrites(p)
      PROVE  rows'[RowOf[q]].value[f] = q \/ OverlappedAt(q, f)'
  <2>1. /\ rows'[RowOf[p]].uuid = rows[RowOf[p]].uuid
        /\ rows'[RowOf[p]].value = Merged(p)
        /\ \A r \in Row \ {RowOf[p]} : rows'[r] = rows[r]
        /\ applied' = applied \cup {p} /\ copy' = copy /\ before' = before
    BY <1>7, RewrittenRow
  <2>2. Op[p] = "patch" /\ pc[p] = "write" /\ rows[RowOf[p]].uuid = copy[p].uuid
    BY <1>7 DEF Rewrites, Hits
  <2>3. f \in Field
    BY <1>1
  <2>4. CASE q = p
    BY <2>1, <2>3, <2>4 DEF Merged
  <2>5. CASE q # p /\ RowOf[q] # RowOf[p]
    BY <1>1, <1>2, <2>1, <2>5
  <2>6. CASE q # p /\ RowOf[q] = RowOf[p] /\ (f \in Sets[p] \/ q \notin before[p])
    BY <2>1, <2>2, <2>6 DEF OverlappedAt
  <2>7. CASE q # p /\ RowOf[q] = RowOf[p] /\ f \notin Sets[p] /\ q \in before[p]
    <3>1. q \in applied /\ copy[q].uuid = copy[p].uuid
      BY <2>1, <2>2, <2>7
    <3>2. copy[p].value[f] = q \/ OverlappedAt(q, f)
      BY <2>2, <2>7, <3>1 DEF RowsInv, CopiesKeep
    <3>3. Merged(p)[f] = copy[p].value[f]
      BY <2>3, <2>7 DEF Merged
    <3>4. QED
      BY <2>1, <2>7, <3>2, <3>3, OverlapStays DEF RowsInv, OverlappedAt
  <2>8. QED
    BY <2>4, <2>5, <2>6, <2>7
<1>8. QED
  BY <1>3, <1>4, <1>5, <1>6, <1>7, RowsChange

(* A PATCH answered with 200 was written, unless nobody noticed.           *)
LEMMA AnsweredNext ==
    ASSUME Shape, RowsInv, AnsweredMeansWritten, Onward, [Next]_vars
    PROVE  AnsweredMeansWritten'
<1> USE Constants
<1> SUFFICES ASSUME NEW q \in Request, Op[q] = "patch", reply'[q] = 200
             PROVE  \/ q \in applied'
                    \/ ~ (rows'[RowOf[q]].life = "live" /\ rows'[RowOf[q]].uuid = copy'[q].uuid)
                    \/ faults' > 0 /\ kind'[RowOf[q]] \in {"template", "graph"}
  BY DEF AnsweredMeansWritten, Hits, RowKind
<1>1. kind' = kind /\ faults \in Nat /\ faults' \in Nat /\ faults <= faults' /\ faults' \in faults..MaxFaults
  BY RowsAssumption DEF Onward, Shape, RowsTypeOK
<1>2. CASE reply[q] = 200
  <2>1. pc[q] = "done"
    BY <1>2 DEF Shape
  <2>2. q \in applied \/ ~ Hits(q) \/ (faults > 0 /\ RowKind(q) \in {"template", "graph"})
    BY <1>2 DEF AnsweredMeansWritten
  <2>3. QED
    BY <1>1, <2>1, <2>2, AppliedGrow, GoneStays DEF RowsInv, RowKind
<1>3. CASE reply[q] # 200
  <2>1. pc'[q] = "done" /\ pc[q] # "done"
    BY <1>3 DEF Onward, Over
  <2>2. RowsStep(q)
    BY <2>1, MovedHere
  <2>3. pc[q] \in {"start", "write"}
    <3>1. pc[q] \notin Over
      BY <2>1 DEF Onward
    <3>2. QED
      BY <3>1 DEF Shape, Passes, Over
  <2>4. ~ Select(q)
    <3>1. ASSUME Answer(q, 404) PROVE FALSE
      BY <3>1 DEF Answer, Shape, RowsTypeOK
    <3>2. ASSUME NEW label \in {"write", "group"}, Goto(q, label) PROVE FALSE
      BY <1>3, <3>2 DEF Goto
    <3>3. QED
      BY <3>1, <3>2 DEF Select
  <2>5. Update(q)
    BY <2>2, <2>3, <2>4 DEF RowsStep, Remove, Create, DeleteTypes, InsertTypes
  <2>6. PICK executed \in BOOLEAN, err \in BOOLEAN :
          /\ Statement(executed, err)
          /\ IF executed /\ Hits(q)
             THEN Apply(q, RowOf[q], [rows[RowOf[q]] EXCEPT !.life = copy[q].life,
                                                            !.value = Merged(q)])
             ELSE Skip
          /\ Answer(q, IF err THEN UpdateFailed(q) ELSE 200)
    BY <2>5 DEF Update
  <2>7. CASE executed /\ Hits(q)
    BY <2>6, <2>7 DEF Apply
  <2>8. CASE ~ Hits(q)
    <3>1. rows' = rows /\ copy' = copy
      BY <2>5, <2>6, <2>8 DEF Skip, Update
    <3>2. QED
      BY <2>8, <3>1 DEF Hits
  <2>9. CASE ~ executed
    <3>1. err /\ faults' > 0
      BY <1>1, <2>6, <2>9, FaultFaults DEF Statement
    <3>2. UpdateFailed(q) = 200
      BY <2>6, <3>1 DEF Answer, Shape, RowsTypeOK
    <3>3. RowKind(q) \in {"template", "graph"}
      BY <3>2 DEF UpdateFailed, RowKind, Shape, RowsTypeOK, Kinds
    <3>4. QED
      BY <1>1, <3>1, <3>3 DEF RowKind
  <2>10. QED
    BY <2>7, <2>8, <2>9
<1>4. QED
  BY <1>2, <1>3

(* Who wrote what is in the rows, whatever requests there are.             *)
THEOREM RowsHold == Spec => []RowsInv /\ []AnsweredMeansWritten
<1> DEFINE Inv == RowsInv /\ AnsweredMeansWritten
<1>1. Init => Inv
  <2> SUFFICES ASSUME Init PROVE Inv
    OBVIOUS
  <2>1. /\ applied = {} /\ pc = [q \in Request |-> "start"]
        /\ reply = [q \in Request |-> 0] /\ before = [q \in Request |-> {}]
        /\ rows = [r \in Row |-> [life |-> IF r \in Existing THEN "live" ELSE "absent",
                              uuid |-> 0, value |-> [f \in Field |-> Nobody]]]
        /\ copy = [q \in Request |-> rows[RowOf[q]]]
    BY DEF Init, RowsInit
  <2>2. /\ \A r \in Row : rows[r].uuid = 0 /\ \A f \in Field : rows[r].value[f] = Nobody
        /\ \A q \in Request : copy[q].uuid = 0 /\ \A f \in Field : copy[q].value[f] = Nobody
    BY <2>1, Constants
  <2>3. Nobody \notin Request
    BY RowsAssumption
  <2>4. Past /\ Authors /\ NotNewer
    BY <2>1, <2>2, Constants DEF Past, Authors, NotNewer
  <2>5. CopiesInherit /\ CopiesKeep /\ NothingInherited /\ LostOnlyIfOverlapped
    BY <2>1, <2>2, <2>3 DEF CopiesInherit, CopiesKeep, NothingInherited, LostOnlyIfOverlapped
  <2>6. AnsweredMeansWritten
    BY <2>1 DEF AnsweredMeansWritten
  <2>7. QED
    BY <2>4, <2>5, <2>6 DEF RowsInv
<1>2. Shape /\ Inv /\ [Next]_vars => Inv'
  <2> SUFFICES ASSUME Shape, RowsInv, AnsweredMeansWritten, [Next]_vars
               PROVE  RowsInv' /\ AnsweredMeansWritten'
    OBVIOUS
  <2>1. Onward
    BY StepsOnward
  <2>2. Past'
    BY <2>1, PastStep DEF RowsInv
  <2>3. QED
    BY <2>1, <2>2, AuthorsNext, InheritNext, LostNext, CopiesKeepNext, AnsweredNext DEF RowsInv
<1>3. Inv => RowsInv /\ AnsweredMeansWritten
  OBVIOUS
<1> HIDE DEF Inv
<1>4. QED
  BY <1>1, <1>2, <1>3, ShapeHolds, PTL DEF Spec

(* PatchesKept: of PATCHes, deletions and creations of any number of rows, *)
(* interleaved and failing as they may, none writes to a row that it has   *)
(* not read, and none is lost but to another one beside it.                *)
THEOREM PatchesAreKept == Spec => []PatchesKept
<1>1. RowsInv /\ AnsweredMeansWritten => PatchesKept
  BY DEF RowsInv, PatchesKept
<1>2. QED
  BY <1>1, RowsHold, PTL

-----------------------------------------------------------------------------
(* A fact is only on its way to be copied if both its ends were sent.      *)
SentWithEnds ==
    /\ matched \in [Request -> SUBSET Entity]
    /\ \A s \in serving : /\ s[1] \in Request
                          /\ s[2] \in Fact => EndsOf(s[2]) \subseteq matched[s[1]]

Connected == SentWithEnds /\ CopiedWithItsEnds /\ FactsHaveEnds

(* Deletions and the worker, in one step or several, leave no fact without *)
(* an end.                                                                 *)
LEMMA SourceConnected ==
    ASSUME Connected, NEW q \in Request, DropGroup(q) \/ WorkerSaves(q)
    PROVE  Connected'
<1>1. SentWithEnds'
  <2>1. UNCHANGED <<matched, serving>>
    BY DEF DropGroup, WorkerSaves
  <2>2. QED
    BY <2>1 DEF Connected, SentWithEnds, EndsOf
<1>2. CASE DropGroup(q)
  <2>1. PICK ns, fs : Dropped(q, ns, fs) /\ matched' = matched
    BY <1>2 DEF DropGroup
  <2>2. /\ facts' \subseteq facts /\ nodes' = nodes \ ns
        /\ \A f \in facts' : EndsOf(f) \cap ns = {}
    BY <2>1 DEF Dropped
  <2>3. FactsHaveEnds'
    BY <2>2 DEF Connected, FactsHaveEnds, EndsOf
  <2>4. CopiedWithItsEnds'
    BY <2>1, <2>2 DEF Connected, CopiedWithItsEnds, EndsOf
  <2>5. QED
    BY <1>1, <2>3, <2>4 DEF Connected
<1>3. CASE WorkerSaves(q)
  <2>1. PICK f \in Fact : nodes' = nodes \cup EndsOf(f) /\ facts' = facts \cup {f}
    BY <1>3 DEF WorkerSaves
  <2>2. matched' = matched
    BY <1>3 DEF WorkerSaves
  <2>3. FactsHaveEnds'
    BY <2>1 DEF Connected, FactsHaveEnds, EndsOf
  <2>4. CopiedWithItsEnds'
    BY <2>1, <2>2 DEF Connected, CopiedWithItsEnds, EndsOf
  <2>5. QED
    BY <1>1, <2>3, <2>4 DEF Connected
<1>4. QED
  BY <1>2, <1>3

(* What is sent, and what is saved of it.                                  *)
LEMMA CopiesConnected ==
    ASSUME Connected, NEW q \in Request, Send(q) \/ SendOwn(q)
    PROVE  Connected'
<1>1. FactsHaveEnds'
  BY DEF Connected, FactsHaveEnds, EndsOf, Send, SendOwn
<1>2. CASE Send(q)
  <2>1. PICK x \in todo[q] :
          /\ matched' = [matched EXCEPT ![q] = IF x \in Entity THEN @ \cup {x} ELSE @]
          /\ \/ Wants(q, x) /\ serving' = serving \cup {<<q, x, 0>>}
             \/ UNCHANGED serving
    BY <1>2 DEF Send
  <2>2. /\ matched' \in [Request -> SUBSET Entity]
        /\ \A p \in Request : matched[p] \subseteq matched'[p]
    BY <2>1 DEF Connected, SentWithEnds
  <2>3. ASSUME NEW s \in serving'
        PROVE  s[1] \in Request /\ (s[2] \in Fact => EndsOf(s[2]) \subseteq matched'[s[1]])
    <3>1. CASE s \in serving
      BY <2>2, <3>1 DEF Connected, SentWithEnds
    <3>2. CASE s = <<q, x, 0>> /\ Wants(q, x)
      BY <2>2, <3>2 DEF Wants
    <3>3. QED
      BY <2>1, <3>1, <3>2
  <2>4. SentWithEnds'
    BY <2>2, <2>3 DEF SentWithEnds, EndsOf
  <2>5. facts' = facts
    BY <1>2 DEF Send
  <2>6. CopiedWithItsEnds'
    <3> SUFFICES ASSUME NEW f \in facts, f \notin Fact
                 PROVE  EndsOf(f[2]) \subseteq matched'[f[1]]
      BY <2>5 DEF CopiedWithItsEnds, EndsOf
    <3>1. EndsOf(f[2]) \subseteq matched[f[1]]
      BY DEF Connected, CopiedWithItsEnds
    <3>2. matched[f[1]] \subseteq matched'[f[1]]
      <4>1. CASE f[1] \in Request
        BY <2>2, <4>1
      <4>2. CASE f[1] \notin Request
        BY <2>1, <2>2, <4>2 DEF Connected, SentWithEnds
      <4>3. QED
        BY <4>1, <4>2
    <3>3. QED
      BY <3>1, <3>2
  <2>7. QED
    BY <1>1, <2>4, <2>6 DEF Connected
<1>3. CASE SendOwn(q)
  <2>1. serving' = serving \cup {<<q, Own, 0>>} /\ UNCHANGED <<matched, facts>>
    BY <1>3 DEF SendOwn
  <2>2. Own \notin Fact
    BY CloneAssumption
  <2>3. SentWithEnds'
    BY <2>1, <2>2 DEF Connected, SentWithEnds, EndsOf
  <2>4. CopiedWithItsEnds'
    BY <2>1 DEF Connected, CopiedWithItsEnds, EndsOf
  <2>5. QED
    BY <1>1, <2>3, <2>4 DEF Connected
<1>4. QED
  BY <1>2, <1>3

LEMMA SavedConnected ==
    ASSUME Connected, NEW s \in serving, Serve(s) \/ ServiceFails(s)
    PROVE  Connected'
<1>1. matched' = matched
  BY DEF Serve, ServiceFails
<1>2. CASE Serve(s)
  <2>1. /\ nodes \subseteq nodes'
        /\ \/ facts' = facts
           \/ /\ s[2] \in Fact /\ EndsOf(<<s[1], s[2]>>) \subseteq nodes
              /\ facts' = facts \cup {<<s[1], s[2]>>}
        /\ serving' \subseteq serving \cup {<<s[1], s[2], s[3] + 1>>}
    BY <1>2 DEF Serve, SaveNext
  <2>2. SentWithEnds'
    <3>1. s[1] \in Request /\ (s[2] \in Fact => EndsOf(s[2]) \subseteq matched[s[1]])
      BY DEF Connected, SentWithEnds
    <3>2. ASSUME NEW t \in serving'
          PROVE  t[1] \in Request /\ (t[2] \in Fact => EndsOf(t[2]) \subseteq matched[t[1]])
      <4>1. CASE t \in serving
        BY <4>1 DEF Connected, SentWithEnds
      <4>2. CASE t = <<s[1], s[2], s[3] + 1>>
        <5>1. t[1] = s[1] /\ t[2] = s[2]
          BY <4>2
        <5>2. QED
          BY <3>1, <5>1
      <4>3. QED
        BY <2>1, <4>1, <4>2
    <3>3. QED
      BY <1>1, <3>2 DEF Connected, SentWithEnds, EndsOf
  <2>3. FactsHaveEnds'
    BY <2>1 DEF Connected, FactsHaveEnds, EndsOf
  <2>4. CopiedWithItsEnds'
    <3> SUFFICES ASSUME NEW f \in facts', f \notin Fact
                 PROVE  EndsOf(f[2]) \subseteq matched[f[1]]
      BY <1>1 DEF CopiedWithItsEnds, EndsOf
    <3>1. CASE f \in facts
      BY <3>1 DEF Connected, CopiedWithItsEnds
    <3>2. CASE f = <<s[1], s[2]>> /\ s[2] \in Fact
      <4>1. f[1] = s[1] /\ f[2] = s[2]
        BY <3>2
      <4>2. QED
        BY <3>2, <4>1 DEF Connected, SentWithEnds
    <3>3. QED
      BY <2>1, <3>1, <3>2
  <2>5. QED
    BY <2>2, <2>3, <2>4 DEF Connected
<1>3. CASE ServiceFails(s)
  <2>1. serving' \subseteq serving /\ UNCHANGED <<nodes, facts>>
    BY <1>3 DEF ServiceFails
  <2>2. QED
    BY <1>1, <2>1 DEF Connected, SentWithEnds, CopiedWithItsEnds, FactsHaveEnds, EndsOf
<1>4. QED
  BY <1>2, <1>3

(* However clones, deletions, the worker and failures interleave, no fact  *)
(* of either graph is without the nodes it joins, and none is copied whose *)
(* ends were not: the latter is the first part of CloneSound.              *)
THEOREM CopiesAreConnected == Spec => [](FactsHaveEnds /\ CopiedWithItsEnds)
<1>1. Init => Connected
  <2> SUFFICES ASSUME Init PROVE Connected
    OBVIOUS
  <2>1. /\ nodes = AtStart /\ facts = FactsAtStart
        /\ matched = [q \in Request |-> {}] /\ serving = {}
    BY DEF Init
  <2>2. FactsAtStart \subseteq {f \in Fact : {From[f], To[f]} \subseteq AtStart}
    BY CloneAssumption
  <2>3. QED
    BY <2>1, <2>2 DEF Connected, SentWithEnds, CopiedWithItsEnds, FactsHaveEnds, EndsOf
<1>2. Connected /\ [Next]_vars => Connected'
  <2> SUFFICES ASSUME Connected, [Next]_vars PROVE Connected'
    OBVIOUS
  <2>1. ASSUME UNCHANGED <<nodes, facts, matched, serving>> PROVE Connected'
    BY <2>1 DEF Connected, SentWithEnds, CopiedWithItsEnds, FactsHaveEnds, EndsOf
  <2>2. CASE UNCHANGED vars
    BY <2>1, <2>2 DEF vars, graphVars
  <2>3. ASSUME NEW q \in Request, RowsOnly(q) PROVE Connected'
    BY <2>1, <2>3 DEF RowsOnly, graphVars
  <2>4. ASSUME NEW q \in Request, CloneStep(q) PROVE Connected'
    <3>1. CASE DropGroup(q) \/ WorkerSaves(q)
      BY <3>1, SourceConnected
    <3>2. CASE Send(q) \/ SendOwn(q)
      BY <3>2, CopiesConnected
    <3>3. CASE ~ (DropGroup(q) \/ WorkerSaves(q) \/ Send(q) \/ SendOwn(q))
      <4>1. UNCHANGED <<nodes, facts, matched, serving>>
        BY <2>4, <3>3 DEF CloneStep, SelectSource, InsertTarget, ListNodes, ListEdges, Receive,
             LoopEnds, ListGroup, DropFails, graphVars
      <4>2. QED
        BY <2>1, <4>1
    <3>4. QED
      BY <3>1, <3>2, <3>3
  <2>5. ASSUME BackendCrash PROVE Connected'
    BY <2>1, <2>5 DEF BackendCrash, graphVars
  <2>6. ASSUME NEW s \in serving, Serve(s) \/ ServiceFails(s) PROVE Connected'
    BY <2>6, SavedConnected
  <2>7. QED
    BY <2>2, <2>3, <2>4, <2>5, <2>6 DEF Next, CloneStep
<1>3. Connected => FactsHaveEnds /\ CopiedWithItsEnds
  BY DEF Connected
<1>4. QED
  BY <1>1, <1>2, <1>3, PTL DEF Spec

-----------------------------------------------------------------------------
(* What there is besides the source's own, and for whom it was saved.  A   *)
(* handler that has begun was asked to.                                    *)
Makers == {q \in made : Op[q] \in {"create", "clone"}}
What == Entity \cup Fact \cup {Own}
CopiesOf(q, x) == {<<q, x>>, <<q, x, "subject">>, <<q, x, "object">>}

Asked == \A q \in Request : pc[q] # "start" => q \in made

NodesSaved == \A n \in nodes : n \in Entity \/ \E q \in Makers, x \in What : n \in CopiesOf(q, x)
FactsSaved == \A f \in facts : f \in Fact \/ \E q \in Clones, x \in Fact : f = <<q, x>>
CallsSent ==
    \A s \in serving : \E q \in Makers, x \in What, k \in 0..2 :
        s = <<q, x, k>> /\ (x # Own => q \in Clones)
Held ==
    /\ todo \in [Request -> SUBSET (Entity \cup Fact)]
    /\ matched \in [Request -> SUBSET Entity]
    /\ call \in [Request -> {Nothing} \cup {<<x>> : x \in What}]
Listed ==
    /\ listed = [q \in Request |-> listed[q]]
    /\ \A q \in Request : \A x \in listed[q] : GraphOf(x) = RowOf[q]

Saved == Asked /\ NodesSaved /\ FactsSaved /\ CallsSent /\ Held /\ Listed

LEMMA CopyOf ==
    ASSUME NEW q \in Request, NEW x \in What, NEW c \in CopiesOf(q, x)
    PROVE  c \notin Entity \cup Fact /\ c[1] = q /\ GraphOf(c) = RowOf[q]
<1>1. CopiesOf(q, x) \cap (Entity \cup Fact) = {}
  BY CloneAssumption DEF What, CopiesOf
<1>2. c[1] = q
  BY DEF CopiesOf
<1>3. QED
  BY <1>1, <1>2 DEF GraphOf

LEMMA MakerRows ==
    ASSUME Shape, NEW q \in Makers
    PROVE  q \in Request /\ q \in made /\ RowOf[q] \in Row /\ RowOf[q] # Source
           /\ (q \in Clones => RowOf[q] = Target)
<1>1. q \in Request /\ q \in made
  BY DEF Makers, Shape, RowsTypeOK
<1>2. QED
  BY <1>1, CloneAssumption, RowsAssumption DEF Makers, Clones

(* A node that is not the source's own is of the request that is its first *)
(* part.                                                                   *)
LEMMA NodeOwner ==
    ASSUME Shape, NodesSaved, NEW n \in nodes, n \notin Entity
    PROVE  n[1] \in Makers /\ n \notin Fact /\ GraphOf(n) = RowOf[n[1]] /\ GraphOf(n) # Source
<1>1. PICK q \in Makers, x \in What : n \in CopiesOf(q, x)
  BY DEF NodesSaved
<1>2. q \in Request /\ RowOf[q] # Source
  BY MakerRows
<1>3. QED
  BY <1>1, <1>2, CopyOf

LEMMA FactOwner ==
    ASSUME Shape, FactsSaved, NEW f \in facts, f \notin Fact
    PROVE  \E q \in Clones, x \in Fact : f = <<q, x>> /\ GraphOf(f) = Target
<1>1. PICK q \in Clones, x \in Fact : f = <<q, x>>
  BY DEF FactsSaved
<1>2. q \in Request /\ RowOf[q] = Target
  <2>1. q \in Makers
    BY DEF Clones, Makers
  <2>2. QED
    BY <2>1, MakerRows
<1>3. x \in What /\ f \in CopiesOf(q, x)
  BY <1>1 DEF What, CopiesOf
<1>4. GraphOf(f) = Target
  BY <1>2, <1>3, CopyOf
<1>5. QED
  BY <1>1, <1>4

(* What is listed of the source is its own.                                *)
LEMMA SourcesOf ==
    ASSUME Shape, NEW ns, NEW fs,
           \A n \in ns : n \in Entity \/ \E q \in Makers, x \in What : n \in CopiesOf(q, x),
           \A f \in fs : f \in Fact \/ \E q \in Clones, x \in Fact : f = <<q, x>>
    PROVE  /\ {n \in ns : GraphOf(n) = Source} = ns \cap Entity
           /\ {f \in fs : GraphOf(f) = Source} = fs \cap Fact
<1>1. ASSUME NEW q \in Makers, NEW x \in What, NEW c \in CopiesOf(q, x) PROVE GraphOf(c) # Source
  BY MakerRows, CopyOf
<1>2. \A n \in ns : n \notin Entity => GraphOf(n) # Source
  BY <1>1
<1>3. ASSUME NEW f \in fs, f \notin Fact PROVE GraphOf(f) # Source
  <2>1. PICK q \in Clones, x \in Fact : f = <<q, x>>
    BY <1>3
  <2>2. q \in Makers /\ x \in What /\ f \in CopiesOf(q, x)
    BY <2>1 DEF Makers, Clones, What, CopiesOf
  <2>3. QED
    BY <1>1, <2>2
<1>4. \A x \in Entity \cup Fact : GraphOf(x) = Source
  BY DEF GraphOf
<1>5. QED
  BY <1>2, <1>3, <1>4

LEMMA SourcesOwn ==
    ASSUME Shape, NodesSaved, FactsSaved
    PROVE  SourceNodes = nodes \cap Entity /\ SourceFacts = facts \cap Fact
BY SourcesOf DEF NodesSaved, FactsSaved, SourceNodes, SourceFacts

(* The handlers that wait for calls are those of requests that make        *)
(* something.                                                              *)
LEMMA AtWork ==
    ASSUME Shape, Asked, NEW q \in Request
    PROVE  /\ pc[q] \in {"target", "nodes", "copy", "edges", "join"} => q \in Clones /\ q \in Makers
           /\ pc[q] \in {"entity", "named"} => q \in Makers /\ Op[q] = "create"
           /\ pc[q] \in {"group", "groupNodes", "dropFacts", "dropNodes", "remove"} =>
                 q \in Deletions(RowOf[q])
<1>1. Passes(q, pc[q])
  BY DEF Shape
<1>2. pc[q] # "start" => q \in made
  BY DEF Asked
<1>3. QED
  BY <1>1, <1>2 DEF Passes, Clones, Makers, Deletions

LEMMA AskedNext ==
    ASSUME Shape, Asked, Onward, [Next]_vars
    PROVE  Asked'
<1> SUFFICES ASSUME NEW q \in Request, pc'[q] # "start" PROVE q \in made
  BY DEF Asked, Onward
<1>1. CASE pc[q] # "start"
  BY <1>1 DEF Asked
<1>2. CASE pc[q] = "start"
  <2>1. ~ UNCHANGED pc
    BY <1>2
  <2>2. ~ Crash /\ ~ (\E s \in serving : Serve(s) \/ ServiceFails(s)) /\ ~ UNCHANGED vars
    BY <1>2, <2>1, CrashMoves, ServiceLeaves DEF vars, rowVars
  <2>3. PICK p \in Request : RowsStep(p) \/ CloneStep(p)
    BY <2>2, StepOf
  <2>4. p = q
    BY <1>2, <2>3, RowsMove, CloneMoves, MovedIsOnward
  <2>5. CASE RowsStep(q)
    BY <1>2, <2>5 DEF RowsStep, Select, Update, Remove, Create, DeleteTypes, InsertTypes
  <2>6. CASE CloneStep(q)
    BY <1>2, <2>1, <2>6 DEF CloneStep, SelectSource, InsertTarget, ListNodes, ListEdges, Send,
         SendOwn, Receive, LoopEnds, ListGroup, DropGroup, DropFails, WorkerSaves, Clones, rowVars
  <2>7. QED
    BY <2>3, <2>4, <2>5, <2>6
<1>3. QED
  BY <1>1, <1>2

(* The service saves under the request that it was called by.              *)
LEMMA ServedSaved ==
    ASSUME Shape, Saved, NEW s \in serving, Serve(s) \/ ServiceFails(s)
    PROVE  NodesSaved' /\ FactsSaved' /\ CallsSent' /\ UNCHANGED <<todo, matched, call, listed, made>>
<1>0. UNCHANGED <<todo, matched, call, listed, made>> /\ Makers' = Makers /\ Clones' = Clones
  BY DEF Serve, ServiceFails, rowVars, Makers, Clones
<1>1. PICK q \in Makers, x \in What, k \in 0..2 :
        s = <<q, x, k>> /\ (x # Own => q \in Clones)
  BY DEF Saved, CallsSent
<1>2. CASE Serve(s)
  <2>1. /\ nodes' \subseteq nodes \cup CopiesOf(q, x)
        /\ facts' \subseteq facts \cup (IF x \in Fact THEN {<<q, x>>} ELSE {})
        /\ serving' \subseteq serving \cup (IF k < 2 THEN {<<q, x, k + 1>>} ELSE {})
    BY <1>1, <1>2 DEF Serve, SaveNext, CopiesOf
  <2>2. x \in Fact => q \in Clones
    BY <1>1, CloneAssumption
  <2>3. NodesSaved'
    BY <1>0, <2>1 DEF Saved, NodesSaved
  <2>4. FactsSaved'
    BY <1>0, <2>1, <2>2 DEF Saved, FactsSaved
  <2>5. CallsSent'
    <3> SUFFICES ASSUME NEW t \in serving'
                 PROVE  \E p \in Makers, y \in What, j \in 0..2 :
                            t = <<p, y, j>> /\ (y # Own => p \in Clones)
      BY <1>0 DEF CallsSent
    <3>1. CASE t \in serving
      BY <3>1 DEF Saved, CallsSent
    <3>2. CASE k < 2 /\ t = <<q, x, k + 1>>
      <4>1. k + 1 \in 0..2
        BY <3>2
      <4>2. QED
        BY <1>1, <3>2, <4>1
    <3>3. QED
      BY <2>1, <3>1, <3>2
  <2>6. QED
    BY <1>0, <2>3, <2>4, <2>5
<1>3. CASE ServiceFails(s)
  <2>1. serving' \subseteq serving /\ UNCHANGED <<nodes, facts>>
    BY <1>3 DEF ServiceFails
  <2>2. QED
    BY <1>0, <2>1 DEF Saved, NodesSaved, FactsSaved, CallsSent
<1>4. QED
  BY <1>2, <1>3

(* What a clone lists is the source's own, and it is called for only that. *)
LEMMA SentSaved ==
    ASSUME Shape, Saved, NEW q \in Request,
           ListNodes(q) \/ ListEdges(q) \/ Send(q) \/ SendOwn(q) \/ Receive(q)
    PROVE  CallsSent' /\ Held' /\ UNCHANGED <<nodes, facts, listed, made>>
<1>0. /\ UNCHANGED <<nodes, facts, listed, made>> /\ Makers' = Makers /\ Clones' = Clones
  BY DEF ListNodes, ListEdges, Send, SendOwn, Receive, rowVars, Makers, Clones
<1>1. CASE ListNodes(q) \/ ListEdges(q)
  <2>1. UNCHANGED <<matched, call, serving>>
    BY <1>1 DEF ListNodes, ListEdges
  <2>2. PICK here \in SUBSET (Entity \cup Fact) : todo' = [todo EXCEPT ![q] = here]
    <3>1. SourceNodes \subseteq Entity \cup Fact /\ SourceFacts \subseteq Entity \cup Fact
      BY SourcesOwn DEF Saved
    <3>2. \A all : Lists(q, all) => \E here \in SUBSET all : todo' = [todo EXCEPT ![q] = here]
      BY DEF Lists
    <3>3. QED
      BY <1>1, <3>1, <3>2 DEF ListNodes, ListEdges
  <2>3. QED
    BY <1>0, <2>1, <2>2 DEF Saved, Held, CallsSent
<1>2. CASE Send(q)
  <2>1. PICK x \in todo[q] :
          /\ todo' = [todo EXCEPT ![q] = @ \ {x}]
          /\ matched' = [matched EXCEPT ![q] = IF x \in Entity THEN @ \cup {x} ELSE @]
          /\ IF Wants(q, x)
             THEN call' = [call EXCEPT ![q] = <<x>>] /\ serving' = serving \cup {<<q, x, 0>>}
             ELSE UNCHANGED <<call, serving>>
    BY <1>2 DEF Send
  <2>2. x \in What /\ x \in Entity \cup Fact
    BY DEF Saved, Held, What
  <2>3. q \in Clones /\ q \in Makers
    BY <1>2, AtWork DEF Send, Saved
  <2>4. Held'
    <3>1. todo' \in [Request -> SUBSET (Entity \cup Fact)]
      BY <2>1 DEF Saved, Held
    <3>2. matched' \in [Request -> SUBSET Entity]
      BY <2>1 DEF Saved, Held
    <3>3. call' \in [Request -> {Nothing} \cup {<<y>> : y \in What}]
      BY <2>1, <2>2 DEF Saved, Held
    <3>4. QED
      BY <3>1, <3>2, <3>3 DEF Held, Nothing, What
  <2>5. CallsSent'
    <3>1. serving' \subseteq serving \cup {<<q, x, 0>>}
      BY <2>1
    <3>2. QED
      BY <1>0, <2>2, <2>3, <3>1 DEF Saved, CallsSent
  <2>6. QED
    BY <1>0, <2>4, <2>5
<1>3. CASE SendOwn(q)
  <2>1. /\ call' = [call EXCEPT ![q] = <<Own>>] /\ serving' = serving \cup {<<q, Own, 0>>}
        /\ UNCHANGED <<todo, matched>> /\ q \in Makers /\ Own \in What
    BY <1>3, AtWork DEF SendOwn, Saved, What
  <2>2. CallsSent'
    BY <1>0, <2>1 DEF Saved, CallsSent
  <2>3. Held'
    BY <2>1 DEF Saved, Held, Nothing, What
  <2>4. QED
    BY <1>0, <2>2, <2>3
<1>4. CASE Receive(q)
  <2>1. call' = [call EXCEPT ![q] = Nothing] /\ UNCHANGED <<todo, matched, serving>>
    BY <1>4 DEF Receive
  <2>2. QED
    BY <1>0, <2>1 DEF Saved, Held, CallsSent, Nothing, What
<1>5. QED
  BY <1>1, <1>2, <1>3, <1>4

(* What a deletion lists is of its group.                                  *)
LEMMA GroupSaved ==
    ASSUME Shape, Saved, NEW q \in Request, ListGroup(q) \/ DropGroup(q) \/ WorkerSaves(q)
    PROVE  NodesSaved' /\ FactsSaved' /\ Listed'
           /\ UNCHANGED <<todo, matched, call, serving, made>>
<1>0. /\ UNCHANGED <<todo, matched, call, serving, made>> /\ Makers' = Makers /\ Clones' = Clones
  BY DEF ListGroup, DropGroup, WorkerSaves, Makers, Clones
<1>1. CASE ListGroup(q)
  <2>1. /\ UNCHANGED <<nodes, facts>>
        /\ \E more : /\ listed' = [listed EXCEPT ![q] = more]
                     /\ \A x \in more : x \in listed[q] \/ GraphOf(x) = RowOf[q]
    BY <1>1 DEF ListGroup
  <2>2. Listed'
    <3>1. PICK more : /\ listed' = [listed EXCEPT ![q] = more]
                      /\ \A x \in more : x \in listed[q] \/ GraphOf(x) = RowOf[q]
      BY <2>1
    <3>2. listed' = [p \in Request |-> listed'[p]]
      BY <3>1 DEF Saved, Listed
    <3>3. listed'[q] = more /\ \A p \in Request \ {q} : listed'[p] = listed[p]
      BY <3>1 DEF Saved, Listed
    <3>4. QED
      BY <3>1, <3>2, <3>3 DEF Saved, Listed, GraphOf
  <2>3. QED
    BY <1>0, <2>1, <2>2 DEF Saved, NodesSaved, FactsSaved
<1>2. CASE DropGroup(q)
  <2>1. nodes' \subseteq nodes /\ facts' \subseteq facts /\ listed' = listed
    BY <1>2 DEF DropGroup, Dropped
  <2>2. QED
    BY <1>0, <2>1 DEF Saved, NodesSaved, FactsSaved, Listed, GraphOf
<1>3. CASE WorkerSaves(q)
  <2>1. PICK f \in Fact : nodes' = nodes \cup EndsOf(f) /\ facts' = facts \cup {f}
    BY <1>3 DEF WorkerSaves
  <2>2. EndsOf(f) \subseteq Entity /\ listed' = listed
    BY <1>3, CloneAssumption DEF EndsOf, WorkerSaves
  <2>3. NodesSaved' /\ FactsSaved'
    BY <1>0, <2>1, <2>2 DEF Saved, NodesSaved, FactsSaved
  <2>4. Listed'
    BY <2>2 DEF Saved, Listed, GraphOf
  <2>5. QED
    BY <1>0, <2>3, <2>4
<1>4. QED
  BY <1>1, <1>2, <1>3

LEMMA SavedNext ==
    ASSUME Shape, Saved, Onward, [Next]_vars
    PROVE  Saved'
<1>0. made' = made /\ Asked' /\ Makers' = Makers /\ Clones' = Clones
  BY AskedNext DEF Saved, Onward, Makers, Clones
<1>1. ASSUME UNCHANGED <<nodes, facts>> PROVE NodesSaved' /\ FactsSaved'
  BY <1>0, <1>1 DEF Saved, NodesSaved, FactsSaved
<1>2. ASSUME UNCHANGED serving PROVE CallsSent'
  BY <1>0, <1>2 DEF Saved, CallsSent
<1>3. ASSUME UNCHANGED <<todo, matched, call>> PROVE Held'
  BY <1>3 DEF Saved, Held, Nothing, What
<1>4. ASSUME UNCHANGED listed PROVE Listed'
  BY <1>4 DEF Saved, Listed, GraphOf
<1>5. CASE UNCHANGED graphVars
  BY <1>0, <1>1, <1>2, <1>3, <1>4, <1>5 DEF graphVars, Saved
<1>6. ASSUME NEW q \in Request, CloneStep(q) PROVE UNCHANGED graphVars \/ Saved'
  <2>1. CASE ListNodes(q) \/ ListEdges(q) \/ Send(q) \/ SendOwn(q) \/ Receive(q)
    BY <1>0, <1>1, <1>4, <2>1, SentSaved DEF Saved
  <2>2. CASE ListGroup(q) \/ DropGroup(q) \/ WorkerSaves(q)
    BY <1>0, <1>2, <1>3, <2>2, GroupSaved DEF Saved
  <2>3. CASE SelectSource(q) \/ InsertTarget(q) \/ LoopEnds(q) \/ DropFails(q)
    BY <2>3 DEF SelectSource, InsertTarget, LoopEnds, DropFails, graphVars
  <2>4. QED
    BY <1>6, <2>1, <2>2, <2>3 DEF CloneStep
<1>7. ASSUME NEW s \in serving, Serve(s) \/ ServiceFails(s) PROVE Saved'
  BY <1>0, <1>3, <1>4, <1>7, ServedSaved DEF Saved
<1>8. CASE UNCHANGED vars
  BY <1>5, <1>8 DEF vars
<1>9. QED
  BY <1>5, <1>6, <1>7, <1>8 DEF Next, CloneStep, RowsOnly, BackendCrash

-----------------------------------------------------------------------------
(* The requests that what was saved belongs to: their record was inserted. *)
Owns(q) == q \in applied /\ Op[q] \in {"create", "clone"} /\ RowKind(q) # "template"
Filling == {"entity", "named", "nodes", "copy", "edges", "join"}

GraphKinds == kind[Source] = "graph" /\ kind[Target] = "graph"
LiveCopies == \A q \in Request : pc[q] = "write" => copy[q].life = "live"

Owned ==
    /\ \A q \in Request : pc[q] \in Filling => Owns(q)
    /\ \A s \in serving : Owns(s[1])
    /\ \A n \in nodes : n \notin Entity => Owns(n[1])

(* The deletions of its record that had not ended when it began.           *)
Undone(q) == {d \in Deletions(RowOf[q]) \cap applied : d \notin before[q]}

RowsThere == \A q \in Request : Owns(q) => rows[RowOf[q]].life = "live" \/ Undone(q) # {}
OneOwner ==
    \A p, q \in Request : p # q /\ Owns(p) /\ Owns(q) /\ RowOf[p] = RowOf[q] =>
        Undone(p) \cup Undone(q) # {}

(* Without a fault, no call outlives its caller.                           *)
InCall ==
    faults = 0 => \A s \in serving : /\ call[s[1]] = <<s[2]>>
                                     /\ pc[s[1]] \in {"copy", "join", "named"}

(* Without a fault, a deletion removes what was saved for the requests     *)
(* that had ended when it began.                                           *)
Swept ==
    faults = 0 => \A n \in nodes : n \notin Entity => \A d \in Deletions(GraphOf(n)) :
        n[1] \in before[d] =>
            /\ pc[d] # "remove" /\ d \notin applied
            /\ pc[d] \in {"dropFacts", "dropNodes"} => n \in listed[d]

ApartInv == Owned /\ GraphKinds /\ LiveCopies /\ RowsThere /\ OneOwner /\ InCall /\ Swept

(* One handler takes a step that moves it.                                 *)
LEMMA MovesItself ==
    ASSUME Shape, [Next]_vars, NEW q \in Request, pc'[q] # pc[q], pc'[q] # "dead"
    PROVE  RowsStep(q) \/ CloneStep(q)
<1>1. ASSUME NEW p \in Request, RowsStep(p) \/ CloneStep(p) PROVE p = q
  BY <1>1, RowsMove, CloneMoves, MovedIsOnward
<1>2. ~ Crash
  BY CrashMoves
<1>3. ~ UNCHANGED vars
  BY DEF vars, rowVars
<1>4. ~ \E s \in serving : Serve(s) \/ ServiceFails(s)
  BY ServiceLeaves
<1>5. QED
  BY <1>1, <1>2, <1>3, <1>4, StepOf

(* A handler starts to fill a graph once it has inserted its record.       *)
LEMMA FillingStarts ==
    ASSUME Shape, GraphKinds, [Next]_vars, NEW q \in Request,
           pc'[q] \in Filling, pc[q] \notin Filling
    PROVE  q \in applied' /\ Op[q] \in {"create", "clone"} /\ RowKind(q) # "template"
<1>0. pc \in [Request -> Labels] /\ Passes(q, pc[q]) /\ pc'[q] # pc[q] /\ pc'[q] # "dead"
  BY DEF Shape, Filling
<1>1. ASSUME NEW label, Goto(q, label) PROVE pc'[q] = label
  BY <1>0, <1>1 DEF Goto
<1>2. ASSUME NEW status, Answer(q, status) PROVE FALSE
  BY <1>0, <1>2 DEF Answer, Filling
<1>3. CASE RowsStep(q)
  <2>1. ~ (Select(q) \/ Update(q) \/ Remove(q) \/ DeleteTypes(q) \/ InsertTypes(q))
    BY <1>1, <1>2 DEF Select, Update, Remove, DeleteTypes, InsertTypes, Filling
  <2>2. Create(q)
    BY <1>3, <2>1 DEF RowsStep
  <2>3. RowKind(q) \in {"user", "graph"} /\ Inserts(q)
    BY <1>2, <2>2 DEF Create, Insert
  <2>4. q \in applied'
    BY <1>2, <2>2 DEF Create, Insert, Statement, Apply
  <2>5. QED
    BY <2>2, <2>3, <2>4 DEF Create
<1>4. CASE CloneStep(q)
  <2>1. ~ (ListNodes(q) \/ ListEdges(q) \/ SendOwn(q))
    BY <1>0 DEF ListNodes, ListEdges, SendOwn, Filling
  <2>2. ~ (Send(q) \/ Receive(q) \/ LoopEnds(q))
    BY <1>0, <1>1, <1>2 DEF Send, Receive, LoopEnds, Filling, rowVars
  <2>3. ~ (SelectSource(q) \/ ListGroup(q) \/ DropGroup(q) \/ DropFails(q) \/ WorkerSaves(q))
    BY <1>1, <1>2 DEF SelectSource, ListGroup, DropGroup, DropFails, WorkerSaves, Filling
  <2>4. InsertTarget(q)
    BY <1>4, <2>1, <2>2, <2>3 DEF CloneStep
  <2>5. q \in applied'
    BY <1>2, <2>4 DEF InsertTarget, Insert, Statement, Apply
  <2>6. Op[q] = "clone"
    BY <1>0, <2>4 DEF InsertTarget, Passes
  <2>7. QED
    BY <2>5, <2>6, CloneAssumption DEF GraphKinds, RowKind
<1>5. QED
  BY <1>0, <1>3, <1>4, MovesItself

LEMMA OwnsStays ==
    ASSUME Shape, Onward, [Next]_vars, NEW q, Owns(q)
    PROVE  Owns(q)'
BY AppliedGrow DEF Owns, Onward, RowKind

LEMMA OwnedNext ==
    ASSUME Shape, Saved, Owned, GraphKinds, Onward, [Next]_vars
    PROVE  Owned' /\ GraphKinds'
<1>1. GraphKinds'
  BY DEF GraphKinds, Onward
<1>2. ASSUME NEW q \in Request, pc'[q] \in Filling PROVE Owns(q)'
  <2>1. CASE pc[q] \in Filling
    BY <2>1, OwnsStays DEF Owned
  <2>2. CASE pc[q] \notin Filling
    BY <1>2, <2>2, FillingStarts DEF Owns, RowKind, Onward
  <2>3. QED
    BY <2>1, <2>2
<1>3. CASE UNCHANGED <<nodes, serving>>
  BY <1>1, <1>2, <1>3, OwnsStays DEF Owned
<1>4. ASSUME NEW q \in Request, CloneStep(q)
      PROVE  Owned' \/ UNCHANGED <<nodes, serving>>
  <2>1. CASE Send(q) \/ SendOwn(q)
    <3>1. PICK x : serving' \subseteq serving \cup {<<q, x, 0>>}
      BY <2>1 DEF Send, SendOwn
    <3>2. nodes' = nodes /\ Owns(q)
      BY <2>1 DEF Send, SendOwn, Owned, Filling
    <3>3. ASSUME NEW s \in serving' PROVE Owns(s[1])'
      <4>1. Owns(s[1])
        BY <3>1, <3>2 DEF Owned
      <4>2. QED
        BY <4>1, OwnsStays
    <3>4. QED
      BY <1>2, <3>2, <3>3, OwnsStays DEF Owned
  <2>2. CASE DropGroup(q)
    <3>1. nodes' \subseteq nodes /\ serving' = serving
      BY <2>2 DEF DropGroup, Dropped
    <3>2. QED
      BY <1>2, <3>1, OwnsStays DEF Owned
  <2>3. CASE WorkerSaves(q)
    <3>1. nodes' \subseteq nodes \cup Entity /\ serving' = serving
      BY <2>3, CloneAssumption DEF WorkerSaves, EndsOf
    <3>2. QED
      BY <1>2, <3>1, OwnsStays DEF Owned
  <2>4. QED
    BY <1>4, <2>1, <2>2, <2>3 DEF CloneStep, SelectSource, InsertTarget, ListNodes, ListEdges,
         Receive, LoopEnds, ListGroup, DropFails, graphVars
<1>5. ASSUME NEW s \in serving, Serve(s) \/ ServiceFails(s) PROVE Owned'
  <2>1. Owns(s[1]) /\ Owns(s[1])'
    BY OwnsStays DEF Owned
  <2>2. /\ \A n \in nodes' : n \in nodes \/ n[1] = s[1]
        /\ \A t \in serving' : t \in serving \/ t[1] = s[1]
    BY <1>5 DEF Serve, ServiceFails, SaveNext
  <2>3. QED
    BY <1>2, <2>1, <2>2, OwnsStays DEF Owned
<1>6. CASE UNCHANGED vars \/ BackendCrash
  BY <1>3, <1>6 DEF vars, graphVars, BackendCrash, Owned
<1>7. ASSUME NEW q \in Request, RowsOnly(q) PROVE UNCHANGED <<nodes, serving>>
  BY <1>7 DEF RowsOnly, graphVars
<1>8. QED
  BY <1>1, <1>3, <1>4, <1>5, <1>6, <1>7 DEF Next, CloneStep

(* A request gets to own what it saves by inserting its record.            *)
LEMMA NewOwner ==
    ASSUME Shape, Onward, [Next]_vars, NEW q, Owns(q)', ~ Owns(q)
    PROVE  q \in Request /\ Brings(q)
<1>1. q \in applied' \ applied /\ Op[q] \in {"create", "clone"} /\ q \in Request
  BY AppliedGrow DEF Owns, Onward, RowKind
<1>2. ASSUME NEW p \in Request, Reads(p) \/ Rewrites(p) \/ Takes(p) \/ Brings(p)
      PROVE  Brings(q)
  BY <1>1, <1>2 DEF Reads, Rewrites, Takes, Brings, Apply
<1>3. QED
  BY <1>1, <1>2, RowsChange DEF Still

LEMMA UndoneStays ==
    ASSUME Shape, RowsInv, Onward, [Next]_vars, NEW q, Owns(q)
    PROVE  q \in Request /\ before'[q] = before[q] /\ Undone(q) \subseteq Undone(q)'
<1>1. q \in Request /\ pc[q] # "start"
  BY DEF Owns, RowsInv, Authors
<1>2. before'[q] = before[q] /\ made' = made
  BY <1>1 DEF Onward
<1>3. QED
  BY <1>1, <1>2, AppliedGrow DEF Undone, Deletions

(* A handler that will write has read a live row.                          *)
LEMMA LiveCopiesNext ==
    ASSUME Shape, RowsInv, LiveCopies, Onward, [Next]_vars
    PROVE  LiveCopies'
<1> SUFFICES ASSUME NEW q \in Request, pc'[q] = "write" PROVE copy'[q].life = "live"
  BY DEF LiveCopies
<1>1. CASE pc[q] = "write"
  BY <1>1, AppliedFixed DEF RowsInv, LiveCopies
<1>2. CASE pc[q] # "write"
  <2>1. pc \in [Request -> Labels] /\ Op[q] = "patch" /\ copy \in [Request -> RowRecord]
    BY DEF Shape, Onward, Passes, RowsTypeOK
  <2>2. RowsStep(q)
    BY <1>2, <2>1, MovedHere
  <2>3. Select(q)
    <3>1. ASSUME NEW status, Answer(q, status) PROVE FALSE
      BY <2>1, <3>1 DEF Answer
    <3>2. QED
      BY <2>1, <2>2, <3>1 DEF RowsStep, Update, Remove, Create, DeleteTypes, InsertTypes
  <2>4. ~ Answer(q, 404)
    BY <2>1 DEF Answer
  <2>5. QED
    BY <2>1, <2>3, <2>4 DEF Select
<1>3. QED
  BY <1>1, <1>2

(* A record that is not there was deleted.                                 *)
LEMMA RowsThereNext ==
    ASSUME Shape, RowsInv, Asked, LiveCopies, RowsThere, Onward, [Next]_vars
    PROVE  RowsThere'
<1> SUFFICES ASSUME NEW q \in Request, Owns(q)'
             PROVE  rows'[RowOf[q]].life = "live" \/ Undone(q)' # {}
  BY DEF RowsThere
<1>0. RowOf[q] \in Row
  BY Constants
<1>1. ASSUME NEW p \in Request, Brings(p) /\ RowOf[p] = RowOf[q]
      PROVE  rows'[RowOf[q]].life = "live"
  <2>1. rows'[RowOf[p]] = NewRow(p)
    BY <1>1, BroughtRow
  <2>2. NewRow(p).life = "live"
    BY DEF NewRow
  <2>3. QED
    BY <1>1, <2>1, <2>2
<1>2. CASE ~ Owns(q)
  BY <1>1, <1>2, NewOwner
<1>3. CASE Owns(q)
  <2>1. ASSUME rows'[RowOf[q]] = rows[RowOf[q]]
        PROVE  rows'[RowOf[q]].life = "live" \/ Undone(q)' # {}
    BY <1>3, <2>1, UndoneStays DEF RowsThere
  <2>2. CASE Still
    BY <2>1, <2>2 DEF Still
  <2>3. ASSUME NEW p \in Request, Reads(p)
        PROVE  rows'[RowOf[q]].life = "live" \/ Undone(q)' # {}
    BY <2>1, <2>3 DEF Reads
  <2>4. ASSUME NEW p \in Request, Rewrites(p)
        PROVE  rows'[RowOf[q]].life = "live" \/ Undone(q)' # {}
    <3>1. CASE RowOf[p] # RowOf[q]
      BY <1>0, <2>1, <2>4, <3>1, RewrittenRow
    <3>2. CASE RowOf[p] = RowOf[q]
      BY <2>4, <3>2, RewrittenRow DEF Rewrites, LiveCopies
    <3>3. QED
      BY <3>1, <3>2
  <2>5. ASSUME NEW p \in Request, Takes(p)
        PROVE  rows'[RowOf[q]].life = "live" \/ Undone(q)' # {}
    <3>1. CASE RowOf[p] # RowOf[q]
      BY <1>0, <2>1, <2>5, <3>1, TakenRow
    <3>2. CASE RowOf[p] = RowOf[q]
      <4>1. p \in made /\ pc[p] \notin Over
        BY <2>5 DEF Takes, Asked, Over
      <4>2. p \notin before'[q]
        BY <1>3, <4>1, UndoneStays DEF RowsInv, Past
      <4>3. p \in applied' /\ p \in Deletions(RowOf[q])' /\ made' = made
        BY <2>5, <3>2, <4>1, TakenRow DEF Deletions, Onward
      <4>4. QED
        BY <4>2, <4>3 DEF Undone
    <3>3. QED
      BY <3>1, <3>2
  <2>6. ASSUME NEW p \in Request, Brings(p)
        PROVE  rows'[RowOf[q]].life = "live" \/ Undone(q)' # {}
    <3>1. CASE RowOf[p] # RowOf[q]
      BY <1>0, <2>1, <2>6, <3>1, BroughtRow
    <3>2. QED
      BY <1>1, <2>6, <3>1
  <2>7. QED
    BY <2>2, <2>3, <2>4, <2>5, <2>6, RowsChange
<1>4. QED
  BY <1>2, <1>3

(* The id is unique: two requests got to insert a record only if the one   *)
(* of the first was deleted by then.                                       *)
LEMMA OneOwnerNext ==
    ASSUME Shape, RowsInv, RowsThere, OneOwner, Onward, [Next]_vars
    PROVE  OneOwner'
<1> SUFFICES ASSUME NEW p \in Request, NEW q \in Request, p # q, Owns(p)', Owns(q)',
                    RowOf[p] = RowOf[q]
             PROVE  Undone(p)' \cup Undone(q)' # {}
  BY DEF OneOwner
<1>1. ASSUME NEW x \in Request, NEW y \in Request, x # y, RowOf[x] = RowOf[y], Owns(y)', ~ Owns(x), Owns(x)'
      PROVE  Undone(y)' # {}
  <2>1. Brings(x) /\ rows[RowOf[y]].life = "absent"
    BY <1>1, NewOwner, BroughtRow
  <2>2. Owns(y)
    <3>1. applied' = applied \cup {x}
      BY <2>1, BroughtRow
    <3>2. QED
      BY <1>1, <3>1 DEF Owns, Onward, RowKind
  <2>3. QED
    BY <2>1, <2>2, UndoneStays DEF RowsThere
<1>2. CASE Owns(p) /\ Owns(q)
  BY <1>2, UndoneStays DEF OneOwner
<1>3. CASE ~ Owns(p)
  BY <1>1, <1>3
<1>4. CASE ~ Owns(q)
  BY <1>1, <1>4
<1>5. QED
  BY <1>2, <1>3, <1>4

LEMMA InCallNext ==
    ASSUME Shape, Saved, InCall, Onward, [Next]_vars
    PROVE  InCall'
<1> SUFFICES ASSUME faults' = 0, NEW s \in serving'
             PROVE  call'[s[1]] = <<s[2]>> /\ pc'[s[1]] \in {"copy", "join", "named"}
  BY DEF InCall
<1>0. /\ faults = 0 /\ pc \in [Request -> Labels] /\ call = [q \in Request |-> call[q]]
      /\ \A t \in serving : /\ t[1] \in Request /\ call[t[1]] = <<t[2]>> /\ <<t[2]>> # Nothing
                            /\ pc[t[1]] \in {"copy", "join", "named"}
  <2>1. \A t \in serving : t[1] \in Request
    <3>1. \A q \in Makers : q \in Request
      BY MakerRows
    <3>2. QED
      BY <3>1 DEF Saved, CallsSent
  <2>2. \A x : <<x>> # Nothing
    BY DEF Nothing
  <2>3. QED
    BY <2>1, <2>2, NoFaults DEF InCall, Shape, Saved, Held
<1>1. ~ Fault
  BY <1>0, FaultFaults
<1>2. CASE UNCHANGED <<pc, call, serving>>
  BY <1>0, <1>2
<1>3. ASSUME NEW q \in Request, RowsOnly(q)
      PROVE  call'[s[1]] = <<s[2]>> /\ pc'[s[1]] \in {"copy", "join", "named"}
  <2>1. UNCHANGED <<call, serving>>
    BY <1>3 DEF RowsOnly, graphVars
  <2>2. pc[q] \notin {"copy", "join", "named"}
    BY <1>3 DEF RowsOnly, RowsStep, Select, Update, Remove, Create, DeleteTypes, InsertTypes
  <2>3. pc'[s[1]] = pc[s[1]]
    BY <1>0, <1>3, <2>1, <2>2, RowsMove, MovedIsOnward DEF RowsOnly
  <2>4. QED
    BY <1>0, <2>1, <2>3
<1>4. ASSUME NEW q \in Request, CloneStep(q)
      PROVE  call'[s[1]] = <<s[2]>> /\ pc'[s[1]] \in {"copy", "join", "named"}
  <2>0. \A p \in Request \ {q} : pc'[p] = pc[p]
    BY <1>4, CloneMoves, MovedIsOnward
  <2>1. CASE Send(q)
    <3>1. PICK x : \/ call' = [call EXCEPT ![q] = <<x>>] /\ serving' = serving \cup {<<q, x, 0>>}
                   \/ UNCHANGED <<call, serving>>
      BY <2>1 DEF Send
    <3>2. /\ call[q] = Nothing /\ pc' = pc /\ pc[q] \in {"copy", "join"}
          /\ \A t \in serving : t[1] # q
      BY <1>0, <2>1 DEF Send, rowVars
    <3>3. CASE s \in serving
      BY <1>0, <3>1, <3>2, <3>3
    <3>4. CASE s \notin serving
      BY <1>0, <3>1, <3>2, <3>4
    <3>5. QED
      BY <3>3, <3>4
  <2>2. CASE SendOwn(q)
    <3>1. /\ call' = [call EXCEPT ![q] = <<Own>>] /\ serving' = serving \cup {<<q, Own, 0>>}
          /\ pc[q] = "entity" /\ pc'[q] = "named"
      BY <1>0, <2>2 DEF SendOwn, Goto
    <3>2. \A t \in serving : t[1] # q
      BY <1>0, <3>1
    <3>3. QED
      BY <1>0, <2>0, <3>1, <3>2
  <2>3. CASE Receive(q)
    <3>1. /\ call' = [call EXCEPT ![q] = Nothing] /\ UNCHANGED <<pc, serving>>
          /\ \A t \in serving : t[1] = q => t[2] # call[q][1]
      BY <1>1, <2>3 DEF Receive
    <3>2. \A t \in serving : t[1] # q
      BY <1>0, <3>1
    <3>3. QED
      BY <1>0, <3>1, <3>2
  <2>4. CASE LoopEnds(q)
    <3>1. call[q] = Nothing /\ UNCHANGED <<call, serving>>
      BY <2>4 DEF LoopEnds, graphVars
    <3>2. QED
      BY <1>0, <2>0, <3>1
  <2>5. CASE ~ (Send(q) \/ SendOwn(q) \/ Receive(q) \/ LoopEnds(q))
    <3>1. UNCHANGED <<call, serving>> /\ pc[q] \notin {"copy", "join", "named"}
      BY <1>4, <2>5 DEF CloneStep, SelectSource, InsertTarget, ListNodes, ListEdges, ListGroup,
           DropGroup, DropFails, WorkerSaves, graphVars
    <3>2. QED
      BY <1>0, <2>0, <3>1
  <2>6. QED
    BY <2>1, <2>2, <2>3, <2>4, <2>5
<1>5. ASSUME NEW t \in serving, Serve(t) \/ ServiceFails(t)
      PROVE  call'[s[1]] = <<s[2]>> /\ pc'[s[1]] \in {"copy", "join", "named"}
  <2>1. UNCHANGED <<pc, call>>
    BY <1>5 DEF Serve, ServiceFails, rowVars
  <2>2. s \in serving \/ (s[1] = t[1] /\ s[2] = t[2])
    BY <1>5 DEF Serve, SaveNext, ServiceFails
  <2>3. QED
    BY <1>0, <2>1, <2>2
<1>6. ~ BackendCrash
  BY <1>1 DEF BackendCrash, Crash
<1>7. CASE UNCHANGED vars
  BY <1>2, <1>7 DEF vars, rowVars, graphVars
<1>8. QED
  BY <1>3, <1>4, <1>5, <1>6, <1>7 DEF Next, CloneStep

(* How a deletion goes on when nothing fails.                              *)
LEMMA DeletionGoesOn ==
    ASSUME Shape, Saved, Authors, Onward, [Next]_vars, faults' = 0,
           NEW d \in Request, Op[d] = "delete", RowKind(d) # "template"
    PROVE  /\ d \in applied' => d \in applied \/ pc[d] = "remove"
           /\ \/ pc'[d] = pc[d] /\ listed'[d] = listed[d]
              \/ pc[d] = "start" /\ pc'[d] \in {"group", "done"}
              \/ pc[d] = "group" /\ pc'[d] = "groupNodes"
              \/ pc[d] = "groupNodes" /\ pc'[d] = "dropFacts"
                    /\ nodes' = nodes /\ {n \in nodes : GraphOf(n) = RowOf[d]} \subseteq listed'[d]
              \/ pc[d] = "dropFacts" /\ pc'[d] = "dropNodes" /\ listed'[d] = listed[d]
              \/ pc[d] = "dropNodes" /\ pc'[d] = "remove" /\ nodes' = nodes \ listed[d]
              \/ pc[d] = "remove" /\ pc'[d] = "done"
<1>0. /\ pc \in [Request -> Labels] /\ DOMAIN listed = Request /\ Passes(d, pc[d])
      /\ faults = 0 /\ ~ Fault
  BY NoFaults, FaultFaults DEF Shape, Saved, Listed
<1>1. d \in applied' => d \in applied \/ pc[d] = "remove"
  <2>1. ASSUME NEW p \in Request, Reads(p) \/ Rewrites(p) \/ Takes(p) \/ Brings(p),
               d \in applied' \ applied
        PROVE  pc[d] = "remove"
    BY <2>1 DEF Reads, Rewrites, Takes, Brings, Apply
  <2>2. QED
    BY <2>1, RowsChange DEF Still
<1>2. ASSUME NEW p \in Request, p # d, CloneStep(p) PROVE listed'[d] = listed[d]
  BY <1>0, <1>2 DEF CloneStep, SelectSource, InsertTarget, ListNodes, ListEdges, Send, SendOwn,
       Receive, LoopEnds, ListGroup, DropGroup, DropFails, WorkerSaves, graphVars
<1>3. ASSUME NEW p \in Request, p # d, RowsOnly(p) \/ CloneStep(p)
      PROVE  pc'[d] = pc[d] /\ listed'[d] = listed[d]
  <2>1. pc'[d] = pc[d]
    BY <1>3, RowsMove, CloneMoves, MovedIsOnward DEF RowsOnly
  <2>2. QED
    BY <1>2, <1>3, <2>1 DEF RowsOnly, graphVars
<1>4. CASE UNCHANGED vars \/ \E s \in serving : Serve(s) \/ ServiceFails(s)
  BY <1>4 DEF vars, rowVars, graphVars, Serve, ServiceFails
<1>5. ~ BackendCrash
  BY <1>0 DEF BackendCrash, Crash
<1>6. CASE RowsOnly(d)
  <2>1. Select(d) \/ Remove(d)
    BY <1>0, <1>6 DEF RowsOnly, RowsStep, Update, Create, DeleteTypes, InsertTypes, Passes
  <2>2. CASE Select(d)
    <3>1. Answer(d, 404) \/ Goto(d, "group")
      BY <2>2 DEF Select
    <3>2. pc[d] = "start" /\ pc'[d] \in {"group", "done"}
      BY <1>0, <2>2, <3>1 DEF Select, Answer, Goto
    <3>3. QED
      BY <1>1, <3>2
  <2>3. CASE Remove(d)
    <3>1. pc[d] = "remove" /\ pc'[d] = "done"
      BY <1>0, <2>3 DEF Remove, Answer
    <3>2. QED
      BY <1>1, <3>1
  <2>4. QED
    BY <2>1, <2>2, <2>3
<1>7. CASE CloneStep(d)
  <2>1. ListGroup(d) \/ DropGroup(d)
    BY <1>0, <1>7 DEF CloneStep, SelectSource, InsertTarget, ListNodes, ListEdges, Send, SendOwn,
         Receive, LoopEnds, DropFails, WorkerSaves, Passes, Clones
  <2>2. ASSUME NEW label, Goto(d, label) PROVE pc'[d] = label
    BY <1>0, <2>2 DEF Goto
  <2>3. CASE ListGroup(d)
    <3>1. CASE pc[d] = "group"
      BY <1>1, <2>2, <2>3, <3>1 DEF ListGroup
    <3>2. CASE pc[d] = "groupNodes"
      <4>1. /\ listed' = [listed EXCEPT ![d] = @ \cup {n \in nodes : GraphOf(n) = RowOf[d]}]
            /\ pc'[d] = "dropFacts" /\ nodes' = nodes
        BY <2>2, <2>3, <3>2 DEF ListGroup
      <4>2. {n \in nodes : GraphOf(n) = RowOf[d]} \subseteq listed'[d]
        BY <1>0, <4>1
      <4>3. QED
        BY <1>1, <3>2, <4>1, <4>2
    <3>3. QED
      BY <2>3, <3>1, <3>2 DEF ListGroup
  <2>4. CASE DropGroup(d)
    BY <1>1, <2>2, <2>4 DEF DropGroup, Dropped
  <2>5. QED
    BY <2>1, <2>3, <2>4
<1>8. QED
  BY <1>1, <1>3, <1>4, <1>5, <1>6, <1>7 DEF Next, CloneStep

(* What a step adds for a request is added by its own call.                *)
LEMMA NodesFrom ==
    ASSUME Saved, [Next]_vars, NEW n \in nodes', n \notin nodes, n \notin Entity
    PROVE  \E s \in serving : Serve(s) /\ n[1] = s[1] /\ UNCHANGED <<pc, before>>
<1>1. ASSUME NEW s \in serving, Serve(s)
      PROVE  \E t \in serving : Serve(t) /\ n[1] = t[1] /\ UNCHANGED <<pc, before>>
  <2>1. n[1] = s[1]
    BY <1>1 DEF Serve, SaveNext
  <2>2. QED
    BY <1>1, <2>1 DEF Serve, rowVars
<1>2. ASSUME NEW q \in Request, WorkerSaves(q) PROVE FALSE
  BY <1>2, CloneAssumption DEF WorkerSaves, EndsOf
<1>3. ASSUME NEW q \in Request, DropGroup(q) PROVE FALSE
  BY <1>3 DEF DropGroup, Dropped
<1>4. ASSUME NEW q \in Request, CloneStep(q), ~ WorkerSaves(q), ~ DropGroup(q) PROVE nodes' = nodes
  BY <1>4 DEF CloneStep, SelectSource, InsertTarget, ListNodes, ListEdges, Send, SendOwn,
       Receive, LoopEnds, ListGroup, DropFails, graphVars
<1>5. QED
  BY <1>1, <1>2, <1>3, <1>4 DEF Next, CloneStep, RowsOnly, BackendCrash, ServiceFails, vars, graphVars

LEMMA SweptNext ==
    ASSUME Shape, RowsInv, Saved, Owned, InCall, Swept, Onward, [Next]_vars
    PROVE  Swept'
<1> SUFFICES ASSUME faults' = 0, NEW n \in nodes', n \notin Entity,
                    NEW d \in Deletions(GraphOf(n)), n[1] \in before'[d]
             PROVE  /\ pc'[d] # "remove" /\ d \notin applied'
                    /\ pc'[d] \in {"dropFacts", "dropNodes"} => n \in listed'[d]
  BY DEF Swept, Deletions, Onward, GraphOf
<1>0. d \in Request /\ Op[d] = "delete" /\ RowOf[d] = GraphOf(n) /\ faults = 0
  BY NoFaults DEF Deletions, Shape, RowsTypeOK
<1>1. CASE n \notin nodes
  <2>1. PICK s \in serving : n[1] = s[1] /\ UNCHANGED <<pc, before>>
    BY <1>1, NodesFrom
  <2>2. pc[n[1]] \in {"copy", "join", "named"}
    BY <1>0, <2>1 DEF InCall
  <2>3. QED
    BY <1>0, <2>1, <2>2 DEF RowsInv, Past, Over
<1>2. CASE n \in nodes
  <2>1. Owns(n[1]) /\ GraphOf(n) = RowOf[n[1]]
    BY <1>2, NodeOwner DEF Owned, Saved
  <2>2. RowKind(d) # "template"
    BY <1>0, <2>1 DEF Owns, RowKind
  <2>3. CASE pc[d] = "start"
    <3>1. d \notin applied
      BY <2>3 DEF RowsInv, Authors
    <3>2. pc'[d] \in {"start", "group", "done"}
      BY <1>0, <2>2, <2>3, DeletionGoesOn DEF RowsInv
    <3>3. QED
      BY <1>0, <2>2, <2>3, <3>1, <3>2, DeletionGoesOn DEF RowsInv
  <2>4. CASE pc[d] # "start"
    <3>1. n[1] \in before[d]
      BY <1>0, <2>4 DEF Onward
    <3>2. /\ pc[d] # "remove" /\ d \notin applied
          /\ pc[d] \in {"dropFacts", "dropNodes"} => n \in listed[d]
      BY <1>0, <1>2, <3>1 DEF Swept
    <3>3. d \notin applied'
      BY <1>0, <2>2, <3>2, DeletionGoesOn DEF RowsInv
    <3>4. \/ pc'[d] = pc[d] /\ listed'[d] = listed[d]
          \/ pc[d] = "group" /\ pc'[d] = "groupNodes"
          \/ pc'[d] = "dropFacts" /\ {x \in nodes : GraphOf(x) = RowOf[d]} \subseteq listed'[d]
          \/ pc[d] = "dropFacts" /\ pc'[d] = "dropNodes" /\ listed'[d] = listed[d]
          \/ pc[d] = "dropNodes" /\ nodes' = nodes \ listed[d]
      BY <1>0, <2>2, <2>4, <3>2, DeletionGoesOn DEF RowsInv
    <3>5. n \in {x \in nodes : GraphOf(x) = RowOf[d]}
      BY <1>0, <1>2
    <3>6. ~ (pc[d] = "dropNodes" /\ nodes' = nodes \ listed[d])
      BY <3>2
    <3>7. QED
      BY <3>2, <3>3, <3>4, <3>5, <3>6
  <2>5. QED
    BY <2>3, <2>4
<1>3. QED
  BY <1>1, <1>2

LEMMA ApartHolds ==
    ASSUME Shape, RowsInv, Saved, ApartInv
    PROVE  GraphsApart
<1>1. ASSUME NEW n \in nodes, GraphOf(n) # Source
      PROVE  /\ n \notin Entity /\ n[1] \in Request /\ Owns(n[1]) /\ GraphOf(n) = RowOf[n[1]]
             /\ faults = 0 => \A d \in Undone(n[1]) : Overlap(n[1], d)
  <2>1. n \notin Entity
    BY <1>1 DEF GraphOf
  <2>2. n[1] \in Makers /\ Owns(n[1]) /\ GraphOf(n) = RowOf[n[1]]
    BY <2>1, NodeOwner DEF Saved, ApartInv, Owned
  <2>3. n[1] \in Request
    BY <2>2, MakerRows
  <2>4. ASSUME faults = 0, NEW d \in Undone(n[1]) PROVE Overlap(n[1], d)
    BY <2>1, <2>2, <2>4 DEF ApartInv, Swept, Undone, Overlap
  <2>5. QED
    BY <2>1, <2>2, <2>3, <2>4
<1>2. LeftoversWereRaced
  <2> SUFFICES ASSUME faults = 0, NEW n \in nodes, GraphOf(n) # Source,
                      rows[GraphOf(n)].life # "live"
               PROVE  \E d \in Deletions(GraphOf(n)) : Overlap(n[1], d)
    BY DEF LeftoversWereRaced
  <2>1. Undone(n[1]) # {}
    BY <1>1 DEF ApartInv, RowsThere
  <2>2. PICK d \in Undone(n[1]) : Overlap(n[1], d)
    BY <1>1, <2>1
  <2>3. QED
    BY <1>1, <2>2 DEF Undone
<1>3. NeverMixed
  <2> SUFFICES ASSUME NEW m \in Copies, NEW n \in Copies, m[1] # n[1]
               PROVE  \E d \in Deletions(Target) : d \in applied /\
                         (Overlap(m[1], d) \/ Overlap(n[1], d) \/ faults > 0)
    BY DEF NeverMixed
  <2>1. /\ m \in nodes /\ GraphOf(m) = Target /\ n \in nodes /\ GraphOf(n) = Target
        /\ Target # Source
    BY CloneAssumption DEF Copies
  <2>2. PICK d : d \in Undone(m[1]) \cup Undone(n[1])
    <3>1. Undone(m[1]) \cup Undone(n[1]) # {}
      BY <1>1, <2>1 DEF ApartInv, OneOwner
    <3>2. QED
      BY <3>1
  <2>3. d \in Deletions(Target) /\ d \in applied
    BY <1>1, <2>1, <2>2 DEF Undone
  <2>4. faults = 0 \/ faults > 0
    BY RowsAssumption DEF Shape, RowsTypeOK
  <2>5. QED
    BY <1>1, <2>1, <2>2, <2>3, <2>4
<1>4. QED
  BY <1>2, <1>3 DEF GraphsApart

LEMMA SavedAtStart ==
    ASSUME Init
    PROVE  Saved /\ ApartInv
<1>1. /\ nodes = AtStart /\ facts = FactsAtStart /\ serving = {} /\ applied = {}
      /\ todo = [q \in Request |-> {}] /\ matched = [q \in Request |-> {}]
      /\ call = [q \in Request |-> Nothing] /\ listed = [q \in Request |-> {}]
      /\ pc = [q \in Request |-> "start"]
  BY DEF Init, RowsInit
<1>2. AtStart \subseteq Entity /\ FactsAtStart \subseteq Fact
  BY CloneAssumption
<1>3. NodesSaved /\ FactsSaved /\ CallsSent /\ Listed /\ Asked
  BY <1>1, <1>2 DEF NodesSaved, FactsSaved, CallsSent, Listed, Asked
<1>4. Held
  BY <1>1 DEF Held
<1>5. GraphKinds
  BY CloneAssumption DEF Init, RowsInit, GraphKinds
<1>6. Owned /\ LiveCopies /\ RowsThere /\ OneOwner /\ InCall /\ Swept
  BY <1>1, <1>2 DEF Owned, Filling, LiveCopies, RowsThere, OneOwner, InCall, Swept, Owns
<1>7. QED
  BY <1>3, <1>4, <1>5, <1>6 DEF Saved, ApartInv

(* What is saved, whichever requests are made and however they meet.       *)
THEOREM SavedHolds == Spec => []Saved /\ []ApartInv
<1>1. Init => Saved /\ ApartInv
  BY SavedAtStart
<1>2. Shape /\ RowsInv /\ Saved /\ ApartInv /\ [Next]_vars => Saved' /\ ApartInv'
  <2> SUFFICES ASSUME Shape, RowsInv, Saved, ApartInv, [Next]_vars PROVE Saved' /\ ApartInv'
    OBVIOUS
  <2>1. Onward
    BY StepsOnward
  <2>2. Saved'
    BY <2>1, SavedNext
  <2>3. Owned' /\ GraphKinds' /\ LiveCopies'
    BY <2>1, OwnedNext, LiveCopiesNext DEF ApartInv
  <2>4. RowsThere' /\ OneOwner'
    BY <2>1, RowsThereNext, OneOwnerNext DEF ApartInv, Saved
  <2>5. InCall' /\ Swept'
    BY <2>1, InCallNext, SweptNext DEF ApartInv
  <2>6. QED
    BY <2>2, <2>3, <2>4, <2>5 DEF ApartInv
<1>3. QED
  BY <1>1, <1>2, ShapeHolds, RowsHold, PTL DEF Spec

(* GraphsApart: whatever requests are made of whatever graphs, what is     *)
(* left under an id without a record was raced by its deletion, and two    *)
(* clones are mixed only if one was deleted while it was copying.          *)
THEOREM GraphsStayApart == Spec => []GraphsApart
<1>1. Shape /\ RowsInv /\ Saved /\ ApartInv => GraphsApart
  BY ApartHolds
<1>2. QED
  BY <1>1, ShapeHolds, RowsHold, SavedHolds, PTL

-----------------------------------------------------------------------------
(* Nothing fails, and neither graph is deleted.                            *)
Undisturbed == faults = 0 /\ Deletions(Source) \cup Deletions(Target) = {}

(* The fact a clone waits for is on its way: what was saved of it is there.*)
Flying(q, f) ==
    /\ call[q] = <<f>>
    /\ \E k \in 0..2 : /\ <<q, f, k>> \in serving
                       /\ k >= 1 => <<q, f, "subject">> \in nodes
                       /\ k = 2 => <<q, f, "object">> \in nodes

LateNode(q, n) == n \notin AtStart /\ Meanwhile(q) # {}
Answered(q) == reply[q] = 200

(* The copies of entities are the ones that were sent, but for the last    *)
(* one sent, which is still to be saved.                                   *)
InStep(q) ==
    /\ \A n \in matched[q] :
          <<q, n>> \in nodes \/ (call[q] = <<n>> /\ <<q, n, 0>> \in serving)
    /\ \A n \in Entity :
          <<q, n>> \in nodes \/ (\E k \in 0..2 : <<q, n, k>> \in serving) => n \in matched[q]

(* What is left to copy, at each of the two loops.                         *)
Left(q) ==
    /\ pc[q] \notin {"copy", "join", "dead"} => call[q] = Nothing /\ todo[q] = {}
    /\ pc[q] = "copy" => todo[q] \subseteq Entity
    /\ pc[q] = "join" => todo[q] \subseteq Fact
    /\ pc[q] \in {"start", "target", "nodes"} => matched[q] = {}
    /\ \A n \in matched[q] \cup (todo[q] \cap Entity) : n \in AtStart \/ Writes # {}

(* The entities it has taken: all those listed.  What it listed of the     *)
(* facts is in work, copied, or left out.                                  *)
Taken(q) == matched[q] \cup (todo[q] \cap Entity)
Dealt(q) == {f \in SourceFacts : \/ f \in todo[q] \/ <<q, f>> \in facts \/ Flying(q, f)
                                 \/ ~ EndsOf(f) \subseteq matched[q]}
AllNodes(q) ==
    pc[q] \in {"copy", "edges", "join"} \/ Answered(q) =>
       Cardinality(Taken(q)) = Limit \/ \A n \in SourceNodes : n \in Taken(q) \/ LateNode(q, n)
AllFacts(q) ==
    pc[q] = "join" \/ Answered(q) =>
       \/ Cardinality(Dealt(q)) >= Limit
       \/ \A f \in SourceFacts : f \in Dealt(q) \/ SavedLate(q, f)
Kept(q) == InStep(q) /\ Left(q) /\ AllNodes(q) /\ AllFacts(q)

SourceKept ==
    /\ AtStart \subseteq nodes /\ FactsAtStart \subseteq facts
    /\ \A n \in nodes \cap Entity : n \in AtStart \/ Writes # {}

CompleteInv == Undisturbed => SourceKept /\ \A q \in Clones : Kept(q)

LEMMA CloneRows ==
    ASSUME Shape, NEW q \in Clones
    PROVE  q \in Request /\ q \in Makers /\ RowOf[q] = Target /\ Op[q] = "clone"
<1>1. q \in Makers
  BY DEF Makers, Clones
<1>2. QED
  BY <1>1, MakerRows DEF Clones

(* Undisturbed, nothing that is in either graph goes.                      *)
LEMMA NothingGoes ==
    ASSUME Shape, Saved, Onward, [Next]_vars, Undisturbed'
    PROVE  /\ Undisturbed /\ facts \subseteq facts'
           /\ \A n \in nodes : GraphOf(n) \in {Source, Target} => n \in nodes'
<1>1. Undisturbed
  BY NoFaults DEF Undisturbed, Deletions, Onward
<1>2. ASSUME NEW d \in Request, DropGroup(d)
      PROVE  /\ facts \subseteq facts'
             /\ \A n \in nodes : GraphOf(n) \in {Source, Target} => n \in nodes'
  <2>1. RowOf[d] \notin {Source, Target}
    <3>1. d \in Deletions(RowOf[d])
      BY <1>2, AtWork DEF DropGroup, Saved
    <3>2. QED
      BY <1>1, <3>1 DEF Undisturbed
  <2>2. \A x \in listed[d] : GraphOf(x) \notin {Source, Target}
    BY <2>1 DEF Saved, Listed
  <2>3. ASSUME NEW f \in facts
        PROVE  GraphOf(f) \in {Source, Target} /\ \A n \in EndsOf(f) : GraphOf(n) \in {Source, Target}
    <3>1. CASE f \in Fact
      BY <3>1, CloneAssumption DEF EndsOf, GraphOf
    <3>2. CASE f \notin Fact
      <4>1. PICK q \in Clones, x \in Fact : f = <<q, x>> /\ GraphOf(f) = Target
        BY <3>2, FactOwner DEF Saved
      <4>2. q \in Request /\ RowOf[q] = Target /\ x \in What
        BY CloneRows DEF What
      <4>3. EndsOf(f) \subseteq CopiesOf(q, x)
        BY <3>2, <4>1 DEF EndsOf, CopiesOf
      <4>4. \A n \in EndsOf(f) : GraphOf(n) = Target
        BY <4>2, <4>3, CopyOf
      <4>5. QED
        BY <4>1, <4>4
    <3>3. QED
      BY <3>1, <3>2
  <2>4. PICK ns, fs : Dropped(d, ns, fs) /\ ns \subseteq listed[d] /\ fs \subseteq listed[d]
    BY <1>2 DEF DropGroup
  <2>5. QED
    BY <2>2, <2>3, <2>4 DEF Dropped
<1>3. ASSUME NEW q \in Request, CloneStep(q), ~ DropGroup(q)
      PROVE  nodes \subseteq nodes' /\ facts \subseteq facts'
  BY <1>3 DEF CloneStep, SelectSource, InsertTarget, ListNodes, ListEdges, Send, SendOwn, Receive,
       LoopEnds, ListGroup, DropFails, WorkerSaves, graphVars
<1>4. ASSUME NEW s \in serving, Serve(s) \/ ServiceFails(s)
      PROVE  nodes \subseteq nodes' /\ facts \subseteq facts'
  BY <1>4 DEF Serve, SaveNext, ServiceFails
<1>5. QED
  BY <1>1, <1>2, <1>3, <1>4 DEF Next, CloneStep, RowsOnly, BackendCrash, vars, graphVars

(* In particular, no copy goes and nothing of the source's own.            *)
LEMMA CopiesStay ==
    ASSUME Shape, Saved, Onward, [Next]_vars, Undisturbed'
    PROVE  /\ nodes \cap Entity \subseteq nodes'
           /\ \A q \in Clones, x \in What : CopiesOf(q, x) \cap nodes \subseteq nodes'
<1>1. \A n \in nodes \cap Entity : GraphOf(n) = Source
  BY DEF GraphOf
<1>2. \A q \in Clones, x \in What : \A c \in CopiesOf(q, x) : GraphOf(c) = Target
  BY CloneRows, CopyOf
<1>3. QED
  BY <1>1, <1>2, NothingGoes

(* The source grows by what the worker writes, and the write ends while    *)
(* whoever is at work is.                                                  *)
LEMMA SourceGrows ==
    ASSUME Shape, Past, Saved, Onward, [Next]_vars
    PROVE  /\ Writes \subseteq Writes'
           /\ \A q \in Request : pc[q] # "start" => Meanwhile(q) \subseteq Meanwhile(q)'
           /\ \/ nodes' \cap Entity \subseteq nodes /\ facts' \cap Fact \subseteq facts
              \/ \E w \in Writes' \ Writes :
                    \A q \in Request : pc[q] # "start" => w \in Meanwhile(q)'
<1>0. /\ made' = made /\ made \subseteq Request /\ pc \in [Request -> Labels]
      /\ \A q \in Request : /\ pc[q] \in Over => pc'[q] = pc[q]
                            /\ pc[q] # "start" => before'[q] = before[q]
  BY DEF Onward, Shape, RowsTypeOK
<1>1. Writes \subseteq Writes'
  BY <1>0 DEF Writes, Over
<1>2. \A q \in Request : pc[q] # "start" => Meanwhile(q) \subseteq Meanwhile(q)'
  BY <1>0, <1>1 DEF Meanwhile
<1>3. ASSUME NEW w \in Request, WorkerSaves(w)
      PROVE  w \in Writes' \ Writes /\ \A q \in Request : pc[q] # "start" => w \in Meanwhile(q)'
  <2>1. w \in made /\ pc[w] = "start" /\ Op[w] = "write" /\ pc'[w] = "done"
    BY <1>0, <1>3 DEF WorkerSaves, Answer
  <2>2. w \in Writes' \ Writes
    BY <1>0, <2>1 DEF Writes
  <2>3. ASSUME NEW q \in Request, pc[q] # "start" PROVE w \notin before'[q]
    BY <1>0, <2>1, <2>3 DEF Past, Over
  <2>4. QED
    BY <2>2, <2>3 DEF Meanwhile
<1>4. ASSUME NEW q \in Request, CloneStep(q), ~ WorkerSaves(q)
      PROVE  nodes' \subseteq nodes /\ facts' \subseteq facts
  BY <1>4 DEF CloneStep, SelectSource, InsertTarget, ListNodes, ListEdges, Send, SendOwn, Receive,
       LoopEnds, ListGroup, DropGroup, Dropped, DropFails, graphVars
<1>5. ASSUME NEW s \in serving, Serve(s)
      PROVE  nodes' \cap Entity \subseteq nodes /\ facts' \cap Fact \subseteq facts
  <2>1. PICK q \in Makers, x \in What, k \in 0..2 : s = <<q, x, k>>
    BY DEF Saved, CallsSent
  <2>2. nodes' \subseteq nodes \cup CopiesOf(q, x) /\ facts' \subseteq facts \cup CopiesOf(q, x)
    BY <1>5, <2>1 DEF Serve, SaveNext, CopiesOf
  <2>3. CopiesOf(q, x) \cap (Entity \cup Fact) = {}
    BY MakerRows, CopyOf
  <2>4. QED
    BY <2>2, <2>3
<1>6. CASE \E w \in Request : WorkerSaves(w)
  BY <1>1, <1>2, <1>3, <1>6
<1>7. CASE ~ \E w \in Request : WorkerSaves(w)
  <2>1. nodes' \cap Entity \subseteq nodes /\ facts' \cap Fact \subseteq facts
    BY <1>4, <1>5, <1>7 DEF Next, CloneStep, RowsOnly, BackendCrash, ServiceFails, vars, graphVars
  <2>2. QED
    BY <1>1, <1>2, <2>1
<1>8. QED
  BY <1>6, <1>7

(* What is listed of the source, now and after a step.                    *)
LEMMA SourcesNow ==
    ASSUME Shape, Saved, Saved', Onward
    PROVE  /\ SourceNodes = nodes \cap Entity /\ SourceFacts = facts \cap Fact
           /\ SourceNodes' = nodes' \cap Entity /\ SourceFacts' = facts' \cap Fact
<1>1. SourceNodes = nodes \cap Entity /\ SourceFacts = facts \cap Fact
  BY SourcesOwn DEF Saved
<1>2. Makers' = Makers /\ Clones' = Clones
  BY DEF Onward, Makers, Clones
<1>3. /\ \A n \in nodes' : n \in Entity \/ \E q \in Makers, x \in What : n \in CopiesOf(q, x)
      /\ \A f \in facts' : f \in Fact \/ \E q \in Clones, x \in Fact : f = <<q, x>>
  BY <1>2 DEF Saved, NodesSaved, FactsSaved
<1>4. /\ SourceNodes' = {n \in nodes' : GraphOf(n) = Source}
      /\ SourceFacts' = {f \in facts' : GraphOf(f) = Source}
  BY DEF SourceNodes, SourceFacts, GraphOf
<1>5. SourceNodes' = nodes' \cap Entity /\ SourceFacts' = facts' \cap Fact
  BY <1>3, <1>4, SourcesOf
<1>6. QED
  BY <1>1, <1>5

(* The source only grows.                                                  *)
LEMMA SourceCounted ==
    ASSUME Shape, Saved, Saved', Onward, [Next]_vars, Undisturbed'
    PROVE  /\ IsFiniteSet(SourceNodes) /\ IsFiniteSet(SourceFacts) /\ IsFiniteSet(SourceFacts')
           /\ SourceNodes \subseteq SourceNodes' /\ SourceFacts \subseteq SourceFacts'
<1>1. /\ SourceNodes = nodes \cap Entity /\ SourceFacts = facts \cap Fact
      /\ SourceNodes' = nodes' \cap Entity /\ SourceFacts' = facts' \cap Fact
  BY SourcesNow
<1>2. IsFiniteSet(SourceNodes) /\ IsFiniteSet(SourceFacts) /\ IsFiniteSet(SourceFacts')
  BY <1>1, FS_Subset, CloneAssumption
<1>3. SourceNodes \subseteq SourceNodes' /\ SourceFacts \subseteq SourceFacts'
  BY <1>1, CopiesStay, NothingGoes
<1>4. QED
  BY <1>2, <1>3

(* What a step that is not of the clone q leaves of it.                    *)
Unmoved(q) ==
    /\ pc'[q] = pc[q] /\ reply'[q] = reply[q]
    /\ todo'[q] = todo[q] /\ matched'[q] = matched[q] /\ call'[q] = call[q]
    /\ \A x, k : <<q, x, k>> \in serving' <=> <<q, x, k>> \in serving

Listing(q) == SelectSource(q) \/ InsertTarget(q) \/ ListNodes(q) \/ ListEdges(q)
Copying(q) == Send(q) \/ Receive(q) \/ LoopEnds(q)
Served(q) == \E s \in serving : s[1] = q /\ Serve(s)

LEMMA StepOfClone ==
    ASSUME Shape, Saved, Onward, [Next]_vars, Undisturbed', NEW q \in Clones
    PROVE  Listing(q) \/ Copying(q) \/ Served(q) \/ Unmoved(q)
<1>0. /\ q \in Request /\ Op[q] = "clone" /\ ~ Fault /\ Passes(q, pc[q])
      /\ todo = [p \in Request |-> todo[p]] /\ matched = [p \in Request |-> matched[p]]
      /\ call = [p \in Request |-> call[p]]
  BY CloneRows, FaultFaults DEF Undisturbed, Shape, Saved, Held
<1>1. CASE UNCHANGED <<pc, reply, todo, matched, call, serving>>
  BY <1>1 DEF Unmoved
<1>2. ASSUME NEW p \in Request, RowsOnly(p) PROVE Unmoved(q)
  <2>1. p # q
    BY <1>0, <1>2 DEF RowsOnly, RowsStep, Select, Update, Remove, Create, DeleteTypes, InsertTypes,
         Passes
  <2>2. pc'[q] = pc[q] /\ reply'[q] = reply[q]
    BY <1>0, <1>2, <2>1, RowsMove, MovedIsOnward DEF RowsOnly
  <2>3. QED
    BY <1>2, <2>2 DEF Unmoved, RowsOnly, graphVars
<1>3. ASSUME NEW p \in Request, p # q, CloneStep(p) PROVE Unmoved(q)
  <2>1. pc'[q] = pc[q] /\ reply'[q] = reply[q]
    BY <1>0, <1>3, CloneMoves, MovedIsOnward
  <2>2. todo'[q] = todo[q]
    BY <1>0, <1>3 DEF CloneStep, SelectSource, InsertTarget, ListNodes, ListEdges, Lists, Send,
         SendOwn, Receive, LoopEnds, ListGroup, DropGroup, DropFails, WorkerSaves, graphVars
  <2>3. matched'[q] = matched[q] /\ call'[q] = call[q]
    BY <1>0, <1>3 DEF CloneStep, SelectSource, InsertTarget, ListNodes, ListEdges, Send,
         SendOwn, Receive, LoopEnds, ListGroup, DropGroup, DropFails, WorkerSaves, graphVars
  <2>4. serving' = serving \/ \E x : serving' = serving \cup {<<p, x, 0>>}
    BY <1>3 DEF CloneStep, SelectSource, InsertTarget, ListNodes, ListEdges, Send,
         SendOwn, Receive, LoopEnds, ListGroup, DropGroup, DropFails, WorkerSaves, graphVars
  <2>5. \A x, k : <<q, x, k>> \in serving' <=> <<q, x, k>> \in serving
    BY <1>3, <2>4
  <2>6. QED
    BY <2>1, <2>2, <2>3, <2>5 DEF Unmoved
<1>4. ASSUME CloneStep(q) PROVE Listing(q) \/ Copying(q)
  BY <1>0, <1>4 DEF CloneStep, Listing, Copying, SendOwn, ListGroup, DropGroup, DropFails,
       WorkerSaves, Passes
<1>5. ASSUME NEW s \in serving, Serve(s), s[1] # q PROVE Unmoved(q)
  <2>1. UNCHANGED <<pc, reply, todo, matched, call>>
    BY <1>5 DEF Serve, rowVars
  <2>2. serving' = serving \ {s} \/ serving' = (serving \ {s}) \cup {<<s[1], s[2], s[3] + 1>>}
    BY <1>5 DEF Serve, SaveNext
  <2>3. \A x, k : <<q, x, k>> \in serving' <=> <<q, x, k>> \in serving
    BY <1>5, <2>2
  <2>4. QED
    BY <2>1, <2>3 DEF Unmoved
<1>6. ~ BackendCrash /\ \A s \in serving : ~ ServiceFails(s)
  BY <1>0 DEF BackendCrash, Crash, ServiceFails
<1>7. CASE UNCHANGED vars
  BY <1>1, <1>7 DEF vars, rowVars, graphVars
<1>8. QED
  BY <1>2, <1>3, <1>4, <1>5, <1>6, <1>7 DEF Next, CloneStep, Served

(* A copy appears when the service serves its request.                     *)
LEMMA CopiesCome ==
    ASSUME Shape, Saved, [Next]_vars, NEW q \in Clones, NEW x \in What,
           NEW c \in CopiesOf(q, x), c \in nodes', c \notin nodes
    PROVE  Served(q)
<1>1. c \notin Entity /\ c[1] = q
  BY CloneRows, CopyOf
<1>2. QED
  BY <1>1, NodesFrom DEF Served

LEMMA LateStays ==
    ASSUME Shape, Past, Saved, Onward, [Next]_vars, NEW q \in Request, pc[q] # "start"
    PROVE  /\ \A n : LateNode(q, n) => LateNode(q, n)'
           /\ \A f : SavedLate(q, f) => SavedLate(q, f)'
<1>1. Writes \subseteq Writes' /\ Meanwhile(q) \subseteq Meanwhile(q)'
  BY SourceGrows
<1>2. \A n : LateNode(q, n) => LateNode(q, n)'
  BY <1>1 DEF LateNode
<1>3. ASSUME NEW f, SavedLate(q, f) PROVE SavedLate(q, f)'
  <2>1. PICK w \in Meanwhile(q) : EndsOf(f) \subseteq AtStart \/ Writes # {w}
    BY <1>3 DEF SavedLate
  <2>2. w \in Meanwhile(q)' /\ w \in Writes
    BY <1>1, <2>1 DEF Meanwhile
  <2>3. EndsOf(f) \subseteq AtStart \/ Writes' # {w}
    BY <1>1, <2>1, <2>2
  <2>4. EndsOf(f)' = EndsOf(f)
    BY DEF EndsOf
  <2>5. QED
    BY <1>3, <2>2, <2>3, <2>4 DEF SavedLate
<1>4. QED
  BY <1>2, <1>3

(* A clone that stays through with what it was through with owes no more.  *)
LEMMA DealtStays ==
    ASSUME Shape, Past, Saved, Saved', Onward, [Next]_vars, Undisturbed',
           NEW q \in Clones, AllFacts(q), pc[q] = "join" \/ Answered(q), pc[q] # "start",
           Dealt(q) \subseteq Dealt(q)',
           \A f \in SourceFacts' \ SourceFacts : f \in Dealt(q)' \/ SavedLate(q, f)'
    PROVE  AllFacts(q)'
<1>1. q \in Request
  BY CloneRows
<1>2. CASE Cardinality(Dealt(q)) >= Limit
  <2>1. IsFiniteSet(Dealt(q)') /\ IsFiniteSet(Dealt(q))
    BY SourceCounted, FS_Subset DEF Dealt
  <2>2. /\ Cardinality(Dealt(q)) <= Cardinality(Dealt(q)')
        /\ Cardinality(Dealt(q)) \in Nat /\ Cardinality(Dealt(q)') \in Nat
    BY <2>1, FS_Subset, FS_CardinalityType
  <2>3. Cardinality(Dealt(q)') >= Limit
    BY <1>2, <2>2, CloneAssumption
  <2>4. QED
    BY <2>3 DEF AllFacts
<1>3. CASE \A f \in SourceFacts : f \in Dealt(q) \/ SavedLate(q, f)
  <2>1. \A f : SavedLate(q, f) => SavedLate(q, f)'
    BY <1>1, LateStays
  <2>2. QED
    BY <1>3, <2>1 DEF AllFacts
<1>4. QED
  BY <1>2, <1>3 DEF AllFacts

(* What a clone has of the source while others are at work.                *)
LEMMA KeptUnmoved ==
    ASSUME Shape, Past, Saved, Saved', Onward, [Next]_vars, Undisturbed', SourceKept,
           NEW q \in Clones, Kept(q), Unmoved(q), ~ Served(q)
    PROVE  Kept(q)'
<1>0. /\ q \in Request /\ matched[q] \subseteq Entity
      /\ pc[q] \in {"copy", "edges", "join"} \/ Answered(q) => pc[q] # "start"
  BY CloneRows DEF Saved, Held, Answered, Shape
<1>1. \A n \in Entity : <<q, n>> \in nodes' <=> <<q, n>> \in nodes
  BY CopiesStay, CopiesCome DEF What, CopiesOf
<1>2. InStep(q)'
  BY <1>0, <1>1 DEF InStep, Kept, Unmoved
<1>3. Left(q)'
  <2>1. Writes \subseteq Writes'
    BY SourceGrows
  <2>2. QED
    BY <2>1 DEF Left, Kept, Unmoved
<1>4. AllNodes(q)'
  <2> SUFFICES ASSUME pc[q] \in {"copy", "edges", "join"} \/ Answered(q)
               PROVE  \/ Cardinality(Taken(q))' = Limit
                      \/ \A n \in SourceNodes' : n \in Taken(q)' \/ LateNode(q, n)'
    BY DEF AllNodes, Answered, Unmoved
  <2>1. Taken(q)' = Taken(q)
    BY DEF Taken, Unmoved
  <2>2. CASE Cardinality(Taken(q)) = Limit
    BY <2>1, <2>2
  <2>3. ASSUME \A n \in SourceNodes : n \in Taken(q) \/ LateNode(q, n), NEW n \in SourceNodes'
        PROVE  n \in Taken(q)' \/ LateNode(q, n)'
    <3>1. CASE n \in SourceNodes
      BY <1>0, <2>1, <2>3, <3>1, LateStays
    <3>2. CASE n \notin SourceNodes
      <4>1. n \in nodes' \cap Entity /\ n \notin nodes
        BY <3>2, <2>3, SourcesNow
      <4>2. n \notin AtStart
        BY <4>1 DEF SourceKept
      <4>3. Meanwhile(q)' # {}
        BY <1>0, <4>1, SourceGrows
      <4>4. QED
        BY <4>2, <4>3 DEF LateNode
    <3>3. QED
      BY <3>1, <3>2
  <2>4. QED
    BY <2>2, <2>3 DEF Kept, AllNodes
<1>5. AllFacts(q)'
  <2> SUFFICES ASSUME pc[q] = "join" \/ Answered(q) PROVE AllFacts(q)'
    BY DEF AllFacts, Answered, Unmoved
  <2>1. Dealt(q) \subseteq Dealt(q)'
    <3> SUFFICES ASSUME NEW f \in Dealt(q) PROVE f \in Dealt(q)'
      OBVIOUS
    <3>1. f \in SourceFacts' /\ f \in What
      BY SourceCounted, SourcesNow DEF Dealt, What
    <3>2. Flying(q, f) => Flying(q, f)'
      BY <3>1, CopiesStay DEF Flying, Unmoved, CopiesOf
    <3>3. facts \subseteq facts'
      BY NothingGoes
    <3>4. QED
      BY <3>1, <3>2, <3>3 DEF Dealt, Unmoved, EndsOf
  <2>2. ASSUME NEW f \in SourceFacts', f \notin SourceFacts, EndsOf(f) \subseteq matched'[q]
        PROVE  SavedLate(q, f)'
    <3>1. f \in facts' \cap Fact /\ f \notin facts
      BY <2>2, SourcesNow
    <3>2. f \notin FactsAtStart
      BY <3>1 DEF SourceKept
    <3>3. PICK w \in Writes' \ Writes : w \in Meanwhile(q)'
      BY <1>0, <3>1, SourceGrows
    <3>4. EndsOf(f) \subseteq AtStart \/ Writes # {}
      BY <2>2 DEF Kept, Left, Unmoved
    <3>5. Writes # {} => Writes' # {w}
      BY <3>3, SourceGrows
    <3>6. QED
      BY <3>2, <3>3, <3>4, <3>5 DEF SavedLate, EndsOf
  <2>3. \A f \in SourceFacts' \ SourceFacts : f \in Dealt(q)' \/ SavedLate(q, f)'
    BY <2>2 DEF Dealt, EndsOf
  <2>4. QED
    BY <1>0, <2>1, <2>3, DealtStays DEF Kept
<1>6. QED
  BY <1>2, <1>3, <1>4, <1>5 DEF Kept

(* What it has when it goes on by itself.                                  *)
LEMMA KeptListing ==
    ASSUME Shape, Past, Saved, Saved', Onward, [Next]_vars, Undisturbed', SourceKept,
           NEW q \in Clones, Kept(q), Listing(q)
    PROVE  Kept(q)'
<1>0. /\ q \in Request /\ ~ Fault /\ pc \in [Request -> Labels] /\ reply \in [Request -> Statuses]
      /\ todo = [p \in Request |-> todo[p]] /\ Passes(q, pc[q])
      /\ pc[q] # "done" => reply[q] = 0 /\ Entity \cap Fact = {}
  BY CloneRows, FaultFaults, CloneAssumption DEF Undisturbed, Shape, Saved, Held, RowsTypeOK, Statuses
<1>1. UNCHANGED <<nodes, facts, matched, call, serving>>
  BY DEF Listing, SelectSource, InsertTarget, ListNodes, ListEdges, graphVars
<1>2. InStep(q)'
  BY <1>1 DEF InStep, Kept
<1>3. Writes \subseteq Writes' /\ \A n : pc[q] # "start" /\ LateNode(q, n) => LateNode(q, n)'
  BY <1>0, SourceGrows, LateStays
<1>4. ASSUME NEW label, Goto(q, label) PROVE pc'[q] = label /\ reply'[q] = reply[q]
  BY <1>0, <1>4 DEF Goto
<1>5. ASSUME NEW status, Answer(q, status) PROVE pc'[q] = "done" /\ reply'[q] = status
  BY <1>0, <1>5 DEF Answer
<1>6. CASE SelectSource(q) \/ InsertTarget(q)
  <2>1. /\ pc[q] \in {"start", "target"} /\ todo' = todo
        /\ pc'[q] \in {"target", "nodes", "done"} /\ reply'[q] # 200
    BY <1>0, <1>4, <1>5, <1>6 DEF SelectSource, InsertTarget, Insert, graphVars
  <2>2. Left(q)'
    BY <1>1, <1>3, <2>1 DEF Left, Kept
  <2>3. AllNodes(q)' /\ AllFacts(q)'
    BY <2>1 DEF AllNodes, AllFacts, Answered
  <2>4. QED
    BY <1>2, <2>2, <2>3 DEF Kept
<1>7. ASSUME NEW all, Lists(q, all), IsFiniteSet(all)
      PROVE  todo'[q] \subseteq all /\ (Cardinality(todo'[q]) = Limit \/ todo'[q] = all)
  <2>1. PICK here \in SUBSET all :
          /\ Cardinality(here) = IF Cardinality(all) < Limit THEN Cardinality(all) ELSE Limit
          /\ todo' = [todo EXCEPT ![q] = here]
    BY <1>0, <1>7 DEF Lists, Statement
  <2>2. todo'[q] = here
    BY <1>0, <2>1
  <2>3. Cardinality(here) = Cardinality(all) \/ Cardinality(here) = Limit
    BY <2>1
  <2>4. QED
    BY <1>7, <2>2, <2>3, FS_Subset
<1>8. CASE ListNodes(q)
  <2>1. /\ pc[q] = "nodes" /\ pc'[q] = "copy" /\ reply'[q] = 0
        /\ todo'[q] \subseteq SourceNodes
        /\ Cardinality(todo'[q]) = Limit \/ todo'[q] = SourceNodes
    BY <1>0, <1>4, <1>7, <1>8, SourceCounted DEF ListNodes
  <2>2. SourceNodes = nodes \cap Entity /\ SourceNodes' = SourceNodes
    BY <1>1, SourcesNow
  <2>3. Left(q)'
    BY <1>0, <1>1, <1>3, <2>1, <2>2 DEF Left, Kept, SourceKept
  <2>4. AllNodes(q)'
    <3>1. matched'[q] = {}
      BY <1>1, <2>1 DEF Kept, Left
    <3>2. Taken(q)' = todo'[q]
      BY <2>1, <2>2, <3>1 DEF Taken
    <3>3. QED
      BY <2>1, <2>2, <3>2 DEF AllNodes, Answered
  <2>5. AllFacts(q)'
    BY <2>1 DEF AllFacts, Answered
  <2>6. QED
    BY <1>2, <2>3, <2>4, <2>5 DEF Kept
<1>9. CASE ListEdges(q)
  <2>1. /\ pc[q] = "edges" /\ pc'[q] = "join" /\ reply'[q] = 0
        /\ todo'[q] \subseteq SourceFacts
        /\ Cardinality(todo'[q]) = Limit \/ todo'[q] = SourceFacts
    BY <1>0, <1>4, <1>7, <1>9, SourceCounted DEF ListEdges
  <2>2. SourceFacts = facts \cap Fact /\ SourceFacts' = SourceFacts /\ SourceNodes' = SourceNodes
    BY <1>1, SourcesNow
  <2>3. Left(q)'
    BY <1>0, <1>1, <1>3, <2>1, <2>2 DEF Left, Kept
  <2>4. AllNodes(q)'
    <3>1. todo[q] = {}
      BY <2>1 DEF Kept, Left
    <3>2. todo'[q] \cap Entity = {}
      BY <1>0, <2>1, <2>2
    <3>3. Taken(q)' = Taken(q)
      BY <1>1, <3>1, <3>2 DEF Taken
    <3>4. QED
      BY <1>3, <2>1, <2>2, <3>3 DEF Kept, AllNodes, Answered
  <2>5. AllFacts(q)'
    <3>1. todo'[q] \subseteq Dealt(q)'
      BY <2>1, <2>2 DEF Dealt
    <3>2. CASE todo'[q] = SourceFacts
      BY <2>2, <3>1, <3>2 DEF AllFacts
    <3>3. CASE Cardinality(todo'[q]) = Limit
      <4>1. IsFiniteSet(Dealt(q)') /\ IsFiniteSet(todo'[q])
        BY <2>1, SourceCounted, FS_Subset DEF Dealt
      <4>2. /\ Cardinality(todo'[q]) <= Cardinality(Dealt(q)')
            /\ Cardinality(Dealt(q)') \in Nat
        BY <3>1, <4>1, FS_Subset, FS_CardinalityType
      <4>3. QED
        BY <3>3, <4>2, CloneAssumption DEF AllFacts
    <3>4. QED
      BY <2>1, <3>2, <3>3
  <2>6. QED
    BY <1>2, <2>3, <2>4, <2>5 DEF Kept
<1>10. QED
  BY <1>6, <1>8, <1>9 DEF Listing

LEMMA KeptSending ==
    ASSUME Shape, Past, Saved, Saved', Onward, [Next]_vars, Undisturbed', SourceKept,
           NEW q \in Clones, Kept(q), Send(q)
    PROVE  Kept(q)'
<1>0. /\ q \in Request /\ Entity \cap Fact = {} /\ \A x : <<x>> # Nothing
      /\ todo = [p \in Request |-> todo[p]] /\ matched = [p \in Request |-> matched[p]]
      /\ call = [p \in Request |-> call[p]]
  BY CloneRows, CloneAssumption DEF Saved, Held, Nothing
<1>1. PICK x \in todo[q] :
        /\ todo' = [todo EXCEPT ![q] = @ \ {x}]
        /\ matched' = [matched EXCEPT ![q] = IF x \in Entity THEN @ \cup {x} ELSE @]
        /\ IF Wants(q, x)
           THEN call' = [call EXCEPT ![q] = <<x>>] /\ serving' = serving \cup {<<q, x, 0>>}
           ELSE UNCHANGED <<call, serving>>
  BY DEF Send
<1>2. /\ pc[q] \in {"copy", "join"} /\ call[q] = Nothing
      /\ UNCHANGED <<pc, reply, nodes, facts, kind, made, before>>
  BY DEF Send, rowVars
<1>3. reply[q] # 200 /\ \A n \in matched[q] : <<q, n>> \in nodes
  <2>1. reply[q] = 0
    BY <1>0, <1>2 DEF Shape
  <2>2. \A n \in matched[q] : <<q, n>> \in nodes
    BY <1>0, <1>2 DEF Kept, InStep
  <2>3. QED
    BY <2>1, <2>2
<1>4. /\ Writes' = Writes /\ Meanwhile(q)' = Meanwhile(q)
      /\ SourceNodes' = SourceNodes /\ SourceFacts' = SourceFacts
  BY <1>2 DEF Writes, Meanwhile, SourceNodes, SourceFacts, GraphOf
<1>5. CASE pc[q] = "copy"
  <2>1. x \in Entity /\ Wants(q, x)
    BY <1>0, <1>5 DEF Kept, Left, Wants
  <2>2. /\ todo'[q] = todo[q] \ {x} /\ matched'[q] = matched[q] \cup {x}
        /\ call'[q] = <<x>> /\ serving' = serving \cup {<<q, x, 0>>}
    BY <1>0, <1>1, <2>1
  <2>3. InStep(q)'
    <3>1. \A n \in matched'[q] : <<q, n>> \in nodes \/ (call'[q] = <<n>> /\ <<q, n, 0>> \in serving')
      BY <1>3, <2>2
    <3>2. ASSUME NEW n \in Entity, NEW k \in 0..2, <<q, n, k>> \in serving' PROVE n \in matched'[q]
      <4>1. <<q, n, k>> \in serving \/ n = x
        BY <2>2, <3>2
      <4>2. QED
        BY <2>2, <4>1 DEF Kept, InStep
    <3>3. \A n \in Entity : <<q, n>> \in nodes => n \in matched'[q]
      BY <2>2 DEF Kept, InStep
    <3>4. QED
      BY <1>2, <3>1, <3>2, <3>3 DEF InStep
  <2>4. Left(q)'
    BY <1>2, <1>4, <1>5, <2>1, <2>2 DEF Kept, Left
  <2>5. AllNodes(q)'
    <3>1. Taken(q)' = Taken(q)
      BY <2>1, <2>2 DEF Taken
    <3>2. QED
      BY <1>2, <1>4, <1>5, <3>1 DEF Kept, AllNodes, LateNode
  <2>6. AllFacts(q)'
    BY <1>2, <1>3, <1>5 DEF AllFacts, Answered
  <2>7. QED
    BY <2>3, <2>4, <2>5, <2>6 DEF Kept
<1>6. CASE pc[q] = "join"
  <2>1. x \in Fact /\ x \notin Entity
    BY <1>0, <1>6 DEF Kept, Left
  <2>2. /\ todo'[q] = todo[q] \ {x} /\ matched'[q] = matched[q]
        /\ Wants(q, x) => call'[q] = <<x>> /\ serving' = serving \cup {<<q, x, 0>>}
        /\ serving' \subseteq serving \cup {<<q, x, 0>>}
    BY <1>0, <1>1, <2>1
  <2>3. InStep(q)'
    <3>1. ASSUME NEW n \in Entity, NEW k \in 0..2, <<q, n, k>> \in serving' PROVE n \in matched'[q]
      <4>1. <<q, n, k>> \in serving \/ n = x
        BY <2>2, <3>1
      <4>2. QED
        BY <2>1, <2>2, <4>1 DEF Kept, InStep
    <3>2. \A n \in Entity : <<q, n>> \in nodes => n \in matched'[q]
      BY <2>2 DEF Kept, InStep
    <3>3. QED
      BY <1>2, <1>3, <2>2, <3>1, <3>2 DEF InStep
  <2>4. Left(q)'
    BY <1>2, <1>4, <1>6, <2>1, <2>2 DEF Kept, Left
  <2>5. AllNodes(q)'
    <3>1. Taken(q)' = Taken(q)
      BY <2>1, <2>2 DEF Taken
    <3>2. QED
      BY <1>2, <1>4, <1>6, <3>1 DEF Kept, AllNodes, LateNode
  <2>6. AllFacts(q)'
    <3>1. ASSUME NEW f \in Dealt(q) PROVE f \in Dealt(q)'
      <4>1. CASE f = x /\ ~ Wants(q, x)
        BY <1>4, <2>2, <3>1, <4>1 DEF Wants, Dealt, EndsOf
      <4>2. CASE f = x /\ Wants(q, x)
        <5>1. call'[q] = <<f>> /\ <<q, f, 0>> \in serving' /\ 0 \in 0..2 /\ ~ (0 >= 1) /\ 0 # 2
          BY <2>2, <4>2
        <5>2. Flying(q, f)'
          BY <5>1 DEF Flying
        <5>3. QED
          BY <1>4, <3>1, <5>2 DEF Dealt
      <4>3. CASE f # x
        <5>1. ~ Flying(q, f)
          BY <1>0, <1>2 DEF Flying
        <5>2. QED
          BY <1>2, <1>4, <2>2, <3>1, <4>3, <5>1 DEF Dealt, EndsOf
      <4>4. QED
        BY <4>1, <4>2, <4>3
    <3>2. QED
      BY <1>4, <1>6, <3>1, DealtStays DEF Kept
  <2>7. QED
    BY <2>3, <2>4, <2>5, <2>6 DEF Kept
<1>7. QED
  BY <1>2, <1>5, <1>6

LEMMA KeptReceiving ==
    ASSUME Shape, Past, Saved, Saved', InCall, Onward, [Next]_vars, Undisturbed', SourceKept,
           NEW q \in Clones, Kept(q), Receive(q) \/ LoopEnds(q)
    PROVE  Kept(q)'
<1>0. /\ q \in Request /\ ~ Fault /\ faults = 0 /\ Passes(q, pc[q]) /\ Op[q] = "clone"
      /\ call = [p \in Request |-> call[p]] /\ pc \in [Request -> Labels]
      /\ reply \in [Request -> Statuses] /\ \A x : <<x>> # Nothing /\ <<x>>[1] = x
      /\ pc[q] # "done" => reply[q] = 0
  BY CloneRows, FaultFaults, NoFaults DEF Undisturbed, Shape, Saved, Held, RowsTypeOK, Statuses, Nothing
<1>1. UNCHANGED <<nodes, facts, todo, matched, serving, made, before>>
  BY DEF Receive, LoopEnds, graphVars
<1>2. SourceNodes' = SourceNodes /\ SourceFacts' = SourceFacts
  BY <1>1 DEF SourceNodes, SourceFacts, GraphOf
<1>3. /\ Writes \subseteq Writes'
      /\ pc[q] # "start" => \A n : LateNode(q, n) => LateNode(q, n)'
      /\ pc[q] # "start" => \A f : SavedLate(q, f) => SavedLate(q, f)'
  BY <1>0, SourceGrows, LateStays
<1>4. CASE Receive(q)
  <2>1. /\ call'[q] = Nothing /\ UNCHANGED <<pc, reply>> /\ call[q] # Nothing
        /\ \A s \in serving : s[1] = q => s[2] # call[q][1]
    BY <1>0, <1>4 DEF Receive
  <2>2. \A x, k : call[q] = <<x>> => <<q, x, k>> \notin serving
    <3> SUFFICES ASSUME NEW x, NEW k, call[q] = <<x>>, <<q, x, k>> \in serving PROVE FALSE
      OBVIOUS
    <3>1. <<q, x, k>>[1] = q /\ <<q, x, k>>[2] = x /\ call[q][1] = x
      BY <1>0
    <3>2. QED
      BY <2>1, <3>1
  <2>3. InStep(q)'
    BY <1>1, <2>2 DEF Kept, InStep
  <2>4. Left(q)'
    BY <1>1, <1>3, <2>1 DEF Kept, Left
  <2>5. pc[q] \in {"copy", "edges", "join"} \/ Answered(q) => pc[q] # "start"
    BY <1>0 DEF Answered
  <2>6. AllNodes(q)'
    <3>1. Taken(q)' = Taken(q)
      BY <1>1 DEF Taken
    <3>2. QED
      BY <1>2, <1>3, <2>1, <2>5, <3>1 DEF Kept, AllNodes, Answered
  <2>7. AllFacts(q)'
    <3> SUFFICES ASSUME pc[q] = "join" \/ Answered(q) PROVE AllFacts(q)'
      BY <2>1 DEF AllFacts, Answered
    <3>1. \A f : ~ Flying(q, f)
      BY <2>2 DEF Flying
    <3>2. Dealt(q) \subseteq Dealt(q)'
      BY <1>1, <1>2, <3>1 DEF Dealt, EndsOf
    <3>3. QED
      BY <1>2, <2>5, <3>2, DealtStays DEF Kept
  <2>8. QED
    BY <2>3, <2>4, <2>6, <2>7 DEF Kept
<1>5. CASE LoopEnds(q)
  <2>1. call[q] = Nothing /\ todo[q] = {} /\ call' = call
    BY <1>5 DEF LoopEnds, graphVars
  <2>2. \/ pc[q] = "copy" /\ pc'[q] = "edges" /\ reply'[q] = 0
        \/ pc[q] = "join" /\ pc'[q] = "done"
    BY <1>0, <1>5 DEF LoopEnds, Goto, Answer, Passes
  <2>3. InStep(q)'
    BY <1>1, <2>1 DEF Kept, InStep
  <2>4. Left(q)'
    BY <1>1, <1>3, <2>1, <2>2 DEF Kept, Left
  <2>5. AllNodes(q)'
    <3>1. Taken(q)' = Taken(q)
      BY <1>1 DEF Taken
    <3>2. QED
      BY <1>2, <1>3, <2>2, <3>1 DEF Kept, AllNodes
  <2>6. AllFacts(q)'
    <3>1. \A f : ~ Flying(q, f)
      BY <1>0, <2>1 DEF Flying
    <3>2. CASE pc[q] = "join"
      <4>1. Dealt(q) \subseteq Dealt(q)'
        BY <1>1, <1>2, <3>1 DEF Dealt, EndsOf
      <4>2. QED
        BY <1>2, <3>2, <4>1, DealtStays DEF Kept
    <3>3. CASE pc[q] # "join"
      BY <2>2, <3>3 DEF AllFacts, Answered
    <3>4. QED
      BY <3>2, <3>3
  <2>7. QED
    BY <2>3, <2>4, <2>5, <2>6 DEF Kept
<1>6. QED
  BY <1>4, <1>5

LEMMA KeptServed ==
    ASSUME Shape, Past, Saved, Saved', InCall, Onward, [Next]_vars, Undisturbed', SourceKept,
           NEW q \in Clones, Kept(q), Served(q)
    PROVE  Kept(q)'
<1>0. q \in Request /\ faults = 0 /\ Entity \cap Fact = {}
  BY CloneRows, NoFaults, CloneAssumption DEF Undisturbed
<1>1. PICK s \in serving : s[1] = q /\ Serve(s)
  BY DEF Served
<1>2. PICK x \in What, k \in 0..2 : s = <<q, x, k>>
  <2>1. PICK p \in Makers, x \in What, k \in 0..2 : s = <<p, x, k>>
    BY DEF Saved, CallsSent
  <2>2. p = q
    BY <1>1, <2>1
  <2>3. QED
    BY <2>1, <2>2
<1>3. call[q] = <<x>>
  BY <1>0, <1>1, <1>2 DEF InCall
<1>4. /\ UNCHANGED <<pc, reply, made, before, todo, matched, call>>
      /\ nodes' = nodes \cup (IF x \notin Fact THEN {<<q, x>>}
                              ELSE IF k = 0 THEN {<<q, x, "subject">>}
                              ELSE IF k = 1 THEN {<<q, x, "object">>} ELSE {})
      /\ facts' = IF x \in Fact /\ k = 2 /\ EndsOf(<<q, x>>) \subseteq nodes
                  THEN facts \cup {<<q, x>>} ELSE facts
      /\ serving' = (serving \ {<<q, x, k>>}) \cup
                    (IF x \in Fact /\ k < 2 THEN {<<q, x, k + 1>>} ELSE {})
  BY <1>1, <1>2 DEF Serve, SaveNext, rowVars
<1>5. /\ CopiesOf(q, x) \cap (Entity \cup Fact) = {}
      /\ nodes' \subseteq nodes \cup CopiesOf(q, x) /\ facts' \subseteq facts \cup CopiesOf(q, x)
      /\ nodes \subseteq nodes' /\ facts \subseteq facts'
  <2>1. CopiesOf(q, x) \cap (Entity \cup Fact) = {}
    BY <1>0, CopyOf
  <2>2. QED
    BY <1>4, <2>1 DEF CopiesOf
<1>6. /\ Writes' = Writes /\ Meanwhile(q)' = Meanwhile(q)
      /\ SourceNodes' = SourceNodes /\ SourceFacts' = SourceFacts
  <2>1. SourceNodes' = SourceNodes /\ SourceFacts' = SourceFacts
    BY <1>5, SourcesNow
  <2>2. Writes' = Writes /\ Meanwhile(q)' = Meanwhile(q)
    BY <1>4 DEF Writes, Meanwhile
  <2>3. QED
    BY <2>1, <2>2
<1>7. InStep(q)'
  <2>1. ASSUME NEW n \in matched[q]
        PROVE  <<q, n>> \in nodes' \/ (call[q] = <<n>> /\ <<q, n, 0>> \in serving')
    <3>1. CASE <<q, n>> \in nodes
      BY <1>5, <3>1
    <3>2. CASE call[q] = <<n>> /\ <<q, n, 0>> \in serving /\ <<q, n, 0>> # <<q, x, k>>
      BY <1>4, <3>2
    <3>3. CASE <<q, n, 0>> = <<q, x, k>>
      <4>1. n = x /\ n \notin Fact
        BY <1>0, <3>3 DEF Saved, Held
      <4>2. QED
        BY <1>4, <4>1
    <3>4. QED
      BY <3>1, <3>2, <3>3 DEF Kept, InStep
  <2>2. ASSUME NEW n \in Entity, <<q, n>> \in nodes', <<q, n>> \notin nodes
        PROVE  n \in matched[q]
    <3>1. <<q, n>> \in CopiesOf(q, x)
      BY <1>5, <2>2
    <3>2. <<q, n>> # <<q, x, "subject">> /\ <<q, n>> # <<q, x, "object">>
      <4>1. Len(<<q, n>>) = 2 /\ Len(<<q, x, "subject">>) = 3 /\ Len(<<q, x, "object">>) = 3
        OBVIOUS
      <4>2. QED
        BY <4>1
    <3>3. n = x
      BY <3>1, <3>2 DEF CopiesOf
    <3>4. <<q, n, k>> \in serving
      BY <1>2, <3>3
    <3>5. QED
      BY <3>4 DEF Kept, InStep
  <2>3. ASSUME NEW n \in Entity, NEW j \in 0..2, <<q, n, j>> \in serving'
        PROVE  n \in matched[q]
    <3>1. <<q, n, j>> \in serving \/ (n = x /\ <<q, n, k>> \in serving)
      BY <1>2, <1>4, <2>3
    <3>2. QED
      BY <3>1 DEF Kept, InStep
  <2>4. ASSUME NEW n \in Entity, <<q, n>> \in nodes
        PROVE  n \in matched[q]
    BY <2>4 DEF Kept, InStep
  <2>5. QED
    BY <1>4, <2>1, <2>2, <2>3, <2>4 DEF InStep
<1>8. Left(q)'
  BY <1>4, <1>6 DEF Kept, Left
<1>9. AllNodes(q)'
  <2>1. Taken(q)' = Taken(q)
    BY <1>4 DEF Taken
  <2>2. QED
    BY <1>4, <1>6, <2>1 DEF Kept, AllNodes, Answered, LateNode
<1>10. AllFacts(q)'
  <2>1. ASSUME NEW f \in Fact, Flying(q, f) PROVE <<q, f>> \in facts' \/ Flying(q, f)'
    <3>1. PICK j \in 0..2 : /\ <<q, f, j>> \in serving
                            /\ j >= 1 => <<q, f, "subject">> \in nodes
                            /\ j = 2 => <<q, f, "object">> \in nodes
      BY <2>1 DEF Flying
    <3>2. CASE <<q, f, j>> # <<q, x, k>>
      <4>1. <<q, f, j>> \in serving' /\ call'[q] = <<f>>
        BY <1>4, <2>1, <3>1, <3>2 DEF Flying
      <4>2. QED
        BY <1>5, <3>1, <4>1 DEF Flying
    <3>3. CASE f = x /\ j = k /\ k < 2
      <4>1. <<q, f, k + 1>> \in serving' /\ call'[q] = <<f>>
        BY <1>4, <2>1, <3>3 DEF Flying
      <4>2. <<q, f, "subject">> \in nodes' /\ (k = 1 => <<q, f, "object">> \in nodes')
        BY <1>4, <1>5, <3>1, <3>3
      <4>3. k + 1 \in 0..2 /\ (k + 1 = 2 => k = 1)
        BY <3>3
      <4>4. QED
        BY <4>1, <4>2, <4>3 DEF Flying
    <3>4. CASE f = x /\ j = k /\ k = 2
      <4>1. EndsOf(<<q, f>>) \subseteq nodes
        <5>1. <<q, f>> \notin Fact
          BY <1>5, <3>4 DEF CopiesOf
        <5>2. QED
          BY <3>1, <3>4, <5>1 DEF EndsOf
      <4>2. QED
        BY <1>4, <3>4, <4>1
    <3>5. QED
      BY <3>2, <3>3, <3>4
  <2>2. SourceFacts \subseteq Fact
    BY SourcesNow
  <2>3. Dealt(q) \subseteq Dealt(q)'
    BY <1>4, <1>5, <1>6, <2>1, <2>2 DEF Dealt, EndsOf
  <2>4. pc[q] = "join" \/ Answered(q) => pc[q] # "start"
    BY CloneRows DEF Answered, Shape
  <2>5. QED
    BY <1>4, <1>6, <2>3, <2>4, DealtStays DEF Kept, AllFacts, Answered
<1>11. QED
  BY <1>7, <1>8, <1>9, <1>10 DEF Kept

LEMMA CompleteNext ==
    ASSUME Shape, Past, Saved, Saved', InCall, CompleteInv, Onward, [Next]_vars
    PROVE  CompleteInv'
<1> SUFFICES ASSUME Undisturbed' PROVE SourceKept' /\ \A q \in Clones : Kept(q)'
  BY DEF CompleteInv, Clones, Onward
<1>1. Undisturbed /\ SourceKept /\ \A q \in Clones : Kept(q)
  BY NothingGoes DEF CompleteInv
<1>2. SourceKept'
  <2>1. AtStart \subseteq nodes' /\ FactsAtStart \subseteq facts'
    BY <1>1, CopiesStay, NothingGoes, CloneAssumption DEF SourceKept
  <2>2. \A n \in nodes' \cap Entity : n \in AtStart \/ Writes' # {}
    BY <1>1, SourceGrows DEF SourceKept
  <2>3. QED
    BY <2>1, <2>2 DEF SourceKept
<1>3. ASSUME NEW q \in Clones PROVE Kept(q)'
  <2>1. Kept(q)
    BY <1>1
  <2>2. CASE Listing(q)
    BY <1>1, <2>1, <2>2, KeptListing
  <2>3. CASE Copying(q)
    BY <1>1, <2>1, <2>3, KeptSending, KeptReceiving DEF Copying
  <2>4. CASE Served(q)
    BY <1>1, <2>1, <2>4, KeptServed
  <2>5. CASE Unmoved(q) /\ ~ Served(q)
    BY <1>1, <2>1, <2>5, KeptUnmoved
  <2>6. QED
    BY <2>2, <2>3, <2>4, <2>5, StepOfClone
<1>4. QED
  BY <1>2, <1>3

LEMMA CompleteHolds ==
    ASSUME Shape, Saved, InCall, CompleteInv, CopiedWithItsEnds
    PROVE  CloneComplete
<1> SUFFICES ASSUME NEW q \in Clones, reply[q] = 200, Undisturbed
             PROVE  /\ \/ Cardinality(Copied(q)) = Limit
                       \/ \A n \in SourceNodes \ Copied(q) : n \notin AtStart /\ Meanwhile(q) # {}
                    /\ \/ Cardinality(Through(q)) >= Limit
                       \/ \A f \in SourceFacts \ Through(q) : SavedLate(q, f)
                    /\ \A f \in Fact : <<q, f>> \in facts => EndsOf(f) \subseteq Copied(q)
  BY DEF CloneComplete, Undisturbed
<1>1. /\ q \in Request /\ pc[q] = "done" /\ Kept(q) /\ \A x : <<x>> # Nothing
  BY CloneRows DEF Shape, CompleteInv, Nothing
<1>2. call[q] = Nothing /\ todo[q] = {}
  BY <1>1 DEF Kept, Left
<1>3. Copied(q) = matched[q] /\ Taken(q) = matched[q]
  <2>1. matched[q] \subseteq Entity
    BY <1>1 DEF Saved, Held
  <2>2. \A n : call[q] # <<n>>
    BY <1>1, <1>2
  <2>3. ASSUME NEW n \in matched[q] PROVE <<q, n>> \in nodes
    <3>1. <<q, n>> \in nodes \/ call[q] = <<n>>
      BY <1>1 DEF Kept, InStep
    <3>2. QED
      BY <2>2, <3>1
  <2>4. \A n \in Entity : <<q, n>> \in nodes => n \in matched[q]
    BY <1>1 DEF Kept, InStep
  <2>5. Copied(q) = matched[q]
    BY <2>1, <2>3, <2>4 DEF Copied
  <2>6. QED
    BY <1>2, <2>5 DEF Taken
<1>4. Dealt(q) = Through(q)
  <2>1. \A f : ~ Flying(q, f)
    BY <1>1, <1>2 DEF Flying
  <2>2. QED
    BY <1>2, <1>3, <2>1 DEF Dealt, Through
<1>5. \/ Cardinality(Copied(q)) = Limit
      \/ \A n \in SourceNodes \ Copied(q) : n \notin AtStart /\ Meanwhile(q) # {}
  BY <1>1, <1>3 DEF Kept, AllNodes, Answered, LateNode
<1>6. \/ Cardinality(Through(q)) >= Limit
      \/ \A f \in SourceFacts \ Through(q) : SavedLate(q, f)
  BY <1>1, <1>4 DEF Kept, AllFacts, Answered
<1>7. ASSUME NEW f \in Fact, <<q, f>> \in facts PROVE EndsOf(f) \subseteq Copied(q)
  <2>1. <<q, f>> \notin Fact
    BY <1>1, CopyOf DEF CopiesOf, What
  <2>2. EndsOf(<<q, f>>[2]) \subseteq matched[<<q, f>>[1]]
    BY <1>7, <2>1 DEF CopiedWithItsEnds
  <2>3. QED
    BY <1>3, <2>2
<1>8. QED
  BY <1>5, <1>6, <1>7

(* CloneSound: whatever is asked of the backend and of the worker, no fact *)
(* is copied whose ends were not; and a clone that nothing disturbed has   *)
(* copied as many entities and been through as many facts as graphClone    *)
(* lists, or all that was there when it began and what was written         *)
(* meanwhile but for what came late.                                       *)
THEOREM ClonesAreSound == Spec => []CloneSound
<1>1. Init => CompleteInv
  <2> SUFFICES ASSUME Init PROVE SourceKept /\ \A q \in Clones : Kept(q)
    BY DEF CompleteInv
  <2>1. /\ nodes = AtStart /\ facts = FactsAtStart /\ serving = {}
        /\ todo = [q \in Request |-> {}] /\ matched = [q \in Request |-> {}]
        /\ call = [q \in Request |-> Nothing] /\ made \subseteq Request
        /\ pc = [q \in Request |-> "start"] /\ reply = [q \in Request |-> 0]
    BY RowsAssumption DEF Init, RowsInit
  <2>2. ASSUME NEW q \in Clones PROVE Kept(q)
    <3>1. q \in Request
      BY <2>1 DEF Clones
    <3>2. \A n \in Entity : <<q, n>> \notin nodes
      BY <2>1, <3>1, CloneAssumption
    <3>3. InStep(q)
      BY <2>1, <3>1, <3>2 DEF InStep
    <3>4. Left(q)
      BY <2>1, <3>1 DEF Left
    <3>5. AllNodes(q) /\ AllFacts(q)
      BY <2>1, <3>1 DEF AllNodes, AllFacts, Answered
    <3>6. QED
      BY <3>3, <3>4, <3>5 DEF Kept
  <2>3. QED
    BY <2>1, <2>2 DEF SourceKept
<1>2. Shape /\ RowsInv /\ Saved /\ Saved' /\ ApartInv /\ CompleteInv /\ [Next]_vars => CompleteInv'
  BY StepsOnward, CompleteNext DEF RowsInv, ApartInv
<1>3. /\ Shape /\ Saved /\ ApartInv /\ CompleteInv /\ FactsHaveEnds /\ CopiedWithItsEnds
         => CloneSound
  BY CompleteHolds DEF CloneSound, ApartInv
<1>4. QED
  BY <1>1, <1>2, <1>3, ShapeHolds, RowsHold, SavedHolds, CopiesAreConnected, PTL DEF Spec
=============================================================================
