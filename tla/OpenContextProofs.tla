------------------------- MODULE OpenContextProofs -------------------------
(***************************************************************************)
(* Proofs about OpenContext for every set of requests, whatever calls and  *)
(* answers are lost and whenever one of the processes dies.                *)
(***************************************************************************)
EXTENDS OpenContext, GraphServiceProofs

(* Where a handler may be, by the kind of its request: type correctness    *)
(* needs to know that an insert still has a message to insert.             *)
Place(r) ==
    /\ pc[r] \in {"never", "start", "task"} => at[r] = 0
    /\ pc[r] \in {"task", "insert"} => Kind[r] = "addMessages"
    /\ pc[r] = "insert" => at[r] < Len(Body[r])
    /\ pc[r] \in {"item", "progress"} => Kind[r] = "addBatch"
    /\ pc[r] = "row" => Kind[r] \notin {"addMessages", "addBatch"}
    /\ pc[r] = "update" => Kind[r] \in {"addMessages", "addBatch"}
    /\ pc[r] \in {"call", "wait", "update"} /\ Kind[r] = "addMessages"
          => at[r] = Len(Body[r])
    /\ pc[r] = "update" => at[r] = Len(Body[r])

Shape == TypeOK /\ \A r \in Request : Place(r)

(* What one step of a handler can do to its request, and to the shared     *)
(* tables, as far as the shape of the state is concerned.                  *)
LEMMA StatementTyped ==
    ASSUME TypeOK, NEW r \in Request, NEW executed \in BOOLEAN, NEW err \in BOOLEAN,
           Statement(r, executed, err)
    PROVE  ctx' \in [Request -> {"live", "cancelled"}] /\ faults' \in 0..MaxFaults
<1>1. /\ ctx \in [Request -> {"live", "cancelled"}] /\ faults \in 0..MaxFaults
      /\ MaxFaults \in Nat
  BY OpenContextAssumption DEF TypeOK
<1>2. ctx' = ctx \/ ctx' = [ctx EXCEPT ![r] = "cancelled"]
  BY DEF Statement
<1>3. faults' = faults \/ (faults < MaxFaults /\ faults' = faults + 1)
  BY DEF Statement, Fault
<1>4. QED
  BY <1>1, <1>2, <1>3

Labels == {"start", "never", "row", "task", "insert", "item", "call", "wait",
           "progress", "update", "done", "dead"}
Statuses == {0, 200, 400, 404, 500}

(* How a handler moves, and that it answers at most once.                  *)
LEMMA Moves ==
    ASSUME TypeOK, NEW r \in Request
    PROVE  /\ \A label \in Labels : Goto(r, label) =>
                /\ pc' \in [Request -> Labels] /\ reply' \in [Request -> Statuses]
                /\ pc'[r] = label /\ reply'[r] = reply[r]
           /\ \A status \in Statuses : Answer(r, status) =>
                /\ pc' \in [Request -> Labels] /\ reply' \in [Request -> Statuses]
                /\ pc'[r] = "done"
                /\ reply'[r] = IF reply[r] = 0 THEN status ELSE reply[r]
           /\ (\E label \in Labels : Goto(r, label)) \/ (\E status \in Statuses : Answer(r, status))
                => \A s \in Request \ {r} : pc'[s] = pc[s] /\ reply'[s] = reply[s]
<1>1. pc \in [Request -> Labels] /\ reply \in [Request -> Statuses]
  BY DEF TypeOK, Labels, Statuses
<1>2. ASSUME NEW label \in Labels, Goto(r, label)
      PROVE  /\ pc' \in [Request -> Labels] /\ reply' \in [Request -> Statuses]
             /\ pc'[r] = label /\ reply'[r] = reply[r]
             /\ \A s \in Request \ {r} : pc'[s] = pc[s] /\ reply'[s] = reply[s]
  BY <1>1, <1>2 DEF Goto
<1>3. ASSUME NEW status \in Statuses, Answer(r, status)
      PROVE  /\ pc' \in [Request -> Labels] /\ reply' \in [Request -> Statuses]
             /\ pc'[r] = "done"
             /\ reply'[r] = IF reply[r] = 0 THEN status ELSE reply[r]
             /\ \A s \in Request \ {r} : pc'[s] = pc[s] /\ reply'[s] = reply[s]
  <2> DEFINE answer == IF reply[r] = 0 THEN status ELSE reply[r]
  <2>1. answer \in Statuses
    BY <1>1
  <2>2. pc' = [pc EXCEPT ![r] = "done"] /\ reply' = [reply EXCEPT ![r] = answer]
    BY <1>3 DEF Answer
  <2> HIDE DEF answer
  <2>3. /\ pc' \in [Request -> Labels] /\ reply' \in [Request -> Statuses]
        /\ pc'[r] = "done" /\ reply'[r] = answer
        /\ \A s \in Request \ {r} : pc'[s] = pc[s] /\ reply'[s] = reply[s]
    BY <1>1, <2>1, <2>2 DEF Labels
  <2>4. QED
    BY <2>3 DEF answer
<1>4. QED
  BY <1>2, <1>3

(* Only the request that moved needs a second look.                        *)
LEMMA OneMoved ==
    ASSUME Shape, TypeOK', NEW r \in Request, Place(r)',
           \A s \in Request \ {r} : pc'[s] = pc[s] /\ at'[s] = at[s]
    PROVE  Shape'
<1>1. ASSUME NEW s \in Request \ {r} PROVE Place(s)'
  BY DEF Shape, Place
<1>2. QED
  BY <1>1 DEF Shape

(* What follows a call, by the kind of the request.                        *)
LEMMA CallMoves ==
    ASSUME NEW r \in Request, NEW err, AfterCall(r, err)
    PROVE  /\ \/ Kind[r] = "addMessages" /\ Goto(r, "update")
              \/ Kind[r] = "addBatch" /\ Goto(r, "progress")
              \/ Kind[r] \in {"deleteThread", "deleteUser"} /\ Goto(r, "row")
              \/ Kind[r] \in {"createThread", "createUser"} /\ Answer(r, 200)
           /\ result' = [result EXCEPT ![r] = IF err THEN "failed" ELSE result[r]]
<1>1. Kind[r] \in Kinds
  BY OpenContextAssumption
<1>2. QED
  BY <1>1 DEF AfterCall, Earned, Kinds

(* The four ways of a call leave most of the state alone.                  *)
LEMMA CallTyped ==
    ASSUME TypeOK, NEW r \in Request, Send(r) \/ Receive(r) \/ CallFails(r) \/ GiveUp(r)
    PROVE  /\ pc[r] \in {"call", "wait"}
           /\ net' \subseteq net \cup {ThisCall(r)} /\ ThisCall(r) \in Request \X Seq(Job)
           /\ ctx' \in [Request -> {"live", "cancelled"}] /\ faults' \in 0..MaxFaults
           /\ UNCHANGED <<gsVars, records, rows, tasks, at, gmsgs, answered>>
<1>1. /\ ctx \in [Request -> {"live", "cancelled"}]
      /\ faults \in 0..MaxFaults /\ MaxFaults \in Nat
      /\ gmsgs \in [Request -> Seq(Job)]
  BY OpenContextAssumption DEF TypeOK
<1>2. ThisCall(r) \in Request \X Seq(Job)
  BY <1>1 DEF ThisCall
<1>3. ASSUME Fault PROVE faults' \in 0..MaxFaults
  BY <1>1, <1>3 DEF Fault
<1>4. CASE Send(r)
  BY <1>1, <1>2, <1>4 DEF Send
<1>5. CASE Receive(r)
  BY <1>1, <1>2, <1>5 DEF Receive
<1>6. CASE CallFails(r)
  <2>1. faults' \in 0..MaxFaults
    BY <1>1, <1>3, <1>6 DEF CallFails
  <2>2. QED
    BY <1>1, <1>2, <1>6, <2>1 DEF CallFails
<1>7. CASE GiveUp(r)
  <2>1. ctx' \in [Request -> {"live", "cancelled"}]
    BY <1>1, <1>7 DEF GiveUp
  <2>2. QED
    BY <1>2, <1>3, <1>7, <2>1 DEF GiveUp
<1>8. QED
  BY <1>4, <1>5, <1>6, <1>7

(* One step of a handler keeps the shape of the state.                     *)
LEMMA HandlerShape ==
    ASSUME Shape, NEW r \in Request, Handler(r)
    PROVE  Shape'
<1>1. GSTypeOK'
  BY TypeStep DEF Shape, Handler, Select, InsertRecord, SoftDelete, CreateTask, InsertMessage,
     NextItem, UpdateTask, Send, Receive, CallFails, GiveUp, TypeOK
<1>2. /\ Body[r] \in Seq(Job) /\ Len(Body[r]) \in Nat
      /\ Kind[r] \in Kinds /\ Subject[r] \in Group
      /\ Place(r) /\ TypeOK
      /\ at \in [Request -> Nat] /\ (\A s \in Request : at[s] <= Len(Body[s]))
      /\ gmsgs \in [Request -> Seq(Job)]
  <2>1. Body \in [Request -> Seq(Job)] /\ Kind \in [Request -> Kinds] /\ Subject \in [Request -> Group]
    BY OpenContextAssumption
  <2>2. Body[r] \in Seq(Job) /\ Len(Body[r]) \in Nat
    BY <2>1
  <2>3. TypeOK /\ Place(r)
    BY DEF Shape
  <2>4. QED
    BY <2>1, <2>2, <2>3 DEF TypeOK
<1>3. unwritten' \subseteq Request
  <2>1. unwritten \subseteq Request
    BY <1>2 DEF TypeOK
  <2>2. unwritten' \subseteq unwritten \cup {r}
    BY DEF Handler, Select, InsertRecord, SoftDelete, CreateTask, InsertMessage, NextItem,
       UpdateTask, Send, Receive, CallFails, GiveUp
  <2>3. QED
    BY <2>1, <2>2
<1>4. CASE Select(r)
  <2>1. PICK executed \in BOOLEAN, err \in BOOLEAN :
          Statement(r, executed, err)  BY <1>4 DEF Select
  <2>2. ctx' \in [Request -> {"live", "cancelled"}] /\ faults' \in 0..MaxFaults
    BY <1>2, <2>1, StatementTyped
  <2>3. \/ \E status \in Statuses : Answer(r, status)
        \/ Goto(r, "task") /\ Kind[r] = "addMessages"
        \/ Goto(r, "row") /\ Kind[r] = "createThread"
        \/ Goto(r, "call") /\ Kind[r] \notin {"addMessages", "addBatch"}
    BY <1>2, <1>4 DEF Select, Labels, Statuses, Kinds
  <2>4. pc' \in [Request -> Labels] /\ reply' \in [Request -> Statuses]
    BY <1>2, <2>3, Moves DEF Labels
  <2>5. TypeOK'
    BY <1>1, <1>2, <1>3, <1>4, <2>2, <2>4 DEF Select, TypeOK, Labels, Statuses
  <2>6. Place(r)' /\ \A s \in Request \ {r} : pc'[s] = pc[s] /\ at'[s] = at[s]
    BY <1>2, Moves, <1>4, <2>3 DEF Select, Place, Labels, Statuses
  <2>7. QED
    BY <2>5, <2>6, OneMoved
<1>5. CASE InsertRecord(r)
  <2>1. PICK executed \in BOOLEAN, err \in BOOLEAN :
          Statement(r, executed, err)  BY <1>5 DEF InsertRecord
  <2>2. ctx' \in [Request -> {"live", "cancelled"}] /\ faults' \in 0..MaxFaults
    BY <1>2, <2>1, StatementTyped
  <2>3. /\ Kind[r] \in {"createUser", "createThread"}
        /\ (\E status \in Statuses : Answer(r, status)) \/ Goto(r, "call")
    BY <1>2, <1>5 DEF InsertRecord, Labels, Statuses, Kinds
  <2>4. pc' \in [Request -> Labels] /\ reply' \in [Request -> Statuses]
    BY <1>2, <2>3, Moves DEF Labels
  <2>5. TypeOK'
    BY <1>1, <1>2, <1>3, <1>5, <2>2, <2>4 DEF InsertRecord, TypeOK, Labels, Statuses
  <2>6. Place(r)' /\ \A s \in Request \ {r} : pc'[s] = pc[s] /\ at'[s] = at[s]
    BY <1>2, Moves, <1>5, <2>3 DEF InsertRecord, Place, Labels, Statuses
  <2>7. QED
    BY <2>5, <2>6, OneMoved
<1>6. CASE SoftDelete(r)
  <2>1. PICK executed \in BOOLEAN, err \in BOOLEAN :
          Statement(r, executed, err)  BY <1>6 DEF SoftDelete
  <2>2. ctx' \in [Request -> {"live", "cancelled"}] /\ faults' \in 0..MaxFaults
    BY <1>2, <2>1, StatementTyped
  <2>3. \E status \in Statuses : Answer(r, status)
    BY <1>2, <1>6 DEF SoftDelete, Labels, Statuses, Kinds
  <2>4. pc' \in [Request -> Labels] /\ reply' \in [Request -> Statuses]
    BY <1>2, <2>3, Moves DEF Labels
  <2>5. TypeOK'
    BY <1>1, <1>2, <1>3, <1>6, <2>2, <2>4 DEF SoftDelete, TypeOK, Labels, Statuses
  <2>6. Place(r)' /\ \A s \in Request \ {r} : pc'[s] = pc[s] /\ at'[s] = at[s]
    BY <1>2, Moves, <1>6, <2>3 DEF SoftDelete, Place, Labels, Statuses
  <2>7. QED
    BY <2>5, <2>6, OneMoved
<1>7. CASE CreateTask(r)
  <2>1. PICK executed \in BOOLEAN, err \in BOOLEAN :
          /\ Statement(r, executed, err)
          /\ tasks' = [tasks EXCEPT ![r] =
                IF ~executed THEN @
                ELSE IF Kind[r] = "addBatch" THEN "pending" ELSE "processing"]
    BY <1>7 DEF CreateTask
  <2>2. ctx' \in [Request -> {"live", "cancelled"}] /\ faults' \in 0..MaxFaults
    BY <1>2, <2>1, StatementTyped
  <2>3. tasks' \in [Request -> {"none", "pending", "processing", "completed", "failed"}]
    BY <1>2, <2>1 DEF TypeOK
  <2>4. UNCHANGED <<records, rows, at, gmsgs, result, net, answered>>
    BY <1>7 DEF CreateTask
  <2>5. CASE Kind[r] = "addBatch"
    <3>1. pc' = [pc EXCEPT ![r] = "item"] /\ reply' = [reply EXCEPT ![r] = 200]
      BY <2>5, <1>7 DEF CreateTask
    <3>2. pc' \in [Request -> Labels] /\ reply' \in [Request -> Statuses]
      BY <1>2, <3>1 DEF TypeOK, Labels, Statuses
    <3>3. TypeOK'
      BY <1>1, <1>2, <1>3, <2>2, <2>3, <2>4, <3>2 DEF TypeOK, Labels, Statuses
    <3>4. pc'[r] = "item" /\ \A s \in Request \ {r} : pc'[s] = pc[s] /\ at'[s] = at[s]
      BY <1>2, <2>4, <3>1 DEF TypeOK
    <3>5. Place(r)'
      BY <2>5, <3>4 DEF Place
    <3>6. QED  BY <3>3, <3>4, <3>5, OneMoved
  <2>6. CASE Kind[r] # "addBatch"
    <3>1. /\ Kind[r] = "addMessages" /\ pc[r] = "task"
          /\ Goto(r, IF Body[r] = <<>> THEN "call" ELSE "insert")
      BY <2>6, <1>7 DEF CreateTask
    <3>2. /\ pc' \in [Request -> Labels] /\ reply' \in [Request -> Statuses]
          /\ pc'[r] = IF Body[r] = <<>> THEN "call" ELSE "insert"
          /\ \A s \in Request \ {r} : pc'[s] = pc[s] /\ at'[s] = at[s]
      BY <1>2, <2>4, <3>1, Moves DEF Labels
    <3>3. TypeOK'
      BY <1>1, <1>2, <1>3, <2>2, <2>3, <2>4, <3>2 DEF TypeOK, Labels, Statuses
    <3>4. Body[r] = <<>> <=> Len(Body[r]) = 0
      BY <1>2
    <3>5. Place(r)'
      BY <1>2, <2>4, <3>1, <3>2, <3>4 DEF Place
    <3>6. QED  BY <3>2, <3>3, <3>5, OneMoved
  <2>7. QED  BY <2>5, <2>6
<1>8. CASE InsertMessage(r)
  <2>1. PICK executed \in BOOLEAN, err \in BOOLEAN :
          /\ Statement(r, executed, err)
          /\ LET m == Body[r][at[r] + 1]
                 inserts == executed /\ \A n \in rows : Uuid[n] # Uuid[m]
             IN  /\ rows' = IF inserts THEN rows \cup {m} ELSE rows
                 /\ AfterInsert(r, m, ~err /\ inserts)
    BY <1>8 DEF InsertMessage
  <2> DEFINE m == Body[r][at[r] + 1]
  <2>2. ctx' \in [Request -> {"live", "cancelled"}] /\ faults' \in 0..MaxFaults
    BY <1>2, <2>1, StatementTyped
  <2>3. pc[r] = "insert" /\ at[r] < Len(Body[r]) /\ m \in Job
    BY <1>2, <1>8 DEF InsertMessage, Place
  <2>4. CASE Answer(r, 400) /\ UNCHANGED <<at, gmsgs>>
    <3>1. pc' \in [Request -> Labels] /\ reply' \in [Request -> Statuses]
      BY <1>2, <2>4, Moves DEF Statuses
    <3>2. rows' \subseteq Job
      BY <1>2, <2>1, <2>3 DEF TypeOK
    <3>3. TypeOK'
      BY <1>1, <1>2, <1>3, <1>8, <2>2, <2>4, <3>1, <3>2 DEF InsertMessage, TypeOK, Labels, Statuses
    <3>4. Place(r)' /\ \A s \in Request \ {r} : pc'[s] = pc[s] /\ at'[s] = at[s]
      BY <1>2, Moves, <2>4 DEF Place, Statuses
    <3>5. QED  BY <3>3, <3>4, OneMoved
  <2>5. CASE /\ Step(r) /\ UNCHANGED reply
             /\ gmsgs' = [gmsgs EXCEPT ![r] = IF Ignored(r, m) THEN @ ELSE Append(@, m)]
    <3>1. /\ pc' = [pc EXCEPT ![r] = IF at[r] + 1 = Len(Body[r]) THEN "call" ELSE "insert"]
          /\ at' = [at EXCEPT ![r] = at[r] + 1]
      BY <2>5 DEF Step
    <3>2. pc' \in [Request -> Labels] /\ reply' \in [Request -> Statuses]
      BY <1>2, <3>1, <2>5 DEF TypeOK, Labels, Statuses
    <3>3. at' \in [Request -> Nat] /\ \A s \in Request : at'[s] <= Len(Body[s])
      BY <1>2, <2>3, <3>1 DEF TypeOK
    <3>4. rows' \subseteq Job
      BY <1>2, <2>1, <2>3 DEF TypeOK
    <3>5. gmsgs' \in [Request -> Seq(Job)]
      BY <1>2, <2>3, <2>5 DEF TypeOK
    <3>6. TypeOK'
      BY <1>1, <1>2, <1>3, <1>8, <2>2, <3>2, <3>3, <3>4, <3>5 DEF InsertMessage, TypeOK, Labels, Statuses
    <3>7. /\ pc'[r] = IF at[r] + 1 = Len(Body[r]) THEN "call" ELSE "insert"
          /\ at'[r] = at[r] + 1
          /\ \A s \in Request \ {r} : pc'[s] = pc[s] /\ at'[s] = at[s]
      BY <1>2, <3>1 DEF TypeOK
    <3>8. Place(r)'
      BY <1>2, <2>3, <3>7 DEF Place
    <3>9. QED  BY <3>6, <3>7, <3>8, OneMoved
  <2>6. QED
    BY <2>1, <2>4, <2>5 DEF AfterInsert
<1>9. CASE NextItem(r)
  <2>1. at[r] < Len(Body[r]) => Body[r][at[r] + 1] \in Job
    BY <1>2
  <2>2. \/ Goto(r, "update") /\ at[r] = Len(Body[r]) /\ UNCHANGED <<at, gmsgs>>
        \/ /\ at[r] < Len(Body[r])
           /\ at' = [at EXCEPT ![r] = at[r] + 1]
           /\ Goto(r, "item") \/ Goto(r, "call")
           /\ gmsgs' = gmsgs \/ gmsgs' = [gmsgs EXCEPT ![r] = <<Body[r][at[r] + 1]>>]
    BY <1>2, <1>9 DEF NextItem, TypeOK
  <2>3. pc' \in [Request -> Labels] /\ reply' \in [Request -> Statuses]
    BY <1>2, <2>2, Moves DEF Labels
  <2>4. at' \in [Request -> Nat] /\ \A s \in Request : at'[s] <= Len(Body[s])
    <3>1. at' = at \/ (at[r] < Len(Body[r]) /\ at' = [at EXCEPT ![r] = at[r] + 1])
      BY <2>2
    <3>2. CASE at[r] < Len(Body[r]) /\ at' = [at EXCEPT ![r] = at[r] + 1]
      <4>1. at[r] + 1 \in Nat /\ at[r] + 1 <= Len(Body[r])
        BY <1>2, <3>2
      <4>2. QED
        BY <1>2, <3>2, <4>1
    <3>3. QED
      BY <1>2, <3>1, <3>2
  <2>5. gmsgs' \in [Request -> Seq(Job)]
    <3>1. \/ gmsgs' = gmsgs
          \/ at[r] < Len(Body[r]) /\ gmsgs' = [gmsgs EXCEPT ![r] = <<Body[r][at[r] + 1]>>]
      BY <2>2
    <3>2. at[r] < Len(Body[r]) => <<Body[r][at[r] + 1]>> \in Seq(Job)
      BY <2>1
    <3>3. QED
      BY <1>2, <3>1, <3>2
  <2>6. TypeOK'
    BY <1>1, <1>2, <1>3, <1>9, <2>3, <2>4, <2>5 DEF NextItem, TypeOK, Labels, Statuses
  <2>7. Kind[r] = "addBatch"
    BY <1>9 DEF NextItem
  <2>8. Place(r)' /\ \A s \in Request \ {r} : pc'[s] = pc[s] /\ at'[s] = at[s]
    BY <1>2, Moves, <2>2, <2>4, <2>7 DEF Place, Labels
  <2>9. QED  BY <2>6, <2>8, OneMoved
<1>10. CASE UpdateTask(r)
  <2>1. PICK executed \in BOOLEAN, err \in BOOLEAN :
          /\ Statement(r, executed, err)
          /\ tasks' = [tasks EXCEPT ![r] =
                IF ~executed \/ @ = "none" THEN @
                ELSE IF pc[r] = "progress" THEN "processing" ELSE result[r]]
    BY <1>10 DEF UpdateTask
  <2>2. ctx' \in [Request -> {"live", "cancelled"}] /\ faults' \in 0..MaxFaults
    BY <1>2, <2>1, StatementTyped
  <2>3. tasks' \in [Request -> {"none", "pending", "processing", "completed", "failed"}]
    BY <1>2, <2>1 DEF TypeOK
  <2>4. UNCHANGED <<records, rows, at, gmsgs, result, net, answered>>
    BY <1>10 DEF UpdateTask
  <2>5. \/ Answer(r, 200)
        \/ Goto(r, "item") /\ Kind[r] = "addBatch"
    <3>1. pc[r] = "progress" => Kind[r] = "addBatch"
      BY <1>2 DEF Place
    <3>2. QED
      BY <3>1, <1>10 DEF UpdateTask
  <2>6. /\ pc' \in [Request -> Labels] /\ reply' \in [Request -> Statuses]
        /\ pc'[r] = "done" \/ (pc'[r] = "item" /\ Kind[r] = "addBatch")
        /\ \A s \in Request \ {r} : pc'[s] = pc[s] /\ at'[s] = at[s]
    <3>1. \A s \in Request \ {r} : at'[s] = at[s]
      BY <2>4
    <3>2. CASE Answer(r, 200)
      <4>1. 200 \in Statuses
        BY DEF Statuses
      <4>2. /\ pc' \in [Request -> Labels] /\ reply' \in [Request -> Statuses]
            /\ pc'[r] = "done"
        BY <1>2, <3>2, <4>1, Moves
      <4>3. \A s \in Request \ {r} : pc'[s] = pc[s]
        BY <1>2, <3>2, <4>1, Moves
      <4>4. QED
        BY <3>1, <4>2, <4>3
    <3>3. CASE Goto(r, "item") /\ Kind[r] = "addBatch"
      BY <1>2, <3>1, <3>3, Moves DEF Labels
    <3>4. QED
      BY <2>5, <3>2, <3>3
  <2>7. TypeOK'
    BY <1>1, <1>2, <1>3, <2>2, <2>3, <2>4, <2>6 DEF TypeOK, Labels, Statuses
  <2>8. Place(r)'
    BY <2>6 DEF Place
  <2>9. QED  BY <2>6, <2>7, <2>8, OneMoved
<1>11. CASE Send(r) \/ Receive(r) \/ CallFails(r) \/ GiveUp(r)
  <2>1. /\ pc[r] \in {"call", "wait"}
        /\ net' \subseteq net \cup {ThisCall(r)} /\ ThisCall(r) \in Request \X Seq(Job)
        /\ ctx' \in [Request -> {"live", "cancelled"}] /\ faults' \in 0..MaxFaults
        /\ UNCHANGED <<gsVars, records, rows, tasks, at, gmsgs, answered>>
    BY <1>2, <1>11, CallTyped
  <2>2. net' \subseteq Request \X Seq(Job)
    BY <1>2, <2>1 DEF TypeOK
  <2>4. \/ \E err \in BOOLEAN : AfterCall(r, err)
        \/ pc[r] = "call" /\ Goto(r, "wait") /\ UNCHANGED result
    BY <1>11 DEF Send, Receive, CallFails, GiveUp
  <2>6. /\ \/ Kind[r] = "addMessages" /\ Goto(r, "update")
           \/ Kind[r] = "addBatch" /\ Goto(r, "progress")
           \/ Kind[r] \in {"deleteThread", "deleteUser"} /\ Goto(r, "row")
           \/ Kind[r] \in {"createThread", "createUser"} /\ Answer(r, 200)
           \/ pc[r] = "call" /\ Goto(r, "wait")
        /\ \/ result' = result
           \/ result' = [result EXCEPT ![r] = "failed"]
           \/ result' = [result EXCEPT ![r] = result[r]]
    BY <2>4, CallMoves
  <2>7. pc' \in [Request -> Labels] /\ reply' \in [Request -> Statuses]
    BY <1>2, <2>6, Moves DEF Labels, Statuses
  <2>8. result' \in [Request -> {"completed", "failed"}]
    <3>1. result \in [Request -> {"completed", "failed"}]
      BY <1>2 DEF TypeOK
    <3>2. \/ result' = result
          \/ result' = [result EXCEPT ![r] = "failed"]
          \/ result' = [result EXCEPT ![r] = result[r]]
      BY <2>6
    <3>3. QED
      BY <3>1, <3>2
  <2>9. TypeOK'
    BY <1>1, <1>2, <1>3, <2>1, <2>2, <2>7, <2>8 DEF TypeOK, Labels, Statuses
  <2>10. Place(r)' /\ \A s \in Request \ {r} : pc'[s] = pc[s] /\ at'[s] = at[s]
    BY <1>2, Moves, <2>1, <2>6 DEF Place, Labels, Statuses
  <2>11. QED BY <2>9, <2>10, OneMoved
<1>12. QED
  BY <1>4, <1>5, <1>6, <1>7, <1>8, <1>9, <1>10, <1>11 DEF Handler

(* Nothing but a handler and the death of the backend moves a request.     *)
LEMMA ShapeFrame ==
    ASSUME Shape, GSTypeOK', net' \subseteq net, answered' \subseteq Request \X Seq(Job),
           UNCHANGED <<records, rows, tasks, pc, at, gmsgs, result, reply, ctx, faults, unwritten>>
    PROVE  Shape'
<1>1. TypeOK'
  BY DEF Shape, TypeOK
<1>2. \A r \in Request : Place(r)'
  BY DEF Shape, Place
<1>3. QED
  BY <1>1, <1>2 DEF Shape

(* What the graph service does with a call, by the kind of its request.    *)
LEMMA ServeTyped ==
    ASSUME Shape, NEW call \in net, Serve(call)
    PROVE  /\ call \in Request \X Seq(Job) /\ call[1] \in Request /\ call[2] \in Seq(Job)
           /\ \/ Kind[call[1]] \in {"addMessages", "addBatch"} /\ AddMessages(call[2])
              \/ /\ Kind[call[1]] \notin {"addMessages", "addBatch"}
                 /\ UNCHANGED ticket
           /\ GSTypeOK'
<1>1. call \in Request \X Seq(Job) /\ call[1] \in Request /\ call[2] \in Seq(Job)
  BY DEF Shape, TypeOK
<1>2. Kind[call[1]] \in Kinds /\ Subject[call[1]] \in Group
  BY <1>1, OpenContextAssumption
<1>3. GSTypeOK
  BY DEF Shape, TypeOK
<1>4. CASE Kind[call[1]] \in {"addMessages", "addBatch"}
  <2>1. AddMessages(call[2])
    BY <1>4 DEF Serve
  <2>2. QED
    BY <1>1, <1>3, <1>4, <2>1, AddMessagesTyped
<1>5. CASE Kind[call[1]] \in {"createThread", "createUser"}
  <2>1. AddEntityNode(Subject[call[1]])
    BY <1>5 DEF Serve
  <2>2. GSTypeOK'
    BY <1>2, <1>3, <2>1, TypeStep DEF GSNext
  <2>3. QED
    BY <1>1, <1>5, <2>1, <2>2 DEF AddEntityNode
<1>6. CASE Kind[call[1]] \in {"deleteThread", "deleteUser"}
  <2>1. call[1] \in DeleteCall
    BY <1>1, <1>6, OpenContextAssumption
  <2>2. BeginDelete(call[1], Subject[call[1]])
    BY <1>6 DEF Serve
  <2>3. GSTypeOK'
    BY <1>2, <1>3, <2>1, <2>2, TypeStep DEF GSNext
  <2>4. QED
    BY <1>1, <1>6, <2>2, <2>3 DEF BeginDelete, histVars
<1>7. QED
  BY <1>2, <1>4, <1>5, <1>6 DEF Kinds

(* The graph service's own steps give out no tickets.                      *)
LEMMA OwnStepsTyped ==
    ASSUME GSTypeOK, GraphServiceStep
    PROVE  GSTypeOK' /\ UNCHANGED ticket
<1>1. GSNext
  BY DEF GraphServiceStep, GSNext
<1>2. GSTypeOK'
  BY <1>1, TypeStep
<1>3. CASE WorkerStep
  <2>1. StartJob => ticket' = ticket  BY Zenon DEF StartJob, histVars
  <2>2. ResolveNode => ticket' = ticket  BY Zenon DEF ResolveNode, histVars
  <2>3. ResolveFact => ticket' = ticket  BY Zenon DEF ResolveFact, histVars
  <2>4. CommitEpisode => ticket' = ticket  BY Zenon DEF CommitEpisode, histVars
  <2>5. FinishJob => ticket' = ticket  BY Zenon DEF FinishJob, histVars
  <2>6. FailJob => ticket' = ticket  BY Zenon DEF FailJob, histVars
  <2>7. QED  BY <1>2, <1>3, <2>1, <2>2, <2>3, <2>4, <2>5, <2>6 DEF WorkerStep
<1>4. CASE \E d \in DeleteCall : DeleteStep(d)
  <2> SUFFICES ASSUME NEW d \in DeleteCall, DeleteStep(d) PROVE ticket' = ticket
    BY <1>2, <1>4
  <2>1. ReadEdges(d) => ticket' = ticket  BY Zenon DEF ReadEdges, histVars
  <2>2. ReadNodes(d) => ticket' = ticket  BY Zenon DEF ReadNodes, histVars
  <2>3. ReadEpisodes(d) => ticket' = ticket  BY Zenon DEF ReadEpisodes, histVars
  <2>4. DeleteOneEdge(d) => ticket' = ticket  BY Zenon DEF DeleteOneEdge, histVars
  <2>5. DeleteOneNode(d) => ticket' = ticket  BY Zenon DEF DeleteOneNode, histVars
  <2>6. DeleteOneEpisode(d) => ticket' = ticket  BY Zenon DEF DeleteOneEpisode, histVars
  <2>7. FinishDelete(d) => ticket' = ticket  BY Zenon DEF FinishDelete, histVars
  <2>8. FailDelete(d) => ticket' = ticket  BY Zenon DEF FailDelete, histVars
  <2>9. QED  BY <2>1, <2>2, <2>3, <2>4, <2>5, <2>6, <2>7, <2>8 DEF DeleteStep
<1>5. CASE Stop \/ Crash \/ Start
  <2>1. LoseQueue => ticket' = ticket  BY Zenon DEF LoseQueue
  <2>2. Stop \/ Crash => LoseQueue  BY Zenon DEF Stop, Crash
  <2>3. Start => ticket' = ticket  BY Zenon DEF Start, histVars
  <2>4. QED  BY <1>2, <1>5, <2>1, <2>2, <2>3
<1>6. QED
  BY <1>2, <1>3, <1>4, <1>5 DEF GraphServiceStep

(* The backend dies: requests end where they are.                          *)
LEMMA CrashMoves ==
    ASSUME TypeOK, BackendCrash
    PROVE  /\ pc' \in [Request -> Labels]
           /\ \A r \in Request : pc'[r] = pc[r] \/ pc'[r] = "dead"
           /\ faults' \in 0..MaxFaults
           /\ UNCHANGED <<gsVars, records, rows, tasks, at, gmsgs, result, reply, ctx, net,
                          answered, unwritten>>
<1>1. pc \in [Request -> Labels] /\ faults \in 0..MaxFaults /\ MaxFaults \in Nat
  BY OpenContextAssumption DEF TypeOK, Labels
<1>2. pc' = [r \in Request |-> IF pc[r] \in {"start", "never", "done"} THEN pc[r] ELSE "dead"]
  BY DEF BackendCrash
<1>3. faults' \in 0..MaxFaults
  BY <1>1 DEF BackendCrash, Fault
<1>4. QED
  BY <1>1, <1>2, <1>3 DEF BackendCrash, Labels

(* Every step keeps the shape of the state.                                *)
LEMMA ShapeStep ==
    ASSUME Shape, [Next]_vars
    PROVE  Shape'
<1>1. GSTypeOK /\ TypeOK
  BY DEF Shape, TypeOK
<1>2. CASE \E r \in Request : Handler(r)
  BY <1>2, HandlerShape
<1>3. ASSUME NEW call \in net, Serve(call) PROVE Shape'
  <2>1. GSTypeOK' /\ call \in Request \X Seq(Job)
    BY <1>3, ServeTyped
  <2>2. /\ net' \subseteq net /\ answered' = answered \cup {call}
        /\ UNCHANGED <<records, rows, tasks, pc, at, gmsgs, result, reply, ctx, faults, unwritten>>
    BY <1>3 DEF Serve
  <2>3. answered' \subseteq Request \X Seq(Job)
    BY <1>1, <2>1, <2>2 DEF TypeOK
  <2>4. QED
    BY <2>1, <2>2, <2>3, ShapeFrame
<1>4. ASSUME NEW call \in net, DropCall(call) PROVE Shape'
  <2>1. GSTypeOK'
    BY <1>1, <1>4, TypeStep DEF DropCall
  <2>2. /\ net' \subseteq net /\ answered' = answered
        /\ UNCHANGED <<records, rows, tasks, pc, at, gmsgs, result, reply, ctx, faults, unwritten>>
    BY <1>4 DEF DropCall
  <2>3. answered' \subseteq Request \X Seq(Job)
    BY <1>1, <2>2 DEF TypeOK
  <2>4. QED
    BY <2>1, <2>2, <2>3, ShapeFrame
<1>5. CASE GraphServiceStep
  <2>1. GSTypeOK'
    BY <1>1, <1>5, OwnStepsTyped
  <2>2. /\ net' \subseteq net /\ answered' = answered
        /\ UNCHANGED <<records, rows, tasks, pc, at, gmsgs, result, reply, ctx, faults, unwritten>>
    BY <1>5 DEF GraphServiceStep, backendVars
  <2>3. answered' \subseteq Request \X Seq(Job)
    BY <1>1, <2>2 DEF TypeOK
  <2>4. QED
    BY <2>1, <2>2, <2>3, ShapeFrame
<1>6. CASE BackendCrash
  <2>1. /\ pc' \in [Request -> Labels]
        /\ \A r \in Request : pc'[r] = pc[r] \/ pc'[r] = "dead"
        /\ faults' \in 0..MaxFaults
        /\ UNCHANGED <<gsVars, records, rows, tasks, at, gmsgs, result, reply, ctx, net,
                       answered, unwritten>>
    BY <1>1, <1>6, CrashMoves
  <2>2. GSTypeOK'
    BY <1>1, <2>1, TypeStep
  <2>3. TypeOK'
    BY <1>1, <2>1, <2>2 DEF TypeOK, Labels
  <2>4. \A r \in Request : Place(r)'
    BY <2>1 DEF Shape, Place
  <2>5. QED
    BY <2>3, <2>4 DEF Shape
<1>7. CASE UNCHANGED vars
  <2>1. GSTypeOK'
    BY <1>1, <1>7, TypeStep DEF vars
  <2>2. /\ net' \subseteq net /\ answered' = answered
        /\ UNCHANGED <<records, rows, tasks, pc, at, gmsgs, result, reply, ctx, faults, unwritten>>
    BY <1>7 DEF vars, backendVars
  <2>3. answered' \subseteq Request \X Seq(Job)
    BY <1>1, <2>2 DEF TypeOK
  <2>4. QED
    BY <2>1, <2>2, <2>3, ShapeFrame
<1>8. QED
  BY <1>2, <1>3, <1>4, <1>5, <1>6, <1>7 DEF Next

(* So the state begins well shaped and stays so.                           *)
LEMMA ShapeAlways == Spec => []Shape
<1>1. Init => Shape
  <2>1. GSInit => GSTypeOK
    BY GraphServiceAssumption DEF GSInit, GSTypeOK, Idle, DeleteState, Node
  <2>2. Body \in [Request -> Seq(Job)] /\ MaxFaults \in Nat
    BY OpenContextAssumption
  <2>3. \A r \in Request : Len(Body[r]) \in Nat
    BY <2>2
  <2>4. Init => pc \in [Request -> {"start", "never"}]
    BY DEF Init
  <2>5. QED
    BY <2>1, <2>2, <2>3, <2>4 DEF Init, Shape, TypeOK, Place
<1>2. Shape /\ [Next]_vars => Shape'
  BY ShapeStep
<1>3. QED
  BY <1>1, <1>2, PTL DEF Spec

(* The backend's state, and the graph service's behind it, always has the  *)
(* shape the type invariant describes.                                     *)
THEOREM BackendTyped == Spec => []TypeOK
<1>1. Shape => TypeOK
  BY DEF Shape
<1>2. QED
  BY <1>1, ShapeAlways, PTL
-----------------------------------------------------------------------------
(***************************************************************************)
(* From the rows in Postgres to the jobs in the graph service.  The three  *)
(* properties of a post say what is true of accepted messages; Kept says   *)
(* how they got there: what a handler is done with is a row and, unless    *)
(* ignored, in its payload; what was sent is the payload of a request that *)
(* is past its inserts and was not refused; and what is accepted was sent. *)
(***************************************************************************)
Stored(r) == {Body[r][i] : i \in 1..at[r]}
Sent == net \cup answered
WithMessages == {"addMessages", "addBatch"}

Gathered(r) ==
    /\ Stored(r) \subseteq rows
    /\ Range(gmsgs[r]) = {j \in Stored(r) : ~Ignored(r, j)}
    /\ pc[r] \notin {"done", "dead"} => reply[r] = 0

PastInserts(r) ==
    /\ at[r] = Len(Body[r])
    /\ pc[r] \in {"wait", "update", "done", "dead"}
    /\ reply[r] \in {0, 200}

SentInFull(call) ==
    /\ Range(call[2]) \subseteq Range(Body[call[1]])
    /\ Kind[call[1]] = "addMessages" =>
          call[2] = gmsgs[call[1]] /\ PastInserts(call[1])

Kept ==
    /\ \A m, n \in rows : Uuid[m] = Uuid[n] => m = n
    /\ \A r \in MessageRequests : Gathered(r)
    /\ \A r \in Request : Range(gmsgs[r]) \subseteq Range(Body[r])
    /\ \A call \in Sent : SentInFull(call)
    /\ \A j \in Job : Accepted(j) <=>
          \E call \in answered : Kind[call[1]] \in WithMessages /\ j \in Range(call[2])

(* Steps that move requests along and store, gather or accept nothing.     *)
LEMMA KeptFrame ==
    ASSUME Shape, Kept, net' \subseteq net,
           UNCHANGED <<rows, at, gmsgs, answered, ticket>>,
           \A r \in MessageRequests : pc'[r] \notin {"done", "dead"} => reply'[r] = 0,
           \A r \in MessageRequests : PastInserts(r) => PastInserts(r)'
    PROVE  Kept'
<1>1. \A r \in MessageRequests : Gathered(r)'
  BY DEF Kept, Gathered, Stored
<1>2. ASSUME NEW call \in Sent' PROVE SentInFull(call)'
  <2>1. call \in Sent /\ SentInFull(call) /\ call[1] \in Request
    BY DEF Kept, Sent, Shape, TypeOK
  <2>2. Kind[call[1]] = "addMessages" /\ call[1] \in Request => call[1] \in MessageRequests
    BY DEF MessageRequests
  <2>3. QED
    BY <2>1, <2>2 DEF SentInFull
<1>3. QED
  BY <1>1, <1>2 DEF Kept, Accepted

(* The same of one handler's step.                                         *)
LEMMA KeptMove ==
    ASSUME Shape, Kept, NEW r \in Request, pc[r] \notin {"done", "dead"}, net' \subseteq net,
           UNCHANGED <<rows, at, gmsgs, answered, ticket>>,
           \/ \E label \in Labels : Goto(r, label) /\ (PastInserts(r) => label = "update")
           \/ \E status \in Statuses : Answer(r, status) /\ (PastInserts(r) => status = 200)
           \/ /\ Kind[r] = "addBatch"
              /\ \A s \in Request \ {r} : pc'[s] = pc[s] /\ reply'[s] = reply[s]
    PROVE  Kept'
<1>1. TypeOK /\ pc[r] \in Labels /\ reply[r] \in Statuses
  BY DEF Shape, TypeOK, Labels, Statuses
<1>2. \A s \in Request \ {r} : pc'[s] = pc[s] /\ reply'[s] = reply[s]
  BY <1>1, Moves
<1>3. ASSUME Kind[r] = "addMessages"
      PROVE  /\ pc'[r] \notin {"done", "dead"} => reply'[r] = 0
             /\ PastInserts(r) => PastInserts(r)'
  <2>1. reply[r] = 0
    BY <1>3 DEF Kept, Gathered, MessageRequests
  <2>2. CASE \E label \in Labels : Goto(r, label) /\ (PastInserts(r) => label = "update")
    <3>1. PICK label \in Labels : Goto(r, label) /\ (PastInserts(r) => label = "update")
      BY <2>2
    <3>2. pc'[r] = label /\ reply'[r] = reply[r]
      BY <1>1, <3>1, Moves
    <3>3. QED
      BY <2>1, <3>1, <3>2 DEF PastInserts
  <2>3. CASE \E status \in Statuses : Answer(r, status) /\ (PastInserts(r) => status = 200)
    <3>1. PICK status \in Statuses : Answer(r, status) /\ (PastInserts(r) => status = 200)
      BY <2>3
    <3>2. pc'[r] = "done" /\ reply'[r] = status
      BY <1>1, <2>1, <3>1, Moves
    <3>3. QED
      BY <3>1, <3>2 DEF PastInserts
  <2>4. QED
    BY <1>3, <2>2, <2>3
<1>4. \A s \in MessageRequests : pc'[s] \notin {"done", "dead"} => reply'[s] = 0
  BY <1>2, <1>3 DEF Kept, Gathered, MessageRequests
<1>5. \A s \in MessageRequests : PastInserts(s) => PastInserts(s)'
  BY <1>2, <1>3 DEF PastInserts, MessageRequests
<1>6. QED
  BY <1>4, <1>5, KeptFrame

(* One message more is stored.                                             *)
LEMMA OneStored ==
    ASSUME Shape, NEW r \in Request, at[r] < Len(Body[r]), at'[r] = at[r] + 1
    PROVE  Stored(r)' = Stored(r) \cup {Body[r][at[r] + 1]}
<1>1. at[r] \in Nat
  BY DEF Shape, TypeOK
<1>2. 1..(at[r] + 1) = 1..at[r] \cup {at[r] + 1}
  BY <1>1
<1>3. QED
  BY <1>2 DEF Stored

(* When all are, the rows of the request are in.                           *)
LEMMA AllStored ==
    ASSUME NEW r \in Request, at[r] = Len(Body[r])
    PROVE  Stored(r) = Range(Body[r])
<1>1. Body[r] \in Seq(Job)
  BY OpenContextAssumption
<1>2. DOMAIN Body[r] = 1..Len(Body[r])
  BY <1>1
<1>3. QED
  BY <1>2 DEF Stored, Range

LEMMA KeptInsert ==
    ASSUME Shape, Shape', Kept, NEW r \in Request, InsertMessage(r)
    PROVE  Kept'
<1> DEFINE m == Body[r][at[r] + 1]
<1>1. /\ TypeOK /\ pc[r] = "insert" /\ Kind[r] = "addMessages" /\ at[r] < Len(Body[r])
      /\ r \in MessageRequests /\ reply[r] = 0 /\ Gathered(r)
  BY DEF Shape, Place, InsertMessage, Kept, Gathered, MessageRequests
<1>2. m \in Job /\ m \in Range(Body[r])
  <2>1. Body[r] \in Seq(Job) /\ at[r] \in Nat
    BY <1>1, OpenContextAssumption DEF TypeOK
  <2>2. at[r] + 1 \in DOMAIN Body[r]
    BY <1>1, <2>1
  <2>3. QED
    BY <2>1, <2>2 DEF Range
<1>3. PICK executed \in BOOLEAN, err \in BOOLEAN :
        LET inserts == executed /\ \A n \in rows : Uuid[n] # Uuid[m]
        IN  /\ rows' = IF inserts THEN rows \cup {m} ELSE rows
            /\ AfterInsert(r, m, ~err /\ inserts)
  BY DEF InsertMessage
<1>4. UNCHANGED <<net, answered, ticket>>
  BY DEF InsertMessage, gsVars, histVars
<1> HIDE DEF m
<1>5. rows \subseteq rows' /\ \A n, k \in rows' : Uuid[n] = Uuid[k] => n = k
  BY <1>3 DEF Kept
<1>6. CASE Answer(r, 400) /\ UNCHANGED <<at, gmsgs>>
  <2>1. /\ pc'[r] = "done"
        /\ \A s \in Request \ {r} : pc'[s] = pc[s] /\ reply'[s] = reply[s]
    <3>1. 400 \in Statuses
      BY DEF Statuses
    <3>2. QED
      BY <1>1, <1>6, <3>1, Moves
  <2>2. ASSUME NEW s \in MessageRequests PROVE Gathered(s)'
    <3>1. Gathered(s) /\ s \in Request
      BY DEF Kept, MessageRequests
    <3>2. QED
      BY <1>5, <1>6, <2>1, <3>1 DEF Gathered, Stored
  <2>3. ASSUME NEW call \in Sent' PROVE SentInFull(call)'
    <3>1. call \in Sent /\ SentInFull(call) /\ call[1] \in Request
      BY <1>4 DEF Kept, Sent, Shape, TypeOK
    <3>2. call[1] # r
      BY <1>1, <3>1 DEF SentInFull, PastInserts
    <3>3. QED
      BY <1>6, <2>1, <3>1, <3>2 DEF SentInFull, PastInserts
  <2>4. QED
    BY <1>4, <1>5, <1>6, <2>2, <2>3 DEF Kept, Accepted
<1>7. CASE /\ ~err /\ executed /\ (\A n \in rows : Uuid[n] # Uuid[m])
           /\ Step(r) /\ UNCHANGED reply
           /\ gmsgs' = [gmsgs EXCEPT ![r] = IF Ignored(r, m) THEN @ ELSE Append(@, m)]
  <2>1. /\ at' = [at EXCEPT ![r] = at[r] + 1]
        /\ pc' = [pc EXCEPT ![r] = IF at[r] + 1 = Len(Body[r]) THEN "call" ELSE "insert"]
        /\ rows' = rows \cup {m}
    BY <1>3, <1>7 DEF Step
  <2>2. /\ at'[r] = at[r] + 1 /\ pc'[r] \notin {"done", "dead"}
        /\ gmsgs'[r] = IF Ignored(r, m) THEN gmsgs[r] ELSE Append(gmsgs[r], m)
        /\ gmsgs[r] \in Seq(Job)
        /\ \A s \in Request \ {r} : pc'[s] = pc[s] /\ at'[s] = at[s] /\ gmsgs'[s] = gmsgs[s]
    BY <1>1, <1>7, <2>1 DEF TypeOK
  <2>3. Stored(r)' = Stored(r) \cup {m}
    BY <1>1, <2>2, OneStored DEF m
  <2>4. Range(gmsgs'[r]) = IF Ignored(r, m) THEN Range(gmsgs[r]) ELSE Range(gmsgs[r]) \cup {m}
    <3>1. Range(Append(gmsgs[r], m)) = Range(gmsgs[r]) \cup {m}
      BY <1>2, <2>2, RangeAppend
    <3>2. QED
      BY <2>2, <3>1
  <2>5. Gathered(r)'
    <3>1. (Stored(r) \subseteq rows)'
      BY <1>1, <2>1, <2>3 DEF Gathered
    <3>2. {j \in Stored(r)' : ~Ignored(r, j)}
             = {j \in Stored(r) : ~Ignored(r, j)} \cup (IF Ignored(r, m) THEN {} ELSE {m})
      BY <2>3
    <3>3. (Range(gmsgs[r]) = {j \in Stored(r) : ~Ignored(r, j)})'
      BY <1>1, <2>4, <3>2 DEF Gathered
    <3>4. QED
      BY <1>1, <1>7, <3>1, <3>3 DEF Gathered
  <2>6. ASSUME NEW s \in MessageRequests, s # r PROVE Gathered(s)'
    <3>1. Gathered(s) /\ s \in Request
      BY DEF Kept, MessageRequests
    <3>2. QED
      BY <1>5, <1>7, <2>2, <2>6, <3>1 DEF Gathered, Stored
  <2>7. \A s \in Request : Range(gmsgs'[s]) \subseteq Range(Body[s])
    BY <1>2, <2>2, <2>4 DEF Kept
  <2>8. ASSUME NEW call \in Sent' PROVE SentInFull(call)'
    <3>1. call \in Sent /\ SentInFull(call) /\ call[1] \in Request
      BY <1>4 DEF Kept, Sent, Shape, TypeOK
    <3>2. call[1] # r
      BY <1>1, <3>1 DEF SentInFull, PastInserts
    <3>3. QED
      BY <1>7, <2>2, <3>1, <3>2 DEF SentInFull, PastInserts
  <2>9. QED
    BY <1>4, <1>5, <2>5, <2>6, <2>7, <2>8 DEF Kept, Accepted
<1>8. QED
  BY <1>3, <1>6, <1>7 DEF AfterInsert

(* A batch takes its next item; no post is touched.                        *)
LEMMA KeptNextItem ==
    ASSUME Shape, Kept, NEW r \in Request, NextItem(r)
    PROVE  Kept'
<1>1. /\ TypeOK /\ Kind[r] = "addBatch" /\ pc[r] = "item"
      /\ UNCHANGED <<rows, net, answered, ticket, reply>>
  BY DEF Shape, NextItem, Goto, gsVars, histVars
<1>2. \/ Goto(r, "update") /\ UNCHANGED <<at, gmsgs>>
      \/ /\ at[r] < Len(Body[r]) /\ at' = [at EXCEPT ![r] = at[r] + 1]
         /\ (Goto(r, "item") /\ UNCHANGED gmsgs)
            \/ (Goto(r, "call") /\ gmsgs' = [gmsgs EXCEPT ![r] = <<Body[r][at[r] + 1]>>])
  <2>1. at[r] \in Nat /\ Len(Body[r]) \in Nat /\ at[r] <= Len(Body[r])
    BY <1>1, OpenContextAssumption DEF TypeOK
  <2>2. QED
    BY <2>1 DEF NextItem
<1>3. \A s \in Request \ {r} : pc'[s] = pc[s] /\ at'[s] = at[s] /\ gmsgs'[s] = gmsgs[s]
  BY <1>1, <1>2 DEF Goto, TypeOK
<1>4. Range(gmsgs'[r]) \subseteq Range(Body[r])
  <2>1. CASE gmsgs' = gmsgs
    BY <2>1 DEF Kept
  <2>2. CASE at[r] < Len(Body[r]) /\ gmsgs' = [gmsgs EXCEPT ![r] = <<Body[r][at[r] + 1]>>]
    <3>1. gmsgs'[r] = <<Body[r][at[r] + 1]>>
      BY <1>1, <2>2 DEF TypeOK
    <3>2. Body[r] \in Seq(Job) /\ at[r] \in Nat
      BY <1>1, OpenContextAssumption DEF TypeOK
    <3>3. at[r] + 1 \in DOMAIN Body[r]
      BY <2>2, <3>2
    <3>4. Range(gmsgs'[r]) = {Body[r][at[r] + 1]}
      BY <3>1 DEF Range
    <3>5. QED
      BY <3>3, <3>4 DEF Range
  <2>3. QED
    BY <1>2, <2>1, <2>2
<1>5. r \notin MessageRequests
  BY <1>1 DEF MessageRequests
<1>6. \A s \in MessageRequests : Gathered(s)'
  BY <1>1, <1>3, <1>5 DEF Kept, Gathered, Stored, MessageRequests
<1>7. ASSUME NEW call \in Sent' PROVE SentInFull(call)'
  <2>1. call \in Sent /\ SentInFull(call) /\ call[1] \in Request
    BY <1>1 DEF Kept, Sent, Shape, TypeOK
  <2>2. Kind[call[1]] = "addMessages" => call[1] # r
    BY <1>1
  <2>3. QED
    BY <1>1, <1>3, <2>1, <2>2 DEF SentInFull, PastInserts
<1>8. \A s \in Request : Range(gmsgs'[s]) \subseteq Range(Body[s])
  BY <1>3, <1>4 DEF Kept
<1>9. QED
  BY <1>1, <1>6, <1>7, <1>8 DEF Kept, Accepted

(* A call is sent: of a post, in full.                                     *)
LEMMA KeptSend ==
    ASSUME Shape, Kept, NEW r \in Request, pc[r] = "call", Goto(r, "wait"),
           net' = net \cup {ThisCall(r)}, UNCHANGED <<rows, at, gmsgs, answered, ticket>>
    PROVE  Kept'
<1>1. /\ pc'[r] = "wait" /\ reply' = reply
      /\ \A s \in Request \ {r} : pc'[s] = pc[s]
  BY DEF Goto, Shape, TypeOK
<1>2. \A s \in MessageRequests : Gathered(s)'
  BY <1>1 DEF Kept, Gathered, Stored, MessageRequests
<1>3. ThisCall(r)[1] = r /\ ThisCall(r)[2] = gmsgs[r]
  BY DEF ThisCall
<1>4. ASSUME NEW call, call = ThisCall(r) PROVE SentInFull(call)'
  <2>1. Range(gmsgs[r]) \subseteq Range(Body[r])
    BY DEF Kept
  <2>2. Kind[r] = "addMessages" => at[r] = Len(Body[r]) /\ reply[r] = 0
    BY DEF Shape, Place, Kept, Gathered, MessageRequests
  <2>3. QED
    BY <1>1, <1>3, <1>4, <2>1, <2>2 DEF SentInFull, PastInserts
<1>5. ASSUME NEW call \in Sent PROVE SentInFull(call)'
  <2>1. SentInFull(call) /\ call[1] \in Request
    BY DEF Kept, Sent, Shape, TypeOK
  <2>2. Kind[call[1]] = "addMessages" => call[1] # r
    BY <2>1 DEF SentInFull, PastInserts
  <2>3. QED
    BY <1>1, <2>1, <2>2 DEF SentInFull, PastInserts
<1>6. Sent' = Sent \cup {ThisCall(r)}
  BY DEF Sent
<1>7. \A call \in Sent' : SentInFull(call)'
  BY <1>4, <1>5, <1>6
<1>8. QED
  BY <1>2, <1>7 DEF Kept, Accepted

LEMMA KeptHandler ==
    ASSUME Shape, Shape', Kept, NEW r \in Request, Handler(r)
    PROVE  Kept'
<1>1. TypeOK /\ Kind[r] \in Kinds /\ Place(r)
  BY OpenContextAssumption DEF Shape
<1>2. ASSUME pc[r] \notin {"wait", "update", "done", "dead"} PROVE ~PastInserts(r)
  BY <1>2 DEF PastInserts
<1>3. {200, 400, 404, 500} \subseteq Statuses /\ {"task", "row", "call", "insert", "update"} \subseteq Labels
  BY DEF Statuses, Labels
<1>4. CASE Select(r)
  <2>1. UNCHANGED <<rows, at, gmsgs, net, answered, ticket>> /\ pc[r] = "start"
    BY <1>4 DEF Select, gsVars, histVars
  <2>2. \/ Answer(r, 400) \/ Answer(r, 404)
        \/ Goto(r, "task") \/ Goto(r, "row") \/ Goto(r, "call")
    BY <1>4 DEF Select
  <2>3. QED
    BY <1>2, <1>3, <2>1, <2>2, KeptMove
<1>5. CASE InsertRecord(r)
  <2>1. /\ UNCHANGED <<rows, at, gmsgs, net, answered, ticket>>
        /\ pc[r] \in {"start", "row"}
    BY <1>5 DEF InsertRecord, gsVars, histVars
  <2>2. Answer(r, 400) \/ Goto(r, "call")
    BY <1>5 DEF InsertRecord
  <2>3. QED
    BY <1>2, <1>3, <2>1, <2>2, KeptMove
<1>6. CASE SoftDelete(r)
  <2>1. UNCHANGED <<rows, at, gmsgs, net, answered, ticket>> /\ pc[r] = "row"
    BY <1>6 DEF SoftDelete, gsVars, histVars
  <2>2. Answer(r, 500) \/ Answer(r, 200)
    BY <1>6 DEF SoftDelete
  <2>3. QED
    BY <1>2, <1>3, <2>1, <2>2, KeptMove
<1>7. CASE CreateTask(r)
  <2>1. /\ UNCHANGED <<rows, at, gmsgs, net, answered, ticket>>
        /\ pc[r] \in {"task", "start"}
    BY <1>7 DEF CreateTask, gsVars, histVars
  <2>2. CASE Kind[r] = "addBatch"
    <3>1. pc' = [pc EXCEPT ![r] = "item"] /\ reply' = [reply EXCEPT ![r] = 200]
      BY <1>7, <2>2 DEF CreateTask
    <3>2. \A s \in Request \ {r} : pc'[s] = pc[s] /\ reply'[s] = reply[s]
      BY <1>1, <3>1 DEF TypeOK
    <3>3. QED
      BY <2>1, <2>2, <3>2, KeptMove
  <2>3. CASE Kind[r] # "addBatch"
    <3>1. Goto(r, "call") \/ Goto(r, "insert")
      BY <1>7, <2>3 DEF CreateTask
    <3>2. QED
      BY <1>2, <1>3, <2>1, <3>1, KeptMove
  <2>4. QED
    BY <2>2, <2>3
<1>8. CASE UpdateTask(r)
  <2>1. /\ UNCHANGED <<rows, at, gmsgs, net, answered, ticket>>
        /\ pc[r] \in {"progress", "update"}
    BY <1>8 DEF UpdateTask, gsVars, histVars
  <2>2. CASE pc[r] = "update"
    <3>1. Answer(r, 200)
      BY <1>8, <2>2 DEF UpdateTask
    <3>2. QED
      BY <1>3, <2>1, <3>1, KeptMove
  <2>3. CASE pc[r] = "progress"
    <3>1. Goto(r, "item") /\ Kind[r] = "addBatch"
      BY <1>1, <1>8, <2>3 DEF UpdateTask, Place
    <3>2. \A s \in Request \ {r} : pc'[s] = pc[s] /\ reply'[s] = reply[s]
      BY <1>1, <3>1 DEF Goto, TypeOK
    <3>3. QED
      BY <2>1, <2>3, <3>1, <3>2, KeptMove
  <2>4. QED
    BY <2>1, <2>2, <2>3
<1>9. CASE Send(r) /\ ctx[r] = "live"
  <2>1. /\ pc[r] = "call" /\ Goto(r, "wait") /\ net' = net \cup {ThisCall(r)}
        /\ UNCHANGED <<rows, at, gmsgs, answered, ticket>>
    BY <1>9 DEF Send, gsVars, histVars
  <2>2. QED
    BY <2>1, KeptSend
<1>10. CASE \/ Send(r) /\ ctx[r] # "live"
            \/ Receive(r) \/ CallFails(r) \/ GiveUp(r)
  <2>1. /\ UNCHANGED <<rows, at, gmsgs, answered, ticket>> /\ net' \subseteq net
        /\ pc[r] \in {"call", "wait"}
    BY <1>10 DEF Send, Receive, CallFails, GiveUp, gsVars, histVars
  <2>2. \E err \in BOOLEAN : AfterCall(r, err)
    BY <1>10 DEF Send, Receive, CallFails, GiveUp
  <2>3. \/ Kind[r] = "addMessages" /\ Goto(r, "update")
        \/ Kind[r] = "addBatch" /\ Goto(r, "progress")
        \/ Kind[r] \in {"deleteThread", "deleteUser"} /\ Goto(r, "row")
        \/ Kind[r] \in {"createThread", "createUser"} /\ Answer(r, 200)
    BY <2>2, CallMoves
  <2>4. CASE Kind[r] = "addBatch"
    <3>1. \A s \in Request \ {r} : pc'[s] = pc[s] /\ reply'[s] = reply[s]
      BY <1>1, <2>3, <2>4 DEF Goto, TypeOK
    <3>2. QED
      BY <2>1, <2>4, <3>1, KeptMove
  <2>5. CASE Kind[r] = "addMessages"
    <3>1. Goto(r, "update")
      BY <2>3, <2>5
    <3>2. QED
      BY <1>3, <2>1, <3>1, KeptMove
  <2>6. CASE Kind[r] \notin {"addMessages", "addBatch"}
    <3>1. Goto(r, "row") \/ Answer(r, 200)
      BY <2>3, <2>6
    <3>2. \A s \in MessageRequests : s # r
      BY <2>6 DEF MessageRequests
    <3>3. \A s \in Request \ {r} : pc'[s] = pc[s] /\ reply'[s] = reply[s]
      BY <1>1, <1>3, <3>1, Moves
    <3>4. /\ \A s \in MessageRequests : pc'[s] \notin {"done", "dead"} => reply'[s] = 0
          /\ \A s \in MessageRequests : PastInserts(s) => PastInserts(s)'
      BY <2>1, <3>2, <3>3 DEF Kept, Gathered, PastInserts, MessageRequests
    <3>5. QED
      BY <2>1, <3>4, KeptFrame
  <2>7. QED
    BY <2>4, <2>5, <2>6
<1>11. QED
  BY <1>4, <1>5, <1>6, <1>7, <1>8, <1>9, <1>10, KeptInsert, KeptNextItem DEF Handler

(* The graph service takes a call: what it carries is accepted.            *)
LEMMA NewlyAccepted ==
    ASSUME GSTypeOK, NEW b \in Seq(Job), AddMessages(b)
    PROVE  \A j \in Job : Accepted(j)' <=> Accepted(j) \/ j \in Range(b)
<1> DEFINE rank(j) == CHOOSE i \in DOMAIN b : b[i] = j
<1>1. ticket' = [j \in Job |-> IF j \in Range(b) THEN issued + rank(j) ELSE ticket[j]]
  BY DEF AddMessages
<1>2. ASSUME NEW j \in Range(b) PROVE rank(j) \in Nat /\ rank(j) > 0
  <2>1. DOMAIN b = 1..Len(b) /\ Len(b) \in Nat
    OBVIOUS
  <2>2. rank(j) \in DOMAIN b
    BY DEF Range
  <2>3. QED
    BY <2>1, <2>2
<1> HIDE DEF rank
<1>3. issued \in Nat
  BY DEF GSTypeOK
<1>4. ASSUME NEW j \in Job PROVE Accepted(j)' <=> Accepted(j) \/ j \in Range(b)
  <2>1. CASE j \in Range(b)
    <3>1. ticket'[j] = issued + rank(j)
      BY <1>1, <2>1
    <3>2. QED
      BY <1>2, <1>3, <2>1, <3>1 DEF Accepted
  <2>2. CASE j \notin Range(b)
    BY <1>1, <2>2 DEF Accepted
  <2>3. QED
    BY <2>1, <2>2
<1>5. QED
  BY <1>4

LEMMA KeptServe ==
    ASSUME Shape, Kept, NEW call \in net, Serve(call)
    PROVE  Kept'
<1>1. /\ UNCHANGED <<rows, pc, at, gmsgs, reply>>
      /\ answered' = answered \cup {call} /\ Sent' = Sent
  BY DEF Serve, Sent
<1>2. /\ call[2] \in Seq(Job)
      /\ \/ Kind[call[1]] \in WithMessages /\ AddMessages(call[2])
         \/ Kind[call[1]] \notin WithMessages /\ UNCHANGED ticket
  BY ServeTyped DEF WithMessages
<1>3. ASSUME NEW j \in Job
      PROVE  Accepted(j)' <=>
                Accepted(j) \/ (Kind[call[1]] \in WithMessages /\ j \in Range(call[2]))
  <2>1. CASE Kind[call[1]] \in WithMessages /\ AddMessages(call[2])
    BY <1>2, <2>1, NewlyAccepted DEF Shape, TypeOK
  <2>2. CASE Kind[call[1]] \notin WithMessages /\ UNCHANGED ticket
    BY <2>2 DEF Accepted
  <2>3. QED
    BY <1>2, <2>1, <2>2
<1>4. \A j \in Job : Accepted(j)' <=>
        \E c \in answered' : Kind[c[1]] \in WithMessages /\ j \in Range(c[2])
  BY <1>1, <1>3 DEF Kept
<1>5. \A r \in MessageRequests : Gathered(r)'
  BY <1>1 DEF Kept, Gathered, Stored
<1>6. \A c \in Sent' : SentInFull(c)'
  BY <1>1 DEF Kept, SentInFull, PastInserts
<1>7. QED
  BY <1>1, <1>4, <1>5, <1>6 DEF Kept

(* Every step keeps it.                                                    *)
LEMMA KeptStep ==
    ASSUME Shape, Shape', Kept, [Next]_vars
    PROVE  Kept'
<1>1. TypeOK /\ GSTypeOK
  BY DEF Shape, TypeOK
<1>2. ASSUME net' \subseteq net, UNCHANGED <<rows, at, gmsgs, answered, ticket, pc, reply>>
      PROVE  Kept'
  <2>1. \A r \in MessageRequests : pc'[r] \notin {"done", "dead"} => reply'[r] = 0
    BY <1>2 DEF Kept, Gathered
  <2>2. \A r \in MessageRequests : PastInserts(r) => PastInserts(r)'
    BY <1>2 DEF PastInserts
  <2>3. QED
    BY <1>2, <2>1, <2>2, KeptFrame
<1>3. CASE \E r \in Request : Handler(r)
  BY <1>3, KeptHandler
<1>4. CASE \E call \in net : Serve(call)
  BY <1>4, KeptServe
<1>5. CASE \E call \in net : DropCall(call)
  BY <1>2, <1>5 DEF DropCall, gsVars, histVars
<1>6. CASE GraphServiceStep
  <2>1. UNCHANGED ticket
    BY <1>1, <1>6, OwnStepsTyped
  <2>2. QED
    BY <1>2, <1>6, <2>1 DEF GraphServiceStep, backendVars
<1>7. CASE BackendCrash
  <2>1. /\ \A r \in Request : pc'[r] = pc[r] \/ pc'[r] = "dead"
        /\ UNCHANGED <<gsVars, records, rows, tasks, at, gmsgs, result, reply, ctx, net,
                       answered>>
    BY <1>1, <1>7, CrashMoves
  <2>2. \A r \in MessageRequests : pc'[r] \notin {"done", "dead"} => reply'[r] = 0
    BY <2>1, <1>7 DEF Kept, Gathered, MessageRequests
  <2>3. \A r \in MessageRequests : PastInserts(r) => PastInserts(r)'
    BY <2>1 DEF PastInserts, MessageRequests
  <2>4. UNCHANGED <<rows, at, gmsgs, answered, ticket>> /\ net' \subseteq net
    BY <2>1 DEF gsVars, histVars
  <2>5. QED
    BY <2>2, <2>3, <2>4, KeptFrame
<1>8. CASE UNCHANGED vars
  BY <1>2, <1>8 DEF vars, backendVars, gsVars, histVars
<1>9. QED
  BY <1>3, <1>4, <1>5, <1>6, <1>7, <1>8 DEF Next

LEMMA KeptAlways == Spec => [](Shape /\ Kept)
<1>1. Init => Kept
  <2> SUFFICES ASSUME Init PROVE Kept
    OBVIOUS
  <2>1. /\ rows = {} /\ net = {} /\ answered = {} /\ \A j \in Job : ticket[j] = 0
        /\ \A r \in Request : at[r] = 0 /\ gmsgs[r] = <<>> /\ reply[r] = 0
    BY DEF Init, GSInit
  <2>2. Range(<<>>) = {}
    BY DEF Range
  <2>3. \A r \in Request : Stored(r) = {}
    BY <2>1 DEF Stored
  <2>4. QED
    BY <2>1, <2>2, <2>3 DEF Kept, Gathered, Sent, Accepted, MessageRequests
<1>2. Kept /\ Shape /\ Shape' /\ [Next]_vars => Kept'
  BY KeptStep
<1>3. QED
  BY <1>1, <1>2, ShapeAlways, PTL DEF Spec

(* An accepted message of a post was sent by that post.                    *)
LEMMA AcceptedFromPost ==
    ASSUME Shape, Kept, NEW r \in MessageRequests, NEW j \in Range(Body[r]), Accepted(j)
    PROVE  /\ PastInserts(r) /\ j \in Range(gmsgs[r])
           /\ \A k \in Range(gmsgs[r]) : Accepted(k)
<1>1. Body \in [Request -> Seq(Job)] /\ r \in Request /\ Kind[r] = "addMessages"
  BY OpenContextAssumption DEF MessageRequests
<1>2. j \in Job
  BY <1>1, RangeInSet
<1>3. PICK call \in answered : Kind[call[1]] \in WithMessages /\ j \in Range(call[2])
  BY <1>2 DEF Kept
<1>4. SentInFull(call) /\ call[1] \in Request
  BY <1>3 DEF Kept, Sent, Shape, TypeOK
<1>5. j \in Range(Body[call[1]])
  BY <1>3, <1>4 DEF SentInFull
<1>6. call[1] = r
  BY <1>1, <1>4, <1>5, OpenContextAssumption DEF Range
<1>7. call[2] = gmsgs[r] /\ PastInserts(r)
  BY <1>1, <1>4, <1>6 DEF SentInFull
<1>8. Range(gmsgs[r]) \subseteq Job
  BY <1>1, RangeInSet DEF Shape, TypeOK
<1>9. \A k \in Range(gmsgs[r]) : Accepted(k)
  BY <1>1, <1>3, <1>6, <1>7, <1>8 DEF Kept
<1>10. QED
  BY <1>3, <1>7, <1>9

(* Whatever is lost and whoever dies: the graph service is handed all of a *)
(* post or none of it, and only after all of it is in Postgres.            *)
THEOREM AllOrNothing == Spec => []AllStoredBeforeAnyAccepted
<1>1. ASSUME Shape, Kept, NEW r \in MessageRequests, NEW j \in Range(Body[r]), Accepted(j)
      PROVE  /\ Range(Body[r]) \subseteq rows
             /\ \A k \in Range(Body[r]) : Accepted(k) <=> k \in Wanted(r)
  <2>1. PastInserts(r) /\ \A k \in Range(gmsgs[r]) : Accepted(k)
    BY <1>1, AcceptedFromPost
  <2>2. \A k \in Range(Body[r]) : Accepted(k) => k \in Range(gmsgs[r])
    BY <1>1, AcceptedFromPost
  <2>3. Stored(r) = Range(Body[r])
    BY <2>1, AllStored DEF PastInserts, MessageRequests
  <2>4. Gathered(r)
    BY <1>1 DEF Kept
  <2>5. Range(gmsgs[r]) = Wanted(r)
    BY <2>3, <2>4 DEF Gathered, Wanted, MessageRequests
  <2>6. QED
    BY <2>1, <2>2, <2>3, <2>4, <2>5 DEF Gathered
<1>2. Shape /\ Kept => AllStoredBeforeAnyAccepted
  BY <1>1 DEF AllStoredBeforeAnyAccepted
<1>3. QED
  BY <1>2, KeptAlways, PTL

(* No uuid gets into the graph twice, however many requests carry it and   *)
(* however they interleave.                                                *)
THEOREM UuidsOnce == Spec => []OncePerUuid
<1>1. ASSUME Shape, Kept, NEW j \in Posted, Accepted(j) PROVE j \in rows
  <2>1. PICK r \in MessageRequests : j \in Range(Body[r])
    BY DEF Posted
  <2>2. PastInserts(r) /\ j \in Range(gmsgs[r])
    BY <1>1, <2>1, AcceptedFromPost
  <2>3. Gathered(r)
    BY <1>1 DEF Kept
  <2>4. QED
    BY <2>2, <2>3 DEF Gathered
<1>2. Shape /\ Kept => OncePerUuid
  BY <1>1 DEF OncePerUuid, Kept
<1>3. QED
  BY <1>2, KeptAlways, PTL

(* A refused post has sent nothing and never will.                         *)
THEOREM RefusedNeverSent == Spec => []RefusedLeavesNoTrace
<1>1. ASSUME Shape, Kept, NEW r \in MessageRequests, reply[r] \in {400, 404}
      PROVE  /\ \A j \in Range(Body[r]) : ~Accepted(j)
             /\ \A call \in net : call[1] # r
  <2>1. ~PastInserts(r)
    BY <1>1 DEF PastInserts
  <2>2. \A j \in Range(Body[r]) : ~Accepted(j)
    BY <1>1, <2>1, AcceptedFromPost
  <2>3. \A call \in net : call[1] # r
    BY <1>1, <2>1 DEF Kept, Sent, SentInFull, MessageRequests
  <2>4. QED
    BY <2>2, <2>3
<1>2. Shape /\ Kept => RefusedLeavesNoTrace
  BY <1>1 DEF RefusedLeavesNoTrace
<1>3. QED
  BY <1>2, KeptAlways, PTL
-----------------------------------------------------------------------------
(***************************************************************************)
(* Tasks.  A post earns "completed" with one call.  A batch earns it item  *)
(* by item: as long as nothing failed, the items it is done with, but for  *)
(* the one whose call is under way, are accepted.                          *)
(***************************************************************************)
AllAccepted(r) == \A j \in Wanted(r) : Accepted(j)
ItemsAccepted(r, n) == \A i \in 1..n : Body[r][i] \in Wanted(r) => Accepted(Body[r][i])

Honest(r) ==
    /\ tasks[r] = "completed" => AllAccepted(r)
    /\ Kind[r] = "addMessages" /\ pc[r] = "update" /\ result[r] = "completed"
          => AllAccepted(r)
    /\ Kind[r] = "addBatch" /\ pc[r] \in {"item", "progress", "update"}
          /\ result[r] = "completed" => ItemsAccepted(r, at[r])
    /\ Kind[r] = "addBatch" /\ pc[r] \in {"call", "wait"} =>
          /\ at[r] > 0 /\ gmsgs[r] = <<Body[r][at[r]]>>
          /\ result[r] = "completed" => ItemsAccepted(r, at[r] - 1)
    /\ Kind[r] \notin WithMessages => tasks[r] = "none"

(* What is accepted stays accepted.                                        *)
LEMMA AcceptedStays ==
    ASSUME Shape, [Next]_vars
    PROVE  \A j \in Job : Accepted(j) => Accepted(j)'
<1>1. TypeOK /\ GSTypeOK
  BY DEF Shape, TypeOK
<1>2. ASSUME NEW r \in Request, Handler(r) PROVE UNCHANGED ticket
  <2>1. UNCHANGED gsVars
    BY <1>2 DEF Handler, Select, InsertRecord, SoftDelete, CreateTask, InsertMessage,
       NextItem, UpdateTask, Send, Receive, CallFails, GiveUp
  <2>2. QED
    BY <2>1 DEF gsVars, histVars
<1>3. ASSUME NEW call \in net, Serve(call)
      PROVE  \A j \in Job : Accepted(j) => Accepted(j)'
  <2>1. /\ call[2] \in Seq(Job)
        /\ AddMessages(call[2]) \/ UNCHANGED ticket
    BY <1>3, ServeTyped
  <2>2. QED
    BY <1>1, <2>1, NewlyAccepted DEF Accepted
<1>4. CASE \E call \in net : DropCall(call)
  BY <1>4 DEF DropCall, gsVars, histVars, Accepted
<1>5. CASE GraphServiceStep
  BY <1>1, <1>5, OwnStepsTyped DEF Accepted
<1>6. CASE BackendCrash
  BY <1>6 DEF BackendCrash, gsVars, histVars, Accepted
<1>7. CASE UNCHANGED vars
  BY <1>7 DEF vars, gsVars, histVars, Accepted
<1>8. QED
  BY <1>2, <1>3, <1>4, <1>5, <1>6, <1>7 DEF Next, Accepted

LEMMA ItemsStay ==
    ASSUME NEW r \in Request, \A j \in Job : Accepted(j) => Accepted(j)'
    PROVE  /\ AllAccepted(r) => AllAccepted(r)'
           /\ \A n \in Nat : n <= Len(Body[r]) /\ ItemsAccepted(r, n) =>
                 \A i \in 1..n : Body[r][i] \in Wanted(r) => Accepted(Body[r][i])'
<1>1. Body[r] \in Seq(Job)
  BY OpenContextAssumption
<1>2. Wanted(r) \subseteq Job
  BY <1>1, RangeInSet DEF Wanted
<1>3. \A i \in 1..Len(Body[r]) : Body[r][i] \in Job
  BY <1>1
<1>4. QED
  BY <1>2, <1>3 DEF AllAccepted, ItemsAccepted

(* A request that is left alone, or dies.                                  *)
LEMMA HonestFrame ==
    ASSUME Shape, NEW r \in Request, Honest(r), \A j \in Job : Accepted(j) => Accepted(j)',
           tasks'[r] = tasks[r], result'[r] = result[r], at'[r] = at[r],
           gmsgs'[r] = gmsgs[r], pc'[r] \in {pc[r], "dead"}
    PROVE  Honest(r)'
<1>1. at[r] \in Nat /\ at[r] <= Len(Body[r]) /\ Len(Body[r]) \in Nat
  BY OpenContextAssumption DEF Shape, TypeOK
<1>2. AllAccepted(r) => AllAccepted(r)'
  BY ItemsStay
<1>3. ItemsAccepted(r, at[r]) => ItemsAccepted(r, at[r])'
  BY <1>1, ItemsStay DEF ItemsAccepted
<1>4. at[r] > 0 /\ ItemsAccepted(r, at[r] - 1) => ItemsAccepted(r, at[r] - 1)'
  <2>1. at[r] > 0 => at[r] - 1 \in Nat /\ at[r] - 1 <= Len(Body[r])
    BY <1>1
  <2>2. QED
    BY <2>1, ItemsStay DEF ItemsAccepted
<1>5. QED
  BY <1>2, <1>3, <1>4 DEF Honest

(* A request that is no batch and is not at its last statement.            *)
LEMMA HonestPlain ==
    ASSUME NEW r \in Request, Honest(r), \A j \in Job : Accepted(j) => Accepted(j)',
           Kind[r] # "addBatch", pc'[r] # "update",
           tasks'[r] = tasks[r] \/ (Kind[r] \in WithMessages /\ tasks'[r] # "completed")
    PROVE  Honest(r)'
<1>1. AllAccepted(r) => AllAccepted(r)'
  BY ItemsStay
<1>2. QED
  BY <1>1 DEF Honest, WithMessages

(* A handler's step is about its own request.                              *)
LEMMA HandlerLocal ==
    ASSUME TypeOK, NEW r \in Request, Handler(r)
    PROVE  \A s \in Request \ {r} :
              /\ tasks'[s] = tasks[s] /\ result'[s] = result[s] /\ at'[s] = at[s]
              /\ gmsgs'[s] = gmsgs[s] /\ pc'[s] = pc[s]
<1>1. /\ tasks = [x \in Request |-> tasks[x]] /\ result = [x \in Request |-> result[x]]
      /\ at = [x \in Request |-> at[x]] /\ gmsgs = [x \in Request |-> gmsgs[x]]
      /\ pc = [x \in Request |-> pc[x]]
  BY DEF TypeOK
<1> TAKE s \in Request \ {r}
<1>2. CASE Select(r)
  <2>1. UNCHANGED <<tasks, result, at, gmsgs>>
    BY <1>2 DEF Select
  <2>2. pc'[s] = pc[s]
    BY <1>1, <1>2 DEF Select, Goto, Answer
  <2>3. QED  BY <2>1, <2>2
<1>3. CASE InsertRecord(r)
  <2>1. UNCHANGED <<tasks, result, at, gmsgs>>
    BY <1>3 DEF InsertRecord
  <2>2. pc'[s] = pc[s]
    BY <1>1, <1>3 DEF InsertRecord, Goto, Answer
  <2>3. QED  BY <2>1, <2>2
<1>4. CASE SoftDelete(r)
  <2>1. UNCHANGED <<tasks, result, at, gmsgs>>
    BY <1>4 DEF SoftDelete
  <2>2. pc'[s] = pc[s]
    BY <1>1, <1>4 DEF SoftDelete, Goto, Answer
  <2>3. QED  BY <2>1, <2>2
<1>5. CASE CreateTask(r)
  <2>1. UNCHANGED <<result, at, gmsgs>>
    BY <1>5 DEF CreateTask
  <2>2. pc'[s] = pc[s]
    BY <1>1, <1>5 DEF CreateTask, Goto, Answer
  <2>3. tasks'[s] = tasks[s]
    BY <1>1, <1>5 DEF CreateTask
  <2>4. QED  BY <2>1, <2>2, <2>3
<1>6. CASE UpdateTask(r)
  <2>1. UNCHANGED <<result, at, gmsgs>>
    BY <1>6 DEF UpdateTask
  <2>2. pc'[s] = pc[s]
    BY <1>1, <1>6 DEF UpdateTask, Goto, Answer
  <2>3. tasks'[s] = tasks[s]
    BY <1>1, <1>6 DEF UpdateTask
  <2>4. QED  BY <2>1, <2>2, <2>3
<1>7. CASE InsertMessage(r)
  <2>1. UNCHANGED <<tasks, result>>
    BY <1>7 DEF InsertMessage
  <2>2. PICK m, ok : AfterInsert(r, m, ok)
    BY <1>7 DEF InsertMessage
  <2>3. at'[s] = at[s] /\ gmsgs'[s] = gmsgs[s] /\ pc'[s] = pc[s]
    BY <1>1, <2>2 DEF AfterInsert, Step, Answer
  <2>4. QED  BY <2>1, <2>3
<1>8. CASE NextItem(r)
  <2>1. UNCHANGED <<tasks, result>>
    BY <1>8 DEF NextItem
  <2>2. at'[s] = at[s]
    BY <1>1, <1>8 DEF NextItem
  <2>3. gmsgs'[s] = gmsgs[s]
    BY <1>1, <1>8 DEF NextItem
  <2>4. pc'[s] = pc[s]
    BY <1>1, <1>8 DEF NextItem, Goto
  <2>5. QED  BY <2>1, <2>2, <2>3, <2>4
<1>9. CASE Send(r) \/ Receive(r) \/ CallFails(r) \/ GiveUp(r)
  <2>1. UNCHANGED <<tasks, at, gmsgs>>
    BY <1>9, CallTyped
  <2>2. (\E err : AfterCall(r, err)) \/ (Goto(r, "wait") /\ UNCHANGED result)
    BY <1>9 DEF Send, Receive, CallFails, GiveUp
  <2>3. pc'[s] = pc[s]
    BY <1>1, <2>2, CallMoves DEF Goto, Answer
  <2>4. result'[s] = result[s]
    BY <1>1, <2>2, CallMoves
  <2>5. QED  BY <2>1, <2>3, <2>4
<1>10. QED
  BY <1>2, <1>3, <1>4, <1>5, <1>6, <1>7, <1>8, <1>9 DEF Handler

(* What a call earns its request.                                          *)
LEMMA HonestCall ==
    ASSUME Shape, Kept, NEW r \in Request, Honest(r), UNCHANGED ticket,
           Send(r) \/ Receive(r) \/ CallFails(r) \/ GiveUp(r)
    PROVE  Honest(r)'
<1>1. /\ TypeOK /\ pc[r] \in {"call", "wait"}
      /\ UNCHANGED <<tasks, at, gmsgs>>
  BY CallTyped DEF Shape
<1>2. Body[r] \in Seq(Job) /\ at[r] \in Nat /\ at[r] <= Len(Body[r])
  BY <1>1, OpenContextAssumption DEF TypeOK
<1>3. \A j \in Job : Accepted(j) => Accepted(j)'
  BY DEF Accepted
<1>4. /\ AllAccepted(r) <=> AllAccepted(r)'
      /\ \A n : ItemsAccepted(r, n) => \A i \in 1..n : Body[r][i] \in Wanted(r) => Accepted(Body[r][i])'
  BY DEF AllAccepted, ItemsAccepted, Accepted
<1>5. ASSUME pc'[r] = "wait", result'[r] = result[r] PROVE Honest(r)'
  BY <1>1, <1>4, <1>5 DEF Honest, ItemsAccepted
<1>6. ASSUME NEW err \in BOOLEAN, AfterCall(r, err),
             ~err => pc[r] = "wait" /\ ThisCall(r) \in answered
      PROVE  Honest(r)'
  <2>1. /\ \/ Kind[r] = "addMessages" /\ pc'[r] = "update"
           \/ Kind[r] = "addBatch" /\ pc'[r] = "progress"
           \/ Kind[r] \notin WithMessages
        /\ result'[r] = IF err THEN "failed" ELSE result[r]
    <3>1. /\ \/ Kind[r] = "addMessages" /\ Goto(r, "update")
             \/ Kind[r] = "addBatch" /\ Goto(r, "progress")
             \/ Kind[r] \in {"deleteThread", "deleteUser"} /\ Goto(r, "row")
             \/ Kind[r] \in {"createThread", "createUser"} /\ Answer(r, 200)
          /\ result' = [result EXCEPT ![r] = IF err THEN "failed" ELSE result[r]]
      BY <1>6, CallMoves
    <3>2. result'[r] = IF err THEN "failed" ELSE result[r]
      BY <1>1, <3>1 DEF TypeOK
    <3>3. QED
      BY <1>1, <3>1, <3>2 DEF Goto, TypeOK, WithMessages
  <2>2. ASSUME ~err, Kind[r] \in WithMessages PROVE \A j \in Range(gmsgs[r]) : Accepted(j)
    <3>1. ThisCall(r) \in answered /\ ThisCall(r)[1] = r /\ ThisCall(r)[2] = gmsgs[r]
      BY <1>6, <2>2 DEF ThisCall
    <3>2. Range(gmsgs[r]) \subseteq Job
      BY <1>1, RangeInSet DEF TypeOK
    <3>3. QED
      BY <2>2, <3>1, <3>2 DEF Kept
  <2>3. ASSUME ~err, Kind[r] = "addMessages" PROVE AllAccepted(r)
    <3>1. r \in MessageRequests /\ at[r] = Len(Body[r])
      BY <1>1, <2>3 DEF MessageRequests, Shape, Place
    <3>2. Range(gmsgs[r]) = Wanted(r)
      BY <3>1, AllStored DEF Kept, Gathered, Wanted, MessageRequests
    <3>3. QED
      BY <2>2, <2>3, <3>2 DEF AllAccepted, WithMessages
  <2>4. ASSUME ~err, Kind[r] = "addBatch", result[r] = "completed" PROVE ItemsAccepted(r, at[r])
    <3>1. at[r] > 0 /\ gmsgs[r] = <<Body[r][at[r]]>> /\ ItemsAccepted(r, at[r] - 1)
      BY <1>1, <2>4 DEF Honest
    <3>2. Range(gmsgs[r]) = {Body[r][at[r]]}
      BY <3>1 DEF Range
    <3>3. Accepted(Body[r][at[r]])
      BY <2>2, <2>4, <3>2 DEF WithMessages
    <3>4. 1..at[r] = 1..(at[r] - 1) \cup {at[r]}
      BY <1>2, <3>1
    <3>5. QED
      BY <3>1, <3>3, <3>4 DEF ItemsAccepted
  <2>5. CASE Kind[r] = "addMessages"
    BY <1>1, <1>4, <2>1, <2>3, <2>5 DEF Honest, WithMessages
  <2>6. CASE Kind[r] = "addBatch"
    BY <1>1, <1>4, <2>1, <2>4, <2>6 DEF Honest, WithMessages, ItemsAccepted
  <2>7. CASE Kind[r] \notin WithMessages
    BY <1>1, <2>7 DEF Honest, WithMessages
  <2>8. QED
    BY <2>1, <2>5, <2>6, <2>7
<1>7. CASE Send(r) /\ ctx[r] = "live"
  <2>1. Goto(r, "wait") /\ UNCHANGED result
    BY <1>7 DEF Send
  <2>2. QED
    BY <1>1, <1>5, <2>1 DEF Goto, TypeOK
<1>8. CASE Receive(r)
  BY <1>6, <1>8 DEF Receive, Answered
<1>9. CASE (Send(r) /\ ctx[r] # "live") \/ CallFails(r) \/ GiveUp(r)
  BY <1>6, <1>9 DEF Send, CallFails, GiveUp
<1>10. QED
  BY <1>7, <1>8, <1>9

(* A batch takes its next item, or comes to its end.                       *)
LEMMA HonestNextItem ==
    ASSUME Shape, NEW r \in Request, Honest(r), UNCHANGED ticket, NextItem(r)
    PROVE  Honest(r)'
<1>1. /\ Kind[r] = "addBatch" /\ pc[r] = "item" /\ UNCHANGED <<tasks, result>>
      /\ at \in [Request -> Nat] /\ gmsgs \in [Request -> Seq(Job)] /\ pc \in [Request -> Labels]
  BY DEF NextItem, Shape, TypeOK, Labels
<1>2. Body[r] \in Seq(Job) /\ at[r] \in Nat /\ at[r] <= Len(Body[r])
  BY OpenContextAssumption DEF Shape, TypeOK
<1>3. \A j : Accepted(j) <=> Accepted(j)'
  BY DEF Accepted
<1>4. AllAccepted(r) <=> AllAccepted(r)'
  BY <1>3 DEF AllAccepted
<1>5. result[r] = "completed" => ItemsAccepted(r, at[r])
  BY <1>1 DEF Honest
<1>6. CASE at[r] = Len(Body[r])
  <2>1. pc'[r] = "update" /\ at' = at
    BY <1>1, <1>6 DEF NextItem, Goto
  <2>2. QED
    BY <1>1, <1>3, <1>4, <1>5, <2>1 DEF Honest, WithMessages, ItemsAccepted
<1>7. CASE at[r] # Len(Body[r])
  <2> DEFINE item == Body[r][at[r] + 1]
  <2>1. at'[r] = at[r] + 1 /\ at'[r] > 0 /\ at'[r] - 1 = at[r]
    <3>1. at'[r] = at[r] + 1
      BY <1>1, <1>7 DEF NextItem
    <3>2. QED
      BY <1>2, <3>1
  <2>2. \/ item \in Ungrouped /\ pc'[r] = "item"
        \/ pc'[r] = "call" /\ gmsgs'[r] = <<item>>
    BY <1>1, <1>7 DEF NextItem, Goto
  <2>3. ASSUME item \in Ungrouped, ItemsAccepted(r, at[r]) PROVE ItemsAccepted(r, at[r] + 1)
    <3>1. item \notin Wanted(r)
      BY <1>1, <2>3 DEF Wanted
    <3>2. 1..(at[r] + 1) = 1..at[r] \cup {at[r] + 1}
      BY <1>2
    <3>3. QED
      BY <2>3, <3>1, <3>2 DEF ItemsAccepted
  <2>4. CASE item \in Ungrouped /\ pc'[r] = "item"
    BY <1>1, <1>3, <1>4, <1>5, <2>1, <2>3, <2>4 DEF Honest, WithMessages, ItemsAccepted
  <2>5. CASE pc'[r] = "call" /\ gmsgs'[r] = <<item>>
    BY <1>1, <1>3, <1>4, <1>5, <2>1, <2>5 DEF Honest, WithMessages, ItemsAccepted
  <2>6. QED
    BY <2>2, <2>4, <2>5
<1>8. QED
  BY <1>6, <1>7

(* The task is written what was earned.                                    *)
LEMMA HonestUpdate ==
    ASSUME Shape, NEW r \in Request, Honest(r), UNCHANGED ticket, UpdateTask(r)
    PROVE  Honest(r)'
<1>1. /\ TypeOK /\ Place(r) /\ UNCHANGED <<result, at, gmsgs>>
      /\ pc[r] \in {"progress", "update"} /\ Kind[r] \in WithMessages
  BY DEF UpdateTask, Shape, Place, WithMessages
<1>2. \A j : Accepted(j) <=> Accepted(j)'
  BY DEF Accepted
<1>3. AllAccepted(r) <=> AllAccepted(r)'
  BY <1>2 DEF AllAccepted
<1>4. \/ tasks'[r] = tasks[r]
      \/ pc[r] = "progress" /\ tasks'[r] = "processing"
      \/ pc[r] = "update" /\ tasks'[r] = result[r]
  <2>1. PICK executed \in BOOLEAN : tasks' = [tasks EXCEPT ![r] =
                IF ~executed \/ @ = "none" THEN @
                ELSE IF pc[r] = "progress" THEN "processing" ELSE result[r]]
    BY DEF UpdateTask
  <2>2. QED
    BY <1>1, <2>1 DEF TypeOK
<1>5. ASSUME pc[r] = "update", result[r] = "completed" PROVE AllAccepted(r)
  <2>1. CASE Kind[r] = "addMessages"
    BY <1>5, <2>1 DEF Honest
  <2>2. CASE Kind[r] = "addBatch"
    <3>1. ItemsAccepted(r, at[r]) /\ at[r] = Len(Body[r])
      BY <1>1, <1>5, <2>2 DEF Honest, Place
    <3>2. Body[r] \in Seq(Job)
      BY OpenContextAssumption
    <3>3. ASSUME NEW j \in Wanted(r) PROVE Accepted(j)
      <4>1. PICK i \in DOMAIN Body[r] : Body[r][i] = j
        BY DEF Wanted, Range
      <4>2. i \in 1..at[r]
        BY <3>1, <3>2
      <4>3. QED
        BY <3>1, <4>1, <4>2 DEF ItemsAccepted
    <3>4. QED
      BY <3>3 DEF AllAccepted
  <2>3. QED
    BY <1>1, <2>1, <2>2 DEF WithMessages
<1>6. \/ pc'[r] = "done"
      \/ pc[r] = "progress" /\ pc'[r] = "item" /\ Kind[r] = "addBatch"
  BY <1>1 DEF UpdateTask, Goto, Answer, TypeOK, Place
<1>7. CASE pc'[r] = "done"
  BY <1>1, <1>3, <1>4, <1>5, <1>7 DEF Honest
<1>8. CASE pc[r] = "progress" /\ pc'[r] = "item" /\ Kind[r] = "addBatch"
  BY <1>1, <1>2, <1>3, <1>4, <1>8 DEF Honest, ItemsAccepted, WithMessages
<1>9. QED
  BY <1>6, <1>7, <1>8

LEMMA HonestHandler ==
    ASSUME Shape, Kept, NEW r \in Request, Honest(r), UNCHANGED ticket, Handler(r)
    PROVE  Honest(r)'
<1>1. TypeOK /\ Place(r) /\ \A j \in Job : Accepted(j) => Accepted(j)'
  BY DEF Shape, Accepted
<1>2. CASE Select(r)
  <2>1. Kind[r] # "addBatch" /\ tasks' = tasks
    BY <1>2 DEF Select
  <2>2. pc'[r] # "update"
    BY <1>1, <1>2 DEF Select, Goto, Answer, TypeOK
  <2>3. QED
    BY <1>1, <2>1, <2>2, HonestPlain
<1>3. CASE InsertRecord(r) \/ SoftDelete(r)
  <2>1. Kind[r] # "addBatch" /\ tasks' = tasks
    BY <1>3 DEF InsertRecord, SoftDelete
  <2>2. pc'[r] # "update"
    BY <1>1, <1>3 DEF InsertRecord, SoftDelete, Goto, Answer, TypeOK
  <2>3. QED
    BY <1>1, <2>1, <2>2, HonestPlain
<1>4. CASE CreateTask(r)
  <2>1. /\ tasks'[r] = tasks[r] \/ tasks'[r] \in {"pending", "processing"}
        /\ UNCHANGED <<result, at, gmsgs>> /\ Kind[r] \in WithMessages
    BY <1>1, <1>4 DEF CreateTask, TypeOK, WithMessages
  <2>2. CASE Kind[r] = "addMessages"
    <3>1. pc'[r] # "update"
      BY <1>1, <1>4, <2>2 DEF CreateTask, Goto, TypeOK
    <3>2. QED
      BY <1>1, <2>1, <2>2, <3>1, HonestPlain
  <2>3. CASE Kind[r] = "addBatch"
    <3>1. pc'[r] = "item" /\ at'[r] = 0
      BY <1>1, <1>4, <2>1, <2>3 DEF CreateTask, TypeOK, Place
    <3>2. AllAccepted(r) => AllAccepted(r)'
      BY <1>1, ItemsStay
    <3>3. ItemsAccepted(r, at[r])'
      BY <3>1 DEF ItemsAccepted
    <3>4. QED
      BY <2>1, <2>3, <3>1, <3>2, <3>3 DEF Honest, WithMessages
  <2>4. QED
    BY <2>1, <2>2, <2>3 DEF WithMessages
<1>5. CASE InsertMessage(r)
  <2>1. Kind[r] # "addBatch" /\ tasks' = tasks
    BY <1>1, <1>5 DEF InsertMessage, Place
  <2>2. pc'[r] # "update"
    <3>1. PICK m, ok : AfterInsert(r, m, ok)
      BY <1>5 DEF InsertMessage
    <3>2. QED
      BY <1>1, <3>1 DEF AfterInsert, Step, Answer, TypeOK
  <2>3. QED
    BY <1>1, <2>1, <2>2, HonestPlain
<1>6. QED
  BY <1>2, <1>3, <1>4, <1>5, HonestNextItem, HonestUpdate, HonestCall DEF Handler

LEMMA HonestStep ==
    ASSUME Shape, Kept, \A r \in Request : Honest(r), [Next]_vars
    PROVE  \A r \in Request : Honest(r)'
<1>1. TypeOK /\ \A j \in Job : Accepted(j) => Accepted(j)'
  BY AcceptedStays DEF Shape
<1>2. CASE \E r \in Request : Handler(r)
  <2>1. PICK r \in Request : Handler(r)
    BY <1>2
  <2>2. UNCHANGED ticket
    <3>1. UNCHANGED gsVars
      BY <2>1 DEF Handler, Select, InsertRecord, SoftDelete, CreateTask, InsertMessage,
         NextItem, UpdateTask, Send, Receive, CallFails, GiveUp
    <3>2. QED
      BY <3>1 DEF gsVars, histVars
  <2>3. \A s \in Request \ {r} : Honest(s)'
    BY <1>1, <2>1, HandlerLocal, HonestFrame
  <2>4. Honest(r)'
    BY <2>1, <2>2, HonestHandler
  <2>5. QED
    BY <2>3, <2>4
<1>3. ASSUME UNCHANGED <<tasks, result, at, gmsgs>>,
             \A r \in Request : pc'[r] \in {pc[r], "dead"}
      PROVE  \A r \in Request : Honest(r)'
  BY <1>1, <1>3, HonestFrame
<1>4. CASE \E call \in net : Serve(call) \/ DropCall(call)
  BY <1>3, <1>4 DEF Serve, DropCall
<1>5. CASE GraphServiceStep \/ UNCHANGED vars
  BY <1>3, <1>5 DEF GraphServiceStep, backendVars, vars
<1>6. CASE BackendCrash
  BY <1>1, <1>3, <1>6, CrashMoves
<1>7. QED
  BY <1>2, <1>4, <1>5, <1>6 DEF Next

(* A task that says "completed" is telling the truth, although calls, their*)
(* answers and the updates of the task itself may be lost.                 *)
THEOREM TasksHonest == Spec => []CompletedMeansAccepted
<1> DEFINE AllHonest == \A r \in Request : Honest(r)
<1>1. Init => AllHonest
  BY DEF Init, Honest
<1>2. Shape /\ Kept /\ AllHonest /\ [Next]_vars => AllHonest'
  BY HonestStep
<1>3. AllHonest => CompletedMeansAccepted
  BY DEF Honest, AllAccepted, CompletedMeansAccepted
<1> HIDE DEF AllHonest
<1>4. QED
  BY <1>1, <1>2, <1>3, KeptAlways, PTL DEF Spec
-----------------------------------------------------------------------------
(***************************************************************************)
(* Groups left to batches.  With the worker's jobs, the calls under way    *)
(* and the handlers past their lookups all elsewhere or a batch's, every   *)
(* step leaves a deleted group to batches.                                 *)
(***************************************************************************)
(* The worker never joins groups, whoever posts the messages.              *)
LEMMA OneGroupNext ==
    ASSUME Shape, Shape', OfOneGroup, [Next]_vars
    PROVE  OfOneGroup'
<1>1. GSTypeOK /\ GSTypeOK'
  BY DEF Shape, TypeOK
<1>2. CASE [GSNext]_gsVars
  BY <1>1, <1>2, OneGroupStep
<1>3. ASSUME NEW b, AddMessages(b) PROVE OfOneGroup'
  BY <1>3 DEF AddMessages, graphVars, OfOneGroup, NodeGroup
<1>4. ASSUME NEW call \in net, Serve(call) PROVE OfOneGroup'
  <2>1. /\ Kind[call[1]] \in Kinds /\ Subject[call[1]] \in Group /\ call[1] \in Request
    BY OpenContextAssumption DEF Shape, TypeOK
  <2>2. CASE Kind[call[1]] \in WithMessages
    BY <1>3, <1>4, <2>2 DEF Serve, WithMessages
  <2>3. CASE Kind[call[1]] \in {"createThread", "createUser"}
    BY <1>2, <1>4, <2>1, <2>3 DEF Serve, GSNext
  <2>4. CASE Kind[call[1]] \in {"deleteThread", "deleteUser"}
    <3>1. call[1] \in DeleteCall
      BY <2>1, <2>4, OpenContextAssumption
    <3>2. BeginDelete(call[1], Subject[call[1]])
      BY <1>4, <2>4 DEF Serve
    <3>3. QED
      BY <1>2, <2>1, <3>1, <3>2 DEF GSNext
  <2>5. QED
    BY <2>1, <2>2, <2>3, <2>4 DEF Kinds, WithMessages
<1>5. CASE GraphServiceStep
  BY <1>2, <1>5 DEF GraphServiceStep, GSNext
<1>6. CASE UNCHANGED gsVars
  BY <1>2, <1>6
<1>7. QED
  BY <1>4, <1>5, <1>6 DEF Next, Handler, Select, InsertRecord, SoftDelete, CreateTask,
     InsertMessage, NextItem, UpdateTask, Send, Receive, CallFails, GiveUp, DropCall,
     BackendCrash, vars

(* The parts of LeftToBatches, and what a step must leave out.             *)
QuietRequest(r, g) == Kind[r] # "addBatch" /\ Subject[r] = g =>
    \/ pc[r] \in {"start", "never", "done", "dead"}
    \/ Kind[r] = "createThread" /\ pc[r] = "row"
QuietCall(call, g) == Kind[call[1]] # "addBatch" => Subject[call[1]] # g
QuietJobs(g) == \A j \in Range(queue) \cup Uncommitted : GroupOf[j] = g => j \in Batched
WritesElsewhere(g) == current \notin Batched =>
    /\ \A j \in episodes' \ episodes : GroupOf[j] # g
    /\ \A n \in nodes' \ nodes : NodeGroup(n) # g

(* The graph service, left to itself.                                      *)
LEMMA QuietWorker ==
    ASSUME GSTypeOK, OfOneGroup, NEW g \in Group, QuietJobs(g), GraphServiceStep
    PROVE  QuietJobs(g)' /\ WritesElsewhere(g)
<1>1. ASSUME Range(queue') \cup Uncommitted' \subseteq Range(queue) \cup Uncommitted,
             episodes' \subseteq episodes, nodes' \subseteq nodes
      PROVE  QuietJobs(g)' /\ WritesElsewhere(g)
  BY <1>1 DEF QuietJobs, WritesElsewhere
<1>2. CASE StartJob
  <2>1. Range(queue) = {current'} \cup Range(queue')
    BY <1>2, RangeHeadTail DEF StartJob, GSTypeOK
  <2>2. Uncommitted' = {current'} /\ UNCHANGED <<episodes, nodes>>
    BY <1>2 DEF StartJob, Uncommitted, Running, graphVars
  <2>3. QED
    BY <1>1, <2>1, <2>2
<1>3. CASE ResolveNode \/ ResolveFact
  BY <1>1, <1>3 DEF ResolveNode, ResolveFact, Uncommitted, Running, graphVars
<1>4. CASE CommitEpisode
  <2>1. /\ phase = "related" /\ phase' = "saved" /\ queue' = queue
        /\ episodes' = episodes \cup {current} /\ nodes' = nodes \cup {target}
    BY <1>4 DEF CommitEpisode
  <2>2. (GroupOf[current] # g \/ current \in Batched) /\ Uncommitted' = {}
    BY <2>1 DEF QuietJobs, Uncommitted, Running
  <2>3. NodeGroup(target) # g \/ current \in Batched
    BY <2>1, <2>2 DEF OfOneGroup
  <2>4. QED
    BY <2>1, <2>2, <2>3 DEF QuietJobs, WritesElsewhere
<1>5. CASE FinishJob \/ FailJob
  BY <1>1, <1>5 DEF FinishJob, FailJob, NextJob, Uncommitted, Running, graphVars
<1>6. CASE \E d \in DeleteCall : DeleteStep(d)
  BY <1>1, <1>6 DEF DeleteStep, ReadEdges, ReadNodes, ReadEpisodes, DeleteOneEdge, DeleteOneNode,
     DeleteOneEpisode, FinishDelete, FailDelete, RemoveNodes, RemoveEpisodes, Uncommitted,
     workerVars, graphVars
<1>7. CASE Stop \/ Crash
  <2>1. LoseQueue
    BY <1>7, Zenon DEF Stop, Crash
  <2>2. queue' = <<>> /\ phase' = "waiting" /\ UNCHANGED <<episodes, nodes>>
    BY <2>1 DEF LoseQueue, NextJob, graphVars
  <2>3. Range(queue') = {} /\ Uncommitted' = {}
    BY <2>2 DEF Range, Uncommitted, Running
  <2>4. QED
    BY <1>1, <2>2, <2>3
<1>8. CASE Start
  BY <1>1, <1>8 DEF Start, workerVars, graphVars, Uncommitted
<1>9. QED
  BY <1>2, <1>3, <1>4, <1>5, <1>6, <1>7, <1>8 DEF GraphServiceStep, WorkerStep

(* The graph service takes a call that is a batch's or about other groups. *)
LEMMA QuietServe ==
    ASSUME Shape, Kept, NEW g \in Group, QuietJobs(g), NEW call \in net, QuietCall(call, g), Serve(call)
    PROVE  QuietJobs(g)' /\ WritesElsewhere(g)
<1>1. /\ Kind[call[1]] \in Kinds /\ Subject[call[1]] \in Group /\ call[1] \in Request
      /\ call[2] \in Seq(Job) /\ queue \in Seq(Job)
  BY OpenContextAssumption DEF Shape, TypeOK, GSTypeOK
<1>2. CASE Kind[call[1]] \in WithMessages
  <2>1. /\ queue' = queue \o call[2]
        /\ UNCHANGED <<episodes, nodes, phase, current>>
    BY <1>2 DEF Serve, AddMessages, WithMessages, graphVars
  <2>2. Range(queue') = Range(queue) \cup Range(call[2])
    BY <1>1, <2>1, RangeConcat
  <2>3. Range(call[2]) \subseteq Range(Body[call[1]])
    BY DEF Kept, Sent, SentInFull
  <2>4. CASE Kind[call[1]] = "addBatch"
    <3>1. Range(call[2]) \subseteq Batched
      BY <1>1, <2>3, <2>4 DEF Batched
    <3>2. QED
      BY <2>1, <2>2, <3>1 DEF QuietJobs, WritesElsewhere, Uncommitted
  <2>5. CASE Kind[call[1]] = "addMessages"
    <3>1. \A j \in Range(Body[call[1]]) : GroupOf[j] # g
      BY <1>1, <2>5, OpenContextAssumption DEF QuietCall, Range
    <3>2. QED
      BY <2>1, <2>2, <2>3, <3>1 DEF QuietJobs, WritesElsewhere, Uncommitted
  <2>6. QED
    BY <1>2, <2>4, <2>5 DEF WithMessages
<1>3. CASE Kind[call[1]] \in {"createThread", "createUser"}
  <2>1. /\ nodes' = nodes \cup {Subject[call[1]]}
        /\ UNCHANGED <<episodes, phase, current, queue>>
    BY <1>3 DEF Serve, AddEntityNode, workerVars
  <2>2. NodeGroup(Subject[call[1]]) # g
    BY <1>1, <1>3 DEF NodeGroup, QuietCall
  <2>3. QED
    BY <2>1, <2>2 DEF QuietJobs, WritesElsewhere, Uncommitted
<1>4. CASE Kind[call[1]] \in {"deleteThread", "deleteUser"}
  <2>1. BeginDelete(call[1], Subject[call[1]])
    BY <1>4 DEF Serve
  <2>2. UNCHANGED <<episodes, nodes, phase, current, queue>>
    BY <2>1 DEF BeginDelete, workerVars, graphVars
  <2>3. QED
    BY <2>2 DEF QuietJobs, WritesElsewhere, Uncommitted
<1>5. QED
  BY <1>1, <1>2, <1>3, <1>4 DEF Kinds, WithMessages

(* A handler: the lookups of a deleted record fail, and a row that is      *)
(* deleted still takes its key.                                            *)
LEMMA QuietHandler ==
    ASSUME Shape, NEW g \in Group, records[g] = "deleted",
           NEW r \in Request, QuietRequest(r, g), Handler(r)
    PROVE  /\ records'[g] = "deleted" /\ QuietRequest(r, g)'
           /\ \A call \in net' \ net : QuietCall(call, g)
           /\ \A j \in rows' \ rows : GroupOf[j] # g
<1>1. /\ TypeOK /\ Place(r) /\ Kind[r] \in Kinds /\ Body[r] \in Seq(Job)
      /\ records \in [Group -> {"absent", "live", "deleted"}]
      /\ pc \in [Request -> Labels]
  BY OpenContextAssumption DEF Shape, TypeOK, Labels
<1>2. CASE Select(r)
  <2>1. UNCHANGED <<records, net, rows>> /\ Kind[r] # "addBatch" /\ pc[r] = "start"
    BY <1>2 DEF Select
  <2>2. \/ pc'[r] = "done"
        \/ Kind[r] = "createThread" /\ pc'[r] = "row"
        \/ Kind[r] # "createThread" /\ records[Subject[r]] = "live"
    BY <1>1, <1>2 DEF Select, Goto, Answer, Found, Key
  <2>3. QED
    BY <2>1, <2>2 DEF QuietRequest
<1>3. CASE InsertRecord(r)
  <2>1. UNCHANGED <<net, rows>> /\ Kind[r] # "addBatch" /\ pc[r] \in {"start", "row"}
    BY <1>3 DEF InsertRecord
  <2>2. \/ pc'[r] = "done" /\ records' = records
        \/ /\ records[Subject[r]] = "absent"
           /\ records' = records \/ records' = [records EXCEPT ![Subject[r]] = "live"]
    BY <1>1, <1>3 DEF InsertRecord, Free, Answer
  <2>3. QED
    BY <1>1, <2>1, <2>2 DEF QuietRequest
<1>4. CASE SoftDelete(r)
  <2>1. /\ UNCHANGED <<net, rows>> /\ pc'[r] = "done"
        /\ records' = records \/ records' = [records EXCEPT ![Subject[r]] = "deleted"]
    BY <1>1, <1>4 DEF SoftDelete, Answer
  <2>2. QED
    BY <1>1, <2>1 DEF QuietRequest
<1>5. CASE CreateTask(r)
  <2>1. UNCHANGED <<records, net, rows>> /\ Kind[r] \in WithMessages /\ pc[r] \in {"task", "start"}
    BY <1>5 DEF CreateTask, WithMessages
  <2>2. Kind[r] = "addMessages" => pc[r] = "task"
    BY <1>5 DEF CreateTask
  <2>3. QED
    BY <2>1, <2>2 DEF QuietRequest, WithMessages
<1>6. CASE InsertMessage(r)
  <2>1. UNCHANGED <<records, net>> /\ pc[r] = "insert" /\ Kind[r] = "addMessages"
    BY <1>1, <1>6 DEF InsertMessage, Place
  <2>2. Subject[r] # g
    BY <2>1 DEF QuietRequest
  <2>3. at[r] + 1 \in DOMAIN Body[r]
    BY <1>1, <2>1 DEF TypeOK, Place
  <2>4. GroupOf[Body[r][at[r] + 1]] # g
    BY <2>1, <2>2, <2>3, OpenContextAssumption
  <2>5. rows' \subseteq rows \cup {Body[r][at[r] + 1]}
    BY <1>6 DEF InsertMessage
  <2>6. QED
    BY <2>1, <2>2, <2>4, <2>5 DEF QuietRequest
<1>7. CASE NextItem(r) \/ UpdateTask(r)
  <2>1. /\ UNCHANGED <<records, net, rows>>
        /\ pc[r] \in {"item", "progress", "update"}
    BY <1>7 DEF NextItem, UpdateTask
  <2>2. Kind[r] \in WithMessages
    BY <1>1, <2>1 DEF Place, WithMessages
  <2>3. QED
    BY <2>1, <2>2 DEF QuietRequest, WithMessages
<1>8. CASE Send(r) \/ Receive(r) \/ CallFails(r) \/ GiveUp(r)
  <2>1. /\ UNCHANGED <<records, rows>> /\ pc[r] \in {"call", "wait"}
        /\ net' \subseteq net \cup {ThisCall(r)}
    BY <1>1, <1>8, CallTyped
  <2>2. Kind[r] # "addBatch" => Subject[r] # g
    BY <2>1 DEF QuietRequest
  <2>3. QuietCall(ThisCall(r), g)
    BY <2>2 DEF QuietCall, ThisCall
  <2>4. QuietRequest(r, g)'
    BY <2>2 DEF QuietRequest
  <2>5. QED
    BY <2>1, <2>3, <2>4
<1>9. QED
  BY <1>2, <1>3, <1>4, <1>5, <1>6, <1>7, <1>8 DEF Handler

LEMMA QuietStep ==
    ASSUME Shape, Kept, OfOneGroup, [Next]_vars,
           NEW g \in Group, records[g] = "deleted", LeftToBatches(g)
    PROVE  /\ records'[g] = "deleted" /\ LeftToBatches(g)'
           /\ \A j \in rows' \ rows : GroupOf[j] # g
           /\ WritesElsewhere(g)
<1>1. /\ TypeOK /\ GSTypeOK
      /\ \A r \in Request : QuietRequest(r, g)
      /\ \A call \in net : QuietCall(call, g)
      /\ QuietJobs(g)
  <2>1. TypeOK /\ GSTypeOK
    BY DEF Shape, TypeOK
  <2>2. \A r \in Request : QuietRequest(r, g)
    BY DEF LeftToBatches, QuietRequest
  <2>3. \A call \in net : QuietCall(call, g)
    BY DEF LeftToBatches, QuietCall
  <2>4. QuietJobs(g)
    BY DEF LeftToBatches, QuietJobs
  <2>5. QED
    BY <2>1, <2>2, <2>3, <2>4
<1>2. ASSUME records'[g] = "deleted", \A r \in Request : QuietRequest(r, g)',
             \A call \in net' : QuietCall(call, g), QuietJobs(g)',
             WritesElsewhere(g), \A j \in rows' \ rows : GroupOf[j] # g
      PROVE  /\ records'[g] = "deleted" /\ LeftToBatches(g)'
             /\ \A j \in rows' \ rows : GroupOf[j] # g
             /\ WritesElsewhere(g)
  <2>1. LeftToBatches(g)'
    BY <1>2 DEF LeftToBatches, QuietRequest, QuietCall, QuietJobs
  <2>2. QED
    BY <1>2, <2>1
<1>3. ASSUME UNCHANGED <<records, rows>>, net' \subseteq net,
             \A r \in Request : pc'[r] \in {pc[r], "dead"},
             QuietJobs(g)', WritesElsewhere(g)
      PROVE  /\ records'[g] = "deleted" /\ LeftToBatches(g)'
             /\ \A j \in rows' \ rows : GroupOf[j] # g
             /\ WritesElsewhere(g)
  <2>1. \A r \in Request : QuietRequest(r, g)'
    BY <1>1, <1>3 DEF QuietRequest
  <2>2. \A call \in net' : QuietCall(call, g)
    BY <1>1, <1>3
  <2>3. QED
    BY <1>2, <1>3, <2>1, <2>2
<1>4. ASSUME UNCHANGED gsVars PROVE QuietJobs(g)' /\ WritesElsewhere(g)
  BY <1>1, <1>4 DEF gsVars, workerVars, graphVars, QuietJobs, Uncommitted, WritesElsewhere
<1>5. ASSUME NEW r \in Request, Handler(r)
      PROVE  /\ records'[g] = "deleted" /\ LeftToBatches(g)'
             /\ \A j \in rows' \ rows : GroupOf[j] # g
             /\ WritesElsewhere(g)
  <2>1. UNCHANGED gsVars
    BY <1>5 DEF Handler, Select, InsertRecord, SoftDelete, CreateTask, InsertMessage,
       NextItem, UpdateTask, Send, Receive, CallFails, GiveUp
  <2>2. /\ records'[g] = "deleted" /\ QuietRequest(r, g)'
        /\ \A call \in net' \ net : QuietCall(call, g)
        /\ \A j \in rows' \ rows : GroupOf[j] # g
    BY <1>1, <1>5, QuietHandler
  <2>3. \A s \in Request \ {r} : QuietRequest(s, g)'
    BY <1>1, <1>5, HandlerLocal DEF QuietRequest
  <2>4. QED
    BY <1>1, <1>2, <1>4, <2>1, <2>2, <2>3
<1>6. ASSUME NEW call \in net, Serve(call)
      PROVE  /\ records'[g] = "deleted" /\ LeftToBatches(g)'
             /\ \A j \in rows' \ rows : GroupOf[j] # g
             /\ WritesElsewhere(g)
  <2>1. QuietJobs(g)' /\ WritesElsewhere(g)
    BY <1>1, <1>6, QuietServe
  <2>2. UNCHANGED <<records, rows, pc>> /\ net' \subseteq net
    BY <1>6 DEF Serve
  <2>3. QED
    BY <1>3, <2>1, <2>2
<1>7. CASE \E call \in net : DropCall(call)
  <2>1. UNCHANGED <<records, rows, pc, gsVars>> /\ net' \subseteq net
    BY <1>7 DEF DropCall
  <2>2. QED
    BY <1>3, <1>4, <2>1
<1>8. CASE GraphServiceStep
  <2>1. QuietJobs(g)' /\ WritesElsewhere(g)
    BY <1>1, <1>8, QuietWorker
  <2>2. UNCHANGED <<records, rows, pc, net>>
    BY <1>8 DEF GraphServiceStep, backendVars
  <2>3. QED
    BY <1>3, <2>1, <2>2
<1>9. CASE BackendCrash
  <2>1. /\ \A r \in Request : pc'[r] = pc[r] \/ pc'[r] = "dead"
        /\ UNCHANGED <<gsVars, records, rows, net>>
    BY <1>1, <1>9, CrashMoves
  <2>2. QED
    BY <1>3, <1>4, <2>1
<1>10. CASE UNCHANGED vars
  <2>1. UNCHANGED <<records, rows, pc, net, gsVars>>
    BY <1>10 DEF vars, backendVars
  <2>2. QED
    BY <1>3, <1>4, <2>1
<1>11. QED
  BY <1>5, <1>6, <1>7, <1>8, <1>9, <1>10 DEF Next

(* Deletion of a thread or user is final but for batches: once what was    *)
(* under way has ended, no request, crash or restart revives its record,   *)
(* adds a message row, or lets anything but an item of a batch write to    *)
(* its group.                                                              *)
THEOREM DeletionIsFinal == Spec => DeletedStaysQuiet
<1>1. Init => OfOneGroup
  BY DEF Init, GSInit, OfOneGroup
<1>2. OfOneGroup /\ Shape /\ Shape' /\ [Next]_vars => OfOneGroup'
  BY OneGroupNext
<1>3. Shape /\ Kept /\ OfOneGroup /\ [Next]_vars =>
        [\A g \in Group : records[g] = "deleted" /\ LeftToBatches(g) =>
          /\ records'[g] = "deleted" /\ LeftToBatches(g)'
          /\ \A j \in rows' \ rows : GroupOf[j] # g
          /\ current \notin Batched =>
                /\ \A j \in episodes' \ episodes : GroupOf[j] # g
                /\ \A n \in nodes' \ nodes : NodeGroup(n) # g]_vars
  BY QuietStep DEF WritesElsewhere
<1>4. QED
  BY <1>1, <1>2, <1>3, KeptAlways, PTL DEF Spec, DeletedStaysQuiet
-----------------------------------------------------------------------------
(***************************************************************************)
(* The backend uses the graph service as GraphService allows.  Its         *)
(* handlers move nothing there; what they send are bodies that the service *)
(* knows: a post's messages in the order of the request, which InTurn says *)
(* of what a handler has gathered, and the items of a batch one by one.    *)
(***************************************************************************)
Earlier(r, i, k) == \E p, q \in 1..at[r] :
    p < q /\ Body[r][p] = gmsgs[r][i] /\ Body[r][q] = gmsgs[r][k]

Ordered(r) == \A i, k \in DOMAIN gmsgs[r] : i < k => Earlier(r, i, k)

OneItem(r, b) == \E j \in Wanted(r) : b = <<j>>

InTurn ==
    /\ \A r \in MessageRequests : Len(gmsgs[r]) <= at[r] /\ Ordered(r)
    /\ \A r \in Request : Kind[r] = "addBatch" /\ pc[r] = "call" => OneItem(r, gmsgs[r])
    /\ \A call \in net : Kind[call[1]] = "addBatch" => OneItem(call[1], call[2])

(* One message more comes after those that were gathered.                  *)
LEMMA OrderedAppend ==
    ASSUME Shape, Kept, InTurn, NEW r \in MessageRequests, at[r] < Len(Body[r]),
           at'[r] = at[r] + 1,
           gmsgs'[r] = gmsgs[r] \/ gmsgs'[r] = Append(gmsgs[r], Body[r][at[r] + 1])
    PROVE  Len(gmsgs'[r]) <= at'[r] /\ Ordered(r)'
<1>1. /\ r \in Request /\ at[r] \in Nat /\ gmsgs[r] \in Seq(Job) /\ Body[r] \in Seq(Job)
      /\ Len(gmsgs[r]) <= at[r] /\ Ordered(r)
  BY OpenContextAssumption DEF MessageRequests, Shape, TypeOK, InTurn
<1>2. 1..at[r] \subseteq 1..at'[r] /\ at[r] + 1 \in 1..at'[r]
  BY <1>1
<1>3. CASE gmsgs'[r] = gmsgs[r]
  BY <1>1, <1>2, <1>3 DEF Ordered, Earlier
<1>4. CASE gmsgs'[r] = Append(gmsgs[r], Body[r][at[r] + 1])
  <2> DEFINE m == Body[r][at[r] + 1]
  <2>0. PICK n \in Nat : n = Len(gmsgs[r])
    BY <1>1
  <2>1. n \in Nat /\ DOMAIN gmsgs'[r] = 1..n + 1 /\ DOMAIN gmsgs[r] = 1..n
    BY <1>1, <1>4, <2>0
  <2>2. gmsgs'[r][n + 1] = m /\ \A i \in 1..n : gmsgs'[r][i] = gmsgs[r][i]
    BY <1>1, <1>4, <2>0
  <2>3. Len(gmsgs'[r]) <= at'[r]
    BY <1>1, <1>4, <2>0
  <2>4. \A i \in 1..n : \E p \in 1..at[r] : Body[r][p] = gmsgs[r][i]
    <3>1. Range(gmsgs[r]) \subseteq Stored(r)
      BY DEF Kept, Gathered
    <3>2. QED  BY <2>1, <3>1 DEF Range, Stored
  <2> HIDE DEF m
  <2>5. ASSUME NEW i \in 1..n, NEW k \in 1..n, i < k
        PROVE  Earlier(r, i, k)'
    <3>1. Earlier(r, i, k)
      BY <1>1, <2>1, <2>5 DEF Ordered
    <3>2. gmsgs'[r][i] = gmsgs[r][i] /\ gmsgs'[r][k] = gmsgs[r][k]
      BY <2>2
    <3>3. QED  BY <1>2, <3>1, <3>2 DEF Earlier
  <2>6. ASSUME NEW i \in 1..n
        PROVE  Earlier(r, i, n + 1)'
    <3>1. PICK p \in 1..at[r] : Body[r][p] = gmsgs[r][i]
      BY <2>4
    <3>2. p \in 1..at'[r] /\ p < at[r] + 1
      BY <1>1, <1>2
    <3>3. Body[r][at[r] + 1] = gmsgs'[r][n + 1] /\ Body[r][p] = gmsgs'[r][i]
      BY <2>2, <3>1 DEF m
    <3>4. QED  BY <1>2, <3>2, <3>3 DEF Earlier
  <2>7. Ordered(r)'
    <3>1. SUFFICES ASSUME NEW i \in 1..n + 1, NEW k \in 1..n + 1, i < k
                   PROVE  Earlier(r, i, k)'
      BY <2>1 DEF Ordered
    <3>2. i \in 1..n /\ (k \in 1..n \/ k = n + 1)
      BY <2>1, <3>1
    <3>3. QED  BY <2>5, <2>6, <3>1, <3>2
  <2>8. QED  BY <2>3, <2>7
<1>5. QED  BY <1>3, <1>4

(* A batch comes to its call with the next item that has a group.          *)
LEMMA OneItemNext ==
    ASSUME Shape, NEW r \in Request, Handler(r), Kind[r] = "addBatch", pc'[r] = "call"
    PROVE  OneItem(r, gmsgs'[r])
<1>1. /\ TypeOK /\ at[r] \in Nat /\ at[r] <= Len(Body[r]) /\ Body[r] \in Seq(Job) /\ Place(r)
      /\ pc \in [Request -> Labels] /\ gmsgs \in [Request -> Seq(Job)]
  BY OpenContextAssumption DEF Shape, TypeOK, Labels
<1>2. \A label : Goto(r, label) => pc'[r] = label
  BY <1>1 DEF Goto
<1>3. \A status : ~ Answer(r, status)
  BY <1>1 DEF Answer
<1>4. ~ Select(r) /\ ~ InsertRecord(r) /\ ~ SoftDelete(r)
  BY DEF Select, InsertRecord, SoftDelete
<1>5. ~ CreateTask(r) /\ ~ InsertMessage(r)
  BY <1>1 DEF CreateTask, InsertMessage, Place
<1>6. ~ UpdateTask(r)
  BY <1>2, <1>3 DEF UpdateTask
<1>7. \A err : ~ AfterCall(r, err)
  BY <1>2, CallMoves
<1>8. ~ Send(r) /\ ~ Receive(r) /\ ~ CallFails(r) /\ ~ GiveUp(r)
  BY <1>2, <1>7 DEF Send, Receive, CallFails, GiveUp
<1>9. NextItem(r)
  BY <1>4, <1>5, <1>6, <1>8 DEF Handler
<1>10. /\ at[r] # Len(Body[r]) /\ Body[r][at[r] + 1] \notin Ungrouped
       /\ gmsgs' = [gmsgs EXCEPT ![r] = <<Body[r][at[r] + 1]>>]
  BY <1>2, <1>9 DEF NextItem
<1>11. at[r] + 1 \in DOMAIN Body[r]
  BY <1>1, <1>10
<1>12. Body[r][at[r] + 1] \in Wanted(r)
  BY <1>10, <1>11 DEF Wanted, Range
<1>13. QED
  BY <1>1, <1>10, <1>12 DEF OneItem

LEMMA InTurnHandler ==
    ASSUME Shape, Kept, InTurn, NEW r \in Request, Handler(r)
    PROVE  InTurn'
<1>1. /\ TypeOK /\ Place(r)
      /\ \A s \in Request \ {r} : at'[s] = at[s] /\ gmsgs'[s] = gmsgs[s] /\ pc'[s] = pc[s]
  BY HandlerLocal DEF Shape
<1>2. ASSUME r \in MessageRequests  PROVE Len(gmsgs'[r]) <= at'[r] /\ Ordered(r)'
  <2>1. CASE UNCHANGED <<at, gmsgs>>
    BY <1>2, <2>1 DEF InTurn, Ordered, Earlier
  <2>2. CASE InsertMessage(r)
    <3> DEFINE m == Body[r][at[r] + 1]
    <3>1. PICK ok : AfterInsert(r, m, ok)
      BY <2>2 DEF InsertMessage
    <3>2. at[r] < Len(Body[r])
      BY <1>1, <2>2 DEF InsertMessage, Place
    <3>3. CASE ~ ok
      BY <2>1, <3>1, <3>3 DEF AfterInsert
    <3>4. CASE ok
      <4>1. at'[r] = at[r] + 1
        BY <1>1, <3>1, <3>4 DEF AfterInsert, Step, TypeOK
      <4>2. gmsgs'[r] = gmsgs[r] \/ gmsgs'[r] = Append(gmsgs[r], m)
        BY <1>1, <3>1, <3>4 DEF AfterInsert, TypeOK
      <4>3. QED  BY <1>2, <3>2, <4>1, <4>2, OrderedAppend
    <3>5. QED  BY <3>3, <3>4
  <2>3. ~ NextItem(r)
    BY <1>2 DEF NextItem, MessageRequests
  <2>4. QED
    BY <2>1, <2>2, <2>3 DEF Handler, Select, InsertRecord, SoftDelete, CreateTask, UpdateTask,
       Send, Receive, CallFails, GiveUp
<1>3. ASSUME NEW s \in MessageRequests  PROVE Len(gmsgs'[s]) <= at'[s] /\ Ordered(s)'
  <2>1. CASE s = r
    BY <1>2, <2>1
  <2>2. CASE s # r
    BY <1>1, <1>3, <2>2 DEF InTurn, Ordered, Earlier, MessageRequests
  <2>3. QED  BY <2>1, <2>2
<1>4. ASSUME NEW s \in Request, Kind[s] = "addBatch", pc'[s] = "call"  PROVE OneItem(s, gmsgs'[s])
  <2>1. CASE s = r
    BY <1>4, <2>1, OneItemNext
  <2>2. CASE s # r
    BY <1>1, <1>4, <2>2 DEF InTurn
  <2>3. QED  BY <2>1, <2>2
<1>5. ASSUME NEW call \in net', Kind[call[1]] = "addBatch"  PROVE OneItem(call[1], call[2])
  <2>1. CASE call \in net
    BY <1>5, <2>1 DEF InTurn
  <2>2. CASE call \notin net
    <3>1. Send(r) /\ pc[r] = "call" /\ call = ThisCall(r)
      BY <1>5, <2>2 DEF Handler, Select, InsertRecord, SoftDelete, CreateTask, InsertMessage,
         NextItem, UpdateTask, Send, Receive, CallFails, GiveUp
    <3>2. call[1] = r /\ call[2] = gmsgs[r]
      BY <3>1 DEF ThisCall
    <3>3. QED  BY <1>5, <3>1, <3>2 DEF InTurn
  <2>3. QED  BY <2>1, <2>2
<1>6. \A s \in Request : Kind[s] = "addBatch" /\ pc'[s] = "call" => OneItem(s, gmsgs[s])'
  BY <1>4 DEF OneItem
<1>7. \A call \in net' : Kind[call[1]] = "addBatch" => OneItem(call[1], call[2])'
  BY <1>5 DEF OneItem
<1>8. QED  BY <1>3, <1>6, <1>7 DEF InTurn

LEMMA InTurnStep ==
    ASSUME Shape, Kept, InTurn, [Next]_vars
    PROVE  InTurn'
<1>1. ASSUME UNCHANGED <<at, gmsgs>>, net' \subseteq net,
             \A r \in Request : pc'[r] = "call" => pc[r] = "call"
      PROVE  InTurn'
  BY <1>1 DEF InTurn, Ordered, Earlier, OneItem, MessageRequests
<1>2. CASE \E r \in Request : Handler(r)
  BY <1>2, InTurnHandler
<1>3. CASE \E call \in net : Serve(call) \/ DropCall(call)
  BY <1>1, <1>3 DEF Serve, DropCall
<1>4. CASE BackendCrash
  BY <1>1, <1>4, CrashMoves DEF Shape
<1>5. CASE GraphServiceStep \/ UNCHANGED vars
  BY <1>1, <1>5 DEF GraphServiceStep, vars, backendVars
<1>6. QED  BY <1>2, <1>3, <1>4, <1>5 DEF Next

(* What is out is a body that the graph service knows.                     *)
LEMMA BodyKnown ==
    ASSUME Shape, Kept, InTurn, NEW call \in net, Kind[call[1]] \in WithMessages
    PROVE  call[2] \in Batches
<1> DEFINE r == call[1]
           b == call[2]
<1>1. r \in Request /\ b \in Seq(Job) /\ call \in Sent
  BY DEF Shape, TypeOK, Sent
<1>2. CASE Kind[r] = "addBatch"
  BY <1>1, <1>2, BatchesAssumption DEF InTurn, OneItem
<1>3. CASE Kind[r] = "addMessages"
  <2>1. /\ r \in MessageRequests /\ b = gmsgs[r] /\ at[r] = Len(Body[r])
        /\ Body[r] \in Seq(Job) /\ DOMAIN Body[r] = 1..at[r]
    BY <1>1, <1>3, OpenContextAssumption DEF MessageRequests, Kept, SentInFull, PastInserts
  <2>2. Range(b) = Wanted(r)
    <3>1. Stored(r) = Range(Body[r])
      BY <2>1 DEF Stored, Range
    <3>2. QED  BY <1>3, <2>1, <3>1 DEF Kept, Gathered, Wanted
  <2>3. Follows(b, Body[r])
    <3>1. \A i, k \in DOMAIN b : i < k => Earlier(r, i, k)
      BY <2>1 DEF InTurn, Ordered
    <3>2. QED  BY <2>1, <3>1 DEF Earlier, Follows
  <2>4. Len(b) \in 0..Len(Body[r])
    BY <1>1, <2>1 DEF InTurn
  <2>5. b \in [1..Len(b) -> Wanted(r)]
    <3>1. DOMAIN b = 1..Len(b) /\ b \in [1..Len(b) -> Job]
      BY <1>1
    <3>2. \A i \in 1..Len(b) : b[i] \in Wanted(r)
      BY <2>2, <3>1 DEF Range
    <3>3. QED  BY <3>1, <3>2
  <2>6. \A n \in 0..Len(Body[r]) : \A c \in [1..n -> Wanted(r)] :
           Range(c) = Wanted(r) /\ Follows(c, Body[r]) => c \in Batches
    BY <1>1, <1>3, BatchesAssumption
  <2> HIDE DEF r, b
  <2>7. \A c \in [1..Len(b) -> Wanted(r)] :
           Range(c) = Wanted(r) /\ Follows(c, Body[r]) => c \in Batches
    BY <2>4, <2>6
  <2>8. b \in Batches
    BY <2>2, <2>3, <2>5, <2>7
  <2>9. QED  BY <2>8 DEF b
<1>4. QED  BY <1>2, <1>3 DEF WithMessages

(* Every step is one of the graph service, or none of its business.        *)
LEMMA ServiceStep ==
    ASSUME Shape, Kept, InTurn, [Next]_vars
    PROVE  [GSNext]_gsVars
<1>1. ASSUME NEW r \in Request, Handler(r)  PROVE UNCHANGED gsVars
  BY <1>1 DEF Handler, Select, InsertRecord, SoftDelete, CreateTask, InsertMessage, NextItem,
     UpdateTask, Send, Receive, CallFails, GiveUp
<1>2. ASSUME NEW call \in net, Serve(call)  PROVE GSNext
  <2>1. call[1] \in Request /\ Kind[call[1]] \in Kinds /\ Subject[call[1]] \in Group
    BY OpenContextAssumption DEF Shape, TypeOK
  <2>2. CASE Kind[call[1]] \in {"addMessages", "addBatch"}
    <3>1. AddMessages(call[2])
      BY <1>2, <2>2 DEF Serve
    <3>2. call[2] \in Batches
      BY <2>2, BodyKnown DEF WithMessages
    <3>3. QED  BY <3>1, <3>2 DEF GSNext
  <2>3. CASE Kind[call[1]] \in {"createThread", "createUser"}
    <3>1. AddEntityNode(Subject[call[1]])
      BY <1>2, <2>3 DEF Serve
    <3>2. QED  BY <2>1, <3>1 DEF GSNext
  <2>4. CASE Kind[call[1]] \in {"deleteThread", "deleteUser"}
    <3>1. BeginDelete(call[1], Subject[call[1]])
      BY <1>2, <2>4 DEF Serve
    <3>2. call[1] \in DeleteCall
      BY <2>1, <2>4, OpenContextAssumption
    <3>3. QED  BY <2>1, <3>1, <3>2 DEF GSNext
  <2>5. QED  BY <2>1, <2>2, <2>3, <2>4 DEF Kinds
<1>3. GraphServiceStep => GSNext
  BY DEF GraphServiceStep, GSNext
<1>4. QED
  BY <1>1, <1>2, <1>3 DEF Next, DropCall, BackendCrash, vars

(* Seen from the graph service, the backend does only what GraphService    *)
(* allows: the safety of ImplementsGraphService, for every set of          *)
(* requests.                                                               *)
THEOREM RefinesGraphService == Spec => GSSafety
<1>1. Init => InTurn
  <2> SUFFICES ASSUME Init  PROVE InTurn
    OBVIOUS
  <2>1. /\ net = {} /\ \A r \in Request : at[r] = 0 /\ gmsgs[r] = <<>> /\ pc[r] # "call"
    BY DEF Init
  <2>2. QED  BY <2>1 DEF InTurn, Ordered, Earlier, MessageRequests
<1>2. Shape /\ Kept /\ InTurn /\ [Next]_vars => InTurn'
  BY InTurnStep
<1>3. Spec => [](Shape /\ Kept /\ InTurn)
  BY <1>1, <1>2, KeptAlways, PTL DEF Spec
<1>4. Init => GSInit
  BY DEF Init
<1>5. Shape /\ Kept /\ InTurn /\ [Next]_vars => [GSNext]_gsVars
  BY ServiceStep
<1>6. QED  BY <1>3, <1>4, <1>5, PTL DEF Spec, GSSafety

(* So the graph service keeps behind the backend what it keeps by itself,  *)
(* whatever requests there are and whichever calls are lost: accepted      *)
(* messages are accounted for and committed in order, episodes are built   *)
(* from those before them, deleted ones stay away, and deletions are clean *)
(* and leave no fact without its source.                                   *)
THEOREM ServiceKeepsItsWord ==
    Spec => /\ [](Accounted /\ InOrder /\ FactsHaveSources)
            /\ SequentialContext /\ DeletedStaysDeleted /\ CleanDelete
  BY RefinesGraphService, AccountedSafely, OrderSafely, SourcesSafely, ContextSafely,
     ForGoodSafely, CleanlySafely, PTL
=============================================================================
