----------------------------- MODULE OpenContext -----------------------------
(***************************************************************************)
(* The Go backend (backend/internal/api) in front of Postgres and of the   *)
(* graph service.  Every request is a handler of its own; its steps are    *)
(* its calls to Postgres and to the graph service, and those of all        *)
(* handlers interleave.  No handler uses a database transaction.           *)
(*                                                                         *)
(* A call can fail without effect, or its effect can happen and its answer *)
(* be lost: the client of the backend goes away and the request's context  *)
(* is cancelled, or the 120 s timeout of the HTTP client expires.          *)
(***************************************************************************)
EXTENDS GraphService

CONSTANTS
    Request,      \* the requests that clients make of the backend
    Kind,         \* what each request asks for
    Subject,      \* the thread or user it is about
    Owner,        \* the user a new thread is created for
    Body,         \* the messages of POST messages, the items of a batch
    Uuid,         \* the uuid of each message row
    Role,         \* the role each message carries
    IgnoreRoles,  \* the ignore_roles of each request
    Ungrouped,    \* items of a batch with neither graph_id nor user_id
    Existing,     \* the users and threads there are at the start
    Scenarios,    \* sets of requests made together
    MaxFaults     \* bound on lost calls, lost answers and cancellations

Kinds == {"addMessages", "addBatch", "createThread", "deleteThread",
          "createUser", "deleteUser"}

ASSUME OpenContextAssumption ==
    /\ Kind \in [Request -> Kinds]
    /\ Subject \in [Request -> Group] /\ Owner \in [Request -> Group]
    /\ Body \in [Request -> Seq(Job)]
    /\ \A r, s \in Request : \A i \in DOMAIN Body[r], k \in DOMAIN Body[s] :
          Body[r][i] = Body[s][k] => r = s /\ i = k
    /\ \A r \in Request : Kind[r] = "addMessages" =>
          \A i \in DOMAIN Body[r] : GroupOf[Body[r][i]] = Subject[r]
    /\ DOMAIN Uuid = Job /\ DOMAIN Role = Job /\ DOMAIN IgnoreRoles = Request
    /\ Ungrouped \subseteq Job /\ Existing \subseteq Group
    /\ Scenarios \subseteq SUBSET Request
    /\ {r \in Request : Kind[r] \in {"deleteThread", "deleteUser"}} = DeleteCall
    /\ MaxFaults \in Nat

VARIABLES
    records,      \* the users and sessions tables, deleted_at included
    rows,         \* the messages table
    tasks,        \* the status column of each request's task
    pc,           \* where each handler is; "never" if its request is not made
    at,           \* the messages or items it is done with
    gmsgs,        \* the messages it will post to the graph service
    result,       \* the status it will write to its task
    reply,        \* the HTTP status it answered with, 0 before that
    ctx,          \* its request context
    net,          \* calls sent to the graph service and not yet served
    answered,     \* calls served
    faults,
    unwritten     \* history: requests whose last UPDATE of their task failed

backendVars == <<records, rows, tasks, pc, at, gmsgs, result, reply, ctx, net,
                 answered, faults, unwritten>>
vars == <<gsVars, backendVars>>

Init ==
    /\ GSInit
    /\ records = [g \in Group |-> IF g \in Existing THEN "live" ELSE "absent"]
    /\ rows = {}
    /\ tasks = [r \in Request |-> "none"]
    /\ \E made \in Scenarios :
          pc = [r \in Request |-> IF r \in made THEN "start" ELSE "never"]
    /\ at = [r \in Request |-> 0]
    /\ gmsgs = [r \in Request |-> <<>>]
    /\ result = [r \in Request |-> "completed"]
    /\ reply = [r \in Request |-> 0]
    /\ ctx = [r \in Request |-> "live"]
    /\ net = {} /\ answered = {}
    /\ faults = 0 /\ unwritten = {}

-----------------------------------------------------------------------------
(* normalizeRoleType                                                       *)
NormalizeRole(role) ==
    IF role \in {"system", "assistant", "user", "norole", "function", "tool"}
    THEN role ELSE "user"

Ignored(r, j) ==
    NormalizeRole(Role[j]) \in {NormalizeRole(role) : role \in IgnoreRoles[r]}

(* What is posted to the graph service, if the request gets that far.      *)
Wanted(r) ==
    {j \in Range(Body[r]) : IF Kind[r] = "addBatch" THEN j \notin Ungrouped
                                                    ELSE ~Ignored(r, j)}

(* What reaches POST /messages, as far as the graph service is concerned:  *)
(* the items of a batch one by one, the messages of a post together and in *)
(* the order of the request.                                               *)
Follows(b, body) == \A i, k \in DOMAIN b : i < k =>
    \E p, q \in DOMAIN body : p < q /\ body[p] = b[i] /\ body[q] = b[k]

ASSUME BatchesAssumption ==
    \A r \in Request :
        /\ Kind[r] = "addBatch" => \A j \in Wanted(r) : <<j>> \in Batches
        /\ Kind[r] = "addMessages" =>
              \A n \in 0..Len(Body[r]) : \A b \in [1..n -> Wanted(r)] :
                 Range(b) = Wanted(r) /\ Follows(b, Body[r]) => b \in Batches

Fault == faults < MaxFaults /\ faults' = faults + 1

(* The batch goroutine uses context.Background().                          *)
Cancellable(r) == Kind[r] # "addBatch" \/ pc[r] = "start"

(* How a Postgres statement of r can end: executed or not, with an error   *)
(* or without.                                                             *)
Statement(r, executed, err) ==
    \/ /\ ctx[r] = "live" /\ executed /\ ~err
       /\ UNCHANGED <<ctx, faults>>
    \/ /\ ctx[r] = "live" /\ ~executed /\ err
       /\ Fault
       /\ UNCHANGED ctx
    \/ /\ ctx[r] = "live" /\ Cancellable(r) /\ err
       /\ Fault
       /\ ctx' = [ctx EXCEPT ![r] = "cancelled"]
    \/ /\ ctx[r] = "cancelled" /\ ~executed /\ err
       /\ UNCHANGED <<ctx, faults>>

Goto(r, label) == pc' = [pc EXCEPT ![r] = label] /\ UNCHANGED reply
Answer(r, status) ==
    /\ pc' = [pc EXCEPT ![r] = "done"]
    /\ reply' = [reply EXCEPT ![r] = IF @ = 0 THEN status ELSE @]
-----------------------------------------------------------------------------
(* The row a handler looks up; soft-deleted rows do not count.             *)
Key(r) == IF Kind[r] = "createThread" THEN Owner[r] ELSE Subject[r]
FoundEvenDeleted(r) == records[Key(r)] # "absent"     \* mutant
Found(r) == records[Key(r)] = "live"

(* SELECT of the row a handler begins with.                                *)
Select(r) ==
    /\ pc[r] = "start" /\ Kind[r] \notin {"addBatch", "createUser"}
    /\ \E executed, err \in BOOLEAN :
          /\ Statement(r, executed, err)
          /\ IF err \/ ~Found(r)
             THEN Answer(r, IF Kind[r] = "createThread" THEN 400 ELSE 404)
             ELSE Goto(r, CASE Kind[r] = "addMessages"  -> "task"
                            [] Kind[r] = "createThread" -> "row"
                            [] OTHER                    -> "call")
    /\ UNCHANGED <<gsVars, records, rows, tasks, at, gmsgs, result, net,
                   answered, unwritten>>

(* user_id and session_id are unique, deleted rows included.               *)
Free(r) == records[Subject[r]] = "absent"

(* INSERT of a user or a session.                                          *)
InsertRecord(r) ==
    /\ \/ Kind[r] = "createUser" /\ pc[r] = "start"
       \/ Kind[r] = "createThread" /\ pc[r] = "row"
    /\ \E executed, err \in BOOLEAN :
          LET inserts == executed /\ Free(r)
          IN  /\ Statement(r, executed, err)
              /\ records' = IF inserts THEN [records EXCEPT ![Subject[r]] = "live"]
                                       ELSE records
              /\ IF err \/ ~inserts THEN Answer(r, 400) ELSE Goto(r, "call")
    /\ UNCHANGED <<gsVars, rows, tasks, at, gmsgs, result, net, answered,
                   unwritten>>

(* bun turns DELETE of a soft-delete model into UPDATE .. SET deleted_at.  *)
SoftDelete(r) ==
    /\ Kind[r] \in {"deleteThread", "deleteUser"} /\ pc[r] = "row"
    /\ \E executed, err \in BOOLEAN :
          /\ Statement(r, executed, err)
          /\ records' = IF executed THEN [records EXCEPT ![Subject[r]] = "deleted"]
                                    ELSE records
          /\ Answer(r, IF err THEN 500 ELSE 200)
    /\ UNCHANGED <<gsVars, rows, tasks, at, gmsgs, result, net, answered,
                   unwritten>>

(* INSERT of the task; an error is ignored.  The batch handler answers and *)
(* leaves the rest to a goroutine.                                         *)
CreateTask(r) ==
    /\ \/ Kind[r] = "addMessages" /\ pc[r] = "task"
       \/ Kind[r] = "addBatch" /\ pc[r] = "start"
    /\ \E executed, err \in BOOLEAN :
          /\ Statement(r, executed, err)
          /\ tasks' = [tasks EXCEPT ![r] =
                IF ~executed THEN @
                ELSE IF Kind[r] = "addBatch" THEN "pending" ELSE "processing"]
    /\ IF Kind[r] = "addBatch"
       THEN pc' = [pc EXCEPT ![r] = "item"] /\ reply' = [reply EXCEPT ![r] = 200]
       ELSE Goto(r, IF Body[r] = <<>> THEN "call" ELSE "insert")
    /\ UNCHANGED <<gsVars, records, rows, at, gmsgs, result, net, answered,
                   unwritten>>

Step(r) == /\ at' = [at EXCEPT ![r] = @ + 1]
           /\ pc' = [pc EXCEPT ![r] = IF at[r] + 1 = Len(Body[r]) THEN "call" ELSE "insert"]

(* Mutants: an error skips the message; an error is no error; an error     *)
(* answers but does not return; ignored roles are posted all the same.     *)
AfterInsertSkips(r, m, ok) ==
    /\ Step(r) /\ UNCHANGED reply
    /\ gmsgs' = [gmsgs EXCEPT ![r] = IF ~ok \/ Ignored(r, m) THEN @ ELSE Append(@, m)]
AfterInsertUpserts(r, m, ok) ==
    /\ Step(r) /\ UNCHANGED reply
    /\ gmsgs' = [gmsgs EXCEPT ![r] = IF Ignored(r, m) THEN @ ELSE Append(@, m)]
AfterInsertFallsThrough(r, m, ok) ==
    /\ Step(r) /\ reply' = [reply EXCEPT ![r] = IF ok \/ @ # 0 THEN @ ELSE 400]
    /\ gmsgs' = [gmsgs EXCEPT ![r] = IF ~ok \/ Ignored(r, m) THEN @ ELSE Append(@, m)]
AfterInsertPostsAll(r, m, ok) ==
    IF ~ok THEN Answer(r, 400) /\ UNCHANGED <<at, gmsgs>>
    ELSE Step(r) /\ gmsgs' = [gmsgs EXCEPT ![r] = Append(@, m)] /\ UNCHANGED reply

(* The first error ends the request; the rows before it stay, and so does  *)
(* the task.                                                               *)
AfterInsert(r, m, ok) ==
    IF ~ok THEN Answer(r, 400) /\ UNCHANGED <<at, gmsgs>>
    ELSE /\ Step(r) /\ UNCHANGED reply
         /\ gmsgs' = [gmsgs EXCEPT ![r] = IF Ignored(r, m) THEN @ ELSE Append(@, m)]

(* INSERT of one message, uuid being the primary key.                      *)
InsertMessage(r) ==
    /\ pc[r] = "insert"
    /\ \E executed, err \in BOOLEAN :
          LET m == Body[r][at[r] + 1]
              inserts == executed /\ \A n \in rows : Uuid[n] # Uuid[m]
          IN  /\ Statement(r, executed, err)
              /\ rows' = IF inserts THEN rows \cup {m} ELSE rows
              /\ AfterInsert(r, m, ~err /\ inserts)
    /\ UNCHANGED <<gsVars, records, tasks, result, net, answered, unwritten>>

(* The batch loop: the next item that has a group, or the end.             *)
NextItem(r) ==
    /\ Kind[r] = "addBatch" /\ pc[r] = "item"
    /\ IF at[r] = Len(Body[r]) THEN Goto(r, "update") /\ UNCHANGED <<at, gmsgs>>
       ELSE LET item == Body[r][at[r] + 1]
            IN  /\ at' = [at EXCEPT ![r] = @ + 1]
                /\ IF item \in Ungrouped
                   THEN Goto(r, "item") /\ UNCHANGED gmsgs
                   ELSE Goto(r, "call") /\ gmsgs' = [gmsgs EXCEPT ![r] = <<item>>]
    /\ UNCHANGED <<gsVars, records, rows, tasks, result, ctx, net, answered,
                   faults, unwritten>>

(* UPDATE of the task, errors ignored: "processing" after each item of a   *)
(* batch, and at the end the status the calls have earned.                 *)
UpdateTask(r) ==
    /\ pc[r] \in {"progress", "update"}
    /\ \E executed, err \in BOOLEAN :
          /\ Statement(r, executed, err)
          /\ tasks' = [tasks EXCEPT ![r] =
                IF ~executed \/ @ = "none" THEN @
                ELSE IF pc[r] = "progress" THEN "processing" ELSE result[r]]
          /\ unwritten' = IF pc[r] = "update" /\ ~executed THEN unwritten \cup {r}
                                                          ELSE unwritten
    /\ IF pc[r] = "progress" THEN Goto(r, "item") ELSE Answer(r, 200)
    /\ UNCHANGED <<gsVars, records, rows, at, gmsgs, result, net, answered>>
-----------------------------------------------------------------------------
(* The graphiti client.  gmsgs is the payload of POST /messages and empty  *)
(* for POST /entity-node and DELETE /group.                                *)
ThisCall(r) == <<r, gmsgs[r]>>

(* The status a task ends with: one failed call is enough to fail it.      *)
EarnedLast(r, err) == IF err THEN "failed" ELSE "completed"      \* mutant
Earned(r, err) == IF err THEN "failed" ELSE result[r]

(* Mutant: a call that is given up while the service is there returns at   *)
(* once.                                                                   *)
AfterCallReturns(r, err) ==
    /\ result' = [result EXCEPT ![r] = Earned(r, err)]
    /\ IF err /\ running THEN Answer(r, 500) ELSE Goto(r, "update")

(* What a handler does with the outcome of its call.                       *)
AfterCall(r, err) ==
    /\ result' = [result EXCEPT ![r] = Earned(r, err)]
    /\ CASE Kind[r] = "addMessages" -> Goto(r, "update")
         [] Kind[r] = "addBatch"    -> Goto(r, "progress")
         [] Kind[r] \in {"deleteThread", "deleteUser"} -> Goto(r, "row")
         [] OTHER                   -> Answer(r, 200)

Send(r) ==
    /\ pc[r] = "call"
    /\ IF ctx[r] = "live"
       THEN net' = net \cup {ThisCall(r)} /\ Goto(r, "wait") /\ UNCHANGED result
       ELSE AfterCall(r, TRUE) /\ UNCHANGED net
    /\ UNCHANGED <<gsVars, records, rows, tasks, at, gmsgs, ctx, answered,
                   faults, unwritten>>

(* The graph service takes a call and serves it.  A deletion is answered   *)
(* when it has ended; the other calls are answered at once.                *)
Serve(call) ==
    LET r == call[1] IN
    /\ call \in net /\ running
    /\ net' = net \ {call}
    /\ CASE Kind[r] \in {"addMessages", "addBatch"} -> AddMessages(call[2])
         [] Kind[r] \in {"createThread", "createUser"} -> AddEntityNode(Subject[r])
         [] OTHER -> BeginDelete(r, Subject[r])
    /\ answered' = answered \cup {call}
    /\ UNCHANGED <<records, rows, tasks, pc, at, gmsgs, result, reply, ctx,
                   faults, unwritten>>

Answered(r) ==
    /\ ThisCall(r) \in answered
    /\ r \in DeleteCall => del[r].phase \in {"done", "failed"}

Receive(r) ==
    /\ pc[r] = "wait" /\ Answered(r)
    /\ AfterCall(r, r \in DeleteCall /\ del[r].phase = "failed")
    /\ UNCHANGED <<gsVars, records, rows, tasks, at, gmsgs, ctx, net, answered,
                   faults, unwritten>>

(* Mutant: a refused connection is tried again without end.                *)
CallFailsOnlyWhileUp(r) ==
    /\ pc[r] = "wait" /\ ThisCall(r) \in net /\ running /\ Fault
    /\ net' = net \ {ThisCall(r)} /\ AfterCall(r, TRUE)
    /\ UNCHANGED <<gsVars, records, rows, tasks, at, gmsgs, ctx, answered,
                   unwritten>>

(* The connection is refused, or the service answers with an error status. *)
CallFails(r) ==
    /\ pc[r] = "wait" /\ ThisCall(r) \in net
    /\ \/ ~running /\ UNCHANGED faults
       \/ running /\ Fault
    /\ net' = net \ {ThisCall(r)}
    /\ AfterCall(r, TRUE)
    /\ UNCHANGED <<gsVars, records, rows, tasks, at, gmsgs, ctx, answered,
                   unwritten>>

(* The client gives up on a call, which may yet be served: the timeout, or *)
(* the request's context is cancelled.                                     *)
GiveUp(r) ==
    /\ pc[r] = "wait" /\ Fault
    /\ \/ UNCHANGED ctx
       \/ Cancellable(r) /\ ctx' = [ctx EXCEPT ![r] = "cancelled"]
    /\ AfterCall(r, TRUE)
    /\ UNCHANGED <<gsVars, records, rows, tasks, at, gmsgs, net, answered,
                   unwritten>>

(* A call whose sender is gone may never reach the service.                *)
DropCall(call) ==
    /\ call \in net
    /\ pc[call[1]] # "wait" \/ ThisCall(call[1]) # call
    /\ net' = net \ {call}
    /\ UNCHANGED <<gsVars, records, rows, tasks, pc, at, gmsgs, result, reply,
                   ctx, answered, faults, unwritten>>

(* The backend process dies with its handlers and goroutines.              *)
BackendCrash ==
    /\ Fault
    /\ pc' = [r \in Request |-> IF pc[r] \in {"start", "never", "done"} THEN pc[r] ELSE "dead"]
    /\ UNCHANGED <<gsVars, records, rows, tasks, at, gmsgs, result, reply, ctx,
                   net, answered, unwritten>>

Handler(r) ==
    \/ Select(r) \/ InsertRecord(r) \/ SoftDelete(r)
    \/ CreateTask(r) \/ InsertMessage(r) \/ NextItem(r) \/ UpdateTask(r)
    \/ Send(r) \/ Receive(r) \/ CallFails(r) \/ GiveUp(r)

GraphServiceStep ==
    /\ \/ WorkerStep
       \/ \E d \in DeleteCall : DeleteStep(d)
       \/ Stop \/ Crash \/ Start
    /\ UNCHANGED backendVars

Next ==
    \/ \E r \in Request : Handler(r)
    \/ \E call \in net : Serve(call) \/ DropCall(call)
    \/ GraphServiceStep
    \/ BackendCrash
-----------------------------------------------------------------------------
(* Handlers are goroutines and the HTTP client has a timeout; the graph    *)
(* service serves what reaches it.                                         *)
Fairness ==
    /\ \A r \in Request : WF_vars(Handler(r))
    /\ WF_vars(\E call \in net : Serve(call))
    /\ WF_vars(WorkerStep /\ UNCHANGED backendVars)
    /\ \A d \in DeleteCall : WF_vars(DeleteStep(d) /\ UNCHANGED backendVars)

Spec == Init /\ [][Next]_vars /\ Fairness
-----------------------------------------------------------------------------
TypeOK ==
    /\ GSTypeOK
    /\ records \in [Group -> {"absent", "live", "deleted"}]
    /\ rows \subseteq Job
    /\ tasks \in [Request -> {"none", "pending", "processing", "completed", "failed"}]
    /\ pc \in [Request -> {"start", "never", "row", "task", "insert", "item", "call",
                           "wait", "progress", "update", "done", "dead"}]
    /\ at \in [Request -> Nat] /\ \A r \in Request : at[r] <= Len(Body[r])
    /\ gmsgs \in [Request -> Seq(Job)]
    /\ result \in [Request -> {"completed", "failed"}]
    /\ reply \in [Request -> {0, 200, 400, 404, 500}]
    /\ ctx \in [Request -> {"live", "cancelled"}]
    /\ net \subseteq Request \X Seq(Job) /\ answered \subseteq Request \X Seq(Job)
    /\ faults \in 0..MaxFaults
    /\ unwritten \subseteq Request

Accepted(j) == ticket[j] > 0
MessageRequests == {r \in Request : Kind[r] = "addMessages"}
Posted == UNION {Range(Body[r]) : r \in MessageRequests}

(* POST messages hands the graph service all of the request or none of it: *)
(* once one message is accepted, every message of the request is a row in  *)
(* Postgres, and exactly those whose role is not ignored are accepted.     *)
(* The inserts are not in a transaction; only their order protects this.   *)
AllStoredBeforeAnyAccepted ==
    \A r \in MessageRequests :
        (\E j \in Range(Body[r]) : Accepted(j)) =>
            /\ Range(Body[r]) \subseteq rows
            /\ \A j \in Range(Body[r]) : Accepted(j) <=> j \in Wanted(r)

(* A client that repeats a request with the same message uuids never gets  *)
(* a message into the graph twice, however the two requests interleave.    *)
OncePerUuid ==
    \A j, k \in Posted : Accepted(j) /\ Accepted(k) /\ Uuid[j] = Uuid[k] => j = k

(* A request answered with 400 or 404 has put nothing into the graph, and  *)
(* nothing of it will arrive later.                                        *)
RefusedLeavesNoTrace ==
    \A r \in MessageRequests : reply[r] \in {400, 404} =>
        /\ \A j \in Range(Body[r]) : ~Accepted(j)
        /\ \A call \in net : call[1] # r

(* A task says "completed" only when the graph service has accepted every  *)
(* message or item it was created for, answers lost or not.                *)
CompletedMeansAccepted ==
    \A r \in Request : tasks[r] = "completed" => \A j \in Wanted(r) : Accepted(j)

(* The items of batches, whose handler looks up no graph, thread or user.  *)
Batched == UNION {Range(Body[r]) : r \in {q \in Request : Kind[q] = "addBatch"}}

(* No request but a batch has a hold on group g that would let it write    *)
(* there: none is past the lookup of its thread or user (a creation is     *)
(* past it only when its row is in), nothing of theirs is on its way, and  *)
(* no message of theirs waits for the worker.                              *)
LeftToBatches(g) ==
    /\ \A r \in Request : Kind[r] # "addBatch" /\ Subject[r] = g =>
          \/ pc[r] \in {"start", "never", "done", "dead"}
          \/ Kind[r] = "createThread" /\ pc[r] = "row"
    /\ \A call \in net : Kind[call[1]] # "addBatch" => Subject[call[1]] # g
    /\ \A j \in Range(queue) \cup Uncommitted : GroupOf[j] = g => j \in Batched

(* Once a thread or user is deleted and what was under way has ended, it   *)
(* stays deleted whatever requests still come: creating it again is        *)
(* refused, no request gets past its lookup, and no message row is added.  *)
(* A batch looks nothing up, and an item of one does go into the deleted   *)
(* group; but nothing else does, neither an episode nor a node.            *)
DeletedStaysQuiet ==
    [][\A g \in Group : records[g] = "deleted" /\ LeftToBatches(g) =>
          /\ records'[g] = "deleted" /\ LeftToBatches(g)'
          /\ \A j \in rows' \ rows : GroupOf[j] # g
          /\ current \notin Batched =>
                /\ \A j \in episodes' \ episodes : GroupOf[j] # g
                /\ \A n \in nodes' \ nodes : NodeGroup(n) # g]_vars

(* Every request is answered unless the backend dies under it.             *)
AllAnswered ==
    \A r \in Request : <>(pc[r] \in {"never", "dead"} \/ (pc[r] = "done" /\ reply[r] # 0))

(* The backend uses the graph service as GraphService allows.              *)
ImplementsGraphService == GSSpec

(* "Create a task to track async graph processing": the task of a post     *)
(* ends, though the graph service is down or dies, the call is refused,    *)
(* times out or loses its answer, or the client goes away.  It stays       *)
(* "processing" for good only when an insert failed and the request was    *)
(* refused half-way, when its last UPDATE failed or when the backend died. *)
TaskEnds ==
    \A r \in MessageRequests :
        tasks[r] = "processing" ~>
            \/ tasks[r] \in {"completed", "failed"}
            \/ reply[r] = 400 \/ r \in unwritten \/ pc[r] = "dead"
=============================================================================
