---------------------------- MODULE GraphService ----------------------------
(***************************************************************************)
(* The graph service (graphiti/server/graph_service): a FastAPI process    *)
(* whose POST /messages handler queues one job per message, a single       *)
(* AsyncWorker task that runs the jobs one after the other, and the        *)
(* handlers that write to or delete from the Neo4j graph beside it.        *)
(*                                                                         *)
(* A job is one message of one request.  The job that a message becomes    *)
(* names the episode it writes; an entity node is named by the job that    *)
(* created it, or by the group whose node POST /entity-node saved.  One    *)
(* entity and one fact per message stand for the several that the          *)
(* language model may extract.                                             *)
(***************************************************************************)
EXTENDS Naturals, Sequences, FiniteSets, Functions

CONSTANTS
    Job,          \* the messages that clients ever post, one job each
    Group,        \* group ids: threads, users, graphs
    GroupOf,      \* the group_id each job was posted with
    ValidAt,      \* the timestamp each message carries, which its sender chooses
    Window,       \* RELEVANT_SCHEMA_LIMIT: earlier episodes a job reads, 10
    NoJob,        \* no job in the worker's hands
    DeleteCall,   \* the DELETE /group requests
    Batches,      \* the bodies of the POST /messages requests
    MaxCrashes    \* bound on crashes and shutdowns of the process

ASSUME GraphServiceAssumption ==
    /\ GroupOf \in [Job -> Group]
    /\ ValidAt \in [Job -> Nat]
    /\ Window \in Nat \ {0}
    /\ NoJob \notin Job
    /\ Job \cap Group = {}
    /\ Batches \subseteq Seq(Job)
    /\ \A b \in Batches : \A i, k \in DOMAIN b :
          /\ i # k => b[i] # b[k]
          /\ GroupOf[b[i]] = GroupOf[b[k]]
    /\ MaxCrashes \in Nat

Node == Job \cup Group
NodeGroup(n) == IF n \in Group THEN n ELSE GroupOf[n]

VARIABLES
    running,      \* the process is up and its worker task exists
    queue,        \* AsyncWorker.queue
    current,      \* the job being awaited by the worker
    phase,        \* how far that job has got
    context,      \* previous_episodes, the earlier episodes that the job read
    target,       \* the node its entity resolved to
    saving,       \* the facts it will save
    episodes,     \* Episodic nodes in Neo4j
    nodes,        \* Entity nodes in Neo4j
    mentions,     \* MENTIONS edges, from an episode to a node
    facts,        \* RELATES_TO edges, each named by the job that wrote it
    del,          \* the state of each DELETE /group request
    crashes       \* how often the process went down

(***************************************************************************)
(* What happened so far, for stating properties; no action reads these.    *)
(***************************************************************************)
VARIABLES
    ticket,       \* the rank at which a job was queued, 0 before that
    issued,       \* the number of tickets given out
    log,          \* jobs in the order their episodes were committed
    failed,       \* jobs that raised
    lost,         \* jobs that went down with the process
    raced,        \* groups written to while one of their deletions ran
    revived,      \* deleted facts that a job which had read them wrote again
    detached      \* episodes deleted alone, through DELETE /episode

workerVars == <<queue, current, phase, context, target, saving>>
graphVars  == <<episodes, nodes, mentions, facts>>
histVars   == <<ticket, issued, log, failed, lost, raced, revived, detached>>
gsVars     == <<running, workerVars, graphVars, del, crashes, histVars>>

Idle == [phase |-> "idle", group |-> {}, facts |-> {}, nodes |-> {}, episodes |-> {}]
Reading  == {"edges", "nodes", "episodes"}
Deleting(d, g) == del[d].phase \in Reading \cup {"deleting"} /\ g \in del[d].group

RunningUntilDone == {"started", "resolved", "related", "saved"}  \* mutant: until the driver is closed
Running == {"started", "resolved", "related"}  \* phases of a job not yet committed

GSInit ==
    /\ running = TRUE
    /\ queue = <<>> /\ current = NoJob /\ phase = "waiting"
    /\ context = {} /\ target = NoJob /\ saving = {}
    /\ episodes = {} /\ nodes = {} /\ mentions = {} /\ facts = {}
    /\ del = [d \in DeleteCall |-> Idle]
    /\ crashes = 0
    /\ ticket = [j \in Job |-> 0] /\ issued = 0
    /\ log = <<>> /\ failed = {} /\ lost = {}
    /\ raced = {} /\ revived = {} /\ detached = {}

-----------------------------------------------------------------------------
(* POST /messages: the queue is unbounded, so put never suspends and the   *)
(* jobs of one request are adjacent.                                       *)
AddMessages(batch) ==
    /\ running
    /\ \A j \in Range(batch) : ticket[j] = 0
    /\ queue' = queue \o batch
    /\ ticket' = [j \in Job |->
          IF j \in Range(batch)
          THEN issued + (CHOOSE i \in DOMAIN batch : batch[i] = j)
          ELSE ticket[j]]
    /\ issued' = issued + Len(batch)
    /\ UNCHANGED <<running, current, phase, context, target, saving, graphVars, del,
                   crashes, log, failed, lost, raced, revived, detached>>

(* The episodes of j's group that are not dated after j.  Every message is *)
(* posted with the same source, so that the source tells none apart.       *)
Precedes(j) == {e \in episodes : GroupOf[e] = GroupOf[j] /\ ValidAt[e] <= ValidAt[j]}

(* C is full, and with episodes dated no earlier than e.                   *)
NoRoomFor(e, C) == Cardinality(C) = Window /\ \A c \in C : ValidAt[e] <= ValidAt[c]

(* Mutant: sorted the other way round.                                     *)
Earliest(S) ==
    {C \in SUBSET S :
        /\ Cardinality(C) <= Window
        /\ \A e \in S \ C : Cardinality(C) = Window /\ \A c \in C : ValidAt[c] <= ValidAt[e]}

(* ORDER BY valid_at DESC LIMIT: the Window latest of S, of equally late   *)
(* ones any.                                                               *)
Latest(S) ==
    {C \in SUBSET S : Cardinality(C) <= Window /\ \A e \in S \ C : NoRoomFor(e, C)}

(* job = await self.queue.get(); add_episode first retrieves the episodes  *)
(* that precede this one.                                                  *)
StartJob ==
    /\ running /\ phase = "waiting" /\ queue # <<>>
    /\ current' = Head(queue)
    /\ queue' = Tail(queue)
    /\ phase' = "started"
    /\ \E C \in Latest(Precedes(Head(queue))) : context' = C
    /\ UNCHANGED <<running, target, saving, graphVars, del, crashes, histVars>>

(* resolve_extracted_nodes: the entity is a node the group already has, or *)
(* a new one.  The search and the language model choose.                   *)
ResolveNode ==
    /\ phase = "started"
    /\ \E n \in {current} \cup {m \in nodes : NodeGroup(m) = GroupOf[current]} :
          target' = n
    /\ phase' = "resolved"
    /\ UNCHANGED <<running, queue, current, context, saving, graphVars, del, crashes,
                   histVars>>

(* resolve_extracted_edges: the fact is new, or one the graph already has  *)
(* between the same nodes; and it contradicts some facts of the group,     *)
(* which it invalidates.  All of them are saved as they were read here.    *)
ResolveFact ==
    /\ phase = "resolved"
    /\ \E fact \in {<<current, target>>} \cup {f \in facts : f[2] = target},
          invalidated \in SUBSET {f \in facts : GroupOf[f[1]] = GroupOf[current]} :
          saving' = {fact} \cup invalidated
    /\ phase' = "related"
    /\ UNCHANGED <<running, queue, current, context, target, graphVars, del, crashes,
                   histVars>>

(* A write to group g notes the deletions of g that it overlaps.           *)
NoteRace(g) ==
    raced' = IF \E d \in DeleteCall : Deleting(d, g) THEN raced \cup {g} ELSE raced

(* add_nodes_and_edges_bulk: one write transaction.  Saving is a MERGE, so *)
(* a node or a fact deleted since it was read is written again, the fact   *)
(* if its nodes are there.                                                 *)
CommitEpisode ==
    LET written == {f \in saving : f[2] \in nodes \cup {target}}
    IN  /\ phase = "related"
        /\ episodes' = episodes \cup {current}
        /\ nodes' = nodes \cup {target}
        /\ mentions' = mentions \cup {<<current, target>>}
        /\ facts' = facts \cup written
        /\ phase' = "saved"
        /\ log' = Append(log, current)
        /\ revived' = revived \cup {f \in written \ facts : f[1] # current}
    /\ NoteRace(GroupOf[current])
    /\ UNCHANGED <<running, queue, current, context, target, saving, del, crashes,
                   ticket, issued, failed, lost, detached>>

(* Mutant: the job handle is kept.                                         *)
NextJobKeepsCurrent ==
    phase' = "waiting" /\ context' = {} /\ target' = NoJob /\ saving' = {} /\ UNCHANGED current

NextJob ==
    /\ current' = NoJob
    /\ phase' = "waiting"
    /\ context' = {}
    /\ target' = NoJob
    /\ saving' = {}

(* Mutants: the committed job is queued again; closing never returns.      *)
FinishJobAgain ==
    /\ phase = "saved"
    /\ NextJob /\ queue' = Append(queue, current)
    /\ UNCHANGED <<running, graphVars, del, crashes, histVars>>
FinishJobHangs == phase = "saved" /\ UNCHANGED gsVars

(* The finally clause closes the driver; whether or not that raises, the   *)
(* worker goes back to the queue.                                          *)
FinishJob ==
    /\ phase = "saved"
    /\ NextJob
    /\ UNCHANGED <<running, queue, graphVars, del, crashes, histVars>>

(* Mutant: a failed job is retried at the end of the queue.                *)
FailJobRequeues ==
    /\ phase \in Running
    /\ NextJob /\ queue' = Append(queue, current)
    /\ UNCHANGED <<running, graphVars, del, crashes, histVars>>

(* except Exception: the job is logged and dropped, never retried.         *)
FailJob ==
    /\ phase \in Running
    /\ failed' = failed \cup {current}
    /\ NextJob
    /\ UNCHANGED <<running, queue, graphVars, del, crashes, ticket, issued, log,
                   lost, raced, revived, detached>>

WorkerStep ==
    StartJob \/ ResolveNode \/ ResolveFact \/ CommitEpisode \/ FinishJob \/ FailJob
-----------------------------------------------------------------------------
(* POST /entity-node.                                                      *)
AddEntityNode(g) ==
    /\ running
    /\ nodes' = nodes \cup {g}
    /\ NoteRace(g)
    /\ UNCHANGED <<running, workerVars, episodes, mentions, facts, del, crashes,
                   ticket, issued, log, failed, lost, revived, detached>>

(* DETACH DELETE of a set of nodes takes the relationships along.          *)
RemoveNodes(N) ==
    /\ nodes' = nodes \ N
    /\ mentions' = {m \in mentions : m[2] \notin N}
    /\ facts' = {f \in facts : f[2] \notin N}

RemoveEpisodes(E) ==
    /\ episodes' = episodes \ E
    /\ mentions' = {m \in mentions : m[1] \notin E}

(* DELETE /episode/{uuid}                                                  *)
DeleteEpisode(j) ==
    /\ running /\ j \in episodes
    /\ RemoveEpisodes({j})
    /\ detached' = detached \cup {j}
    /\ UNCHANGED <<running, workerVars, nodes, facts, del, crashes, ticket, issued,
                   log, failed, lost, raced, revived>>

(* DELETE /node/{uuid}                                                     *)
DeleteNode(n) ==
    /\ running /\ n \in nodes
    /\ RemoveNodes({n})
    /\ UNCHANGED <<running, workerVars, episodes, del, crashes, histVars>>

(* DELETE /entity-edge/{uuid}                                              *)
DeleteEntityEdge(f) ==
    /\ running /\ f \in facts
    /\ facts' = facts \ {f}
    /\ UNCHANGED <<running, workerVars, episodes, nodes, mentions, del, crashes,
                   histVars>>

(* POST /clear                                                             *)
Clear ==
    /\ running
    /\ episodes' = {} /\ nodes' = {} /\ mentions' = {} /\ facts' = {}
    /\ UNCHANGED <<running, workerVars, del, crashes, histVars>>
-----------------------------------------------------------------------------
(* DELETE /group/{id}: three reads, then one query per edge, per node and  *)
(* per episode read, in that order.  Requests and the worker's commits may *)
(* come between any two of them.                                           *)
BeginDelete(d, g) ==
    /\ running /\ del[d].phase = "idle"
    /\ del' = [del EXCEPT ![d] = [Idle EXCEPT !.phase = "edges", !.group = {g}]]
    /\ UNCHANGED <<running, workerVars, graphVars, crashes, histVars>>

ReadEdges(d) ==
    /\ del[d].phase = "edges"
    /\ del' = [del EXCEPT ![d].phase = "nodes",
                          ![d].facts = {f \in facts : GroupOf[f[1]] \in del[d].group}]
    /\ UNCHANGED <<running, workerVars, graphVars, crashes, histVars>>

ReadNodes(d) ==
    /\ del[d].phase = "nodes"
    /\ del' = [del EXCEPT ![d].phase = "episodes",
                          ![d].nodes = {n \in nodes : NodeGroup(n) \in del[d].group}]
    /\ UNCHANGED <<running, workerVars, graphVars, crashes, histVars>>

ReadEpisodes(d) ==
    /\ del[d].phase = "episodes"
    /\ del' = [del EXCEPT ![d].phase = "deleting",
                          ![d].episodes = {e \in episodes : GroupOf[e] \in del[d].group}]
    /\ UNCHANGED <<running, workerVars, graphVars, crashes, histVars>>

DeleteOneEdge(d) ==
    /\ del[d].phase = "deleting"
    /\ \E f \in del[d].facts :
          /\ facts' = facts \ {f}
          /\ del' = [del EXCEPT ![d].facts = @ \ {f}]
    /\ UNCHANGED <<running, workerVars, episodes, nodes, mentions, crashes, histVars>>

DeleteOneNode(d) ==
    /\ del[d].phase = "deleting" /\ del[d].facts = {}
    /\ \E n \in del[d].nodes :
          /\ RemoveNodes({n})
          /\ del' = [del EXCEPT ![d].nodes = @ \ {n}]
    /\ UNCHANGED <<running, workerVars, episodes, crashes, histVars>>

(* Mutant: episodes are not the last to go.                                *)
DeleteEpisodeEarly(d) ==
    /\ del[d].phase = "deleting"
    /\ \E e \in del[d].episodes :
          RemoveEpisodes({e}) /\ del' = [del EXCEPT ![d].episodes = @ \ {e}]
    /\ UNCHANGED <<running, workerVars, nodes, facts, crashes, histVars>>

DeleteOneEpisode(d) ==
    /\ del[d].phase = "deleting" /\ del[d].facts = {} /\ del[d].nodes = {}
    /\ \E e \in del[d].episodes :
          /\ RemoveEpisodes({e})
          /\ del' = [del EXCEPT ![d].episodes = @ \ {e}]
    /\ UNCHANGED <<running, workerVars, nodes, facts, crashes, histVars>>

(* Mutant: the answer does not wait for the episodes.                      *)
FinishDeleteEarly(d) ==
    /\ del[d].phase = "deleting" /\ del[d].facts = {} /\ del[d].nodes = {}
    /\ del' = [del EXCEPT ![d].phase = "done"]
    /\ UNCHANGED <<running, workerVars, graphVars, crashes, histVars>>

FinishDelete(d) ==
    /\ del[d].phase = "deleting"
    /\ del[d].facts = {} /\ del[d].nodes = {} /\ del[d].episodes = {}
    /\ del' = [del EXCEPT ![d].phase = "done"]
    /\ UNCHANGED <<running, workerVars, graphVars, crashes, histVars>>

(* Mutant: a failed deletion starts over.                                  *)
FailDeleteRetries(d) ==
    /\ del[d].phase \in Reading \cup {"deleting"}
    /\ del' = [del EXCEPT ![d] = [Idle EXCEPT !.phase = "edges", !.group = del[d].group]]
    /\ UNCHANGED <<running, workerVars, graphVars, crashes, histVars>>

(* A query raises: the request ends with an error, half done.              *)
FailDelete(d) ==
    /\ del[d].phase \in Reading \cup {"deleting"}
    /\ del' = [del EXCEPT ![d] = [Idle EXCEPT !.phase = "failed", !.group = del[d].group]]
    /\ UNCHANGED <<running, workerVars, graphVars, crashes, histVars>>

DeleteStep(d) ==
    \/ ReadEdges(d) \/ ReadNodes(d) \/ ReadEpisodes(d)
    \/ DeleteOneEdge(d) \/ DeleteOneNode(d) \/ DeleteOneEpisode(d)
    \/ FinishDelete(d) \/ FailDelete(d)
-----------------------------------------------------------------------------
(* The process goes down: the queue is memory, and so is a job not yet     *)
(* committed.                                                              *)
LoseQueue ==
    /\ running /\ crashes < MaxCrashes
    /\ running' = FALSE
    /\ crashes' = crashes + 1
    /\ queue' = <<>>
    /\ lost' = lost \cup Range(queue) \cup (IF phase \in Running THEN {current} ELSE {})
    /\ NextJob
    /\ UNCHANGED <<graphVars, ticket, issued, log, failed, raced, revived, detached>>

(* AsyncWorker.stop, at shutdown: the worker task is cancelled and what is *)
(* still queued is drained.  The server has finished its requests first.   *)
Stop ==
    /\ \A d \in DeleteCall : del[d].phase \notin Reading \cup {"deleting"}
    /\ LoseQueue
    /\ UNCHANGED del

(* A crash also abandons the deletions in progress.                        *)
Crash ==
    /\ LoseQueue
    /\ del' = [d \in DeleteCall |->
          IF del[d].phase \in Reading \cup {"deleting"}
          THEN [Idle EXCEPT !.phase = "failed", !.group = del[d].group]
          ELSE del[d]]

(* lifespan: AsyncWorker.start.                                            *)
Start ==
    /\ ~running
    /\ running' = TRUE
    /\ UNCHANGED <<workerVars, graphVars, del, crashes, histVars>>
-----------------------------------------------------------------------------
GSNext ==
    \/ \E b \in Batches : AddMessages(b)
    \/ WorkerStep
    \/ \E g \in Group : AddEntityNode(g)
    \/ \E j \in Job : DeleteEpisode(j)
    \/ \E n \in Node : DeleteNode(n)
    \/ \E f \in facts : DeleteEntityEdge(f)
    \/ Clear
    \/ \E d \in DeleteCall, g \in Group : BeginDelete(d, g)
    \/ \E d \in DeleteCall : DeleteStep(d)
    \/ Stop \/ Crash \/ Start

(* The worker task and the request handlers are scheduled by one event     *)
(* loop, and every call they await (Neo4j, the language model) returns or  *)
(* times out.  Nobody promises that a process that went down is restarted. *)
GSFairness ==
    /\ WF_gsVars(WorkerStep)
    /\ \A d \in DeleteCall : WF_gsVars(DeleteStep(d))

GSSpec == GSInit /\ [][GSNext]_gsVars /\ GSFairness
-----------------------------------------------------------------------------
DeleteState ==
    [phase : {"idle", "deleting", "done", "failed"} \cup Reading,
     group : SUBSET Group, facts : SUBSET (Job \X Node),
     nodes : SUBSET Node, episodes : SUBSET Job]

(* The shape of the state.                                                 *)
GSTypeOK ==
    /\ running \in BOOLEAN
    /\ queue \in Seq(Job)
    /\ current \in Job \cup {NoJob}
    /\ phase \in {"waiting", "saved"} \cup Running
    /\ phase = "waiting" <=> current = NoJob
    /\ context \subseteq Job
    /\ target \in Node \cup {NoJob}
    /\ phase \in {"resolved", "related"} => target \in Node
    /\ saving \subseteq Job \X Node
    /\ ~running => phase = "waiting" /\ queue = <<>>
    /\ episodes \subseteq Job /\ nodes \subseteq Node
    /\ mentions \subseteq Job \X Node /\ facts \subseteq Job \X Node
    /\ del \in [DeleteCall -> DeleteState]
    /\ crashes \in 0..MaxCrashes
    /\ ticket \in [Job -> Nat] /\ issued \in Nat
    /\ log \in Seq(Job)
    /\ failed \subseteq Job /\ lost \subseteq Job
    /\ raced \subseteq Group /\ revived \subseteq Job \X Node /\ detached \subseteq Job

Uncommitted == IF phase \in Running THEN {current} ELSE {}

(* A message accepted with 202 is in exactly one place: waiting, in the    *)
(* worker's hands, committed, failed or lost with the process.  It is      *)
(* neither forgotten nor processed twice.                                  *)
Accounted ==
    /\ {j \in Job : ticket[j] > 0}
          = Range(queue) \cup Uncommitted \cup Range(log) \cup failed \cup lost
    /\ Range(queue) \cap (Uncommitted \cup Range(log) \cup failed \cup lost) = {}
    /\ Uncommitted \cap (Range(log) \cup failed \cup lost) = {}
    /\ Range(log) \cap (failed \cup lost) = {}
    /\ failed \cap lost = {}
    /\ \A i, k \in DOMAIN log : log[i] = log[k] => i = k

(* Episodes are committed in the order their messages were accepted, over  *)
(* failures and restarts.                                                  *)
InOrder ==
    \A i, k \in DOMAIN log : i < k => ticket[log[i]] < ticket[log[k]]

(* add_episode must see what was committed before it ("each episode is     *)
(* added sequentially and awaited before adding the next one"): when an    *)
(* episode is committed, the context it was built from holds every episode *)
(* of its group that is then in the graph and not dated after it, except   *)
(* those that Window others, dated no earlier, left no room for.  Of a     *)
(* message dated later than the current one it never claims anything,      *)
(* however much earlier that one was accepted.                             *)
SequentialContext ==
    [][CommitEpisode =>
          \A e \in Precedes(current) \ context : NoRoomFor(e, context)]_gsVars

(* An episode that was deleted never comes back, although its job, its     *)
(* nodes and other writes of its group may still be under way.             *)
DeletedStaysDeleted ==
    [][\A j \in Range(log) : j \notin episodes => j \notin episodes']_gsVars

(* DELETE /group answers "Group deleted" only when nothing of the group is *)
(* left, unless a write to the group overlapped the deletion.              *)
CleanDelete ==
    [][\A d \in DeleteCall : FinishDelete(d) =>
          \A g \in del[d].group \ raced :
              /\ \A e \in episodes : GroupOf[e] # g
              /\ \A n \in nodes : NodeGroup(n) # g
              /\ \A f \in facts : GroupOf[f[1]] # g]_gsVars

(* A fact never outlives the episode it came from, wherever a deletion of  *)
(* the group stops: edges go before nodes and nodes before episodes.  Only *)
(* deleting the episode alone, a write that overlaps the deletion, or a    *)
(* job that had read the fact before, can leave a fact without its source. *)
FactsHaveSources ==
    \A f \in facts : \/ f[1] \in episodes \cup detached
                      \/ GroupOf[f[1]] \in raced \/ f \in revived

(* Every accepted message is eventually committed, failed or lost.         *)
Settles ==
    \A j \in Job :
        ticket[j] > 0 ~> j \in Range(log) \cup failed \cup lost

(* Every deletion ends.                                                    *)
DeletionEnds ==
    \A d \in DeleteCall :
        del[d].phase # "idle" ~> del[d].phase \in {"done", "failed"}

(* The queue, the worker and their failures implement the lossy FIFO that  *)
(* callers of POST /messages may rely on.                                  *)
Pending == (IF phase \in Running THEN <<current>> ELSE <<>>) \o queue

Fifo == INSTANCE LossyFifo WITH
    Item <- Job, Bodies <- Batches,
    accepted <- {j \in Job : ticket[j] > 0}, pending <- Pending, delivered <- log

ImplementsFifo == Fifo!Spec
=============================================================================
