------------------------------ MODULE McpQueue ------------------------------
(***************************************************************************)
(* QueueService of the MCP server: a queue of episodes per group, and a    *)
(* worker per group that add_episode_task starts on demand.  All of it     *)
(* runs on one event loop, so that another task can come in only where a   *)
(* coroutine is created or suspended.                                      *)
(*                                                                         *)
(* An addition creates at most one worker, which is named by the episode   *)
(* that was added.                                                         *)
(***************************************************************************)
EXTENDS Naturals, Sequences, Functions

CONSTANTS
    Job,          \* the episodes that clients ever add
    Group,
    GroupOf       \* the group_id of each episode

ASSUME McpQueueAssumption == GroupOf \in [Job -> Group]

VARIABLES
    queue,        \* _episode_queues
    flag,         \* _queue_workers: whether a worker is running
    worker,       \* the state of each worker task
    hand,         \* the episode a worker processes, or none
    added,        \* history: the episodes of each group, as they were added
    taken,        \* history: the episodes of each group, as workers took them
    settled,      \* history: episodes that were processed, failed or cancelled
    crowded       \* history: groups added to before a new worker had begun

vars == <<queue, flag, worker, hand, added, taken, settled, crowded>>

Workers(g) == {w \in Job : GroupOf[w] = g}
Alive(w)   == worker[w] \in {"created", "begun"}

Init ==
    /\ queue = [g \in Group |-> <<>>] /\ flag = [g \in Group |-> FALSE]
    /\ worker = [w \in Job |-> "none"] /\ hand = [w \in Job |-> {}]
    /\ added = [g \in Group |-> <<>>] /\ taken = [g \in Group |-> <<>>]
    /\ settled = {} /\ crowded = {}

(* add_episode_task: put does not suspend on an unbounded queue, and the   *)
(* worker that is created begins only when the event loop gets to it.      *)
AddEpisodeTask(j) ==
    LET g == GroupOf[j] IN
    /\ j \notin Range(added[g])
    /\ queue' = [queue EXCEPT ![g] = Append(@, j)]
    /\ added' = [added EXCEPT ![g] = Append(@, j)]
    /\ worker' = IF flag[g] THEN worker ELSE [worker EXCEPT ![j] = "created"]
    /\ crowded' = crowded \cup {h \in {g} : \E w \in Workers(h) : worker[w] = "created"}
    /\ UNCHANGED <<flag, hand, taken, settled>>

(* Mutant: the flag is not raised.                                         *)
NotRaised(w) == UNCHANGED flag

Raise(w) == flag' = [flag EXCEPT ![GroupOf[w]] = TRUE]
Lower(w) == flag' = [flag EXCEPT ![GroupOf[w]] = FALSE]

(* The first step of the worker task.                                      *)
Begin(w) ==
    /\ worker[w] = "created"
    /\ worker' = [worker EXCEPT ![w] = "begun"]
    /\ Raise(w)
    /\ UNCHANGED <<queue, hand, added, taken, settled, crowded>>

(* Mutant: get leaves the episode in the queue.                            *)
RestIsAll(q) == q

First(q) == Head(q)
Rest(q) == Tail(q)

(* get: any waiting worker of the group may be the one that is woken.      *)
Take(w) ==
    LET g == GroupOf[w]
    IN  /\ worker[w] = "begun" /\ hand[w] = {} /\ queue[g] # <<>>
        /\ hand' = [hand EXCEPT ![w] = {First(queue[g])}]
        /\ queue' = [queue EXCEPT ![g] = Rest(@)]
        /\ taken' = [taken EXCEPT ![g] = Append(@, First(queue[g]))]
        /\ UNCHANGED <<flag, worker, added, settled, crowded>>

Settle(w) == settled' = settled \cup hand[w] /\ hand' = [hand EXCEPT ![w] = {}]

(* Mutant: the worker ends with its first episode.                         *)
FinishEnds(w) ==
    /\ hand[w] # {}
    /\ Settle(w)
    /\ worker' = [worker EXCEPT ![w] = "ended"]
    /\ UNCHANGED <<queue, flag, added, taken, crowded>>

(* Whether process_func returns or raises, the worker goes on.             *)
Finish(w) ==
    /\ hand[w] # {}
    /\ Settle(w)
    /\ UNCHANGED <<queue, flag, worker, added, taken, crowded>>

(* A CancelledError, of the task or of the call it awaits, is no Exception *)
(* and ends the worker together with the episode in its hands.             *)
Cancel(w) ==
    /\ worker[w] = "begun"
    /\ worker' = [worker EXCEPT ![w] = "ended"]
    /\ Lower(w)
    /\ Settle(w)
    /\ UNCHANGED <<queue, added, taken, crowded>>

WorkerStep(w) == Begin(w) \/ Take(w) \/ Finish(w)

Next ==
    \/ \E j \in Job : AddEpisodeTask(j)
    \/ \E w \in Job : WorkerStep(w) \/ Cancel(w)

(* The event loop runs every task that is ready, and the calls that a      *)
(* worker awaits return or raise.                                          *)
Fairness == \A w \in Job : WF_vars(WorkerStep(w))

Spec == Init /\ [][Next]_vars /\ Fairness
-----------------------------------------------------------------------------
(* The shape of the state.                                                 *)
TypeOK ==
    /\ queue \in [Group -> Seq(Job)] /\ flag \in [Group -> BOOLEAN]
    /\ worker \in [Job -> {"none", "created", "begun", "ended"}]
    /\ hand \in [Job -> SUBSET Job]
    /\ \A w \in Job : /\ hand[w] # {} => worker[w] = "begun"
                      /\ worker[w] # "none" => w \in Range(added[GroupOf[w]])
    /\ added \in [Group -> Seq(Job)] /\ taken \in [Group -> Seq(Job)]
    /\ settled \subseteq Job /\ crowded \subseteq Group

(* Episodes are taken in the order in which they were added, and none is   *)
(* skipped, however many workers the group has.                            *)
TakenInOrder == \A g \in Group : added[g] = taken[g] \o queue[g]

(* An episode that was taken is settled, or in the hands of one worker:    *)
(* none is lost between the two, and none is processed twice.              *)
InOneHand ==
    \A g \in Group : \A j \in Range(taken[g]) :
        /\ j \in settled <=> \A w \in Job : j \notin hand[w]
        /\ \A v, w \in Job : j \in hand[v] /\ j \in hand[w] => v = w

(* The flag, which keeps add_episode_task from starting a worker, is never *)
(* up without one: whatever is added finds a worker or gets one.           *)
FlagTruthful ==
    \A g \in Group : flag[g] => \E w \in Workers(g) : worker[w] = "begun"

(* A group has one worker at most, as long as nothing is added to it       *)
(* between the creation of a worker and its first step.                    *)
OneWorkerUnlessCrowded ==
    \A g \in Group \ crowded : \A v, w \in Workers(g) : Alive(v) /\ Alive(w) => v = w

(* Every episode is eventually settled, unless the workers of its group    *)
(* were cancelled and the next addition is yet to come.                    *)
Settles ==
    \A j \in Job : j \in Range(added[GroupOf[j]]) ~>
        \/ j \in settled
        \/ ~flag[GroupOf[j]] /\ \A w \in Workers(GroupOf[j]) : ~Alive(w)

(* "Episodes for the same group_id are processed sequentially to avoid     *)
(* race conditions": no two episodes of a group are in hand at once.       *)
OneAtATime ==
    \A g \in Group : \A v, w \in Workers(g) : hand[v] # {} /\ hand[w] # {} => v = w
=============================================================================
