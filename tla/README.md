# TLA+ models of Open Context

Open Context keeps the memory of chat agents: threads of messages in Postgres, and
a temporal knowledge graph in Neo4j that is extracted from them. This directory
holds TLA+ modules that model its core, configurations that check them with TLC,
and proofs checked by TLAPS.

## 1. The system and its parts

    client -> backend (Go) -> Postgres          users, sessions, messages, tasks
                    |
                    +-- HTTP -> graph service (FastAPI) -> queue -> AsyncWorker
                                        |                              |
                                        +---------- Neo4j <------------+
    MCP server -> one queue and worker per group -> graphiti_core -> Neo4j

| Part | State | Operations | Talks to | What is hard | What makes it correct |
|---|---|---|---|---|---|
| Backend, threads and users (`backend/internal/api/handlers_users_threads.go`) | rows of users, sessions, messages, tasks | create, delete, patch, post messages | Postgres by single statements; graph service by HTTP | no transactions; handlers interleave; request contexts are cancelled; answers are lost | a request enters the graph wholly or not at all; a uuid once; a deleted thread stays empty; a task tells the truth |
| Backend, graph handlers (`handlers_graph.go`) | none of its own; a goroutine per batch | add, batch, fact triples, clone, search, delete | graph service | the batch outlives its request; clone reads while others write | failures are not overwritten; a clone copies what it can list, and no fact without its ends |
| Backend, the rest (`handlers_misc.go`, router, middleware) | tasks, templates, entity types | get, put, patch | Postgres | rows are read, changed and written back whole; delete and insert apart | one put stays; a patch is lost only to one beside it |
| Graph service client (`backend/internal/graphiti/client.go`) | none | one HTTP call each, 120 s timeout | graph service | a call that timed out may still be served | callers know only success or error |
| Graph service, ingestion (`graphiti/server/graph_service/routers/ingest.py`) | `AsyncWorker.queue`, its task | POST /messages, start, stop | graphiti_core | the queue is memory; one worker for all groups; jobs fail | accepted messages are worked off in order, once at most |
| Graph service, other writes (`zep_graphiti.py`, `ingest.py`) | Neo4j | entity-node, fact triple, delete group, node, edge, episode, clear | Neo4j, query by query | a group deletion overlaps the worker | a deleted group is empty, facts have sources |
| `graphiti_core` add_episode, remove_episode, sagas (`graphiti.py`, `utils/bulk_utils.py`) | Neo4j | read context, extract, resolve, commit, link, remove | language model, Neo4j | what was read is stale at the commit | an episode sees those that precede it; a removal takes what is its own; a saga is a chain |
| Edge resolution (`utils/maintenance/edge_operations.py`) | validity windows of facts | resolve, invalidate | language model, search | missing ends, equal times, dates out of order, copies | settled contradictions stay settled, windows only shrink |
| Deduplication of a batch (`node_operations.py`, `dedup_helpers.py`, `bulk_utils.py`) | pool of canonical nodes, forest of uuids | exact, fuzzy, language-model match; union-find | Neo4j | chains of duplicates, two passes, two maps | one representative per class; every end of a fact is saved |
| Communities (`community_operations.py`) | community nodes and edges | label propagation, build, update | Neo4j | synchronous updates oscillate; builds and updates run beside episodes | termination; a build covers its groups; one community for each entity |
| MCP server queues (`mcp_server/src/services/queue_service.py`) | a queue and a flag per group | add, process | graphiti_core | worker started on demand | one worker per group |
| Chunking, search, drivers, language model clients | none to speak of | pure functions, queries, retries | | boundaries | |
| Frontend, examples, deployment | a cookie | | | | |

`PROJECT.json` names every part with its status and the hazards with their lines.

## 2. Modules

**`GraphService`** models the graph service process and the graph it writes. A
*job* stands for one message of one request (the code wraps it in a `partial`);
the episode it creates has the same name. State, against the code:

| Variable | Code |
|---|---|
| `queue`, `current`, `phase` | `AsyncWorker.queue`, the awaited job, how far it got in `add_episode` |
| `context`, `target` | `previous_episodes`; the node its entity was resolved to |
| `episodes`, `nodes`, `mentions`, `facts` | Episodic and Entity nodes, MENTIONS and RELATES_TO edges |
| `del` | the local lists of each running `delete_group`, and what is left of them |
| `running`, `crashes` | the process is up; bound on how often it goes down |
| `ticket`, `issued`, `log`, `failed`, `lost`, `raced`, `detached` | history, read by properties only |

A job first reads the episodes of its group that are not dated after it, the
latest `Window` of them (`StartJob`; the code asks for `RELEVANT_SCHEMA_LIMIT`,
which is 10). Dates are the senders' (`ValidAt`) and need not follow the order in
which messages are accepted. Each message yields one entity and one fact; the
language model may resolve the entity to any node of the group or to a new one.
`CommitEpisode` is the write transaction of `add_nodes_and_edges_bulk`. Saving is
a MERGE of everything the job read and resolved: `target` (the node) and `saving`
(the facts it resolved its own against) are written back, so a node or fact that
was deleted in between returns (`revived` remembers which facts did). `DELETE
/group` is three reads and then one query per item, each an action, so that every
other action can come between two of them. `Stop` is the orderly shutdown, `Crash`
any other end; both lose the queue and the job in hand unless it was committed.

**`LossyFifo`** is what the graph service promises about posted messages: first
in, first out, one at a time, at most once, possibly dropped, never left waiting
for ever. `GraphService!ImplementsFifo` maps the queue and the uncommitted job to
its `pending`.

**`OpenContext`** EXTENDS `GraphService` and adds the Go backend. A *request* is
one call of a client, with a program counter; each step is one Postgres statement
or one call of the graph service. `Statement` says how a Postgres statement ends
(done; error without effect; done or not, with the request cancelled); `unwritten`
is history: the requests whose last UPDATE of their task was not executed. `Send`,
`Serve`, `Receive`, `CallFails`, `GiveUp`, `DropCall` are the HTTP call: it may be
refused, served with the answer lost, or served after the backend gave up.
`ImplementsGraphService` states that, seen from the graph service, the backend
only ever does what `GraphService` allows. For this the `Batches` of
`GraphService` must be what requests post (`BatchesAssumption`): a batch posts its
items one by one, and a post all messages of its request but those of ignored
roles, in the order of the request (`Follows`).

**`McpQueue`** models `mcp_server/src/services/queue_service.py`: per group a
queue and a flag, and a worker task that is created by an addition that finds the
flag down. Python's event loop switches tasks only where the code awaits, so
`AddEpisodeTask` (put and create), `Begin` (the task's first step, which raises
the flag), `Take`, `Finish` and `Cancel` are actions. `added` and `taken` are
history.

**`CommunityClusters`** models `get_community_clusters` and `label_propagation` of
`community_operations.py`: one query lists the entities (`listed`), one query per
entity reads its neighbours (`projection`), while episodes add facts and deletions
remove entities; then, without awaiting, every entity takes the label most of its
facts vote for, all at once (`label`), round after round.

**`FactValidity`** models the ends of `resolve_extracted_edge` and
`resolve_edge_contradictions`, and the save that follows. An episode resolves a
few facts side by side; each either stays as extracted (nothing found), repeats a
stored fact (same text, or by the language model's word), and contradicts any set
of stored facts. `resolved` and `invalidated` are the lists of that name, on
copies of the stored facts; `SaveEpisode` writes the one after the other. `torn`
remembers facts that two resolutions of one episode hold: of these the last save
wins. `met` and `conflicts` remember which contradictions were settled.

**`CanonicalMap`** and **`BulkDedup`** model `add_episode_bulk`. `BulkDedup`
follows a batch through its phases: every episode's entities against the graph
(`FirstPass`), then each resolved node against the canonical ones met so far
(`SecondPass`: same name, else most alike, else it joins `pool`), the pairs of
duplicates through `_build_directed_uuid_map` (`Hang` with its path compression,
`MapNodes`), the facts among themselves (`ResolveFact`, `KeepFacts`), the
canonical nodes against the graph again (`ResolveAgain`), and the pointers moved
through both maps (`Save`). `CanonicalMap` is what the forest stands for: a map in
which each pair redirects a whole class. `BulkDedup!ImplementsMap` reads
`canonical` as the root of each node.

**`BackendRows`** models the rows that handlers read, change and write back whole:
users, messages, templates, graph records (`Select`, `Update`, `Remove`,
`Create`), and the entity types, which a PUT deletes and inserts (`DeleteTypes`,
`InsertTypes`). A value is the request that set it, and `uuid` the primary key,
which a row created again does not share. **`GraphClone`** EXTENDS it with
`graphClone` and the entities a new user or graph gets: the handler's loops
(`ListNodes`, `Send`, `Receive`, `ListEdges`, `LoopEnds`), the graph service's
saves (`Serve`, query by query, for `POST /entity-node` and `POST
/add-fact-triple`), and `DELETE` of a graph (`ListGroup`, `DropGroup`). The worker
is here only what it leaves (`WorkerSaves`).

**`Episodes`** models the queries of `add_episode` and `add_episode_bulk` that
save and link (`StoreEpisodes`, `Resolve`, `Save`, `FindSaga`, `FindPrevious`,
`Link`, `Join`) and all of `remove_episode` (`FindEpisode` to `DropEpisode`); what
an episode mentions and states is given. `StoreEpisodes` is the transaction in
which `add_episode_bulk` saves its episodes before it knows what they mention
(`graphiti.py:1139`), so that a removal can come between it and `Save`. `Given` is
the `saga_previous_episode_uuid` of `add_episode`: an addition that has one asks
for no previous episode (`graphiti.py:551`). Additions run one after the other, as
the docstring of `add_episode` asks (`graphiti.py:865`); removals run whenever
they like. **`Communities`** EXTENDS it with `build_communities`
(`RemoveCommunities`; for each group `ListGroup`, `ReadNeighbours` once per
entity, `Propagate`, `Load` once per cluster; then `Summarize`, `SaveNode`,
`SaveMember`) and `update_community` (`Determine`, `AddMember`, `SaveCommunity`).
`Propagate` fails with the `KeyError` of `label_propagation` if a neighbour was
read that is not in the list, and otherwise ends in any partition of the entities,
since `CommunityClusters` says how one comes about and when none does.

**`MCGraphService`**, **`MCOpenContext`**, **`MCMcpQueue`**, **`MCFactValidity`**,
**`MCBulkDedup`**, **`MCGraphClone`** and **`MCCommunities`** give the constants
their values for TLC; `CommunityClusters` needs only numbers. `Scenarios` is a set
of sets of requests: each behaviour takes one of them, so that one run asks its
question of several small groups of actors instead of all of them at once.
**`GraphServiceProofs`**, **`OpenContextProofs`**, **`McpQueueProofs`**,
**`CommunityClustersProofs`**, **`FactValidityProofs`**, **`BulkDedupProofs`**,
**`GraphCloneProofs`** and **`CommunitiesProofs`** hold the theorems.

Some operators are marked *mutant*: a plausible mistake in the operator that
follows. No action uses them; replacing the operator by its mutant must break the
property `PROJECT.json` names for it, which shows the property is not vacuous. A
property that joins several named parts has a mutant for each part that could go
wrong by itself.

## 3. What is checked

| Run | Instance | Checks |
|---|---|---|
| `worker` | 1 thread, 3 messages in 2 requests, the two of the first dated the wrong way round, a window of 1 episode, 1 crash, no group deletion | `Accounted`, `InOrder`, `SequentialContext`, `ImplementsFifo`, `Settles` |
| `deletion` | 1 thread, 2 messages posted apart, a window that holds both, 1 group deletion, 1 crash | `FactsHaveSources`, `CleanDelete`, `DeletedStaysDeleted`, `DeletionEnds` |
| `retry` | 2 posts of 2 messages that share uuids in opposite order, one message with an ignored role, 2 faults, 1 crash | `TypeOK`, `AllStoredBeforeAnyAccepted`, `OncePerUuid`, `RefusedLeavesNoTrace`, `ImplementsGraphService`, `AllAnswered`, `TaskEnds` |
| `threads` | one thread created, posted to, deleted and created again, with symmetry over the two creations; or a batch of 3 items, one without a group, against creating a user; or a batch of 1 item against creating and deleting its user; 1 fault, 1 crash | `CompletedMeansAccepted`, `DeletedStaysQuiet` |
| `mcp_queue` | 4 episodes in 2 groups, failures and cancellations | `InOneHand`, `OneWorkerUnlessCrowded`, `Settles` |
| `mcp_sequential` | the same | violation of `OneAtATime` |
| `clusters` | 4 entities, up to 6 facts, 1 write while reading | `StaysConnected`, `MissedOnlyIfGrown`, `EndsOrAlternates` |
| `clusters_end` | the same, no write while reading | violation of `Terminates` |
| `fact_validity` | 3 facts, 2 to an episode, dates 0..2, all windows that end after they begin, one that does not, missing starts and ends | `ContradictionsApart`, `WindowsOnlyShrink` |
| `bulk_dedup` | 2 episodes of 2 entities, 3 facts, 2 namesakes in the graph; names that are the same, alike, alike in a chain, or too short to compare | `PoolSound`, `OneNodeForEach`, `EndsSaved`, `ImplementsMap` |
| `rows_and_clone` | 9 scenarios of 1 to 4 requests: two PATCHes, a DELETE and a POST of a row of each kind; two PUTs of the entity types; one or two clones with deletions, a creation, or the worker, which adds an entity with a fact, or a fact alone; 1 fault or crash | `PatchesKept`, `PutsSettle`, `CloneSound`, `GraphsApart`, `StaysDeleted` |
| `communities` | 13 scenarios of 3 or 4 calls: episodes late, in bulk, told which one to follow, removed, removed twice, removed while they are added in bulk; two builds of different groups, updates of one and of different entities, a build beside the addition of an entity; 1 client dies | `RemovalExact`, `SagaInOrder`, `MembershipsSettle`, `BuildsSettle` |

`TypeOK` of `OpenContext` includes that of `GraphService`. The type invariants of
the other modules are proved where section 4 says so, and otherwise document the
shape of the state.

### What the properties say

- **Graph service.** An accepted message is in exactly one place: waiting, in
  hand, committed, failed or lost (`Accounted`). Episodes enter the graph in the
  order their messages were accepted (`InOrder`), each having read the episodes of
  its group that are then there and not dated after it, or as many of the latest
  as the window holds (`SequentialContext`); of one that was accepted earlier but
  dated later it may know nothing. Episodes that were deleted never return
  (`DeletedStaysDeleted`). A group deletion that ran undisturbed leaves the group
  empty (`CleanDelete`), and a fact outlives its source episode only where a write
  overlapped with the deletion of the group, the episode was deleted by itself, or
  a job that had read the fact wrote it back (`FactsHaveSources`).
- **Backend, posts.** No message of a request reaches the graph service before all
  its rows are stored; a uuid reaches it once, whoever repeats the post; a refused
  request leaves nothing in the queue; a task is completed only if every message
  was accepted. Every request is answered unless the backend dies under it. The
  task of a post ends, a lost or timed-out call and a client that went away
  included; it stays `processing` only if the post was answered 400 for a failed
  insert, the last UPDATE of that task failed, or the backend died (`TaskEnds`,
  for that request). Once a thread or user is marked deleted, and nothing but
  batches is under way for it, it stays deleted, nothing but batches ever gets a
  hold on its group again, and no step but the commit of a batch's item brings an
  episode or a node there (`DeletedStaysQuiet`).
- **Backend, rows.** A PATCH with an old copy never brings a deleted row back
  (`StaysDeleted`) and never reaches the row that took its place; it is lost only
  to a PATCH that overlapped with it; answered 200, it was written, except where
  an error is ignored (`PatchesKept`). However PUTs of the entity types meet, one
  of them stays, and one that is refused was overtaken (`PutsSettle`).
- **Clones.** A fact is copied only if both the nodes it joined were. With no
  deletion and no failure, a clone that is answered has as many entities as the
  listing allows or all but some saved while it was at work, and has copied as
  many facts, or left them out for an end that was not copied, or all but some
  saved late (`CloneSound`). Nothing is claimed of what a copied fact joins: that
  is two new nodes. What is in a graph is of one request whose record is there,
  unless a deletion overlapped or a call failed (`GraphsApart`).
- **MCP queues.** Within a group episodes are taken in order and each by one
  worker; the flag never claims a worker that is gone; two workers of one group
  need an addition between a worker's creation and its first step.
- **Communities.** A label never leaves what the facts read connect; a `KeyError`
  needs an entity added since the list was read; without writes the rounds end or
  swing between two assignments.
- **Validity windows.** Two facts found to contradict each other are never valid
  at one time from then on, whatever later episodes do with either. The code
  settles a contradiction only if both facts have a start, and the starts differ;
  a new fact that came with an end of its own is not cut by a later one; and of a
  fact that two facts of one episode hold, the last save wins, so that nothing is
  claimed (`torn`). No episode moves a start, takes an end away or moves it later,
  or leaves nothing of a window that held some time; an open one is closed after
  it begins.
- **Batches.** No two canonical nodes share a name, and a node found to be a
  duplicate never becomes canonical, though it may come up again when the pool has
  grown (`PoolSound`). Whatever was extracted is mapped to one canonical node, the
  one its resolution is mapped to, and namesakes meet there (`OneNodeForEach`).
  Every end of a mention or fact is saved with it, and an episode mentions the
  ends of its facts unless a canonical node was itself resolved to another
  (`EndsSaved`). The forest is the map it stands for, pair by pair
  (`ImplementsMap`).
- **Episodes.** `remove_episode` takes an entity from another episode only if that
  mention was saved after it looked, or another call removes the same episode too;
  and when all is calm, no removal overlapped with a call and no client died,
  every entity that came with an episode is mentioned and every fact begins its
  list with an episode that is there, but for the facts of bulk episodes
  (`RemovalExact`). The `NEXT_EPISODE` links of a saga never branch backwards or
  close a circle. When all is calm they are exactly the consecutive pairs,
  provided that the episodes came in the order of their dates, each that was told
  which one to follow was told the last of the saga, none is removed and no client
  died (`SagaInOrder`).
- **Communities in the graph.** An entity is in two communities only if two
  builds, two updates of it, or such an update and a build overlapped; an update
  is lost from a summary only if another one of the same community overlapped. A
  community is empty only if an update wrote it back beside a build, where no
  episode is removed and no client died; a removal empties communities on its own
  (`MembershipsSettle`). A build fails only beside a removal, or beside an
  addition that brings an entity next to one it had listed; one that nothing
  overlapped with leaves no community but its own and every entity of its groups
  in one (`BuildsSettle`).

### Bounds, and why they are enough

Faults, crashes, writes during a read and facts are counted and capped by
constants (`MaxFaults`, `MaxCrashes`, `MaxWrites`, `MaxFacts`, `MaxPerEpisode`,
`MaxTime`, `N`). Two requests are what it takes to overtake; three messages allow
a queue behind a job in hand; one crash separates the process before it from the
one after it, and a second meets the same empty queue. A deletion has three lists
of at most two items: enough for something to be written behind, between and ahead
of what it deletes. Two posts sharing two uuids in opposite order are the least
that can fail half-way on each other. Two faults lose a call and the statement
that would have recorded it. Four entities with six facts contain every shape in
which two neighbours vote a third one down, and two components; five entities were
tried once with the same result. Three dates order any two starts and an end
between, before or behind them. A window of one episode is full as soon as there
is one: with two messages dated the wrong way round, the second has none that
precedes it, and the third has two and room for one. A wider window is there where
the properties are about other things.

A chain of duplicates needs three names of which the first is like the second and
the second more like the third; two episodes of two entities let a node of the
graph come up twice with a canonical one between, and three facts let two of one
episode stand for one of the other. A lost update needs two PATCHes with a third
request that takes the row away and one that puts another in its place. A clone of
two entities under `Limit` 2 (500 in the code) meets its limit once the worker has
added a third. A saga needs four episodes for one to come late between two others;
a late removal needs one episode before and one beside it, and one that comes
between the two transactions of a bulk addition needs only that addition. A build
fails beside an addition as soon as one entity is listed and one is not.

### Fairness

The worker (`WF(WorkerStep)`), each group deletion and each backend handler run to
their next step: they are coroutines of one event loop and goroutines of one
process, every call they await has a timeout or is served by the database, and the
backend's client gives up after 120 s (`client.go:22`). A request that has been
sent is served while the service is up. Nothing promises that a crashed process is
started again, and `Start` has no fairness: liveness properties are therefore
stated for a process that stays up, or hold because a caller is refused. The
community reader is one coroutine; MCP workers are tasks of one event loop.

### Findings

| Run | The code | What it says of itself |
|---|---|---|
| `mcp_sequential` | the flag is raised by the worker's first step, not when it is created: two additions in a row create two workers, which process one group's episodes at once (`queue_service.py:44`) | "Process episodes for a specific group_id sequentially." (`:50`) |
| `clusters_end` | labels change all at once: two entities with two facts between them swap labels for ever, in a loop that awaits nothing and so stops the process (`community_operations.py:101`) | "4. Continue until no communities change during propagation" (`:97`) |

What the models had to allow for, because the code does it. Each item is a
disjunct in a property or a choice in an action:

- *Posts.* A post whose insert fails answers 400 and leaves its task `processing`
  (`handlers_users_threads.go:427`). A task is completed on 202, when the messages
  are only queued (`:440`). A `CancelledError` that escapes a job ends the graph
  service's worker for good (`ingest.py:29`); nothing in the code cancels a job
  but `stop`, which ends the worker anyway, so the models end it only with its
  process. Foreign-key cascades never fire, since rows are only marked deleted.
- *Context.* A job looks for episodes dated no later than its own, at most 10 of
  them (`graphiti.py:895`, `graph_data_operations.py:137`). A message with an
  older timestamp is therefore extracted without what was said before it in the
  queue.
- *Deleted groups.* A batch looks up no user, thread or graph
  (`handlers_graph.go:249`), so its items are written to groups that are deleted.
- *Rows.* PATCH of a template or of a graph answers 200 when its UPDATE failed
  (`handlers_graph.go:190`). A PUT of the entity types that meets another is
  answered 500 although types are there.
- *Clones.* The facts of a clone never join the cloned nodes: a fact triple brings
  two new nodes (`handlers_graph.go:363` says "Clone edges, remapping
  source/target UUIDs to cloned node UUIDs"; the handler looks those uuids up and
  sends them as names, for which the graph service makes nodes of its own,
  `ingest.py:138`). No run is needed to see it: no execution does what the comment
  says, so it is stated here, and `CloneSound` keeps to what the lookup does
  achieve.
- *Batches.* A verbatim repetition adds its episode to the fact it repeats, but
  notes no pair, so both are saved unless they are of one episode
  (`edge_operations.py:514`). A fact that stands for several is one object, and
  its pointers are moved once for each (`graphiti.py:698`; `Chained`). Bulk
  episodes do not note their facts, so `remove_episode` leaves them.
- *Episodes.* Two removals of one episode take the entities it shares with one
  other (`graphiti.py:1585`). A removal that comes between the two transactions of
  `add_episode_bulk` finds an episode that mentions nothing yet, and `Save` then
  writes the episode back. A saga forks when an episode comes late or is told to
  follow one that is not the last (`graphiti.py:551`), and breaks when one is
  removed or a client dies between saving and linking.
- *Communities.* `build_communities` removes the communities of all groups
  (`graphiti.py:1306`); `update_community` writes a removed community back,
  without members. A build that reads an entity which was added after its list
  fails, with every community gone by then (`community_operations.py:110`).
  `remove_episode` deletes entities and leaves their communities, empty at last.

## 4. What is proved

All theorems hold for every value of the constants that the modules' named
assumptions admit; TLC evaluates these on every run. Every invariant, and every
property of steps, that a run checks is stated by a theorem.

| Assumption | What the code gives for it |
|---|---|
| `GraphServiceAssumption` | a request posts distinct messages to one group; every message has a timestamp; the window holds at least one episode |
| `OpenContextAssumption`, `BatchesAssumption` | every message of every request is one of its own; what reaches the graph service was posted by a request |
| `McpQueueAssumption`, `ClustersAssumption`, `FactValidityAssumption` | the kinds of the constants; dates are numbers, or missing |
| `BulkAssumption` | a batch is a list without repetitions; batch and graph are finite; extraction gives a fact two entities of its own episode |
| `RowsAssumption`, `CloneAssumption` | messages are only PATCHed; source and target of a clone are two graphs; a graph is finite, its facts join entities it has, and a copy gets a new uuid |
| `EpisodesAssumption`, `CommunitiesAssumption` | a call that adds adds something, each episode once and each a new one; it is not told to follow an episode it adds itself; an episode mentions what its facts join; a fact joins entities of one group; all is finite |

- **`GraphServiceProofs`.** `TypeCorrect` is inductive as it stands.
  `CommitsInOrder` is not: that the log is sorted says nothing of the next commit.
  `Ranked` adds that the job in hand was accepted after everything committed and
  before everything queued; it is inductive and implies `InOrder`.
  `AcceptedAccounted` needs that no message is in two places or twice in the log
  (`Apart`), which follows from the ranks. `RefinesFifo` shows step by step that
  the queue with the uncommitted job in hand behaves as `LossyFifo`: the safety
  part of `ImplementsFifo`. `ContextSequential` rests on `ContextComplete`: of the
  episodes that precede the job in hand, those it has not read are ones that its
  window had no room for, which stays true because nobody else commits.
  `DeletesCleanly` and `FactsKeepSources` share `DeletionInv`: the worker never
  joins what is of two groups (`OfOneGroup`), and what a group has is in what its
  deletion has yet to delete, unless the group is raced (`Swept`).
  `DeletedForGood` follows from `AcceptedAccounted`: a job in hand is not one that
  was committed. None of this uses fairness: each result is a lemma of the steps
  alone (`GSSafety`, lemmas `TypeSafely` to `ForGoodSafely`), so that whatever
  implements the steps inherits it.
- **`OpenContextProofs`.** Type correctness needs where a handler may be (`Place`,
  `Shape`): an insert still has a message to insert. `AllOrNothing`, `UuidsOnce`
  and `RefusedNeverSent` all follow from `Kept`: a row is of one uuid, what a
  handler gathered it has stored, and a call that is out or answered carries all
  of it. `TasksHonest` rests on `Honest`: as long as nothing failed, the items a
  batch is done with are accepted, but for the one whose call is under way.
  `DeletionIsFinal` shows action by action that, once only batches have a hold on
  a deleted group (`LeftToBatches`), no other handler gets past its lookup, so
  that none of them has one ever after. `RefinesGraphService` takes the steps of
  the backend one by one: a step that is no call leaves the graph service alone,
  and one that is posts a member of `Batches`. The latter is `InTurn`: a payload
  holds the messages of its request in their order, once each, and that of a batch
  a single item. With it `ServiceKeepsItsWord` carries the results of
  `GraphServiceProofs` over to the whole system, where posts are repeated, calls
  are lost and answers come late.
- **`McpQueueProofs`.** `QueuesTyped`, `EpisodesTakenInOrder`, `FlagNeverLies`,
  `TakenOnce`, `OneWorker`. `TakenOnce` follows from the order: an episode is in
  one place of what was taken. `OneWorker` rests on `Orderly`: in a group that was
  never crowded there is one worker past its creation, and the flag is up exactly
  while it loops.
- **`CommunityClustersProofs`.** `ClustersTyped` needs that a plurality always
  exists, which follows from the well-foundedness of the naturals (`Largest`).
  `LabelsStayConnected` follows from votes being labels of neighbours.
  `MissesExplained` rests on `Covered`: whoever a read fact names was listed, or
  came after the list was read.
- **`FactValidityProofs`.** `ValidityTyped`, `ExpiredFactsEnd`,
  `WindowsNeverGrow`, `ContradictionsStayApart`. None but the first is inductive
  over `stored` alone: the invariant `IInv` adds what the running episode holds.
  `HeldNarrower`: its copies are the stored facts cut short at most. `MetApart`:
  the contradictions it settled are settled in `Final`, the graph as saving would
  leave it, unless a fact is torn. `NarrowerApart` (cutting windows short keeps
  them apart) then carries settled contradictions through every later save.
- **`BulkDedupProofs`.** `PoolStaysSound`: that a duplicate never becomes
  canonical is not inductive. `Recognised` adds what it was recognised by, a
  canonical node of its name or one alike, which stays in the pool; `MostAlike`
  (of nodes that are alike at all, one is most alike) makes the fuzzy match find
  it again. `ForestIsTheMap`: that `parent` has no cycles cannot be said by its
  roots, which the walk must be shown to reach. `IsForest` gives every node a
  finite set that shrinks along each edge (`Shrinks`); a walk that went on for
  longer than there are nodes would have shrunk below the empty set, by a least
  counterexample (`LeastNat`) instead of an induction. `HangRedirects` is then the
  step: path compression moves no root, and hanging one root below another
  redirects its class alone. `PassesAgree` follows the pairs while they are merged
  (`MergeInv`): two nodes share a root or have a pair still to come (`Linked`); a
  node that nothing was resolved to is the first of one pair at most
  (`OncePaired`) and a root with nothing below it until that pair comes
  (`AloneTillThen`); canonical nodes therefore redirect to canonical ones
  (`CanonicalsStay`), and `Joins` says of every node that was seen that it meets
  the canonical one of its name. `EndsAreSaved` rests on `EndsInv`: facts of one
  class join the same nodes, and only nodes of the batch are resolved again, so
  that what an episode's mentions are mapped to is what its facts are moved to.
- **`GraphCloneProofs`.** All steps of handlers, of calls and of the service are
  first reduced to a few facts: at most one handler goes on, and a finished one
  stays finished (`StepsOnward`); a row is read, rewritten, taken or brought
  (`RowsChange`). `OnePutStays` needs that the types found while a PUT has deleted
  the old ones are from a PUT beside it (`Overtaken`). `PatchesAreKept` needs the
  same of copies as of rows: whose values they show (`Authors`), that they are not
  newer (`NotNewer`), inherit nothing (`CopiesInherit`) and lack only what was
  overlapped (`CopiesKeep`). `CopiesAreConnected` adds the calls that are under
  way (`SentWithEnds`): a fact is copied only with its ends.
  `DeletedRowsStayDeleted` needs no more than which step brings a row, and that it
  brings it under a later key. `GraphsStayApart` first shows whose everything is
  (`Saved`); `ApartInv` then ties nodes to records: whoever fills a graph applied
  its INSERT (`Owned`), its record is there or was deleted by a request that had
  not ended when it began (`RowsThere`), so has one of any two owners of a graph
  (`OneOwner`), and a deletion takes all that was saved for requests that had
  ended when it began (`Swept`). `ClonesAreSound` rests on `CompleteInv`, the loop
  invariant of the clone: each entity and fact of the source is listed, in the
  copying loop's hands, under way or saved, or came while the clone was at work.
- **`CommunitiesProofs`.** `RemovalTakesItsOwn` is the first half of
  `RemovalExact`: what a removal will drop is mentioned only by its own episode
  and by episodes that it did not see when it counted (`TakesItsOwn`). That no
  mention which it did see is saved anew (`AddedOnce`) follows from the assumption
  that every added episode is new; it is said of mentions, since the episodes of a
  bulk addition are there before their mentions. `RemovalIsExact` adds what is
  left (`LeftInv`): while calls do not overlap, each entity still has an episode
  or is due to be deleted. For facts this needs `StatedByIts`: the list of
  episodes that an addition gives a fact, built episode by episode, begins with
  one that states it; again by a least counterexample. `SagaStaysInOrder` needs
  for trees that an episode not yet linked has no link at all (`LinkedIsNew`),
  also where a later call is told to follow it: for that, one call adds at a time
  and finds its episodes unsaved (`OneAdds`, `StoredOnce`). It states acyclicity
  as: every non-empty set of episodes has one with none of the set before it
  (`NoCycle`); for the order, that links and the link about to be written are
  consecutive as long as nothing came late (`LinkInv`). `MembershipsAreSettled`
  joins three invariants, each about what is still in the hands of a call: two
  memberships (`OnceInv`), a summary about to be overwritten (`LostInv`), a
  community whose members are coming (`EmptyInv`). `BuildsAreSettled` follows a
  build through its phases: what it has yet to list, load and save, with what is
  saved, covers its groups (`Covers`); each entity of its group that it did not
  list came with an overlapping addition (`ListsAll`), and what it holds is there
  until a removal (`Intact`). That its clusters never share an entity
  (`ReadsApart`) serves this and `OnceInv`.

Only model-checked: what holds under fairness (`Settles`, `AllAnswered`,
`DeletionEnds`, `TaskEnds`, `Terminates`, `EndsOrAlternates`, and the liveness
that `ImplementsFifo` asks of `LossyFifo` and `ImplementsGraphService` of
`GraphService`), since liveness and ENABLED are outside what the prover handles
here; and that label propagation ends or alternates, which would need induction
over its rounds besides.

## 5. What is not modelled

Reads (search, retrieval, listing) change nothing. Language model, embedder and
search results are free choices. Query texts of the four graph databases are
represented by the effect of the Neo4j ones. Router, middleware, configuration,
the frontend and the examples keep no state worth checking. One backend and one
graph service process are assumed, as `docker-compose.yml` sets them up.

Most of the repository's lines are of these kinds: generated wrappers of the HTTP
interface (`sdks/`), the query texts and drivers of four databases, search recipes
and rankings that only read, prompts, clients of language models, notebooks and
pages. They have no state and no order of their own; what the models cover are the
parts where requests, tasks and queries meet.

- `OpenContext`: groups of users and threads are disjoint, and no thread is
  related to its user once it is created, as in the code. A batch has no group of
  its own and looks none up, so that `DeletedStaysQuiet` is about the others. The
  single graph calls (`graphAdd`, patching or deleting one node, edge or episode)
  forward one call and are left out.
- `BackendRows`: settings and custom instructions, which are single rows written
  by single statements, are left out.
- `GraphService`: an episode yields one entity and one fact; the fact triple is in
  `GraphClone`. All messages are posted with one source, by which the code selects
  earlier episodes too. A job ends: the worker awaits it without a limit, so that
  one that never ends would hold up every group.
- `FactValidity`: facts are not deleted meanwhile (`GraphService` covers that).
- `BulkDedup`: how alike names are is a table, so shingles, MinHash and buckets
  are left out, as are attributes and summaries; facts that the graph already has
  are left to `FactValidity`.
- `Episodes` and `Communities`: extraction, summaries as texts, `add_triplet`.
  Label propagation ends; where it does not (`Terminates`), the build stays for
  ever and its process with it. Every added episode is new: `add_episode` with the
  uuid of a stored one, which fetches and saves it again (`graphiti.py:908`), is
  excluded by `EpisodesAssumption`.
- Content chunking: no pipeline of this repository calls it.

## 6. What is left

- Users and threads that share an id share a group, and threads outlive their
  user; both are in the list of hazards without a property.
- The single graph calls of the backend, custom instructions and settings.
- An episode added again under its own uuid.
- Chunking and rank fusion, as pure functions.
- A limit on jobs, and a check that a resolved node is still there at the commit:
  the code has neither, and the hazards that name them have no property.
