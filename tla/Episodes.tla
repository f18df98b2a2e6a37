------------------------------- MODULE Episodes -------------------------------
(***************************************************************************)
(* Episodes of graphiti_core in the database: add_episode and              *)
(* add_episode_bulk with the saga their episodes belong to, and            *)
(* remove_episode.  Every query is a step; the calls are made by clients   *)
(* of the library, which add one after the other, as the docstrings ask,   *)
(* and remove whenever they like.                                          *)
(*                                                                         *)
(* What an episode mentions and states is given: how it is found is        *)
(* BulkDedup and FactValidity.  A query that does not MATCH does nothing.  *)
(***************************************************************************)
EXTENDS Naturals, FiniteSets, Sequences, Functions

CONSTANTS
    Call,         \* the calls that are made of the library
    What,         \* what each does
    Adds,         \* the episodes it adds, sorted by valid_at
    Removes,      \* the episode it removes
    Episode, Entity, Fact,
    Mentions,     \* the entities an episode mentions
    States,       \* the facts it states
    Joins,        \* the entities a fact joins
    ValidAt,
    Saga,         \* the episodes that are added with a saga: all the same one
    AtStart,      \* the entities there are at the start
    Given,        \* the saga_previous_episode_uuid that add_episode is given, if any
    Scenarios,    \* sets of calls made together
    NoEpisode,
    MaxCrashes

Whats == {"add", "addBulk", "remove", "build", "update"}

(* An episode that is added is new: neither one call nor two add the same  *)
(* one twice, and none is linked to one that it adds itself.  A call that  *)
(* adds has at least one to add.                                           *)
ASSUME EpisodesAssumption ==
    /\ What \in [Call -> Whats]
    /\ Adds \in [Call -> Seq(Episode)] /\ DOMAIN Removes = Call
    /\ \A c \in Call : What[c] \in {"add", "addBulk"} => Adds[c] # <<>>
    /\ \A c \in Call : \A i, j \in DOMAIN Adds[c] : i # j => Adds[c][i] # Adds[c][j]
    /\ Mentions \in [Episode -> SUBSET Entity] /\ States \in [Episode -> SUBSET Fact]
    /\ Joins \in [Fact -> SUBSET Entity]
    /\ \A e \in Episode : \A f \in States[e] : Joins[f] \subseteq Mentions[e]
    /\ ValidAt \in [Episode -> Nat]
    /\ Saga \subseteq Episode /\ AtStart \subseteq Entity
    /\ Scenarios \subseteq SUBSET Call
    /\ \A s \in Scenarios : \A c, d \in s : c # d => Range(Adds[c]) \cap Range(Adds[d]) = {}
    /\ IsFiniteSet(Episode) /\ IsFiniteSet(Entity) /\ Entity \cap Fact = {}
    /\ NoEpisode \notin Episode /\ MaxCrashes \in Nat
    /\ Given \in [Call -> Episode \cup {NoEpisode}]
    /\ \A c \in Call : Given[c] \notin Range(Adds[c])

VARIABLES
    made,         \* the calls that are made
    pc,           \* where each is
    before,       \* the calls that had ended when it began
    episodes, entities, mentions,
    listed,       \* the episodes a fact lists, <<>> if it is not there
    stated,       \* entity_edges of an episode
    found,        \* the facts as an addition read them
    saga,         \* whether there is the saga
    has,          \* HAS_EPISODE: the episodes of the saga
    next,         \* NEXT_EPISODE
    previous,     \* what an addition links the next episode to
    linked,       \* how many of its episodes it is done with
    doomed,       \* the entities and facts a removal will delete
    uncounted,    \* the entities it has not counted the mentions of
    counted,      \* the mentions there were when it looked for its own
    late,         \* an episode has joined the saga, or was linked, out of order
    crashes

graph == <<episodes, entities, mentions, listed, stated, saga, has, next>>
ends == <<made, pc, before, late, crashes>>
adding == <<found, previous, linked>>
removing == <<doomed, uncounted, counted>>
episodeVars == <<graph, ends, adding, removing>>

NoFacts == [f \in Fact |-> <<>>]

EpisodesInit ==
    /\ made \in Scenarios
    /\ pc = [c \in Call |-> "start"]
    /\ before = [c \in Call |-> {}]
    /\ episodes = {} /\ entities = AtStart /\ mentions = {}
    /\ listed = NoFacts
    /\ stated = [e \in Episode |-> {}]
    /\ found = [c \in Call |-> NoFacts]
    /\ saga = FALSE /\ has = {} /\ next = {}
    /\ previous = [c \in Call |-> NoEpisode]
    /\ linked = [c \in Call |-> 0]
    /\ doomed = [c \in Call |-> {}] /\ uncounted = [c \in Call |-> {}]
    /\ counted = [c \in Call |-> {}]
    /\ late = FALSE /\ crashes = 0
-----------------------------------------------------------------------------
Over == {"done", "dead", "failed"}
Ended == {c \in Call : pc[c] \in Over}
Underway(c) == pc[c] \notin Over \cup {"start"}
Goto(c, label) == pc' = [pc EXCEPT ![c] = label]
Begins(c) ==
    /\ c \in made /\ pc[c] = "start"
    /\ before' = [before EXCEPT ![c] = Ended]

Facts == {f \in Fact : listed[f] # <<>>}
Adding(c) == What[c] \in {"add", "addBulk"}
Added(c) == Range(Adds[c])

NoneIsAdding == \A d \in made : Adding(d) => ~ Underway(d)

(* add_episode_bulk saves its episodes before it looks what they mention.  *)
StoreEpisodes(c) ==
    /\ What[c] = "addBulk" /\ Begins(c) /\ NoneIsAdding
    /\ episodes' = episodes \cup Added(c)
    /\ Goto(c, "resolve")
    /\ UNCHANGED <<made, late, crashes, entities, mentions, listed, stated, saga, has,
                   next, adding, removing>>

(* An addition reads the facts that it will find stated again.             *)
Resolve(c) ==
    /\ \/ What[c] = "add" /\ Begins(c) /\ NoneIsAdding
       \/ pc[c] = "resolve" /\ UNCHANGED before
    /\ found' = [found EXCEPT ![c] = listed]
    /\ Goto(c, "save")
    /\ UNCHANGED <<made, late, crashes, graph, previous, linked, removing>>

(* add_nodes_and_edges_bulk: all is merged in one transaction; a fact that *)
(* was found is written as it was read, with the episode appended.  The    *)
(* episodes of add_episode_bulk are written once more.  Only add_episode   *)
(* notes the facts in the episode.                                         *)
StatedBy(c, f) ==
    LET so[i \in 0..Len(Adds[c])] ==
          IF i = 0 THEN <<>>
          ELSE IF f \in States[Adds[c][i]] THEN Append(so[i - 1], Adds[c][i]) ELSE so[i - 1]
    IN so[Len(Adds[c])]

Save(c) ==
    /\ pc[c] = "save"
    /\ episodes' = episodes \cup Added(c)
    /\ entities' = entities \cup UNION {Mentions[e] : e \in Added(c)}
    /\ mentions' = mentions \cup UNION {{e} \X Mentions[e] : e \in Added(c)}
    /\ listed' = [f \in Fact |-> IF StatedBy(c, f) = <<>> THEN listed[f]
                                 ELSE found[c][f] \o StatedBy(c, f)]
    /\ stated' = [e \in Episode |-> IF e \in Added(c) /\ What[c] = "add"
                                    THEN States[e] ELSE stated[e]]
    /\ Goto(c, IF Added(c) \subseteq Saga THEN "saga" ELSE "done")
    /\ UNCHANGED <<made, before, late, crashes, saga, has, next, adding, removing>>

(* _get_or_create_saga.                                                    *)
FindSaga(c) ==
    /\ pc[c] = "saga"
    /\ saga' = TRUE
    /\ Goto(c, "previous")
    /\ UNCHANGED <<made, before, late, crashes, episodes, entities, mentions, listed,
                   stated, has, next, adding, removing>>

(* The last one by valid_at; add_episode passes over the one it adds,      *)
CandidatesAll(c) == episodes                                    \* mutant
Candidates(c) == {e \in has : What[c] = "add" => e \notin Added(c)}
LatestFirst(S) == {e \in S : \A d \in S : ValidAt[e] <= ValidAt[d]}     \* mutant
Latest(S) == {e \in S : \A d \in S : ValidAt[d] <= ValidAt[e]}

(* and looks for none if it is given one, whatever that one is.            *)
IsGiven(c) == What[c] = "add" /\ Given[c] # NoEpisode

FindPrevious(c) ==
    /\ pc[c] = "previous"
    /\ IF IsGiven(c) THEN previous' = [previous EXCEPT ![c] = Given[c]]
       ELSE IF Candidates(c) = {} THEN UNCHANGED previous
       ELSE \E e \in Latest(Candidates(c)) : previous' = [previous EXCEPT ![c] = e]
    /\ late' = (late \/ (IsGiven(c) /\ Given[c] \notin Latest(Candidates(c))))
    /\ Goto(c, "link")
    /\ UNCHANGED <<made, before, crashes, graph, found, linked, removing>>

Now(c) == Adds[c][linked[c] + 1]

(* NEXT_EPISODE, then HAS_EPISODE, for each episode in turn.               *)
Link(c) ==
    /\ pc[c] = "link"
    /\ next' = IF {previous[c], Now(c)} \subseteq episodes
               THEN next \cup {<<previous[c], Now(c)>>} ELSE next
    /\ Goto(c, "join")
    /\ UNCHANGED <<made, before, late, crashes, episodes, entities, mentions, listed,
                   stated, saga, has, adding, removing>>

Join(c) ==
    /\ pc[c] = "join"
    /\ has' = IF Now(c) \in episodes THEN has \cup {Now(c)} ELSE has
    /\ late' = (late \/ \E e \in has : ValidAt[Now(c)] <= ValidAt[e])
    /\ previous' = [previous EXCEPT ![c] = Now(c)]
    /\ linked' = [linked EXCEPT ![c] = @ + 1]
    /\ Goto(c, IF linked[c] + 1 = Len(Adds[c]) THEN "done" ELSE "link")
    /\ UNCHANGED <<made, before, crashes, episodes, entities, mentions, listed, stated,
                   saga, next, found, removing>>
-----------------------------------------------------------------------------
Gone(c) == Removes[c]

(* Mutant: the facts that list it last.                                    *)
FindEpisodeLast(c) ==
    /\ What[c] = "remove" /\ Begins(c)
    /\ IF Gone(c) \in episodes THEN Goto(c, "mentioned") ELSE Goto(c, "failed")
    /\ doomed' = [doomed EXCEPT ![c] =
          {f \in Facts \cap stated[Gone(c)] : listed[f][Len(listed[f])] = Gone(c)}]
    /\ UNCHANGED <<made, late, crashes, graph, adding, uncounted, counted>>

(* remove_episode reads the episode, the facts it lists, of which it takes *)
(* those that list it first,                                               *)
FindEpisode(c) ==
    /\ What[c] = "remove" /\ Begins(c)
    /\ IF Gone(c) \in episodes THEN Goto(c, "mentioned") ELSE Goto(c, "failed")
    /\ doomed' = [doomed EXCEPT ![c] =
          {f \in Facts \cap stated[Gone(c)] : listed[f][1] = Gone(c)}]
    /\ UNCHANGED <<made, late, crashes, graph, adding, uncounted, counted>>

(* the entities it mentions,                                               *)
FindMentioned(c) ==
    /\ pc[c] = "mentioned"
    /\ uncounted' = [uncounted EXCEPT ![c] = {n \in entities : <<Gone(c), n>> \in mentions}]
    /\ counted' = [counted EXCEPT ![c] = mentions]
    /\ Goto(c, "count")
    /\ UNCHANGED <<made, before, late, crashes, graph, adding, doomed>>

(* and of these, one by one, those with one mention.                       *)
MentionedOftenEnough(n) == TRUE                                 \* mutant
Unshared(n) == Cardinality({m \in mentions : m[2] = n}) = 1

Count(c) ==
    /\ pc[c] = "count"
    /\ \E n \in uncounted[c] :
          /\ uncounted' = [uncounted EXCEPT ![c] = @ \ {n}]
          /\ doomed' = [doomed EXCEPT ![c] = IF Unshared(n) THEN @ \cup {n} ELSE @]
    /\ UNCHANGED <<made, pc, before, late, crashes, graph, adding, counted>>

Counted(c) ==
    /\ pc[c] = "count" /\ uncounted[c] = {}
    /\ Goto(c, "facts")
    /\ UNCHANGED <<made, before, late, crashes, graph, adding, removing>>

(* Then it deletes the facts,                                              *)
DropFacts(c) ==
    /\ pc[c] = "facts"
    /\ listed' = [f \in Fact |-> IF f \in doomed[c] THEN <<>> ELSE listed[f]]
    /\ Goto(c, "entities")
    /\ UNCHANGED <<made, before, late, crashes, episodes, entities, mentions, stated,
                   saga, has, next, adding, removing>>

(* the entities with all that is attached to them,                         *)
DropEntities(c) ==
    /\ pc[c] = "entities"
    /\ entities' = entities \ doomed[c]
    /\ mentions' = {m \in mentions : m[2] \notin doomed[c]}
    /\ listed' = [f \in Fact |-> IF Joins[f] \cap doomed[c] # {} THEN <<>> ELSE listed[f]]
    /\ Goto(c, "episode")
    /\ UNCHANGED <<made, before, late, crashes, episodes, stated, saga, has, next,
                   adding, removing>>

(* and the episode with all that is attached to it.                        *)
DropEpisode(c) ==
    /\ pc[c] = "episode"
    /\ episodes' = episodes \ {Gone(c)}
    /\ mentions' = {m \in mentions : m[1] # Gone(c)}
    /\ has' = has \ {Gone(c)}
    /\ next' = {p \in next : Gone(c) \notin Range(p)}
    /\ stated' = [stated EXCEPT ![Gone(c)] = {}]
    /\ Goto(c, "done")
    /\ UNCHANGED <<made, before, late, crashes, entities, listed, saga, adding, removing>>

(* A client dies, and what it was doing with it.                           *)
Crash(c) ==
    /\ crashes < MaxCrashes /\ Underway(c)
    /\ crashes' = crashes + 1
    /\ Goto(c, "dead")
    /\ UNCHANGED <<made, before, late, graph, adding, removing>>

EpisodeStep(c) ==
    \/ StoreEpisodes(c) \/ Resolve(c) \/ Save(c)
    \/ FindSaga(c) \/ FindPrevious(c) \/ Link(c) \/ Join(c)
    \/ FindEpisode(c) \/ FindMentioned(c) \/ Count(c) \/ Counted(c)
    \/ DropFacts(c) \/ DropEntities(c) \/ DropEpisode(c)
    \/ Crash(c)
-----------------------------------------------------------------------------
EpisodesTypeOK ==
    /\ made \in Scenarios
    /\ before \in [Call -> SUBSET Call]
    /\ episodes \subseteq Episode /\ entities \subseteq Entity
    /\ mentions \subseteq Episode \X Entity
    /\ listed \in [Fact -> Seq(Episode)] /\ found \in [Call -> [Fact -> Seq(Episode)]]
    /\ stated \in [Episode -> SUBSET Fact]
    /\ saga \in BOOLEAN /\ has \subseteq Episode /\ next \subseteq Episode \X Episode
    /\ previous \in [Call -> Episode \cup {NoEpisode}]
    /\ \A c \in Call : linked[c] \in 0..Len(Adds[c])
    /\ \A c \in Call : doomed[c] \subseteq Entity \cup Fact
    /\ uncounted \in [Call -> SUBSET Entity]
    /\ counted \in [Call -> SUBSET (Episode \X Entity)]
    /\ late \in BOOLEAN /\ crashes \in 0..MaxCrashes

Removals == {c \in made : What[c] = "remove"}
Overlap(c, d) == c \notin before[d] /\ d \notin before[c] /\ "start" \notin {pc[c], pc[d]}
Calm == \A c \in made : ~ Underway(c)

(* remove_episode takes an entity from another episode only if the mention *)
(* was saved after it had looked for its own, or two calls removed the     *)
(* same episode: the second then takes the one that is left for its own.   *)
OnlyUnmentionedDropped ==
    \A c \in Removals : pc[c] = "entities" =>
       \A m \in mentions : m[2] \in doomed[c] =>
          \/ m[1] = Gone(c)
          \/ m \notin counted[c]
          \/ \E d \in Removals \ {c} : Gone(d) = Gone(c)

(* When all is calm every entity that came with an episode has a mention   *)
(* left and every fact the episode it came from, unless calls overlapped   *)
(* or died; but the facts of episodes added in bulk stay.                  *)
NothingLeftBehind ==
    Calm /\ crashes = 0 /\ (\A c \in Removals : \A d \in made \ {c} : ~ Overlap(c, d)) =>
       /\ \A n \in entities \ AtStart : \E e \in episodes : <<e, n>> \in mentions
       /\ \A f \in Facts : \/ listed[f][1] \in episodes
                           \/ \E c \in made : What[c] = "addBulk" /\ listed[f][1] \in Added(c)

(* remove_episode takes what is the episode's own, and all of it.          *)
RemovalExact == OnlyUnmentionedDropped /\ NothingLeftBehind

(* Consecutive episodes of the saga.                                       *)
Follows(e, d) ==
    /\ {e, d} \subseteq has /\ ValidAt[e] < ValidAt[d]
    /\ \A x \in has : ~ (ValidAt[e] < ValidAt[x] /\ ValidAt[x] < ValidAt[d])

(* "consecutive episodes are linked": when all is calm, NEXT_EPISODE joins *)
(* exactly the consecutive episodes of the saga, if they came in the order *)
(* of their valid_at, each that was given one to follow was given the last *)
(* of the saga, none was removed and no client died.                       *)
SagaIsLinked ==
    Calm /\ ~ late /\ crashes = 0 /\ Removals = {} =>
       next = {p \in Episode \X Episode : Follows(p[1], p[2])}

(* However episodes are late, removed or their clients die, NEXT_EPISODE   *)
(* gives every episode at most one before it, and has no cycle.            *)
Before(e) == {p[1] : p \in {p \in next : p[2] = e}}
SagaIsATree ==
    /\ \A e \in Episode : Cardinality(Before(e)) <= 1
    /\ \A S \in SUBSET Episode : S # {} => \E e \in S : Before(e) \cap S = {}

(* A saga never branches backwards, and is a chain unless disturbed.       *)
SagaInOrder == SagaIsLinked /\ SagaIsATree
=============================================================================
