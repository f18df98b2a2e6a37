----------------------------- MODULE Communities -----------------------------
(***************************************************************************)
(* build_communities and update_community of graphiti_core, beside the     *)
(* calls of Episodes.  add_episode updates the community of each of its    *)
(* entities, all at once; a client may build them anew at any time.        *)
(* How the clusters come about is CommunityClusters.                       *)
(***************************************************************************)
EXTENDS Episodes

CONSTANTS
    Group, GroupOf,
    Built,        \* the groups that a build is asked for
    Of            \* the entity that an update is about

VARIABLES
    communities,  \* a community is <<the build, its cluster>>
    members,      \* HAS_MEMBER: <<community, entity, the call that saved it>>
    summary,      \* the updates that went into the summary of a community
    groups,       \* the groups a build has yet to read
    nodes,        \* the entities of a group as it listed them
    unread,       \* those of which it has not read what is next to them
    unknown,      \* what it read that is next to one and is not in the list
    unloaded,     \* the clusters of which it has yet to read the entities
    clusters,     \* the communities it has yet to save
    unsaved,      \* the members it has yet to save
    chosen,       \* the community an update is about, as it read it
    touched       \* the communities that an update has saved

reading == <<groups, nodes, unread, unknown, unloaded>>
communityVars == <<communities, members, summary, reading, clusters, unsaved, chosen, touched>>
vars == <<episodeVars, communityVars>>
local == <<made, late, crashes, graph, adding, removing>>

(* A fact joins entities of one group.                                     *)
ASSUME CommunitiesAssumption ==
    /\ GroupOf \in [Entity -> Group]
    /\ \A f \in Fact : \A n, m \in Joins[f] : GroupOf[n] = GroupOf[m]
    /\ Built \in [Call -> SUBSET Group] /\ DOMAIN Of = Call

NoCommunity == [id |-> <<>>, summary |-> {}, new |-> FALSE]

Init ==
    /\ EpisodesInit
    /\ communities = {} /\ members = {}
    /\ summary = [k \in {} |-> {}]
    /\ groups = [c \in Call |-> {}] /\ nodes = [c \in Call |-> {}]
    /\ unread = [c \in Call |-> {}] /\ unknown = [c \in Call |-> {}]
    /\ unloaded = [c \in Call |-> {}]
    /\ clusters = [c \in Call |-> {}] /\ unsaved = [c \in Call |-> {}]
    /\ chosen = [c \in Call |-> NoCommunity]
    /\ touched = {}
-----------------------------------------------------------------------------
(* Mutant: the old communities are left for later.                         *)
RemoveNothing(c) ==
    /\ What[c] = "build" /\ Begins(c)
    /\ groups' = [groups EXCEPT ![c] = Built[c]]
    /\ Goto(c, "groups")
    /\ UNCHANGED <<local, communities, members, summary, nodes, unread, unknown, unloaded,
                   clusters, unsaved, chosen, touched>>

(* remove_communities: those of every group.                               *)
RemoveCommunities(c) ==
    /\ What[c] = "build" /\ Begins(c)
    /\ communities' = {} /\ members' = {}
    /\ groups' = [groups EXCEPT ![c] = Built[c]]
    /\ Goto(c, "groups")
    /\ UNCHANGED <<local, summary, nodes, unread, unknown, unloaded, clusters, unsaved,
                   chosen, touched>>

(* get_community_clusters: of one group after the other it lists the       *)
(* entities,                                                               *)
ListGroup(c) ==
    /\ pc[c] = "groups"
    /\ \E g \in groups[c] :
          /\ groups' = [groups EXCEPT ![c] = @ \ {g}]
          /\ nodes' = [nodes EXCEPT ![c] = {n \in entities : GroupOf[n] = g}]
    /\ unread' = [unread EXCEPT ![c] = nodes'[c]]
    /\ Goto(c, "neighbours")
    /\ UNCHANGED <<before, local, communities, members, summary, unknown, unloaded,
                   clusters, unsaved, chosen, touched>>

(* reads what is next to each,                                             *)
NextTo(n) == {m \in entities : \E f \in Facts : Joins[f] = {n, m}}

ReadNeighbours(c) ==
    /\ pc[c] = "neighbours"
    /\ \E n \in unread[c] :
          /\ unread' = [unread EXCEPT ![c] = @ \ {n}]
          /\ unknown' = [unknown EXCEPT ![c] = @ \cup (NextTo(n) \ nodes[c])]
    /\ UNCHANGED <<pc, before, local, communities, members, summary, groups, nodes,
                   unloaded, clusters, unsaved, chosen, touched>>

(* propagates labels among those it listed, a KeyError if it met another,  *)
PartitionsWithEmpty(S) == {P \in SUBSET (SUBSET S) :                \* mutant
    UNION P = S /\ \A A, B \in P : A # B => A \cap B = {}}
Partitions(S) == {P \in SUBSET (SUBSET S) :
    {} \notin P /\ UNION P = S /\ \A A, B \in P : A # B => A \cap B = {}}

Propagate(c) ==
    /\ pc[c] = "neighbours" /\ unread[c] = {}
    /\ IF unknown[c] # {} THEN Goto(c, "failed") /\ UNCHANGED unloaded
       ELSE /\ \E P \in Partitions(nodes[c]) : unloaded' = [unloaded EXCEPT ![c] = P]
            /\ Goto(c, "load")
    /\ UNCHANGED <<before, local, communities, members, summary, groups, nodes, unread,
                   unknown, clusters, unsaved, chosen, touched>>

(* and reads the entities of each cluster again.                           *)
Load(c) ==
    /\ pc[c] = "load"
    /\ IF unloaded[c] = {} THEN Goto(c, "groups") /\ UNCHANGED <<unloaded, clusters>>
       ELSE \E A \in unloaded[c] :
          /\ unloaded' = [unloaded EXCEPT ![c] = @ \ {A}]
          /\ clusters' = [clusters EXCEPT ![c] = @ \cup {A \cap entities}]
          /\ UNCHANGED pc
    /\ UNCHANGED <<before, local, communities, members, summary, groups, nodes, unread,
                   unknown, unsaved, chosen, touched>>

(* Mutant: the odd one out is taken from the cluster, not from a copy.     *)
SummarizeWithoutOdd(c) ==
    /\ pc[c] = "groups" /\ groups[c] = {}
    /\ unsaved' = [unsaved EXCEPT ![c] =
          UNION {{<<<<c, A>>, n>> : n \in A} : A \in {A \in clusters[c] : Cardinality(A) # 1}}]
    /\ Goto(c, IF {} \in clusters[c] THEN "failed" ELSE "nodes")
    /\ UNCHANGED <<before, local, communities, members, summary, reading, clusters, chosen,
                   touched>>

(* build_community: a cluster of which nothing is left has no first        *)
(* summary, an IndexError.                                                 *)
Summarize(c) ==
    /\ pc[c] = "groups" /\ groups[c] = {}
    /\ unsaved' = [unsaved EXCEPT ![c] =
          UNION {{<<<<c, A>>, n>> : n \in A} : A \in clusters[c]}]
    /\ Goto(c, IF {} \in clusters[c] THEN "failed" ELSE "nodes")
    /\ UNCHANGED <<before, local, communities, members, summary, reading, clusters, chosen,
                   touched>>

(* First all the communities are saved,                                    *)
SaveNode(c) ==
    /\ pc[c] = "nodes"
    /\ IF clusters[c] = {}
       THEN Goto(c, "edges") /\ UNCHANGED <<communities, summary, clusters>>
       ELSE \E A \in clusters[c] :
          /\ communities' = communities \cup {<<c, A>>}
          /\ summary' = [k \in DOMAIN summary \cup {<<c, A>>} |->
                            IF k = <<c, A>> THEN {} ELSE summary[k]]
          /\ clusters' = [clusters EXCEPT ![c] = @ \ {A}]
          /\ UNCHANGED pc
    /\ UNCHANGED <<before, local, members, reading, unsaved, chosen, touched>>

(* MATCH finds the community and the entity, or nothing is saved.          *)
SaveEdge(k, n, c) ==
    members' = IF k \in communities /\ n \in entities
               THEN members \cup {<<k, n, c>>} ELSE members

(* then all their members.                                                 *)
SaveMember(c) ==
    /\ pc[c] = "edges"
    /\ IF unsaved[c] = {} THEN Goto(c, "done") /\ UNCHANGED <<members, unsaved>>
       ELSE \E m \in unsaved[c] :
          /\ SaveEdge(m[1], m[2], c)
          /\ unsaved' = [unsaved EXCEPT ![c] = @ \ {m}]
          /\ UNCHANGED pc
    /\ UNCHANGED <<before, local, communities, summary, reading, clusters, chosen, touched>>
-----------------------------------------------------------------------------
(* determine_entity_community: its own community, or the one that most of  *)
(* its neighbours are members of.                                          *)
MembershipsOf(n) == {m \in members : m[2] = n}
Neighbours(n) ==
    {v \in members \X Facts : v[1][2] # n /\ Joins[v[2]] = {n, v[1][2]}}
Votes(n, k) == Cardinality({v \in Neighbours(n) : v[1][1] = k})

Choice(n) ==
    IF MembershipsOf(n) # {} THEN {<<m[1], FALSE>> : m \in MembershipsOf(n)}
    ELSE {<<k, TRUE>> : k \in {v[1][1] : v \in {v \in Neighbours(n) :
             \A w \in Neighbours(n) : Votes(n, w[1][1]) <= Votes(n, v[1][1])}}}

Determine(c) ==
    /\ What[c] = "update" /\ Begins(c)
    /\ IF Choice(Of[c]) = {} THEN Goto(c, "done") /\ UNCHANGED chosen
       ELSE \E k \in Choice(Of[c]) :
          /\ chosen' = [chosen EXCEPT ![c] =
                [id |-> k[1], summary |-> summary[k[1]], new |-> k[2]]]
          /\ Goto(c, IF k[2] THEN "member" ELSE "community")
    /\ UNCHANGED <<local, communities, members, summary, reading, clusters, unsaved, touched>>

AddMember(c) ==
    /\ pc[c] = "member"
    /\ SaveEdge(chosen[c].id, Of[c], c)
    /\ Goto(c, "community")
    /\ UNCHANGED <<before, local, communities, summary, reading, clusters, unsaved, chosen,
                   touched>>

(* Mutant: the summary is written without what was there.                  *)
SummaryAnew(c) == {c}
SummaryOf(c) == chosen[c].summary \cup {c}

(* MERGE: a community that was removed meanwhile is there again.           *)
SaveCommunity(c) ==
    /\ pc[c] = "community"
    /\ LET k == chosen[c].id IN
          /\ communities' = communities \cup {k}
          /\ summary' = [summary EXCEPT ![k] = SummaryOf(c)]
          /\ touched' = touched \cup {<<c, k>>}
    /\ Goto(c, "done")
    /\ UNCHANGED <<before, local, members, reading, clusters, unsaved, chosen>>

CommunityStep(c) ==
    \/ RemoveCommunities(c) \/ ListGroup(c) \/ ReadNeighbours(c) \/ Propagate(c)
    \/ Load(c) \/ Summarize(c) \/ SaveNode(c) \/ SaveMember(c)
    \/ Determine(c) \/ AddMember(c) \/ SaveCommunity(c)

(* DETACH DELETE of an entity takes its memberships along.                 *)
EpisodeStepHere(c) ==
    /\ EpisodeStep(c)
    /\ members' = {m \in members : m[2] \in entities'}
    /\ UNCHANGED <<communities, summary, reading, clusters, unsaved, chosen, touched>>

Next == \E c \in Call : EpisodeStepHere(c) \/ CommunityStep(c)

Spec == Init /\ [][Next]_vars
-----------------------------------------------------------------------------
Asked(b) == {n \in Entity : GroupOf[n] \in Built[b]}

TypeOK ==
    /\ EpisodesTypeOK
    /\ \A c \in Call : pc[c] \in Over \cup
          {"start", "resolve", "save", "saga", "previous", "link", "join", "mentioned",
           "count", "facts", "entities", "episode", "groups", "neighbours", "load", "nodes",
           "edges", "member", "community"}
    /\ communities \subseteq DOMAIN summary
    /\ \A k \in DOMAIN summary : k[1] \in Call /\ k[2] \subseteq Asked(k[1])
    /\ \A m \in members : m[2] \in Entity /\ m[3] \in Call
    /\ groups \in [Call -> SUBSET Group] /\ nodes \in [Call -> SUBSET Entity]
    /\ unread \in [Call -> SUBSET Entity] /\ unknown \in [Call -> SUBSET Entity]
    /\ unloaded \in [Call -> SUBSET (SUBSET Entity)]
    /\ clusters \in [Call -> SUBSET (SUBSET Entity)]

Builds == {c \in made : What[c] = "build"}
Updates == {c \in made : What[c] = "update"}

(* Where no episode is removed and no client dies, a community is left     *)
(* without members only if an update brought it back that a build had      *)
(* removed.  A removal takes the members and leaves the community.         *)
EmptyOnlyIfRaced ==
    Calm /\ crashes = 0 /\ Removals = {} =>
       \A k \in communities : (\A m \in members : m[1] # k) =>
          \E b \in Builds, u \in Updates : <<u, k>> \in touched /\ Overlap(b, u)

(* An entity is a member of two communities, or twice of one, only if two  *)
(* builds or two updates of it overlapped, or an update and a build did.   *)
MemberOnceUnlessRaced ==
    \A m1, m2 \in members : m1[2] = m2[2] /\ m1 # m2 =>
        \E c, d \in Builds \cup {u \in Updates : Of[u] = m1[2]} : c # d /\ Overlap(c, d)

(* An update is lost from the summary of its community only if another one *)
(* of the same community overlapped with it: of the entities of one        *)
(* episode, which are updated all at once.                                 *)
LostOnlyIfOverlapped ==
    \A t \in touched : t[1] \notin summary[t[2]] =>
        \E p \in Updates : <<p, t[2]>> \in touched /\ p # t[1] /\ Overlap(p, t[1])

(* Communities and their members are in order unless calls overlapped.     *)
MembershipsSettle == EmptyOnlyIfRaced /\ MemberOnceUnlessRaced /\ LostOnlyIfOverlapped

(* A build fails, with every community gone by then, only if an episode    *)
(* was added while it read, which brought an entity that is next to one in *)
(* its list, or one was removed, and with it a cluster.                    *)
BuildFailsOnlyIfRaced ==
    \A b \in Builds : pc[b] = "failed" =>
       /\ unknown[b] = {} => \E r \in Removals : Overlap(b, r)
       /\ \A n \in unknown[b] : \E a \in made :
             Adding(a) /\ Overlap(a, b) /\ \E e \in Added(a) : n \in Mentions[e]

(* A build that nothing overlapped with leaves no community but its own,   *)
(* whatever group the others were of, and every entity of its groups is in *)
(* one.                                                                    *)
Undisturbed(b) == pc[b] = "done" /\ \A c \in made \ {b} : c \in before[b] \/ pc[c] = "start"
BuildCovers ==
    \A b \in Builds : Undisturbed(b) =>
       /\ \A k \in communities : k[1] = b
       /\ \A n \in entities \cap Asked(b) : \E m \in members : m[2] = n

(* A build does what it is asked to unless it is disturbed.                *)
BuildsSettle == BuildFailsOnlyIfRaced /\ BuildCovers
=============================================================================
