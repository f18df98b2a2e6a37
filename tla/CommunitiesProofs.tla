-------------------------- MODULE CommunitiesProofs --------------------------
(***************************************************************************)
(* Proofs about Episodes and Communities for every set of calls, which     *)
(* interleave query by query and end where their clients die.              *)
(***************************************************************************)
EXTENDS Communities, FiniteSetTheorems, WellFoundedInduction, TLAPS

(* Both ends of a membership are there: DETACH takes memberships along,    *)
(* remove_communities takes all of them, and what is saved is MATCHed.     *)
MembersHaveEnds == \A m \in members : m[1] \in communities /\ m[2] \in entities

LEMMA MembershipsHaveEnds == Spec => []MembersHaveEnds
<1>1. Init => MembersHaveEnds
  BY DEF Init, MembersHaveEnds
<1>2. MembersHaveEnds /\ [Next]_vars => MembersHaveEnds'
  <2> SUFFICES ASSUME MembersHaveEnds, [Next]_vars PROVE MembersHaveEnds'
    OBVIOUS
  <2>1. ASSUME members' \subseteq members, communities \subseteq communities', UNCHANGED local
        PROVE  MembersHaveEnds'
    BY <2>1 DEF MembersHaveEnds, local, graph
  <2>2. CASE UNCHANGED vars
    BY <2>2 DEF vars, episodeVars, communityVars, graph, MembersHaveEnds
  <2>3. ASSUME NEW c \in Call, EpisodeStepHere(c) PROVE MembersHaveEnds'
    BY <2>3 DEF EpisodeStepHere, MembersHaveEnds
  <2>4. ASSUME NEW c \in Call, RemoveCommunities(c) PROVE MembersHaveEnds'
    BY <2>4 DEF RemoveCommunities, MembersHaveEnds
  <2>5. ASSUME NEW c, NEW k, NEW n, SaveEdge(k, n, c), UNCHANGED <<local, communities>>
        PROVE  MembersHaveEnds'
    <3>1. \A m \in members' : m \in members \/ (m = <<k, n, c>> /\ k \in communities /\ n \in entities)
      BY <2>5 DEF SaveEdge
    <3>2. UNCHANGED <<communities, entities>>
      BY <2>5 DEF local, graph
    <3>3. QED
      BY <3>1, <3>2 DEF MembersHaveEnds
  <2>6. ASSUME NEW c \in Call, SaveMember(c) PROVE MembersHaveEnds'
    <3>1. CASE UNCHANGED members
      BY <2>1, <2>6, <3>1 DEF SaveMember
    <3>2. CASE \E m \in unsaved[c] : SaveEdge(m[1], m[2], c)
      BY <2>5, <2>6, <3>2 DEF SaveMember
    <3>3. QED
      BY <2>6, <3>1, <3>2 DEF SaveMember
  <2>7. ASSUME NEW c \in Call, AddMember(c) PROVE MembersHaveEnds'
    BY <2>5, <2>7 DEF AddMember
  <2>8. ASSUME NEW c \in Call,
               \/ ListGroup(c) \/ ReadNeighbours(c) \/ Propagate(c) \/ Load(c) \/ Summarize(c)
               \/ SaveNode(c) \/ Determine(c) \/ SaveCommunity(c)
        PROVE  MembersHaveEnds'
    <3>1. members' = members /\ communities \subseteq communities' /\ UNCHANGED local
      BY <2>8 DEF ListGroup, ReadNeighbours, Propagate, Load, Summarize, SaveNode, Determine,
         SaveCommunity
    <3>2. QED
      BY <2>1, <3>1
  <2>9. QED
    BY <2>2, <2>3, <2>4, <2>6, <2>7, <2>8 DEF Next, CommunityStep
<1>3. QED
  BY <1>1, <1>2, PTL DEF Spec

-----------------------------------------------------------------------------
(* Where a call can be.                                                    *)
AddingAt == {"resolve", "save", "saga", "previous", "link", "join"}
Removing == {"mentioned", "count", "facts", "entities", "episode"}
Reading == {"groups", "neighbours", "load"}
BuildingAt == Reading \cup {"nodes", "edges"}
UpdatingAt == {"member", "community"}
Labels == {"start"} \cup AddingAt \cup Removing \cup BuildingAt \cup UpdatingAt \cup Over

InPlace(c, label) ==
    /\ label \in AddingAt => Adding(c)
    /\ label = "resolve" => What[c] = "addBulk"
    /\ label \in Removing => What[c] = "remove"
    /\ label \in BuildingAt => What[c] = "build"
    /\ label \in UpdatingAt => What[c] = "update"
    /\ label = "failed" => What[c] \in {"remove", "build"}

Whereabouts ==
    /\ made \in Scenarios /\ pc \in [Call -> Labels]
    /\ \A c \in Call : /\ pc[c] # "start" => c \in made
                       /\ InPlace(c, pc[c])

(* What the step of a call does to where the calls are.                    *)
Moves(c) ==
    /\ UNCHANGED made /\ pc[c] \notin Over
    /\ pc[c] = "start" => c \in made /\ before' = [before EXCEPT ![c] = Ended]
    /\ pc[c] # "start" => UNCHANGED before
    /\ \/ UNCHANGED pc /\ pc[c] # "start"
       \/ \E label \in Labels \ {"start"} :
             /\ Goto(c, label) /\ InPlace(c, label)
             /\ label = "resolve" => pc[c] = "start"
             /\ label = "save" => pc[c] \in {"start", "resolve"}

LEMMA MovesWhereabouts ==
    ASSUME Whereabouts, NEW c \in Call, Moves(c)
    PROVE  Whereabouts' /\ \A d \in Call \ {c} : pc'[d] = pc[d]
<1>1. CASE UNCHANGED pc
  BY <1>1 DEF Moves, Whereabouts, InPlace, Adding
<1>2. CASE ~ UNCHANGED pc
  <2>1. PICK label \in Labels \ {"start"} :
             /\ pc' = [pc EXCEPT ![c] = label] /\ InPlace(c, label)
             /\ c \in made
    BY <1>2 DEF Moves, Goto, Whereabouts
  <2>2. pc' \in [Call -> Labels] /\ pc'[c] = label /\ \A d \in Call \ {c} : pc'[d] = pc[d]
    BY <2>1 DEF Whereabouts
  <2>3. QED
    BY <2>1, <2>2 DEF Moves, Whereabouts, InPlace, Adding
<1>3. QED
  BY <1>1, <1>2

LEMMA GoesOn ==
    ASSUME NEW c, NEW label \in Labels \ {"start"}, Goto(c, label), InPlace(c, label),
           pc[c] \notin Over, UNCHANGED made,
           IF pc[c] = "start" THEN Begins(c) ELSE UNCHANGED before,
           label = "resolve" => pc[c] = "start",
           label = "save" => pc[c] \in {"start", "resolve"}
    PROVE  Moves(c)
BY DEF Moves, Begins

LEMMA EpisodeMoves ==
    ASSUME Whereabouts, NEW c \in Call, EpisodeStep(c)
    PROVE  Moves(c)
<1>1. InPlace(c, pc[c])
  BY DEF Whereabouts
<1> USE DEF Reading
<1>2. CASE Resolve(c)
  <2>1. pc[c] \in {"start", "resolve"} /\ Adding(c)
    BY <1>1, <1>2 DEF Resolve, Begins, Adding, InPlace, AddingAt
  <2>2. "save" \in Labels \ {"start"} /\ InPlace(c, "save") /\ pc[c] \notin Over
    BY <2>1 DEF Labels, InPlace, AddingAt, Removing, BuildingAt, UpdatingAt, Over
  <2>3. Goto(c, "save") /\ UNCHANGED made
    BY <1>2 DEF Resolve
  <2>4. IF pc[c] = "start" THEN Begins(c) ELSE UNCHANGED before
    BY <1>2 DEF Resolve, Begins
  <2>5. QED
    BY <2>1, <2>2, <2>3, <2>4, GoesOn
<1>11. CASE StoreEpisodes(c)
  <2>1. "resolve" \in Labels \ {"start"} /\ InPlace(c, "resolve") /\ pc[c] \notin Over
    BY <1>11 DEF StoreEpisodes, Begins, Adding, Labels, InPlace, AddingAt, Removing, BuildingAt,
       UpdatingAt, Over
  <2>2. pc[c] = "start" /\ Begins(c) /\ Goto(c, "resolve") /\ UNCHANGED made
    BY <1>11 DEF StoreEpisodes, Begins
  <2>3. QED
    BY <2>1, <2>2, GoesOn
<1> DEFINE From(at, label) == pc[c] \in at /\ Goto(c, label) /\ UNCHANGED <<made, before>>
           Past == AddingAt \ {"resolve", "save"}
<1>3. CASE \E label \in Past \cup {"done"} : From(AddingAt, label)
  <2>1. PICK label \in Past \cup {"done"} : From(AddingAt, label)
    BY <1>3
  <2>2. /\ label \in Labels \ {"start", "resolve", "save"} /\ InPlace(c, label)
        /\ pc[c] \notin Over \cup {"start"}
    BY <1>1, <2>1 DEF Labels, InPlace, AddingAt, Removing, BuildingAt, UpdatingAt, Over
  <2>3. QED
    BY <2>1, <2>2, GoesOn
<1>4. CASE \E label \in Removing \cup {"done"} : From(Removing, label)
  <2>1. PICK label \in Removing \cup {"done"} : From(Removing, label)
    BY <1>4
  <2>2. /\ label \in Labels \ {"start", "resolve", "save"} /\ InPlace(c, label)
        /\ pc[c] \notin Over \cup {"start"}
    BY <1>1, <2>1 DEF Labels, InPlace, AddingAt, Removing, BuildingAt, UpdatingAt, Over
  <2>3. QED
    BY <2>1, <2>2, GoesOn
<1>5. CASE Save(c) \/ FindSaga(c) \/ FindPrevious(c) \/ Link(c) \/ Join(c)
  <2>1. \E label \in {"saga", "previous", "link", "join", "done"} : From(AddingAt, label)
    BY <1>5 DEF Save, FindSaga, FindPrevious, Link, Join, AddingAt
  <2>2. QED
    BY <1>3, <2>1 DEF AddingAt
<1>6. CASE FindEpisode(c)
  <2>1. PICK label \in {"mentioned", "failed"} : Goto(c, label)
    BY <1>6 DEF FindEpisode
  <2>2. label \in Labels \ {"start"} /\ InPlace(c, label) /\ pc[c] \notin Over
    BY <1>6 DEF FindEpisode, Begins, Labels, InPlace, AddingAt, Removing, BuildingAt,
       UpdatingAt, Over
  <2>3. QED
    BY <1>6, <2>1, <2>2, GoesOn DEF FindEpisode, Begins
<1>7. CASE FindMentioned(c) \/ Counted(c) \/ DropFacts(c) \/ DropEntities(c) \/ DropEpisode(c)
  <2>1. \E label \in {"count", "facts", "entities", "episode", "done"} : From(Removing, label)
    BY <1>7 DEF FindMentioned, Counted, DropFacts, DropEntities, DropEpisode, Removing
  <2>2. QED
    BY <1>4, <2>1 DEF Removing
<1>8. CASE Count(c)
  BY <1>8 DEF Count, Moves, Over
<1>9. CASE Crash(c)
  <2>1. /\ "dead" \in Labels \ {"start", "resolve", "save"} /\ InPlace(c, "dead")
        /\ pc[c] \notin Over \cup {"start"}
    BY <1>9 DEF Crash, Underway, Labels, InPlace, AddingAt, Removing, BuildingAt, UpdatingAt, Over
  <2>2. QED
    BY <1>9, <2>1, GoesOn DEF Crash
<1>10. QED
  BY <1>2, <1>5, <1>6, <1>7, <1>8, <1>9, <1>11 DEF EpisodeStep

LEMMA CommunityMoves ==
    ASSUME Whereabouts, NEW c \in Call, CommunityStep(c)
    PROVE  Moves(c) /\ UNCHANGED local /\ pc'[c] \notin Removing
<1>1. InPlace(c, pc[c])
  BY DEF Whereabouts
<1> USE DEF Reading
<1> DEFINE From(at, label) == pc[c] \in at /\ Goto(c, label) /\ UNCHANGED <<local, before>>
<1>2. ASSUME NEW label \in Labels \ {"start", "resolve", "save"}, Goto(c, label), InPlace(c, label),
             pc[c] \notin Over, UNCHANGED local,
             IF pc[c] = "start" THEN Begins(c) ELSE UNCHANGED before, label \notin Removing
      PROVE  Moves(c) /\ UNCHANGED local /\ pc'[c] \notin Removing
  BY <1>2, GoesOn DEF local, Goto, Whereabouts
<1>3. CASE RemoveCommunities(c)
  <2>1. /\ "groups" \in Labels \ {"start", "resolve", "save"} /\ InPlace(c, "groups")
        /\ pc[c] \notin Over /\ "groups" \notin Removing
    BY <1>3 DEF RemoveCommunities, Begins, Labels, InPlace, AddingAt, Removing, BuildingAt,
       UpdatingAt, Over
  <2>2. Goto(c, "groups") /\ Begins(c) /\ UNCHANGED local
    BY <1>3 DEF RemoveCommunities
  <2>3. pc[c] = "start"
    BY <2>2 DEF Begins
  <2>4. QED
    BY <1>2, <2>1, <2>2, <2>3
<1>4. CASE Determine(c)
  <2>1. PICK label \in {"done", "member", "community"} : Goto(c, label)
    BY <1>4 DEF Determine
  <2>2. /\ label \in Labels \ {"start", "resolve", "save"} /\ InPlace(c, label)
        /\ pc[c] \notin Over /\ label \notin Removing
    BY <1>4 DEF Determine, Begins, Labels, InPlace, AddingAt, Removing, BuildingAt,
       UpdatingAt, Over
  <2>3. Begins(c) /\ UNCHANGED local
    BY <1>4 DEF Determine
  <2>4. pc[c] = "start"
    BY <2>3 DEF Begins
  <2>5. QED
    BY <1>2, <2>1, <2>2, <2>3, <2>4
<1>5. CASE \E label \in BuildingAt \cup {"done", "failed"} : From(BuildingAt, label)
  <2>1. PICK label \in BuildingAt \cup {"done", "failed"} : From(BuildingAt, label)
    BY <1>5
  <2>2. /\ label \in Labels \ {"start", "resolve", "save"} /\ InPlace(c, label)
        /\ pc[c] \notin Over \cup {"start"} /\ label \notin Removing
    BY <1>1, <2>1 DEF Labels, InPlace, AddingAt, Removing, BuildingAt, UpdatingAt, Over
  <2>3. QED
    BY <1>2, <2>1, <2>2
<1>6. CASE \E label \in UpdatingAt \cup {"done"} : From(UpdatingAt, label)
  <2>1. PICK label \in UpdatingAt \cup {"done"} : From(UpdatingAt, label)
    BY <1>6
  <2>2. /\ label \in Labels \ {"start", "resolve", "save"} /\ InPlace(c, label)
        /\ pc[c] \notin Over \cup {"start"} /\ label \notin Removing
    BY <1>1, <2>1 DEF Labels, InPlace, AddingAt, Removing, BuildingAt, UpdatingAt, Over
  <2>3. QED
    BY <1>2, <2>1, <2>2
<1>7. CASE ListGroup(c) \/ Propagate(c) \/ Summarize(c)
  <2>1. \E label \in BuildingAt \cup {"done", "failed"} : From(BuildingAt, label)
    BY <1>7 DEF ListGroup, Propagate, Summarize, BuildingAt
  <2>2. QED
    BY <1>5, <2>1
<1>8. CASE AddMember(c) \/ SaveCommunity(c)
  BY <1>6, <1>8 DEF AddMember, SaveCommunity, UpdatingAt
<1>9. ASSUME UNCHANGED <<pc, before, local>>, pc[c] \in BuildingAt
      PROVE  Moves(c) /\ UNCHANGED local /\ pc'[c] \notin Removing
  BY <1>9 DEF Moves, local, BuildingAt, Over, Removing
<1>10. CASE SaveNode(c)
  <2>1. From(BuildingAt, "edges") \/ (UNCHANGED <<pc, before, local>> /\ pc[c] = "nodes")
    BY <1>10 DEF SaveNode, BuildingAt
  <2>2. QED
    BY <1>5, <1>9, <2>1 DEF BuildingAt
<1>11. CASE SaveMember(c)
  <2>1. From(BuildingAt, "done") \/ (UNCHANGED <<pc, before, local>> /\ pc[c] = "edges")
    BY <1>11 DEF SaveMember, BuildingAt
  <2>2. QED
    BY <1>5, <1>9, <2>1 DEF BuildingAt
<1>12. CASE ReadNeighbours(c)
  BY <1>9, <1>12 DEF ReadNeighbours, BuildingAt
<1>13. CASE Load(c)
  <2>1. From(BuildingAt, "groups") \/ (UNCHANGED <<pc, before, local>> /\ pc[c] = "load")
    BY <1>13 DEF Load, BuildingAt
  <2>2. QED
    BY <1>5, <1>9, <2>1 DEF BuildingAt
<1>14. QED
  BY <1>3, <1>4, <1>7, <1>8, <1>10, <1>11, <1>12, <1>13 DEF CommunityStep

LEMMA StepMoves ==
    ASSUME Whereabouts, [Next]_vars
    PROVE  /\ Whereabouts' /\ made' = made
           /\ \A c \in Call : pc[c] \notin {"start", "resolve", "save"} => pc'[c] \notin {"start", "resolve", "save"}
<1>1. ASSUME NEW c \in Call, Moves(c)
      PROVE  /\ Whereabouts' /\ made' = made
             /\ \A d \in Call : pc[d] \notin {"start", "resolve", "save"} => pc'[d] \notin {"start", "resolve", "save"}
  <2>1. Whereabouts' /\ made' = made /\ \A d \in Call \ {c} : pc'[d] = pc[d]
    BY <1>1, MovesWhereabouts DEF Moves
  <2>2. ASSUME pc[c] \notin {"start", "resolve", "save"}, pc'[c] \in {"start", "resolve", "save"} PROVE FALSE
    BY <1>1, <2>2 DEF Moves, Goto, Whereabouts
  <2>3. QED
    BY <2>1, <2>2
<1>2. CASE UNCHANGED vars
  BY <1>2 DEF vars, episodeVars, ends, Whereabouts, Adding
<1>3. QED
  BY <1>1, <1>2, EpisodeMoves, CommunityMoves DEF Next, EpisodeStepHere

-----------------------------------------------------------------------------
(* When calls began: what had ended then never goes on.                    *)
Timeline ==
    /\ before \in [Call -> SUBSET Call]
    /\ \A c \in Call : /\ c \notin before[c]
                       /\ pc[c] = "start" => before[c] = {}
                       /\ \A p \in before[c] : pc[p] \in Over


-----------------------------------------------------------------------------
LEMMA TimePasses ==
    ASSUME Whereabouts, Timeline, NEW c \in Call, Moves(c)
    PROVE  /\ Whereabouts' /\ Timeline' /\ made' = made
           /\ \A d \in Call \ {c} : pc'[d] = pc[d] /\ before'[d] = before[d]
           /\ pc[c] \notin Over /\ pc'[c] # "start"
           /\ pc[c] # "start" => before' = before
           /\ pc[c] = "start" => before'[c] = Ended
           /\ \A d, e \in Call : Overlap(d, e) => Overlap(d, e)'
<1>1. Whereabouts' /\ made' = made /\ \A d \in Call \ {c} : pc'[d] = pc[d]
  BY MovesWhereabouts DEF Moves
<1>2. pc[c] \notin Over /\ pc'[c] # "start"
  BY DEF Moves, Goto, Whereabouts
<1>3. /\ pc[c] # "start" => before' = before
      /\ pc[c] = "start" => before' = [before EXCEPT ![c] = Ended]
  BY DEF Moves
<1>4. /\ before' \in [Call -> SUBSET Call] /\ \A d \in Call \ {c} : before'[d] = before[d]
      /\ pc[c] = "start" => before'[c] = Ended
  BY <1>3 DEF Timeline, Ended
<1>5. \A p \in Call : pc[p] \in Over => pc'[p] = pc[p]
  BY <1>1, <1>2
<1>6. \A d \in Call : \A p \in before'[d] : p \in Call /\ pc[p] \in Over
  BY <1>3, <1>4 DEF Timeline, Ended
<1>7. c \notin before'[c]
  BY <1>2, <1>6
<1>8. Timeline'
  BY <1>1, <1>2, <1>4, <1>5, <1>6, <1>7 DEF Timeline
<1>9. ASSUME NEW d \in Call, NEW e \in Call, Overlap(d, e) PROVE Overlap(d, e)'
  <2>1. pc[c] = "start" => c \notin {d, e}
    BY <1>9 DEF Overlap
  <2>2. before'[d] = before[d] /\ before'[e] = before[e]
    BY <1>3, <1>4, <2>1
  <2>3. pc'[d] # "start" /\ pc'[e] # "start"
    BY <1>1, <1>2, <1>9 DEF Overlap
  <2>4. QED
    BY <1>9, <2>2, <2>3 DEF Overlap
<1>10. QED
  BY <1>1, <1>2, <1>3, <1>4, <1>8, <1>9

(* Two calls that are underway overlap.                                    *)
LEMMA Sharing ==
    ASSUME Timeline, NEW c \in Call, NEW d \in Call, Underway(c), Underway(d)
    PROVE  Overlap(c, d)
BY DEF Timeline, Underway, Overlap

(* One of two calls that have begun ended before the other, unless they    *)
(* overlap.                                                                *)
LEMMA FirstOrOverlap ==
    ASSUME NEW c \in Call, NEW d \in Call, pc[c] # "start", pc[d] # "start",
           c \notin before[d], d \notin before[c]
    PROVE  Overlap(c, d)
BY DEF Overlap

(* In a step of Episodes a build or an update can only die.                *)
LEMMA OnlyDies ==
    ASSUME Whereabouts, NEW c \in Call, EpisodeStep(c), What[c] \in {"build", "update"}
    PROVE  Crash(c) /\ pc'[c] = "dead" /\ UNCHANGED <<graph, before, made>>
<1>1. pc[c] \notin AddingAt \cup Removing
  BY DEF Whereabouts, InPlace, Adding
<1>2. ~ StoreEpisodes(c) /\ ~ Resolve(c) /\ ~ FindEpisode(c)
  BY <1>1 DEF StoreEpisodes, Resolve, FindEpisode, AddingAt
<1>3. Crash(c)
  BY <1>1, <1>2 DEF EpisodeStep, Save, FindSaga, FindPrevious, Link, Join, FindMentioned, Count,
     Counted, DropFacts, DropEntities, DropEpisode, AddingAt, Removing
<1>4. QED
  BY <1>3 DEF Crash, Goto, Whereabouts

LEMMA Callers == Whereabouts => /\ made \subseteq Call /\ Builds \subseteq Call
                                /\ Updates \subseteq Call /\ Removals \subseteq Call
BY EpisodesAssumption DEF Whereabouts, Builds, Updates, Removals

(* The local variables of the calls are functions.                         *)
Held ==
    /\ DOMAIN groups = Call /\ DOMAIN nodes = Call /\ DOMAIN unread = Call
    /\ DOMAIN unknown = Call /\ DOMAIN unloaded = Call
    /\ DOMAIN clusters = Call /\ DOMAIN unsaved = Call /\ DOMAIN chosen = Call

LEMMA StaysHeld == Held /\ [Next]_vars => Held'
<1> SUFFICES ASSUME Held, [Next]_vars PROVE Held'
  OBVIOUS
<1>1. CASE UNCHANGED vars
  BY <1>1 DEF vars, communityVars, reading, Held
<1>2. ASSUME NEW c \in Call, EpisodeStepHere(c) PROVE Held'
  BY <1>2 DEF EpisodeStepHere, reading, Held
<1>3. ASSUME NEW c \in Call, \/ RemoveCommunities(c) \/ ListGroup(c) \/ ReadNeighbours(c)
                             \/ Propagate(c) \/ Load(c) \/ Summarize(c)
      PROVE  Held'
  BY <1>3 DEF RemoveCommunities, ListGroup, ReadNeighbours, Propagate, Load, Summarize, reading,
     Held
<1>4. ASSUME NEW c \in Call, SaveNode(c) \/ SaveMember(c) PROVE Held'
  BY <1>4 DEF SaveNode, SaveMember, reading, Held
<1>5. ASSUME NEW c \in Call, Determine(c) \/ AddMember(c) \/ SaveCommunity(c) PROVE Held'
  BY <1>5 DEF Determine, AddMember, SaveCommunity, reading, Held
<1>6. QED
  BY <1>1, <1>2, <1>3, <1>4, <1>5 DEF Next, CommunityStep

-----------------------------------------------------------------------------
(* What a build reads: the clusters of one group are apart, from each      *)
(* other and from those of the groups it read before.                      *)
ReadsWell(c) ==
    /\ pc[c] = "start" => clusters[c] = {} /\ unloaded[c] = {}
    /\ pc[c] \in {"groups", "neighbours"} => unloaded[c] = {}
    /\ pc[c] \in Reading =>
          /\ \A A, B \in clusters[c] : A # B => A \cap B = {}
          /\ \A A, B \in unloaded[c] : A # B => A \cap B = {}
          /\ \A A \in clusters[c], B \in unloaded[c] : A \cap B = {}
          /\ \A A \in clusters[c] \cup unloaded[c] : \A n \in A : GroupOf[n] \notin groups[c]
    /\ pc[c] = "neighbours" => \A n \in nodes[c] :
          /\ GroupOf[n] \notin groups[c]
          /\ \A A \in clusters[c] : n \notin A
ReadsApart == \A c \in Call : What[c] = "build" => ReadsWell(c)

LEMMA ReadsOn ==
    ASSUME Whereabouts, Held, NEW c \in Call, What[c] = "build", ReadsWell(c), CommunityStep(c)
    PROVE  ReadsWell(c)'
<1>1. pc[c] \in {"start"} \cup BuildingAt \cup Over /\ pc \in [Call -> Labels]
  BY DEF Whereabouts, InPlace, Adding, Labels, AddingAt, Removing, UpdatingAt, Over
<1>2. CASE RemoveCommunities(c)
  <2>1. pc[c] = "start" /\ pc'[c] = "groups" /\ UNCHANGED <<clusters, unloaded>>
    BY <1>1, <1>2 DEF RemoveCommunities, Begins, Goto
  <2>2. QED
    BY <2>1 DEF ReadsWell
<1>3. CASE ListGroup(c)
  <2>1. PICK g \in groups[c] : /\ groups' = [groups EXCEPT ![c] = @ \ {g}]
                               /\ nodes' = [nodes EXCEPT ![c] = {n \in entities : GroupOf[n] = g}]
    BY <1>3 DEF ListGroup
  <2>2. groups'[c] = groups[c] \ {g} /\ nodes'[c] = {n \in entities : GroupOf[n] = g}
    BY <2>1 DEF Held
  <2>3. pc[c] = "groups" /\ pc'[c] = "neighbours" /\ UNCHANGED <<clusters, unloaded>>
    BY <1>1, <1>3 DEF ListGroup, Goto
  <2>4. QED
    BY <2>2, <2>3 DEF ReadsWell, Reading
<1>4. CASE ReadNeighbours(c)
  BY <1>4 DEF ReadNeighbours, ReadsWell
<1>5. CASE Propagate(c)
  <2>1. CASE unknown[c] # {}
    <3>1. pc'[c] = "failed"
      BY <1>1, <1>5, <2>1 DEF Propagate, Goto
    <3>2. QED
      BY <3>1 DEF ReadsWell, Reading
  <2>2. CASE unknown[c] = {}
    <3>1. PICK P \in Partitions(nodes[c]) : unloaded' = [unloaded EXCEPT ![c] = P]
      BY <1>5, <2>2 DEF Propagate
    <3>2. /\ unloaded'[c] = P /\ pc[c] = "neighbours" /\ pc'[c] = "load"
          /\ UNCHANGED <<clusters, groups>>
      BY <1>1, <1>5, <2>2, <3>1 DEF Held, Propagate, Goto
    <3>3. /\ \A A, B \in P : A # B => A \cap B = {}
          /\ \A A \in P : A \subseteq nodes[c]
      BY DEF Partitions
    <3>4. QED
      BY <3>2, <3>3 DEF ReadsWell, Reading
  <2>3. QED
    BY <2>1, <2>2
<1>6. CASE Load(c)
  <2>1. CASE unloaded[c] = {}
    <3>1. pc[c] = "load" /\ pc'[c] = "groups" /\ UNCHANGED <<unloaded, clusters, groups>>
      BY <1>1, <1>6, <2>1 DEF Load, Goto
    <3>2. QED
      BY <2>1, <3>1 DEF ReadsWell, Reading
  <2>2. CASE unloaded[c] # {}
    <3>1. PICK A \in unloaded[c] : /\ unloaded' = [unloaded EXCEPT ![c] = @ \ {A}]
                                   /\ clusters' = [clusters EXCEPT ![c] = @ \cup {A \cap entities}]
                                   /\ UNCHANGED pc
      BY <1>6, <2>2 DEF Load
    <3>2. /\ unloaded'[c] = unloaded[c] \ {A} /\ clusters'[c] = clusters[c] \cup {A \cap entities}
          /\ pc[c] = "load" /\ UNCHANGED <<pc, groups>>
      BY <1>6, <3>1 DEF Held, Load
    <3>3. QED
      BY <3>2 DEF ReadsWell, Reading
  <2>3. QED
    BY <2>1, <2>2
<1>7. CASE Summarize(c) \/ SaveNode(c) \/ SaveMember(c)
  <2>1. pc'[c] \in {"nodes", "edges", "done", "failed"}
    BY <1>1, <1>7 DEF Summarize, SaveNode, SaveMember, Goto
  <2>2. QED
    BY <2>1 DEF ReadsWell, Reading
<1>8. ~ Determine(c) /\ ~ AddMember(c) /\ ~ SaveCommunity(c)
  BY <1>1 DEF Determine, AddMember, SaveCommunity, BuildingAt, Reading, Over
<1>9. QED
  BY <1>2, <1>3, <1>4, <1>5, <1>6, <1>7, <1>8 DEF CommunityStep

(* A step of a call touches nothing that another one holds.                *)
LEMMA HoldsItsOwn ==
    ASSUME Held, NEW c \in Call, EpisodeStepHere(c) \/ CommunityStep(c), NEW d \in Call \ {c}
    PROVE  UNCHANGED <<groups[d], nodes[d], unread[d], unknown[d], unloaded[d], clusters[d],
                       unsaved[d], chosen[d]>>
<1>1. CASE EpisodeStepHere(c)
  BY <1>1 DEF EpisodeStepHere, reading
<1>2. CASE \/ RemoveCommunities(c) \/ ListGroup(c) \/ ReadNeighbours(c) \/ Propagate(c)
           \/ Load(c) \/ Summarize(c)
  BY <1>2 DEF RemoveCommunities, ListGroup, ReadNeighbours, Propagate, Load, Summarize, reading,
     Held
<1>3. CASE SaveNode(c) \/ SaveMember(c) \/ Determine(c) \/ AddMember(c) \/ SaveCommunity(c)
  BY <1>3 DEF SaveNode, SaveMember, Determine, AddMember, SaveCommunity, reading, Held
<1>4. QED
  BY <1>1, <1>2, <1>3 DEF CommunityStep

LEMMA ReadsNext == Whereabouts /\ Held /\ ReadsApart /\ [Next]_vars => ReadsApart'
<1> SUFFICES ASSUME Whereabouts, Held, ReadsApart, [Next]_vars PROVE ReadsApart'
  OBVIOUS
<1>1. CASE UNCHANGED vars
  BY <1>1 DEF vars, episodeVars, ends, communityVars, reading, ReadsApart, ReadsWell
<1>2. ASSUME NEW c \in Call, EpisodeStepHere(c) \/ CommunityStep(c),
             NEW d \in Call, What[d] = "build"
      PROVE  ReadsWell(d)'
  <2>1. ReadsWell(d)
    BY <1>2 DEF ReadsApart
  <2>2. CASE d # c
    <3>1. UNCHANGED <<groups[d], nodes[d], unloaded[d], clusters[d]>>
      BY <1>2, <2>2, HoldsItsOwn
    <3>2. Moves(c)
      BY <1>2, EpisodeMoves, CommunityMoves DEF EpisodeStepHere
    <3>3. pc'[d] = pc[d]
      BY <2>2, <3>2, MovesWhereabouts
    <3>4. QED
      BY <2>1, <3>1, <3>3 DEF ReadsWell
  <2>3. CASE d = c /\ EpisodeStepHere(c)
    <3>1. pc'[d] = "dead"
      BY <1>2, <2>3, OnlyDies DEF EpisodeStepHere
    <3>2. QED
      BY <3>1 DEF ReadsWell, Reading
  <2>4. CASE d = c /\ CommunityStep(c)
    BY <1>2, <2>1, <2>4, ReadsOn
  <2>5. QED
    BY <1>2, <2>2, <2>3, <2>4
<1>3. QED
  BY <1>1, <1>2 DEF Next, ReadsApart

-----------------------------------------------------------------------------
(* Where a membership came from, and what is yet to be saved.              *)
SavesOf(c) == {<<m[1], m[2]>> : m \in {m \in members : m[3] = c}}
Savers(n) == Builds \cup {u \in Updates : Of[u] = n}

MembershipsKnown ==
    \A m \in members :
        /\ m = <<m[1], m[2], m[3]>> /\ m[3] \in Savers(m[2])
        /\ What[m[3]] = "build" => pc[m[3]] \in {"edges"} \cup Over
        /\ What[m[3]] = "update" => /\ pc[m[3]] \in {"community"} \cup Over
                                    /\ m[1] = chosen[m[3]].id

(* The members a build saves are apart, as its clusters are.               *)
ClustersApart ==
    \A c \in Builds :
        /\ pc[c] \in {"nodes", "edges"} =>
              /\ \A x \in unsaved[c] : x = <<x[1], x[2]>>
              /\ \A x, y \in unsaved[c] \cup SavesOf(c) : x[2] = y[2] => x = y
        /\ \A x, y \in SavesOf(c) : x[2] = y[2] => x = y

(* No membership is left that ended before a build began, and none is      *)
(* added by an update that began when there was one.                       *)
NoneBeforeBuild == \A m \in members : \A b \in Builds : m[3] \notin before[b]
NoneBeforeUpdate ==
    \A u \in Updates : (\E m \in members : m[2] = Of[u] /\ m[3] \in before[u]) =>
        pc[u] # "member" /\ SavesOf(u) = {}

OnceInv ==
    /\ Whereabouts /\ Timeline /\ Held /\ ReadsApart
    /\ MembershipsKnown /\ ClustersApart /\ NoneBeforeBuild /\ NoneBeforeUpdate

(* Steps that save no membership, and begin no build and no update.        *)
OnceStage(d) ==
    /\ before'[d] = before[d] /\ chosen'[d] = chosen[d] /\ unsaved'[d] \subseteq unsaved[d]
    /\ pc'[d] \in {"nodes", "edges"} => pc[d] \in {"nodes", "edges"}
    /\ pc[d] \in {"edges"} \cup Over => pc'[d] \in {"edges"} \cup Over
    /\ pc'[d] = "member" => pc[d] = "member"
    /\ pc[d] \in {"community"} \cup Over => pc'[d] \in {"community"} \cup Over

LEMMA OnceFrame ==
    ASSUME OnceInv, Whereabouts', Timeline', Held', ReadsApart', made' = made, members' \subseteq members,
           \A d \in Builds \cup Updates : OnceStage(d)
    PROVE  OnceInv'
<1>1. Builds' = Builds /\ Updates' = Updates /\ \A n : Savers(n)' = Savers(n)
  BY DEF Builds, Updates, Savers
<1>2. \A c : SavesOf(c)' \subseteq SavesOf(c)
  BY DEF SavesOf
<1>3. MembershipsKnown'
  <2> SUFFICES ASSUME NEW m \in members'
               PROVE  /\ m = <<m[1], m[2], m[3]>> /\ m[3] \in Savers(m[2])
                      /\ What[m[3]] = "build" => pc'[m[3]] \in {"edges"} \cup Over
                      /\ What[m[3]] = "update" => /\ pc'[m[3]] \in {"community"} \cup Over
                                                  /\ m[1] = chosen'[m[3]].id
    BY <1>1 DEF MembershipsKnown
  <2>1. /\ m = <<m[1], m[2], m[3]>> /\ m[3] \in Savers(m[2])
        /\ What[m[3]] = "build" => pc[m[3]] \in {"edges"} \cup Over
        /\ What[m[3]] = "update" => /\ pc[m[3]] \in {"community"} \cup Over
                                    /\ m[1] = chosen[m[3]].id
    BY DEF OnceInv, MembershipsKnown
  <2>2. OnceStage(m[3])
    BY <2>1 DEF Savers
  <2>3. QED
    BY <2>1, <2>2 DEF OnceStage
<1>4. ClustersApart'
  <2> SUFFICES ASSUME NEW c \in Builds
               PROVE  /\ pc'[c] \in {"nodes", "edges"} =>
                            /\ \A x \in unsaved'[c] : x = <<x[1], x[2]>>
                            /\ \A x, y \in unsaved'[c] \cup SavesOf(c)' : x[2] = y[2] => x = y
                      /\ \A x, y \in SavesOf(c)' : x[2] = y[2] => x = y
    BY <1>1 DEF ClustersApart
  <2>1. OnceStage(c)
    OBVIOUS
  <2>2. QED
    BY <1>2, <2>1 DEF OnceStage, OnceInv, ClustersApart
<1>5. NoneBeforeBuild'
  BY <1>1 DEF OnceInv, NoneBeforeBuild, OnceStage
<1>6. NoneBeforeUpdate'
  BY <1>1, <1>2 DEF OnceInv, NoneBeforeUpdate, OnceStage
<1>7. QED
  BY <1>3, <1>4, <1>5, <1>6 DEF OnceInv

LEMMA SavesGrow ==
    ASSUME NEW c, NEW k, NEW n, members' = members \cup {<<k, n, c>>}
    PROVE  \A d : \A x \in SavesOf(d)' : x \in SavesOf(d) \/ (d = c /\ x = <<k, n>>)
<1> SUFFICES ASSUME NEW d, NEW x \in SavesOf(d)'
             PROVE  x \in SavesOf(d) \/ (d = c /\ x = <<k, n>>)
  OBVIOUS
<1>1. PICK m \in members' : m[3] = d /\ x = <<m[1], m[2]>>
  BY DEF SavesOf
<1>2. CASE m \in members
  BY <1>1, <1>2 DEF SavesOf
<1>3. CASE m = <<k, n, c>>
  BY <1>1, <1>3
<1>4. QED
  BY <1>2, <1>3

(* A membership is saved by a call that has not ended.                     *)
LEMMA OnceSaved ==
    ASSUME OnceInv, NEW c \in Builds \cup Updates, NEW k, NEW n, c \in Savers(n),
           members' = members \cup {<<k, n, c>>},
           Whereabouts', Timeline', Held', ReadsApart', UNCHANGED <<made, before, chosen>>,
           \A d \in Call \ {c} : pc'[d] = pc[d] /\ unsaved'[d] = unsaved[d],
           What[c] = "build" => /\ pc[c] = "edges" /\ pc'[c] = "edges"
                                /\ unsaved'[c] \subseteq unsaved[c] /\ <<k, n>> \in unsaved[c]
                                /\ k \in communities,
           What[c] = "update" => /\ pc[c] = "member" /\ pc'[c] = "community"
                                 /\ k = chosen[c].id /\ n = Of[c]
    PROVE  OnceInv'
<1>1. Builds' = Builds /\ Updates' = Updates /\ \A x : Savers(x)' = Savers(x)
  BY DEF Builds, Updates, Savers
<1>2. c \in Call /\ pc[c] \notin Over /\ What[c] \in {"build", "update"}
      /\ Builds \cup Updates \subseteq Call
  BY Callers DEF OnceInv, Builds, Updates, Over
<1>3. \A d \in Call : c \notin before[d]
  BY <1>2 DEF OnceInv, Timeline
<1>4. \A d : \A x \in SavesOf(d)' : x \in SavesOf(d) \/ (d = c /\ x = <<k, n>>)
  BY SavesGrow
<1>5. MembershipsKnown'
  <2>1. ASSUME NEW m \in members
        PROVE  /\ What[m[3]] = "build" => pc'[m[3]] \in {"edges"} \cup Over
               /\ What[m[3]] = "update" => pc'[m[3]] \in {"community"} \cup Over
    <3>1. m[3] \in Call
      BY <1>2 DEF OnceInv, MembershipsKnown, Savers
    <3>2. QED
      BY <1>2, <3>1 DEF OnceInv, MembershipsKnown
  <2>2. QED
    BY <1>1, <1>2, <2>1 DEF OnceInv, MembershipsKnown
<1>6. ClustersApart'
  <2> SUFFICES ASSUME NEW d \in Builds
               PROVE  /\ pc'[d] \in {"nodes", "edges"} =>
                            /\ \A x \in unsaved'[d] : x = <<x[1], x[2]>>
                            /\ \A x, y \in unsaved'[d] \cup SavesOf(d)' : x[2] = y[2] => x = y
                      /\ \A x, y \in SavesOf(d)' : x[2] = y[2] => x = y
    BY <1>1 DEF ClustersApart
  <2>1. d \in Call /\ What[d] = "build"
    BY <1>2 DEF Builds
  <2>2. CASE d = c
    BY <1>4, <2>1, <2>2 DEF OnceInv, ClustersApart
  <2>3. CASE d # c
    BY <1>4, <2>1, <2>3 DEF OnceInv, ClustersApart
  <2>4. QED
    BY <2>2, <2>3
<1>7. NoneBeforeBuild'
  BY <1>1, <1>2, <1>3 DEF OnceInv, NoneBeforeBuild
<1>8. NoneBeforeUpdate'
  <2> SUFFICES ASSUME NEW u \in Updates, NEW m \in members', m[2] = Of[u], m[3] \in before[u]
               PROVE  pc'[u] # "member" /\ SavesOf(u)' = {}
    BY <1>1 DEF NoneBeforeUpdate
  <2>1. m \in members
    BY <1>2, <1>3
  <2>2. pc[u] # "member" /\ SavesOf(u) = {}
    BY <2>1 DEF OnceInv, NoneBeforeUpdate
  <2>3. u # c
    BY <2>2 DEF Updates
  <2>4. QED
    BY <1>2, <1>4, <2>2, <2>3
<1>9. QED
  BY <1>5, <1>6, <1>7, <1>8 DEF OnceInv

LEMMA OnceEpisodes ==
    ASSUME OnceInv, NEW c \in Call, EpisodeStepHere(c), Whereabouts', Timeline', Held', ReadsApart', made' = made,
           \A d \in Call \ {c} : pc'[d] = pc[d] /\ before'[d] = before[d]
    PROVE  OnceInv'
<1>1. ASSUME NEW d \in Builds \cup Updates PROVE OnceStage(d)
  <2>1. d \in Call /\ What[d] \in {"build", "update"}
    BY Callers DEF OnceInv, Builds, Updates
  <2>2. UNCHANGED <<chosen, unsaved>>
    BY DEF EpisodeStepHere
  <2>3. CASE d = c
    <3>1. pc'[d] = "dead" /\ before'[d] = before[d]
      BY <2>1, <2>3, OnlyDies DEF EpisodeStepHere, OnceInv
    <3>2. QED
      BY <2>2, <3>1 DEF OnceStage, Over
  <2>4. CASE d # c
    BY <2>1, <2>2, <2>4 DEF OnceStage
  <2>5. QED
    BY <2>3, <2>4
<1>2. members' \subseteq members
  BY DEF EpisodeStepHere
<1>3. QED
  BY <1>1, <1>2, OnceFrame

(* remove_communities leaves no membership.                                *)
LEMMA OnceRemoved ==
    ASSUME OnceInv, NEW c \in Call, RemoveCommunities(c), Whereabouts', Timeline', Held', ReadsApart', made' = made,
           \A d \in Call \ {c} : pc'[d] = pc[d] /\ before'[d] = before[d]
    PROVE  OnceInv'
<1>1. members' = {} /\ UNCHANGED unsaved /\ pc'[c] = "groups"
  BY DEF RemoveCommunities, Goto, OnceInv, Whereabouts
<1>2. \A d : SavesOf(d)' = {}
  BY <1>1 DEF SavesOf
<1>3. MembershipsKnown' /\ NoneBeforeBuild' /\ NoneBeforeUpdate'
  BY <1>1 DEF MembershipsKnown, NoneBeforeBuild, NoneBeforeUpdate
<1>4. ClustersApart'
  <2>1. ASSUME NEW d \in Builds
        PROVE  /\ pc'[d] \in {"nodes", "edges"} =>
                     /\ \A x \in unsaved[d] : x = <<x[1], x[2]>>
                     /\ \A x, y \in unsaved[d] : x[2] = y[2] => x = y
    <3>1. d \in Call
      BY Callers DEF OnceInv
    <3>2. CASE d = c
      BY <1>1, <3>2
    <3>3. CASE d # c
      BY <3>1, <3>3 DEF OnceInv, ClustersApart
    <3>4. QED
      BY <3>2, <3>3
  <2>2. QED
    BY <1>1, <1>2, <2>1 DEF ClustersApart, Builds
<1>5. QED
  BY <1>3, <1>4 DEF OnceInv

(* What a build reads changes no membership.                               *)
LEMMA OnceRead ==
    ASSUME OnceInv, NEW c \in Call,
           ListGroup(c) \/ ReadNeighbours(c) \/ Propagate(c) \/ Load(c),
           Whereabouts', Timeline', Held', ReadsApart', made' = made,
           \A d \in Call \ {c} : pc'[d] = pc[d] /\ before'[d] = before[d]
    PROVE  OnceInv'
<1>1. /\ UNCHANGED <<before, members, chosen, unsaved>> /\ pc[c] \in Reading
      /\ pc'[c] \in Reading \cup {"failed"}
  BY DEF ListGroup, ReadNeighbours, Propagate, Load, Goto, OnceInv, Whereabouts, Reading
<1>2. OnceStage(c)
  BY <1>1 DEF OnceStage, Reading, Over
<1>3. \A d \in Call \ {c} : OnceStage(d)
  BY <1>1 DEF OnceStage, Over
<1>4. QED
  BY <1>1, <1>2, <1>3, Callers, OnceFrame DEF OnceInv

(* The clusters of a build are apart, and with them what it will save.     *)
LEMMA OnceSummarized ==
    ASSUME OnceInv, NEW c \in Call, Summarize(c), Whereabouts', Timeline', Held', ReadsApart', made' = made,
           \A d \in Call \ {c} : pc'[d] = pc[d] /\ before'[d] = before[d]
    PROVE  OnceInv'
<1>1. /\ UNCHANGED <<before, members, chosen>> /\ pc[c] = "groups"
      /\ pc'[c] \in {"nodes", "failed"} /\ What[c] = "build" /\ c \in Builds
  BY DEF Summarize, Goto, OnceInv, Whereabouts, InPlace, BuildingAt, Reading, Builds
<1>2. /\ Builds' = Builds /\ Updates' = Updates /\ Builds \cup Updates \subseteq Call
      /\ \A n : Savers(n)' = Savers(n) /\ \A d : SavesOf(d)' = SavesOf(d)
  BY <1>1, Callers DEF OnceInv, Builds, Updates, Savers, SavesOf
<1>3. \A m \in members : m[3] # c
  BY <1>1 DEF OnceInv, MembershipsKnown, Over
<1>4. SavesOf(c) = {}
  BY <1>3 DEF SavesOf
<1>5. MembershipsKnown'
  <2>1. \A m \in members : pc'[m[3]] = pc[m[3]]
    BY <1>2, <1>3 DEF OnceInv, MembershipsKnown, Savers
  <2>2. QED
    BY <1>1, <1>2, <2>1 DEF OnceInv, MembershipsKnown
<1>6. NoneBeforeBuild'
  BY <1>1, <1>2 DEF OnceInv, NoneBeforeBuild
<1>7. NoneBeforeUpdate'
  <2>1. \A u \in Updates : pc'[u] = pc[u]
    BY <1>1, <1>2 DEF Updates
  <2>2. QED
    BY <1>1, <1>2, <2>1 DEF OnceInv, NoneBeforeUpdate
<1>8. ASSUME NEW d \in Builds, d # c
      PROVE  UNCHANGED <<unsaved[d], pc[d]>>
  BY <1>2, <1>8 DEF Summarize, OnceInv, Held
<1>9. /\ \A x \in unsaved'[c] : x = <<x[1], x[2]>>
      /\ \A x, y \in unsaved'[c] : x[2] = y[2] => x = y
  <2>1. unsaved'[c] = UNION {{<<<<c, A>>, n>> : n \in A} : A \in clusters[c]}
    BY DEF Summarize, OnceInv, Held
  <2>2. \A A, B \in clusters[c] : A # B => A \cap B = {}
    BY <1>1 DEF OnceInv, ReadsApart, ReadsWell, Reading
  <2>3. ASSUME NEW x \in unsaved'[c], NEW y \in unsaved'[c], x[2] = y[2] PROVE x = y
    <3>1. PICK A \in clusters[c] : \E n \in A : x = <<<<c, A>>, n>>
      BY <2>1
    <3>2. PICK B \in clusters[c] : \E n \in B : y = <<<<c, B>>, n>>
      BY <2>1
    <3>3. A = B
      BY <2>2, <2>3, <3>1, <3>2
    <3>4. QED
      BY <2>3, <3>1, <3>2, <3>3
  <2>4. \A x \in unsaved'[c] : x = <<x[1], x[2]>>
    BY <2>1
  <2>5. QED
    BY <2>3, <2>4
<1>10. ClustersApart'
  <2> SUFFICES ASSUME NEW d \in Builds
               PROVE  /\ pc'[d] \in {"nodes", "edges"} =>
                            /\ \A x \in unsaved'[d] : x = <<x[1], x[2]>>
                            /\ \A x, y \in unsaved'[d] \cup SavesOf(d) : x[2] = y[2] => x = y
                      /\ \A x, y \in SavesOf(d) : x[2] = y[2] => x = y
    BY <1>2 DEF ClustersApart
  <2>1. CASE d = c
    BY <1>1, <1>4, <1>9, <2>1
  <2>2. CASE d # c
    BY <1>8, <2>2 DEF OnceInv, ClustersApart
  <2>3. QED
    BY <2>1, <2>2
<1>11. QED
  BY <1>5, <1>6, <1>7, <1>10 DEF OnceInv

(* An update that finds a membership will not save one.                    *)
LEMMA OnceDetermined ==
    ASSUME OnceInv, NEW c \in Call, Determine(c), Whereabouts', Timeline', Held', ReadsApart', made' = made,
           \A d \in Call \ {c} : pc'[d] = pc[d] /\ before'[d] = before[d]
    PROVE  OnceInv'
<1>1. /\ UNCHANGED <<members, unsaved>> /\ pc[c] = "start"
      /\ What[c] = "update" /\ c \in Updates
  BY DEF Determine, Begins, Updates
<1>2. /\ Builds' = Builds /\ Updates' = Updates /\ Builds \cup Updates \subseteq Call
      /\ \A n : Savers(n)' = Savers(n) /\ \A d : SavesOf(d)' = SavesOf(d) /\ c \notin Builds
  BY <1>1, Callers DEF OnceInv, Builds, Updates, Savers, SavesOf
<1>3. \A m \in members : m[3] # c
  BY <1>1 DEF OnceInv, MembershipsKnown, Over
<1>4. SavesOf(c) = {}
  BY <1>3 DEF SavesOf
<1>5. \A d \in Call \ {c} : chosen'[d] = chosen[d]
  BY DEF Determine, OnceInv, Held
<1>6. MembershipsKnown'
  <2>1. \A m \in members : m[3] \in Call \ {c}
    BY <1>2, <1>3 DEF OnceInv, MembershipsKnown, Savers
  <2>2. QED
    BY <1>1, <1>2, <1>5, <2>1 DEF OnceInv, MembershipsKnown
<1>7. ClustersApart' /\ NoneBeforeBuild'
  <2>1. \A d \in Builds : pc'[d] = pc[d] /\ before'[d] = before[d]
    BY <1>2
  <2>2. QED
    BY <1>1, <1>2, <2>1 DEF OnceInv, ClustersApart, NoneBeforeBuild
<1>8. NoneBeforeUpdate'
  <2> SUFFICES ASSUME NEW u \in Updates, NEW m \in members, m[2] = Of[u], m[3] \in before'[u]
               PROVE  pc'[u] # "member" /\ SavesOf(u) = {}
    BY <1>1, <1>2 DEF NoneBeforeUpdate
  <2>1. CASE u # c
    BY <1>2, <2>1 DEF OnceInv, NoneBeforeUpdate
  <2>2. CASE u = c
    <3>1. m \in MembershipsOf(Of[c])
      BY <2>2 DEF MembershipsOf
    <3>2. Choice(Of[c]) = {<<x[1], FALSE>> : x \in MembershipsOf(Of[c])}
      BY <3>1 DEF Choice
    <3>3. <<m[1], FALSE>> \in Choice(Of[c])
      BY <3>1, <3>2
    <3>4. ASSUME NEW k \in Choice(Of[c]) PROVE k[2] = FALSE
      <4>1. PICK x \in MembershipsOf(Of[c]) : k = <<x[1], FALSE>>
        BY <3>2
      <4>2. QED
        BY <4>1
    <3>5. Goto(c, "community")
      BY <3>3, <3>4 DEF Determine
    <3>6. QED
      BY <1>4, <2>2, <3>5 DEF Goto, OnceInv, Whereabouts
  <2>3. QED
    BY <2>1, <2>2
<1>9. QED
  BY <1>6, <1>7, <1>8 DEF OnceInv

LEMMA OnceSavedOrNot ==
    ASSUME OnceInv, NEW c \in Call, SaveNode(c) \/ SaveMember(c) \/ AddMember(c) \/ SaveCommunity(c),
           Whereabouts', Timeline', Held', ReadsApart', made' = made,
           \A d \in Call \ {c} : pc'[d] = pc[d] /\ before'[d] = before[d]
    PROVE  OnceInv'
<1>1. Builds \cup Updates \subseteq Call
  BY Callers DEF OnceInv
<1>2. ASSUME members' \subseteq members, OnceStage(c),
             \A d \in Call \ {c} : UNCHANGED <<chosen[d], unsaved[d]>>
      PROVE  OnceInv'
  <2>1. \A d \in Call \ {c} : OnceStage(d)
    BY <1>2 DEF OnceStage, Over
  <2>2. QED
    BY <1>1, <1>2, <2>1, OnceFrame
<1>3. pc \in [Call -> Labels] /\ DOMAIN unsaved = Call
  BY DEF OnceInv, Whereabouts, Held
<1>4. CASE SaveNode(c)
  <2>1. /\ UNCHANGED <<before, members, chosen, unsaved>> /\ pc[c] = "nodes"
        /\ pc'[c] \in {"nodes", "edges"}
    BY <1>3, <1>4 DEF SaveNode, Goto
  <2>2. OnceStage(c)
    BY <2>1 DEF OnceStage, Over
  <2>3. QED
    BY <1>2, <2>1, <2>2
<1>5. CASE SaveCommunity(c)
  <2>1. UNCHANGED <<before, members, chosen, unsaved>> /\ pc[c] = "community" /\ pc'[c] = "done"
    BY <1>3, <1>5 DEF SaveCommunity, Goto
  <2>2. OnceStage(c)
    BY <2>1 DEF OnceStage, Over
  <2>3. QED
    BY <1>2, <2>1, <2>2
<1>6. CASE AddMember(c)
  <2>1. /\ UNCHANGED <<made, before, chosen, unsaved>> /\ pc[c] = "member"
        /\ pc'[c] = "community" /\ c \in Updates /\ What[c] = "update"
    BY <1>3, <1>6 DEF AddMember, Goto, local, OnceInv, Whereabouts, InPlace, UpdatingAt, Updates
  <2>2. CASE UNCHANGED members
    <3>1. OnceStage(c)
      BY <2>1, <2>2 DEF OnceStage, Over
    <3>2. QED
      BY <1>2, <2>1, <2>2, <3>1
  <2>3. CASE members' = members \cup {<<chosen[c].id, Of[c], c>>}
    <3>1. c \in Savers(Of[c])
      BY <2>1 DEF Savers
    <3>2. QED
      BY <2>1, <2>3, <3>1, OnceSaved
  <2>4. QED
    BY <1>6, <2>2, <2>3 DEF AddMember, SaveEdge
<1>7. CASE SaveMember(c)
  <2>1. /\ UNCHANGED <<made, before, chosen>> /\ pc[c] = "edges"
        /\ c \in Builds /\ What[c] = "build" /\ pc'[c] \in {"edges", "done"}
    BY <1>3, <1>7 DEF SaveMember, Goto, local, OnceInv, Whereabouts, InPlace, BuildingAt, Reading, Builds
  <2>2. /\ unsaved'[c] \subseteq unsaved[c]
        /\ \A d \in Call \ {c} : unsaved'[d] = unsaved[d]
    BY <1>3, <1>7 DEF SaveMember
  <2>3. CASE UNCHANGED members
    <3>1. OnceStage(c)
      BY <2>1, <2>2, <2>3 DEF OnceStage, Over
    <3>2. QED
      BY <1>2, <2>1, <2>2, <2>3, <3>1
  <2>4. CASE \E m \in unsaved[c] : /\ members' = members \cup {<<m[1], m[2], c>>}
                                   /\ m[1] \in communities
                                   /\ UNCHANGED pc
    <3>1. PICK m \in unsaved[c] : /\ members' = members \cup {<<m[1], m[2], c>>}
                                  /\ m[1] \in communities
                                  /\ UNCHANGED pc
      BY <2>4
    <3>2. c \in Savers(m[2])
      BY <2>1 DEF Savers
    <3>3. <<m[1], m[2]>> \in unsaved[c]
      BY <2>1, <3>1 DEF OnceInv, ClustersApart
    <3>4. QED
      BY <2>1, <2>2, <3>1, <3>2, <3>3, OnceSaved
  <2>5. QED
    BY <1>7, <2>3, <2>4 DEF SaveMember, SaveEdge
<1>8. QED
  BY <1>4, <1>5, <1>6, <1>7

LEMMA Who ==
    ASSUME OnceInv, [Next]_vars
    PROVE  \/ UNCHANGED vars
           \/ \E c \in Call : (EpisodeStepHere(c) \/ CommunityStep(c)) /\ Moves(c)
BY EpisodeMoves, CommunityMoves DEF Next, EpisodeStepHere, OnceInv

LEMMA OnceNext == OnceInv /\ [Next]_vars => OnceInv'
<1> SUFFICES ASSUME OnceInv, [Next]_vars PROVE OnceInv'
  OBVIOUS
<1>1. Held' /\ ReadsApart'
  BY StaysHeld, ReadsNext DEF OnceInv
<1>2. CASE UNCHANGED vars
  <2>1. Whereabouts' /\ Timeline'
    BY <1>2 DEF vars, episodeVars, ends, OnceInv, Whereabouts, InPlace, Adding, Timeline
  <2>2. \A d : OnceStage(d)
    BY <1>2 DEF vars, episodeVars, ends, communityVars, OnceStage
  <2>3. QED
    BY <1>1, <1>2, <2>1, <2>2, OnceFrame DEF vars, episodeVars, ends, communityVars
<1>3. ASSUME NEW c \in Call, Moves(c), EpisodeStepHere(c) \/ CommunityStep(c)
      PROVE  OnceInv'
  <2>1. /\ Whereabouts' /\ Timeline' /\ made' = made
        /\ \A d \in Call \ {c} : pc'[d] = pc[d] /\ before'[d] = before[d]
    BY <1>3, TimePasses DEF OnceInv
  <2>2. CASE EpisodeStepHere(c)
    BY <1>1, <2>1, <2>2, OnceEpisodes
  <2>3. CASE RemoveCommunities(c)
    BY <1>1, <2>1, <2>3, OnceRemoved
  <2>4. CASE ListGroup(c) \/ ReadNeighbours(c) \/ Propagate(c) \/ Load(c)
    BY <1>1, <2>1, <2>4, OnceRead
  <2>5. CASE Determine(c)
    BY <1>1, <2>1, <2>5, OnceDetermined
  <2>6. CASE SaveNode(c) \/ SaveMember(c) \/ AddMember(c) \/ SaveCommunity(c)
    BY <1>1, <2>1, <2>6, OnceSavedOrNot
  <2>7. CASE Summarize(c)
    BY <1>1, <2>1, <2>7, OnceSummarized
  <2>8. QED
    BY <1>3, <2>2, <2>3, <2>4, <2>5, <2>6, <2>7 DEF CommunityStep
<1>4. QED
  BY <1>2, <1>3, Who

LEMMA OnceInit == Init => OnceInv
<1> SUFFICES ASSUME Init PROVE OnceInv
  OBVIOUS
<1>1. /\ made \in Scenarios /\ pc = [c \in Call |-> "start"] /\ before = [c \in Call |-> {}]
      /\ members = {}
  BY DEF Init, EpisodesInit
<1>2. Whereabouts
  BY <1>1 DEF Whereabouts, InPlace, Labels, AddingAt, Removing, BuildingAt, Reading, UpdatingAt
<1>3. Timeline
  BY <1>1 DEF Timeline
<1>4. Held /\ ReadsApart
  BY <1>1 DEF Init, Held, ReadsApart, ReadsWell, Reading
<1>5. Builds \cup Updates \subseteq Call /\ \A c : SavesOf(c) = {}
  BY <1>1, <1>2, Callers DEF SavesOf
<1>6. MembershipsKnown /\ ClustersApart /\ NoneBeforeBuild /\ NoneBeforeUpdate
  BY <1>1, <1>5 DEF MembershipsKnown, ClustersApart, NoneBeforeBuild, NoneBeforeUpdate
<1>7. QED
  BY <1>2, <1>3, <1>4, <1>6 DEF OnceInv

LEMMA OnceImplies == OnceInv => MemberOnceUnlessRaced
<1> SUFFICES ASSUME OnceInv, NEW m1 \in members, NEW m2 \in members, m1[2] = m2[2], m1 # m2
             PROVE  \E c, d \in Savers(m1[2]) : c # d /\ Overlap(c, d)
  BY DEF MemberOnceUnlessRaced, Savers
<1>1. /\ m1 = <<m1[1], m1[2], m1[3]>> /\ m1[3] \in Savers(m1[2])
      /\ m2 = <<m2[1], m2[2], m2[3]>> /\ m2[3] \in Savers(m1[2])
      /\ What[m1[3]] = "update" => m1[1] = chosen[m1[3]].id
      /\ What[m2[3]] = "update" => m2[1] = chosen[m2[3]].id
  BY DEF OnceInv, MembershipsKnown
<1>2. /\ \A m \in {m1, m2} : m[3] \in Call /\ pc[m[3]] # "start"
      /\ \A m \in {m1, m2} : What[m[3]] \in {"build", "update"}
      /\ \A m \in {m1, m2} : m[3] \in Builds <=> What[m[3]] = "build"
  BY <1>1, Callers DEF OnceInv, MembershipsKnown, Savers, Builds, Updates, Over
<1>3. <<m1[1], m1[2]>> \in SavesOf(m1[3]) /\ <<m2[1], m2[2]>> \in SavesOf(m2[3])
  BY DEF SavesOf
<1>4. m1[3] # m2[3]
  <2> SUFFICES ASSUME m1[3] = m2[3] PROVE FALSE
    OBVIOUS
  <2>1. m1[1] # m2[1]
    BY <1>1
  <2>2. What[m1[3]] = "build"
    BY <1>1, <1>2, <2>1
  <2>3. <<m1[1], m1[2]>> = <<m2[1], m2[2]>>
    BY <1>2, <1>3, <2>2 DEF OnceInv, ClustersApart
  <2>4. QED
    BY <2>1, <2>3
<1>5. ASSUME NEW a \in {m1, m2}, NEW b \in {m1, m2}, a[3] \in before[b[3]] PROVE FALSE
  <2>1. b[3] \in Builds \/ (b[3] \in Updates /\ Of[b[3]] = a[2])
    BY <1>1 DEF Savers
  <2>2. b[3] \notin Builds
    BY <1>5 DEF OnceInv, NoneBeforeBuild
  <2>3. SavesOf(b[3]) = {}
    BY <1>5, <2>1, <2>2 DEF OnceInv, NoneBeforeUpdate
  <2>4. QED
    BY <1>3, <2>3
<1>6. Overlap(m1[3], m2[3])
  BY <1>2, <1>5, FirstOrOverlap
<1>7. QED
  BY <1>1, <1>4, <1>6

-----------------------------------------------------------------------------
(* What an update was lost from, and to what.                              *)
LostTo(u, k) == \E p \in Updates : <<p, k>> \in touched /\ p # u /\ Overlap(p, u)

(* A summary begins when its community is saved by its build, and an       *)
(* update goes for one that has begun.                                     *)
SummariesKnown ==
    /\ MembersHaveEnds /\ communities \subseteq DOMAIN summary
    /\ \A c \in Call : \A A : <<c, A>> \in DOMAIN summary =>
          /\ pc[c] \in {"nodes", "edges"} \cup Over
          /\ pc[c] = "nodes" => A \notin clusters[c]
    /\ \A u \in Updates : pc[u] \in UpdatingAt => chosen[u].id \in DOMAIN summary

(* What the summary lacks was lost to another update, and so is what the   *)
(* one about to be written will lack, unless the two overlap.              *)
Touches ==
    \A t \in touched : /\ t = <<t[1], t[2]>> /\ t[1] \in Updates /\ pc[t[1]] \in Over
                       /\ t[2] \in DOMAIN summary
                       /\ t[1] \in summary[t[2]] \/ LostTo(t[1], t[2])
AboutToLose ==
    \A u \in Updates : pc[u] \in UpdatingAt =>
        \A t \in touched : t[2] = chosen[u].id =>
           t[1] \in chosen[u].summary \/ Overlap(t[1], u) \/ LostTo(t[1], t[2])

LostInv == SummariesKnown /\ Touches /\ AboutToLose

LEMMA ChosenIsSomeones ==
    ASSUME NEW n, NEW k \in Choice(n)
    PROVE  \E m \in members : k[1] = m[1]
<1>1. CASE MembershipsOf(n) # {}
  <2>1. PICK m \in MembershipsOf(n) : k = <<m[1], FALSE>>
    BY <1>1 DEF Choice
  <2>2. QED
    BY <2>1 DEF MembershipsOf
<1>2. CASE MembershipsOf(n) = {}
  <2>1. PICK v \in Neighbours(n) : k = <<v[1][1], TRUE>>
    BY <1>2 DEF Choice
  <2>2. v[1] \in members
    BY DEF Neighbours
  <2>3. QED
    BY <2>1, <2>2
<1>3. QED
  BY <1>1, <1>2

(* Steps that touch no summary.                                            *)
LEMMA LostFrame ==
    ASSUME LostInv, OnceInv, made' = made, UNCHANGED <<touched, summary>>,
           MembersHaveEnds', communities' \subseteq communities,
           \A d, e \in Call : Overlap(d, e) => Overlap(d, e)',
           \A d \in Call : pc[d] \in Over => pc'[d] \in Over,
           \A d \in Builds : pc[d] \in {"nodes", "edges"} => pc'[d] \in {"nodes", "edges"} \cup Over,
           \A d \in Call : pc'[d] = "nodes" => \/ clusters'[d] = clusters[d] /\ pc[d] = "nodes"
                                               \/ pc[d] \notin {"nodes", "edges"} \cup Over,
           \A d \in Updates : pc'[d] \in UpdatingAt => pc[d] \in UpdatingAt /\ chosen'[d] = chosen[d]
    PROVE  LostInv'
<1>1. Updates' = Updates /\ Updates \subseteq Call
  BY Callers DEF Updates, OnceInv
<1>2. \A u \in Call : \A k : LostTo(u, k) => LostTo(u, k)'
  BY <1>1 DEF LostTo
<1>3. \A c \in Call : pc[c] \in {"nodes", "edges"} => c \in Builds
  BY DEF OnceInv, Whereabouts, InPlace, BuildingAt, Reading, Builds
<1>4. SummariesKnown'
  BY <1>1, <1>3 DEF LostInv, SummariesKnown
<1>5. Touches'
  BY <1>1, <1>2 DEF LostInv, Touches
<1>6. AboutToLose'
  <2> SUFFICES ASSUME NEW u \in Updates, pc'[u] \in UpdatingAt, NEW t \in touched, t[2] = chosen'[u].id
               PROVE  t[1] \in chosen'[u].summary \/ Overlap(t[1], u)' \/ LostTo(t[1], t[2])'
    BY <1>1 DEF AboutToLose
  <2>1. t[1] \in Call /\ u \in Call
    BY <1>1 DEF LostInv, Touches
  <2>2. t[1] \in chosen[u].summary \/ Overlap(t[1], u) \/ LostTo(t[1], t[2])
    BY DEF LostInv, AboutToLose
  <2>3. QED
    BY <1>2, <2>1, <2>2
<1>7. QED
  BY <1>4, <1>5, <1>6 DEF LostInv

LEMMA LostSaveNode ==
    ASSUME LostInv, OnceInv, NEW c \in Call, SaveNode(c), made' = made, MembersHaveEnds',
           \A d \in Call \ {c} : pc'[d] = pc[d],
           \A d, e \in Call : Overlap(d, e) => Overlap(d, e)'
    PROVE  LostInv'
<1>1. /\ UNCHANGED <<touched, chosen>> /\ pc[c] = "nodes" /\ pc'[c] \in {"nodes", "edges"}
      /\ \A d \in Call \ {c} : clusters'[d] = clusters[d]
  BY DEF SaveNode, Goto, OnceInv, Whereabouts, Held
<1>2. CASE UNCHANGED <<summary, communities, clusters>>
  <2>1. /\ \A d \in Call : pc[d] \in Over => pc'[d] \in Over
        /\ \A d \in Call : pc'[d] = "nodes" => clusters'[d] = clusters[d] /\ pc[d] = "nodes"
    BY <1>1, <1>2 DEF Over
  <2>2. \A d \in Builds : pc[d] \in {"nodes", "edges"} => pc'[d] \in {"nodes", "edges"} \cup Over
    BY <1>1, Callers DEF OnceInv
  <2>3. \A d \in Updates : pc'[d] \in UpdatingAt => pc[d] \in UpdatingAt /\ chosen'[d] = chosen[d]
    BY <1>1, Callers DEF OnceInv, UpdatingAt
  <2>4. QED
    BY <1>1, <1>2, <2>1, <2>2, <2>3, LostFrame
<1>3. ASSUME NEW A \in clusters[c], communities' = communities \cup {<<c, A>>},
             summary' = [k \in DOMAIN summary \cup {<<c, A>>} |-> IF k = <<c, A>> THEN {} ELSE summary[k]],
             clusters' = [clusters EXCEPT ![c] = @ \ {A}], UNCHANGED pc
      PROVE  LostInv'
  <2>1. <<c, A>> \notin DOMAIN summary
    BY <1>1 DEF LostInv, SummariesKnown
  <2>2. DOMAIN summary' = DOMAIN summary \cup {<<c, A>>}
    BY <1>3
  <2>3. \A k \in DOMAIN summary : summary'[k] = summary[k]
    BY <1>3, <2>1
  <2>4. clusters'[c] = clusters[c] \ {A}
    BY <1>3 DEF OnceInv, Held
  <2>5. Updates' = Updates /\ Updates \subseteq Call
    BY Callers DEF Updates, OnceInv
  <2>6. \A u \in Call : \A k : LostTo(u, k) => LostTo(u, k)'
    BY <1>1, <2>5 DEF LostTo
  <2>7. SummariesKnown'
    <3>1. ASSUME NEW d \in Call, NEW B, <<d, B>> \in DOMAIN summary'
          PROVE  /\ pc[d] \in {"nodes", "edges"} \cup Over
                 /\ pc[d] = "nodes" => B \notin clusters'[d]
      <4>1. CASE <<d, B>> = <<c, A>>
        BY <1>1, <2>4, <4>1
      <4>2. CASE <<d, B>> \in DOMAIN summary
        <5>1. clusters'[d] \subseteq clusters[d]
          BY <1>1, <2>4
        <5>2. QED
          BY <4>2, <5>1 DEF LostInv, SummariesKnown
      <4>3. QED
        BY <2>2, <3>1, <4>1, <4>2
    <3>2. QED
      BY <1>1, <1>3, <2>2, <2>5, <3>1 DEF LostInv, SummariesKnown
  <2>8. Touches'
    BY <1>1, <1>3, <2>2, <2>3, <2>5, <2>6 DEF LostInv, Touches
  <2>9. AboutToLose'
    <3> SUFFICES ASSUME NEW u \in Updates, pc[u] \in UpdatingAt, NEW t \in touched, t[2] = chosen[u].id
                 PROVE  t[1] \in chosen[u].summary \/ Overlap(t[1], u)' \/ LostTo(t[1], t[2])'
      BY <1>1, <1>3, <2>5 DEF AboutToLose
    <3>1. t[1] \in Call /\ u \in Call
      BY <2>5 DEF LostInv, Touches
    <3>2. t[1] \in chosen[u].summary \/ Overlap(t[1], u) \/ LostTo(t[1], t[2])
      BY DEF LostInv, AboutToLose
    <3>3. QED
      BY <2>6, <3>1, <3>2
  <2>10. QED
    BY <2>7, <2>8, <2>9 DEF LostInv
<1>4. QED
  BY <1>2, <1>3 DEF SaveNode

LEMMA LostDetermine ==
    ASSUME LostInv, OnceInv, NEW c \in Call, Determine(c), made' = made, MembersHaveEnds',
           \A d \in Call \ {c} : pc'[d] = pc[d],
           \A d, e \in Call : Overlap(d, e) => Overlap(d, e)'
    PROVE  LostInv'
<1>1. /\ UNCHANGED <<communities, summary, clusters, touched>> /\ pc[c] = "start" /\ c \in Updates
      /\ \A d \in Call \ {c} : chosen'[d] = chosen[d]
  BY DEF Determine, Begins, Updates, OnceInv, Held
<1>2. CASE Goto(c, "done")
  <2>1. pc'[c] = "done"
    BY <1>2 DEF Goto, OnceInv, Whereabouts
  <2>2. /\ \A d \in Call : pc[d] \in Over => pc'[d] \in Over
        /\ \A d \in Call : pc'[d] = "nodes" => clusters'[d] = clusters[d] /\ pc[d] = "nodes"
    BY <1>1, <2>1 DEF Over
  <2>3. \A d \in Builds : pc[d] \in {"nodes", "edges"} => pc'[d] \in {"nodes", "edges"} \cup Over
    BY <1>1, Callers DEF OnceInv
  <2>4. \A d \in Updates : pc'[d] \in UpdatingAt => pc[d] \in UpdatingAt /\ chosen'[d] = chosen[d]
    BY <1>1, <2>1, Callers DEF OnceInv, UpdatingAt
  <2>5. QED
    BY <1>1, <2>2, <2>3, <2>4, LostFrame
<1>3. ASSUME NEW k \in Choice(Of[c]),
             chosen' = [chosen EXCEPT ![c] = [id |-> k[1], summary |-> summary[k[1]], new |-> k[2]]],
             Goto(c, IF k[2] THEN "member" ELSE "community")
      PROVE  LostInv'
  <2>1. k[1] \in DOMAIN summary
    BY ChosenIsSomeones DEF LostInv, SummariesKnown, MembersHaveEnds
  <2>2. chosen'[c].id = k[1] /\ chosen'[c].summary = summary[k[1]]
    BY <1>3 DEF OnceInv, Held
  <2>3. pc'[c] \in UpdatingAt
    BY <1>3 DEF Goto, OnceInv, Whereabouts, UpdatingAt
  <2>4. Updates' = Updates /\ Updates \subseteq Call
    BY Callers DEF Updates, OnceInv
  <2>5. \A u \in Call : \A x : LostTo(u, x) => LostTo(u, x)'
    BY <1>1, <2>4 DEF LostTo
  <2>6. SummariesKnown'
    <3>1. ASSUME NEW d \in Call, NEW B, <<d, B>> \in DOMAIN summary
          PROVE  /\ pc'[d] \in {"nodes", "edges"} \cup Over
                 /\ pc'[d] = "nodes" => B \notin clusters[d]
      <4>1. d # c
        BY <1>1, <3>1 DEF LostInv, SummariesKnown, Over
      <4>2. QED
        BY <3>1, <4>1 DEF LostInv, SummariesKnown
    <3>2. ASSUME NEW u \in Updates, pc'[u] \in UpdatingAt PROVE chosen'[u].id \in DOMAIN summary
      BY <1>1, <2>1, <2>2, <2>4, <3>2 DEF LostInv, SummariesKnown
    <3>3. QED
      BY <1>1, <2>4, <3>1, <3>2 DEF LostInv, SummariesKnown
  <2>7. Touches'
    <3>1. \A t \in touched : t[1] # c /\ t[1] \in Call
      BY <1>1, <2>4 DEF LostInv, Touches, Over
    <3>2. QED
      BY <1>1, <2>4, <2>5, <3>1 DEF LostInv, Touches
  <2>8. AboutToLose'
    <3> SUFFICES ASSUME NEW u \in Updates, pc'[u] \in UpdatingAt, NEW t \in touched, t[2] = chosen'[u].id
                 PROVE  t[1] \in chosen'[u].summary \/ Overlap(t[1], u)' \/ LostTo(t[1], t[2])'
      BY <1>1, <2>4 DEF AboutToLose
    <3>1. t[1] \in Call /\ u \in Call
      BY <2>4 DEF LostInv, Touches
    <3>2. CASE u = c
      BY <2>2, <2>5, <3>1, <3>2 DEF LostInv, Touches
    <3>3. CASE u # c
      <4>1. t[1] \in chosen[u].summary \/ Overlap(t[1], u) \/ LostTo(t[1], t[2])
        BY <1>1, <3>1, <3>3 DEF LostInv, AboutToLose
      <4>2. QED
        BY <1>1, <2>5, <3>1, <3>3, <4>1
    <3>4. QED
      BY <3>2, <3>3
  <2>9. QED
    BY <2>6, <2>7, <2>8 DEF LostInv
<1>4. QED
  BY <1>2, <1>3 DEF Determine

LEMMA LostSaveCommunity ==
    ASSUME LostInv, OnceInv, NEW c \in Call, SaveCommunity(c), made' = made, MembersHaveEnds',
           \A d \in Call \ {c} : pc'[d] = pc[d],
           \A d, e \in Call : Overlap(d, e) => Overlap(d, e)'
    PROVE  LostInv'
<1> SUFFICES ASSUME NEW k, k = chosen[c].id PROVE LostInv'
  OBVIOUS
<1>1. /\ UNCHANGED <<clusters, chosen>> /\ pc[c] = "community" /\ c \in Updates /\ pc'[c] = "done"
      /\ touched' = touched \cup {<<c, k>>} /\ communities' = communities \cup {k}
      /\ summary' = [summary EXCEPT ![k] = chosen[c].summary \cup {c}]
  BY DEF SaveCommunity, SummaryOf, Updates, Goto, OnceInv, Whereabouts, InPlace, UpdatingAt
<1>2. k \in DOMAIN summary
  BY <1>1 DEF LostInv, SummariesKnown, UpdatingAt
<1>3. /\ DOMAIN summary' = DOMAIN summary /\ summary'[k] = chosen[c].summary \cup {c}
      /\ \A x \in DOMAIN summary : x # k => summary'[x] = summary[x]
  BY <1>1, <1>2
<1>4. Updates' = Updates /\ Updates \subseteq Call
  BY Callers DEF Updates, OnceInv
<1>5. \A u \in Call : \A x : LostTo(u, x) => LostTo(u, x)'
  BY <1>1, <1>4 DEF LostTo
<1>6. SummariesKnown'
  <2>1. ASSUME NEW d \in Call, NEW B, <<d, B>> \in DOMAIN summary
        PROVE  /\ pc'[d] \in {"nodes", "edges"} \cup Over
               /\ pc'[d] = "nodes" => B \notin clusters[d]
    <3>1. d # c
      BY <1>1, <2>1 DEF LostInv, SummariesKnown, Over
    <3>2. QED
      BY <2>1, <3>1 DEF LostInv, SummariesKnown
  <2>2. ASSUME NEW u \in Updates, pc'[u] \in UpdatingAt PROVE chosen[u].id \in DOMAIN summary
    <3>1. u # c
      BY <1>1, <2>2 DEF UpdatingAt
    <3>2. QED
      BY <1>4, <2>2, <3>1 DEF LostInv, SummariesKnown
  <2>3. QED
    BY <1>1, <1>2, <1>3, <1>4, <2>1, <2>2 DEF LostInv, SummariesKnown
<1>7. ASSUME NEW t \in touched, t[2] = k
      PROVE  t[1] \in summary'[k] \/ LostTo(t[1], k)'
  <2>1. t[1] \in Call /\ t[1] # c
    BY <1>1, <1>4 DEF LostInv, Touches, Over
  <2>2. t[1] \in chosen[c].summary \/ Overlap(t[1], c) \/ LostTo(t[1], k)
    BY <1>1, <1>7 DEF LostInv, AboutToLose, UpdatingAt
  <2>3. Overlap(t[1], c) => LostTo(t[1], k)'
    <3>1. Overlap(t[1], c) => Overlap(c, t[1])
      BY DEF Overlap
    <3>2. QED
      BY <1>1, <1>4, <2>1, <3>1 DEF LostTo
  <2>4. QED
    BY <1>3, <1>5, <2>1, <2>2, <2>3
<1>8. Touches'
  <2>1. ASSUME NEW t \in touched
        PROVE  /\ t = <<t[1], t[2]>> /\ t[1] \in Updates /\ pc'[t[1]] \in Over
               /\ t[2] \in DOMAIN summary'
               /\ t[1] \in summary'[t[2]] \/ LostTo(t[1], t[2])'
    <3>1. t[1] \in Call /\ t[1] # c
      BY <1>1, <1>4 DEF LostInv, Touches, Over
    <3>2. QED
      BY <1>3, <1>5, <1>7, <3>1 DEF LostInv, Touches
  <2>2. QED
    BY <1>1, <1>2, <1>3, <1>4, <2>1 DEF Touches, Over
<1>9. AboutToLose'
  <2> SUFFICES ASSUME NEW u \in Updates, pc'[u] \in UpdatingAt, NEW t \in touched', t[2] = chosen[u].id
               PROVE  t[1] \in chosen[u].summary \/ Overlap(t[1], u)' \/ LostTo(t[1], t[2])'
    BY <1>1, <1>4 DEF AboutToLose
  <2>1. u \in Call /\ u # c
    BY <1>1, <1>4 DEF UpdatingAt
  <2>2. CASE t \in touched
    <3>1. t[1] \in Call
      BY <1>4, <2>2 DEF LostInv, Touches
    <3>2. t[1] \in chosen[u].summary \/ Overlap(t[1], u) \/ LostTo(t[1], t[2])
      BY <2>1, <2>2 DEF LostInv, AboutToLose
    <3>3. QED
      BY <1>5, <2>1, <3>1, <3>2
  <2>3. CASE t = <<c, k>>
    <3>1. Underway(c) /\ Underway(u)
      BY <1>1, <2>1 DEF Underway, UpdatingAt, Over
    <3>2. Overlap(c, u)
      BY <2>1, <3>1, Sharing DEF OnceInv
    <3>3. QED
      BY <2>1, <2>3, <3>2
  <2>4. QED
    BY <1>1, <2>2, <2>3
<1>10. QED
  BY <1>6, <1>8, <1>9 DEF LostInv

LEMMA LostNext ==
    ASSUME LostInv, OnceInv, [Next]_vars, MembersHaveEnds'
    PROVE  LostInv'
<1>1. Builds \cup Updates \subseteq Call
  BY Callers DEF OnceInv
<1>2. CASE UNCHANGED vars
  <2>1. UNCHANGED <<made, pc, before, touched, summary, communities, clusters, chosen>>
    BY <1>2 DEF vars, episodeVars, ends, communityVars
  <2>2. \A d, e \in Call : Overlap(d, e) => Overlap(d, e)'
    BY <2>1 DEF Overlap
  <2>3. QED
    BY <2>1, <2>2, LostFrame
<1>3. ASSUME NEW c \in Call, Moves(c), EpisodeStepHere(c) \/ CommunityStep(c)
      PROVE  LostInv'
  <2>1. /\ Whereabouts' /\ Timeline' /\ made' = made
        /\ \A d \in Call \ {c} : pc'[d] = pc[d]
        /\ \A d, e \in Call : Overlap(d, e) => Overlap(d, e)'
        /\ pc[c] \notin Over
    BY <1>3, TimePasses DEF OnceInv
  <2>2. ASSUME UNCHANGED <<touched, summary, chosen>>, communities' \subseteq communities,
               pc[c] \in {"nodes", "edges"} => pc'[c] \in {"nodes", "edges"} \cup Over,
               pc'[c] = "nodes" => \/ clusters'[c] = clusters[c] /\ pc[c] = "nodes"
                                   \/ pc[c] \notin {"nodes", "edges"} \cup Over,
               pc'[c] \in UpdatingAt => pc[c] \in UpdatingAt,
               \A d \in Call \ {c} : clusters'[d] = clusters[d]
        PROVE  LostInv'
    <3>1. \A d \in Call : pc[d] \in Over => pc'[d] \in Over
      BY <2>1
    <3>2. \A d \in Builds : pc[d] \in {"nodes", "edges"} => pc'[d] \in {"nodes", "edges"} \cup Over
      BY <1>1, <2>1, <2>2
    <3>3. \A d \in Call : pc'[d] = "nodes" => \/ clusters'[d] = clusters[d] /\ pc[d] = "nodes"
                                              \/ pc[d] \notin {"nodes", "edges"} \cup Over
      BY <2>1, <2>2
    <3>4. \A d \in Updates : pc'[d] \in UpdatingAt => pc[d] \in UpdatingAt /\ chosen'[d] = chosen[d]
      BY <1>1, <2>1, <2>2
    <3>5. QED
      BY <2>1, <2>2, <3>1, <3>2, <3>3, <3>4, LostFrame
  <2>3. pc \in [Call -> Labels] /\ DOMAIN clusters = Call
    BY DEF OnceInv, Whereabouts, Held
  <2>4. CASE EpisodeStepHere(c)
    <3>1. UNCHANGED <<touched, summary, chosen, communities, clusters>>
      BY <2>4 DEF EpisodeStepHere
    <3>2. CASE What[c] \in {"build", "update"}
      <4>1. pc'[c] = "dead"
        BY <2>4, <3>2, OnlyDies DEF EpisodeStepHere, OnceInv
      <4>2. QED
        BY <2>2, <3>1, <4>1 DEF Over, UpdatingAt
    <3>3. CASE What[c] \notin {"build", "update"}
      <4>1. {pc[c], pc'[c]} \cap (BuildingAt \cup UpdatingAt) = {}
        BY <2>1, <3>3 DEF OnceInv, Whereabouts, InPlace
      <4>2. QED
        BY <2>2, <3>1, <4>1 DEF BuildingAt, UpdatingAt
    <3>4. QED
      BY <3>2, <3>3
  <2>5. CASE RemoveCommunities(c)
    <3>1. /\ UNCHANGED <<touched, summary, chosen, clusters>> /\ communities' = {}
          /\ pc[c] = "start" /\ pc'[c] = "groups"
      BY <2>3, <2>5 DEF RemoveCommunities, Begins, Goto
    <3>2. QED
      BY <2>2, <3>1 DEF UpdatingAt
  <2>6. CASE ListGroup(c) \/ ReadNeighbours(c) \/ Propagate(c) \/ Load(c) \/ Summarize(c)
    <3>1. /\ UNCHANGED <<touched, summary, chosen, communities>>
          /\ pc[c] \in Reading /\ pc'[c] \in Reading \cup {"nodes", "failed"}
          /\ \A d \in Call \ {c} : clusters'[d] = clusters[d]
      BY <2>3, <2>6 DEF ListGroup, ReadNeighbours, Propagate, Load, Summarize, Reading, Goto
    <3>2. QED
      BY <2>2, <3>1 DEF Reading, UpdatingAt, Over
  <2>7. CASE SaveNode(c)
    BY <2>1, <2>7, LostSaveNode
  <2>8. CASE SaveMember(c)
    <3>1. /\ UNCHANGED <<touched, summary, chosen, communities, clusters>>
          /\ pc[c] = "edges" /\ pc'[c] \in {"edges", "done"}
      BY <2>3, <2>8 DEF SaveMember, Goto
    <3>2. QED
      BY <2>2, <3>1 DEF UpdatingAt, Over
  <2>9. CASE Determine(c)
    BY <2>1, <2>9, LostDetermine
  <2>10. CASE AddMember(c)
    <3>1. /\ UNCHANGED <<touched, summary, chosen, communities, clusters>>
          /\ pc[c] = "member" /\ pc'[c] = "community"
      BY <2>3, <2>10 DEF AddMember, Goto
    <3>2. QED
      BY <2>2, <3>1 DEF UpdatingAt, Over
  <2>11. CASE SaveCommunity(c)
    BY <2>1, <2>11, LostSaveCommunity
  <2>12. QED
    BY <1>3, <2>4, <2>5, <2>6, <2>7, <2>8, <2>9, <2>10, <2>11 DEF CommunityStep
<1>4. QED
  BY <1>2, <1>3, Who

LEMMA LostInit == Init => LostInv
<1> SUFFICES ASSUME Init PROVE LostInv
  OBVIOUS
<1>1. /\ pc = [c \in Call |-> "start"] /\ members = {} /\ communities = {} /\ touched = {}
      /\ DOMAIN summary = {}
  BY DEF Init, EpisodesInit
<1>2. Updates \subseteq Call
  BY OnceInit, Callers DEF OnceInv
<1>3. QED
  BY <1>1, <1>2 DEF LostInv, SummariesKnown, MembersHaveEnds, Touches, AboutToLose, UpdatingAt

LEMMA LostImplies == LostInv => LostOnlyIfOverlapped
BY DEF LostInv, Touches, LostTo, LostOnlyIfOverlapped

-----------------------------------------------------------------------------
(* Why a community may have no member: they are coming, or an update       *)
(* brought it back.                                                        *)
Coming(k) == \E c \in Builds : /\ k[1] = c /\ pc[c] \in {"nodes", "edges"}
                               /\ \E n \in entities : <<k, n>> \in unsaved[c]
BroughtBack(k) == \E b \in Builds, u \in Updates : <<u, k>> \in touched /\ Overlap(b, u)

Populated ==
    \A k \in communities : (\E m \in members : m[1] = k) \/ Coming(k) \/ BroughtBack(k)
ChosenThere ==
    \A u \in Updates : pc[u] \in UpdatingAt =>
        chosen[u].id \in communities \/ \E b \in Builds : Overlap(b, u)
ClustersPopulated ==
    \A c \in Builds : pc[c] = "nodes" => \A A \in clusters[c] :
        \E n \in entities : <<<<c, A>>, n>> \in unsaved[c]

(* What a build has read of the clusters is there.                         *)
ClustersThere ==
    \A c \in Builds : pc[c] \in Reading => \A A \in clusters[c] : A \subseteq entities

EmptyInv ==
    /\ crashes \in Nat
    /\ crashes = 0 /\ Removals = {} =>
          Populated /\ ChosenThere /\ ClustersPopulated /\ ClustersThere

LEMMA EmptyImplies == EmptyInv /\ Whereabouts => EmptyOnlyIfRaced
<1> SUFFICES ASSUME EmptyInv, Whereabouts, Calm, crashes = 0, Removals = {},
                    NEW k \in communities, \A m \in members : m[1] # k
             PROVE  BroughtBack(k)
  BY DEF EmptyOnlyIfRaced, BroughtBack
<1>1. ~ Coming(k)
  BY DEF Calm, Coming, Underway, Over, Builds
<1>2. QED
  BY <1>1 DEF EmptyInv, Populated

(* Nothing is taken away.                                                  *)
LEMMA EmptyFrame ==
    ASSUME Populated, ChosenThere, ClustersPopulated, OnceInv, made' = made,
           entities \subseteq entities', members \subseteq members', touched \subseteq touched',
           communities' = communities,
           \A d, e \in Call : Overlap(d, e) => Overlap(d, e)',
           \A c \in Builds : pc[c] \in {"nodes", "edges"} =>
              pc'[c] \in {"nodes", "edges"} /\ unsaved'[c] = unsaved[c],
           \A c \in Builds : pc'[c] = "nodes" =>
              pc[c] = "nodes" /\ unsaved'[c] = unsaved[c] /\ clusters'[c] \subseteq clusters[c],
           \A u \in Updates : pc'[u] \in UpdatingAt => pc[u] \in UpdatingAt /\ chosen'[u] = chosen[u]
    PROVE  Populated' /\ ChosenThere' /\ ClustersPopulated'
<1>1. Builds' = Builds /\ Updates' = Updates /\ Builds \cup Updates \subseteq Call
  BY Callers DEF OnceInv, Builds, Updates
<1>2. \A k : Coming(k) => Coming(k)'
  <2> SUFFICES ASSUME NEW k, Coming(k) PROVE Coming(k)'
    OBVIOUS
  <2>1. PICK c \in Builds : /\ k[1] = c /\ pc[c] \in {"nodes", "edges"}
                            /\ \E n \in entities : <<k, n>> \in unsaved[c]
    BY DEF Coming
  <2>2. QED
    BY <1>1, <2>1 DEF Coming
<1>3. \A k : BroughtBack(k) => BroughtBack(k)'
  BY <1>1 DEF BroughtBack
<1>4. Populated'
  BY <1>2, <1>3 DEF Populated
<1>5. ChosenThere'
  BY <1>1 DEF ChosenThere
<1>6. ClustersPopulated'
  BY <1>1 DEF ClustersPopulated
<1>7. QED
  BY <1>4, <1>5, <1>6

(* With nothing removed and no crash the graph only grows.                 *)
LEMMA OnlyGrows ==
    ASSUME OnceInv, MembersHaveEnds, crashes \in Nat, Removals = {},
           NEW c \in Call, EpisodeStepHere(c), crashes' = 0
    PROVE  /\ entities \subseteq entities' /\ members' = members /\ pc'[c] \notin {"failed", "dead"}
           /\ What[c] \notin {"build", "update", "remove"}
<1>1. c \in made
  BY EpisodeMoves DEF EpisodeStepHere, OnceInv, Moves, Whereabouts
<1>2. What[c] # "remove"
  BY <1>1 DEF Removals
<1>3. ~ Crash(c)
  BY DEF Crash
<1>4. What[c] \notin {"build", "update"}
  BY <1>3, OnlyDies DEF EpisodeStepHere, OnceInv
<1>5. pc[c] \notin Removing /\ ~ FindEpisode(c)
  BY <1>2 DEF OnceInv, Whereabouts, InPlace, FindEpisode
<1>6. \/ StoreEpisodes(c) \/ Resolve(c) \/ Save(c)
      \/ FindSaga(c) \/ FindPrevious(c) \/ Link(c) \/ Join(c)
  BY <1>3, <1>5 DEF EpisodeStepHere, EpisodeStep, FindMentioned, Count, Counted, DropFacts,
     DropEntities, DropEpisode, Removing
<1>7. entities \subseteq entities'
  BY <1>6 DEF StoreEpisodes, Resolve, Save, FindSaga, FindPrevious, Link, Join, graph
<1>8. pc'[c] \in {"resolve", "save", "saga", "previous", "link", "join", "done"}
  BY <1>6 DEF StoreEpisodes, Resolve, Save, FindSaga, FindPrevious, Link, Join, Goto, OnceInv, Whereabouts
<1>9. members' = members
  BY <1>7 DEF EpisodeStepHere, MembersHaveEnds
<1>10. QED
  BY <1>2, <1>4, <1>7, <1>8, <1>9

LEMMA EmptySaveNode ==
    ASSUME Populated, ChosenThere, ClustersPopulated, OnceInv, NEW c \in Call, SaveNode(c),
           made' = made, \A d \in Call \ {c} : pc'[d] = pc[d],
           \A d, e \in Call : Overlap(d, e) => Overlap(d, e)'
    PROVE  Populated' /\ ChosenThere' /\ ClustersPopulated'
<1>1. /\ UNCHANGED <<entities, members, touched, unsaved, chosen>> /\ pc[c] = "nodes" /\ c \in Builds
      /\ \A d \in Call \ {c} : clusters'[d] = clusters[d]
  BY DEF SaveNode, OnceInv, Whereabouts, InPlace, BuildingAt, Reading, Builds, Held, local, graph
<1>2. Builds' = Builds /\ Updates' = Updates /\ Builds \cup Updates \subseteq Call
  BY Callers DEF OnceInv, Builds, Updates
<1>3. \A k : BroughtBack(k) => BroughtBack(k)'
  BY <1>1, <1>2 DEF BroughtBack
<1>4. \A k : Coming(k) => Coming(k)'
  <2>1. pc'[c] \in {"nodes", "edges"}
    BY <1>1 DEF SaveNode, Goto, OnceInv, Whereabouts
  <2>2. \A d \in Builds : pc[d] \in {"nodes", "edges"} => pc'[d] \in {"nodes", "edges"}
    BY <1>2, <2>1
  <2>3. QED
    BY <1>1, <1>2, <2>2 DEF Coming
<1>5. ChosenThere'
  <2>1. communities \subseteq communities'
    BY DEF SaveNode
  <2>2. \A u \in Updates : pc'[u] = pc[u]
    BY <1>1, <1>2 DEF Builds, Updates
  <2>3. QED
    BY <1>1, <1>2, <2>1, <2>2 DEF ChosenThere
<1>6. ClustersPopulated'
  <2>1. \A d \in Builds : pc'[d] = "nodes" => pc[d] = "nodes" /\ clusters'[d] \subseteq clusters[d]
    <3>1. clusters'[c] \subseteq clusters[c]
      BY <1>1 DEF SaveNode, OnceInv, Held
    <3>2. QED
      BY <1>1, <1>2, <3>1
  <2>2. QED
    BY <1>1, <1>2, <2>1 DEF ClustersPopulated
<1>7. Populated'
  <2>1. \A k \in communities' : k \in communities \/ Coming(k)'
    <3>1. CASE clusters[c] = {}
      BY <3>1 DEF SaveNode
    <3>2. CASE clusters[c] # {}
      <4>1. PICK A \in clusters[c] : communities' = communities \cup {<<c, A>>} /\ UNCHANGED pc
        BY <3>2 DEF SaveNode
      <4>2. \E n \in entities : <<<<c, A>>, n>> \in unsaved[c]
        BY <1>1 DEF ClustersPopulated
      <4>3. Coming(<<c, A>>)
        BY <1>1, <4>2 DEF Coming
      <4>4. Coming(<<c, A>>)'
        BY <1>1, <1>2, <4>1, <4>2 DEF Coming
      <4>5. QED
        BY <4>1, <4>4
    <3>3. QED
      BY <3>1, <3>2
  <2>2. QED
    BY <1>1, <1>3, <1>4, <2>1 DEF Populated
<1>8. QED
  BY <1>5, <1>6, <1>7

LEMMA EmptySaveMember ==
    ASSUME Populated, ChosenThere, ClustersPopulated, OnceInv, NEW c \in Call, SaveMember(c),
           made' = made, \A d \in Call \ {c} : pc'[d] = pc[d],
           \A d, e \in Call : Overlap(d, e) => Overlap(d, e)'
    PROVE  Populated' /\ ChosenThere' /\ ClustersPopulated'
<1>1. /\ UNCHANGED <<entities, communities, touched, clusters, chosen>> /\ pc[c] = "edges" /\ c \in Builds
      /\ \A d \in Call \ {c} : unsaved'[d] = unsaved[d]
      /\ pc'[c] \in {"edges", "done"}
  BY DEF SaveMember, OnceInv, Whereabouts, InPlace, BuildingAt, Reading, Builds, Held, local, graph, Goto
<1>2. Builds' = Builds /\ Updates' = Updates /\ Builds \cup Updates \subseteq Call
  BY Callers DEF OnceInv, Builds, Updates
<1>3. \A k : BroughtBack(k) => BroughtBack(k)'
  BY <1>1, <1>2 DEF BroughtBack
<1>4. ChosenThere'
  <2>1. \A u \in Updates : pc'[u] = pc[u]
    BY <1>1, <1>2 DEF Builds, Updates
  <2>2. QED
    BY <1>1, <1>2, <2>1 DEF ChosenThere
<1>5. ClustersPopulated'
  <2>1. \A d \in Builds : pc'[d] = "nodes" => pc[d] = "nodes" /\ d # c
    BY <1>1, <1>2
  <2>2. QED
    BY <1>1, <1>2, <2>1 DEF ClustersPopulated
<1>6. members \subseteq members'
  BY DEF SaveMember, SaveEdge
<1>7. ASSUME NEW k \in communities, Coming(k)
      PROVE  (\E m \in members' : m[1] = k) \/ Coming(k)'
  <2>1. PICK d \in Builds : /\ k[1] = d /\ pc[d] \in {"nodes", "edges"}
                            /\ \E n \in entities : <<k, n>> \in unsaved[d]
    BY <1>7 DEF Coming
  <2>2. PICK n \in entities : <<k, n>> \in unsaved[d]
    BY <2>1
  <2>3. CASE d # c
    <3>1. pc'[d] = pc[d] /\ unsaved'[d] = unsaved[d]
      BY <1>1, <1>2, <2>3
    <3>2. QED
      BY <1>1, <1>2, <2>1, <2>2, <3>1 DEF Coming
  <2>4. CASE d = c
    <3>1. PICK m \in unsaved[c] : /\ SaveEdge(m[1], m[2], c) /\ UNCHANGED pc
                                  /\ unsaved' = [unsaved EXCEPT ![c] = @ \ {m}]
      BY <2>2, <2>4 DEF SaveMember
    <3>2. unsaved'[c] = unsaved[c] \ {m}
      BY <1>2, <2>4, <3>1 DEF OnceInv, Held
    <3>3. CASE m = <<k, n>>
      <4>1. <<k, n, c>> \in members'
        BY <1>7, <3>1, <3>3 DEF SaveEdge
      <4>2. QED
        BY <4>1
    <3>4. CASE m # <<k, n>>
      <4>1. <<k, n>> \in unsaved'[c]
        BY <2>2, <2>4, <3>2, <3>4
      <4>2. QED
        BY <1>1, <1>2, <2>1, <2>4, <3>1, <4>1 DEF Coming
    <3>5. QED
      BY <3>3, <3>4
  <2>5. QED
    BY <2>3, <2>4
<1>8. Populated'
  BY <1>1, <1>3, <1>6, <1>7 DEF Populated
<1>9. QED
  BY <1>4, <1>5, <1>8

LEMMA EmptySaveCommunity ==
    ASSUME Populated, ChosenThere, ClustersPopulated, OnceInv, NEW c \in Call, SaveCommunity(c),
           made' = made, \A d \in Call \ {c} : pc'[d] = pc[d],
           \A d, e \in Call : Overlap(d, e) => Overlap(d, e)'
    PROVE  Populated' /\ ChosenThere' /\ ClustersPopulated'
<1> SUFFICES ASSUME NEW k, k = chosen[c].id
             PROVE  Populated' /\ ChosenThere' /\ ClustersPopulated'
  OBVIOUS
<1>1. /\ UNCHANGED <<entities, members, clusters, unsaved, chosen>>
      /\ pc[c] = "community" /\ c \in Updates /\ pc'[c] = "done"
      /\ touched' = touched \cup {<<c, k>>} /\ communities' = communities \cup {k}
  BY DEF SaveCommunity, Updates, Goto, OnceInv, Whereabouts, InPlace, UpdatingAt, local, graph
<1>2. Builds' = Builds /\ Updates' = Updates /\ Builds \cup Updates \subseteq Call /\ c \notin Builds
  BY <1>1, Callers DEF OnceInv, Builds, Updates
<1>3. \A x : BroughtBack(x) => BroughtBack(x)'
  BY <1>1, <1>2 DEF BroughtBack
<1>4. \A d \in Builds : pc'[d] = pc[d]
  BY <1>2
<1>5. \A x : Coming(x) => Coming(x)'
  BY <1>1, <1>2, <1>4 DEF Coming
<1>6. k \in communities \/ BroughtBack(k)'
  <2>1. k \in communities \/ \E b \in Builds : Overlap(b, c)
    BY <1>1 DEF ChosenThere, UpdatingAt
  <2>2. ASSUME NEW b \in Builds, Overlap(b, c) PROVE BroughtBack(k)'
    <3>1. Overlap(b, c)'
      BY <1>2, <2>2
    <3>2. QED
      BY <1>1, <1>2, <3>1 DEF BroughtBack
  <2>3. QED
    BY <2>1, <2>2
<1>7. Populated'
  BY <1>1, <1>3, <1>5, <1>6 DEF Populated
<1>8. ChosenThere'
  <2>1. \A u \in Updates : pc'[u] \in UpdatingAt => pc[u] \in UpdatingAt
    BY <1>1, <1>2 DEF UpdatingAt
  <2>2. QED
    BY <1>1, <1>2, <2>1 DEF ChosenThere
<1>9. ClustersPopulated'
  BY <1>1, <1>2, <1>4 DEF ClustersPopulated
<1>10. QED
  BY <1>7, <1>8, <1>9

LEMMA EmptyDetermine ==
    ASSUME Populated, ChosenThere, ClustersPopulated, OnceInv, MembersHaveEnds, NEW c \in Call,
           Determine(c), made' = made, \A d \in Call \ {c} : pc'[d] = pc[d],
           \A d, e \in Call : Overlap(d, e) => Overlap(d, e)'
    PROVE  Populated' /\ ChosenThere' /\ ClustersPopulated'
<1>1. /\ UNCHANGED <<entities, communities, members, touched, clusters, unsaved>>
      /\ \A d \in Call \ {c} : chosen'[d] = chosen[d]
      /\ What[c] = "update"
  BY DEF Determine, local, graph, OnceInv, Held
<1>2. Builds' = Builds /\ Updates' = Updates /\ Builds \cup Updates \subseteq Call /\ c \notin Builds
  BY <1>1, Callers DEF OnceInv, Builds, Updates
<1>3. \A k : BroughtBack(k) => BroughtBack(k)'
  BY <1>1, <1>2 DEF BroughtBack
<1>4. \A d \in Builds : pc'[d] = pc[d]
  BY <1>2
<1>5. \A k : Coming(k) => Coming(k)'
  BY <1>1, <1>2, <1>4 DEF Coming
<1>6. Populated' /\ ClustersPopulated'
  BY <1>1, <1>2, <1>3, <1>4, <1>5 DEF Populated, ClustersPopulated
<1>7. pc'[c] \in UpdatingAt => chosen'[c].id \in communities
  <2>1. CASE Goto(c, "done")
    BY <2>1 DEF Goto, UpdatingAt, OnceInv, Whereabouts
  <2>2. ASSUME NEW k \in Choice(Of[c]),
               chosen' = [chosen EXCEPT ![c] = [id |-> k[1], summary |-> summary[k[1]], new |-> k[2]]]
        PROVE  chosen'[c].id \in communities
    <3>1. chosen'[c].id = k[1]
      BY <2>2 DEF OnceInv, Held
    <3>2. QED
      BY <3>1, ChosenIsSomeones DEF MembersHaveEnds
  <2>3. QED
    BY <2>1, <2>2 DEF Determine
<1>8. ChosenThere'
  BY <1>1, <1>2, <1>7 DEF ChosenThere
<1>9. QED
  BY <1>6, <1>8

LEMMA EmptyRemoved ==
    ASSUME ChosenThere, ClustersPopulated, OnceInv, NEW c \in Call, RemoveCommunities(c),
           made' = made, \A d \in Call \ {c} : pc'[d] = pc[d], Timeline'
    PROVE  Populated' /\ ChosenThere' /\ ClustersPopulated'
<1>1. /\ UNCHANGED <<entities, clusters, unsaved, chosen>> /\ communities' = {}
      /\ pc'[c] = "groups" /\ What[c] = "build" /\ c \in Builds
  BY DEF RemoveCommunities, Begins, local, graph, Goto, OnceInv, Whereabouts, Builds
<1>2. Builds' = Builds /\ Updates' = Updates /\ Builds \cup Updates \subseteq Call /\ c \notin Updates
  BY <1>1, Callers DEF OnceInv, Builds, Updates
<1>3. Populated'
  BY <1>1 DEF Populated
<1>4. ClustersPopulated'
  <2>1. \A d \in Builds : pc'[d] = "nodes" => pc[d] = "nodes"
    BY <1>1, <1>2
  <2>2. QED
    BY <1>1, <1>2, <2>1 DEF ClustersPopulated
<1>5. ASSUME NEW u \in Updates, pc'[u] \in UpdatingAt PROVE Overlap(c, u)'
  BY <1>1, <1>2, <1>5 DEF Overlap, Timeline, UpdatingAt, Over
<1>6. ChosenThere'
  BY <1>1, <1>2, <1>5 DEF ChosenThere
<1>7. QED
  BY <1>3, <1>4, <1>6

LEMMA EmptySummarize ==
    ASSUME Populated, ChosenThere, ClustersPopulated, ClustersThere, OnceInv,
           NEW c \in Call, Summarize(c),
           made' = made, \A d \in Call \ {c} : pc'[d] = pc[d],
           \A d, e \in Call : Overlap(d, e) => Overlap(d, e)'
    PROVE  Populated' /\ ChosenThere' /\ ClustersPopulated'
<1>1. /\ UNCHANGED <<entities, communities, members, touched, chosen, clusters>>
      /\ What[c] = "build" /\ pc[c] = "groups" /\ pc'[c] \in {"nodes", "failed"}
      /\ pc'[c] = "nodes" => {} \notin clusters[c]
      /\ unsaved'[c] = UNION {{<<<<c, A>>, n>> : n \in A} : A \in clusters[c]}
      /\ \A d \in Call \ {c} : unsaved'[d] = unsaved[d]
  BY DEF Summarize, local, graph, Goto, OnceInv, Whereabouts, InPlace, BuildingAt, Reading, Held
<1>2. Builds' = Builds /\ Updates' = Updates /\ Builds \cup Updates \subseteq Call /\ c \notin Updates
  BY <1>1, Callers DEF OnceInv, Builds, Updates
<1>3. \A k : BroughtBack(k) => BroughtBack(k)'
  BY <1>1, <1>2 DEF BroughtBack
<1>4. \A k : Coming(k) => Coming(k)'
  <2>1. \A d \in Builds : pc[d] \in {"nodes", "edges"} => pc'[d] = pc[d] /\ unsaved'[d] = unsaved[d]
    BY <1>1, <1>2
  <2>2. QED
    BY <1>1, <1>2, <2>1 DEF Coming
<1>5. Populated' /\ ChosenThere'
  BY <1>1, <1>2, <1>3, <1>4 DEF Populated, ChosenThere
<1>6. ASSUME pc'[c] = "nodes", NEW A \in clusters[c]
      PROVE  \E n \in entities : <<<<c, A>>, n>> \in unsaved'[c]
  <2>1. A # {} /\ A \subseteq entities
    <3>1. c \in Builds /\ pc[c] \in Reading
      BY <1>1 DEF OnceInv, Whereabouts, Builds, Reading
    <3>2. QED
      BY <1>1, <1>6, <3>1 DEF ClustersThere
  <2>2. PICK n \in A : TRUE
    BY <2>1
  <2>3. <<<<c, A>>, n>> \in {<<<<c, A>>, x>> : x \in A}
    BY <2>2
  <2>4. QED
    BY <1>1, <1>6, <2>1, <2>2, <2>3
<1>7. ClustersPopulated'
  BY <1>1, <1>2, <1>6 DEF ClustersPopulated
<1>8. QED
  BY <1>5, <1>7

LEMMA ThereNext ==
    ASSUME OnceInv, ClustersThere, NEW c \in Call, EpisodeStepHere(c) \/ CommunityStep(c),
           Moves(c), entities \subseteq entities'
    PROVE  ClustersThere'
<1> SUFFICES ASSUME NEW b \in Builds, pc'[b] \in Reading, NEW A \in clusters'[b]
             PROVE  A \subseteq entities'
  BY DEF ClustersThere, Builds, Moves
<1>1. b \in Call /\ What[b] = "build"
  BY Callers DEF OnceInv, Builds
<1>2. \A d \in Call \ {c} : pc'[d] = pc[d]
  BY MovesWhereabouts DEF OnceInv
<1>3. CASE pc[b] \in Reading /\ A \in clusters[b]
  BY <1>3 DEF ClustersThere
<1>4. CASE b # c
  <2>1. clusters'[b] = clusters[b] /\ pc'[b] = pc[b]
    BY <1>1, <1>2, <1>4, HoldsItsOwn DEF OnceInv
  <2>2. QED
    BY <1>3, <2>1
<1>5. CASE b = c /\ EpisodeStepHere(b)
  BY <1>1, <1>5, OnlyDies DEF EpisodeStepHere, OnceInv, Reading
<1>6. CASE b = c /\ CommunityStep(b)
  <2>1. pc \in [Call -> Labels] /\ DOMAIN clusters = Call
    BY DEF OnceInv, Whereabouts, Held
  <2>2. CASE RemoveCommunities(b)
    <3>1. pc[b] = "start" /\ UNCHANGED clusters
      BY <2>2 DEF RemoveCommunities, Begins
    <3>2. QED
      BY <1>1, <3>1 DEF OnceInv, ReadsApart, ReadsWell
  <2>3. CASE ListGroup(b) \/ ReadNeighbours(b) \/ Propagate(b)
    <3>1. pc[b] \in Reading /\ UNCHANGED clusters
      BY <2>3 DEF ListGroup, ReadNeighbours, Propagate, Reading
    <3>2. QED
      BY <1>3, <3>1
  <2>4. CASE Load(b)
    <3>1. pc[b] \in Reading /\ UNCHANGED entities
      BY <2>4 DEF Load, Reading, local, graph
    <3>2. A \in clusters[b] \/ A \subseteq entities
      BY <1>1, <2>1, <2>4 DEF Load
    <3>3. QED
      BY <1>3, <3>1, <3>2
  <2>5. CASE Summarize(b) \/ SaveNode(b) \/ SaveMember(b)
    <3>1. pc'[b] \in {"nodes", "edges", "done", "failed"}
      BY <1>1, <2>1, <2>5 DEF Summarize, SaveNode, SaveMember, Goto
    <3>2. QED
      BY <3>1 DEF Reading
  <2>6. ~ Determine(b) /\ ~ AddMember(b) /\ ~ SaveCommunity(b)
    BY <1>1 DEF Determine, AddMember, SaveCommunity, UpdatingAt, OnceInv, Whereabouts, InPlace
  <2>7. QED
    BY <1>6, <2>2, <2>3, <2>4, <2>5, <2>6 DEF CommunityStep
<1>7. QED
  BY <1>4, <1>5, <1>6

LEMMA EmptyNext ==
    ASSUME EmptyInv, OnceInv, MembersHaveEnds, [Next]_vars
    PROVE  EmptyInv'
<1>1. CASE UNCHANGED vars
  BY <1>1 DEF vars, episodeVars, ends, graph, communityVars, EmptyInv, Removals, Populated, Coming,
     BroughtBack, Builds, Updates, Overlap, ChosenThere, ClustersPopulated, ClustersThere
<1>2. ASSUME NEW c \in Call, Moves(c), EpisodeStepHere(c) \/ CommunityStep(c)
      PROVE  EmptyInv'
  <2>1. /\ Whereabouts' /\ Timeline' /\ made' = made
        /\ \A d \in Call \ {c} : pc'[d] = pc[d]
        /\ \A d, e \in Call : Overlap(d, e) => Overlap(d, e)'
        /\ pc[c] \notin Over
    BY <1>2, TimePasses DEF OnceInv
  <2>2. crashes' \in Nat /\ (crashes' = 0 => crashes = 0)
    <3>1. crashes' = crashes \/ crashes' = crashes + 1
      <4>1. CASE EpisodeStepHere(c)
        BY <4>1 DEF EpisodeStepHere, EpisodeStep, StoreEpisodes, Resolve, Save, FindSaga,
           FindPrevious, Link, Join, FindEpisode, FindMentioned, Count, Counted, DropFacts,
           DropEntities, DropEpisode, Crash
      <4>2. CASE CommunityStep(c)
        BY <4>2, CommunityMoves DEF local, OnceInv
      <4>3. QED
        BY <1>2, <4>1, <4>2
    <3>2. QED
      BY <3>1 DEF EmptyInv
  <2>16. ASSUME crashes' = 0, Removals' = {} PROVE ClustersThere'
    <3>1. crashes = 0 /\ Removals = {} /\ ClustersThere
      BY <2>1, <2>2, <2>16 DEF EmptyInv, Removals
    <3>2. entities \subseteq entities'
      BY <1>2, <2>16, <3>1, OnlyGrows, CommunityMoves DEF EmptyInv, OnceInv, local, graph
    <3>3. QED
      BY <1>2, <3>1, <3>2, ThereNext
  <2> SUFFICES ASSUME crashes' = 0, Removals' = {}
               PROVE  Populated' /\ ChosenThere' /\ ClustersPopulated'
    BY <2>2, <2>16 DEF EmptyInv
  <2>3. /\ crashes = 0 /\ Removals = {}
        /\ Populated /\ ChosenThere /\ ClustersPopulated /\ ClustersThere
    BY <2>1, <2>2 DEF EmptyInv, Removals
  <2>4. Builds \cup Updates \subseteq Call
    BY Callers DEF OnceInv
  <2>5. ASSUME UNCHANGED <<touched, communities>>, entities \subseteq entities', members \subseteq members',
               \A d \in Call : unsaved'[d] = unsaved[d] /\ chosen'[d] = chosen[d],
               pc[c] \notin {"nodes", "edges"}, pc'[c] # "nodes",
               \A d \in Call \ {c} : clusters'[d] = clusters[d],
               pc'[c] \in UpdatingAt => pc[c] \in UpdatingAt
        PROVE  Populated' /\ ChosenThere' /\ ClustersPopulated'
    <3>1. \A d \in Builds : pc[d] \in {"nodes", "edges"} =>
             pc'[d] \in {"nodes", "edges"} /\ unsaved'[d] = unsaved[d]
      BY <2>1, <2>4, <2>5
    <3>2. \A d \in Builds : pc'[d] = "nodes" =>
             pc[d] = "nodes" /\ unsaved'[d] = unsaved[d] /\ clusters'[d] \subseteq clusters[d]
      BY <2>1, <2>4, <2>5
    <3>3. \A u \in Updates : pc'[u] \in UpdatingAt => pc[u] \in UpdatingAt /\ chosen'[u] = chosen[u]
      BY <2>1, <2>4, <2>5
    <3>4. QED
      BY <2>1, <2>3, <2>5, <3>1, <3>2, <3>3, EmptyFrame
  <2>6. CASE EpisodeStepHere(c)
    <3>1. /\ entities \subseteq entities' /\ members' = members
          /\ What[c] \notin {"build", "update", "remove"}
      BY <2>3, <2>6, OnlyGrows DEF EmptyInv
    <3>2. {pc[c], pc'[c]} \cap (BuildingAt \cup UpdatingAt) = {}
      BY <2>1, <3>1 DEF OnceInv, Whereabouts, InPlace
    <3>3. UNCHANGED <<touched, communities, unsaved, chosen, clusters>>
      BY <2>6 DEF EpisodeStepHere
    <3>4. QED
      BY <2>5, <3>1, <3>2, <3>3 DEF BuildingAt, UpdatingAt
  <2>7. CASE RemoveCommunities(c)
    BY <2>1, <2>3, <2>7, EmptyRemoved
  <2>8. CASE ListGroup(c) \/ ReadNeighbours(c) \/ Propagate(c) \/ Load(c)
    <3>1. /\ UNCHANGED <<touched, communities, entities, members, unsaved, chosen>>
          /\ pc[c] \in Reading /\ pc'[c] \in Reading \cup {"failed"}
          /\ \A d \in Call \ {c} : clusters'[d] = clusters[d]
      BY <2>8 DEF ListGroup, ReadNeighbours, Propagate, Load, Goto, local, graph, OnceInv,
         Whereabouts, Held, Reading
    <3>2. QED
      BY <2>5, <3>1 DEF UpdatingAt, Reading
  <2>9. CASE Summarize(c)
    BY <2>1, <2>3, <2>9, EmptySummarize
  <2>10. CASE SaveNode(c)
    BY <2>1, <2>3, <2>10, EmptySaveNode
  <2>11. CASE SaveMember(c)
    BY <2>1, <2>3, <2>11, EmptySaveMember
  <2>12. CASE Determine(c)
    BY <2>1, <2>3, <2>12, EmptyDetermine
  <2>13. CASE AddMember(c)
    <3>1. /\ UNCHANGED <<touched, communities, entities, unsaved, chosen, clusters>>
          /\ pc[c] = "member" /\ pc'[c] = "community" /\ members \subseteq members'
      BY <2>13 DEF AddMember, SaveEdge, Goto, local, graph, OnceInv, Whereabouts
    <3>2. QED
      BY <2>5, <3>1 DEF UpdatingAt
  <2>14. CASE SaveCommunity(c)
    BY <2>1, <2>3, <2>14, EmptySaveCommunity
  <2>15. QED
    BY <1>2, <2>6, <2>7, <2>8, <2>9, <2>10, <2>11, <2>12, <2>13, <2>14 DEF CommunityStep
<1>3. QED
  BY <1>1, <1>2, Who

(* MembershipsSettle: what is out of order was overlapped, whatever the    *)
(* calls.  Memberships and summaries are traced to the calls that saved    *)
(* them, and a call to those that ended before it began.                   *)
THEOREM MembershipsAreSettled == Spec => []MembershipsSettle
<1> DEFINE Settling == OnceInv /\ LostInv /\ EmptyInv
<1>1. Init => Settling
  <2> SUFFICES ASSUME Init PROVE Settling
    OBVIOUS
  <2>1. OnceInv /\ LostInv
    BY OnceInit, LostInit
  <2>2. EmptyInv
    <3>1. crashes = 0 /\ communities = {} /\ pc = [c \in Call |-> "start"]
      BY DEF Init, EpisodesInit
    <3>2. Builds \cup Updates \subseteq Call
      BY <2>1, Callers DEF OnceInv
    <3>3. QED
      BY <3>1, <3>2 DEF EmptyInv, Populated, ChosenThere, ClustersPopulated, ClustersThere,
         Reading, UpdatingAt
  <2>3. QED
    BY <2>1, <2>2
<1>2. Settling /\ MembersHaveEnds' /\ [Next]_vars => Settling'
  <2> SUFFICES ASSUME Settling, MembersHaveEnds', [Next]_vars PROVE Settling'
    OBVIOUS
  <2>1. OnceInv'
    BY OnceNext
  <2>2. LostInv'
    BY LostNext
  <2>3. EmptyInv'
    BY EmptyNext DEF LostInv, SummariesKnown
  <2>4. QED
    BY <2>1, <2>2, <2>3
<1>3. Settling => MembershipsSettle
  BY OnceImplies, LostImplies, EmptyImplies DEF OnceInv, MembershipsSettle
<1>4. QED
  BY <1>1, <1>2, <1>3, MembershipsHaveEnds, PTL DEF Spec

-----------------------------------------------------------------------------
(* What a build that nothing overlaps with is about to leave.              *)
Alone(b) == \A c \in made \ {b} : c \in before[b] \/ pc[c] = "start"
Covered(b) == entities \cap Asked(b)
Covers(b) ==
    /\ pc[b] \in BuildingAt \cup {"done"} => \A k \in communities : k[1] = b
    /\ pc[b] \in Reading => \A n \in Covered(b) :
          \/ GroupOf[n] \in groups[b]
          \/ pc[b] = "neighbours" /\ n \in nodes[b]
          \/ \E A \in clusters[b] \cup unloaded[b] : n \in A
    /\ pc[b] = "nodes" => \A n \in Covered(b) : \E A :
          <<<<b, A>>, n>> \in unsaved[b] /\ (A \in clusters[b] \/ <<b, A>> \in communities)
    /\ pc[b] = "edges" => \A n \in Covered(b) :
          \/ \E k \in communities : <<k, n>> \in unsaved[b]
          \/ \E m \in members : m[2] = n
    /\ pc[b] = "done" => \A n \in Covered(b) : \E m \in members : m[2] = n

(* What it lists and clusters is there until a removal, and all there is   *)
(* of the group it reads until an addition.                                *)
RacedRemoval(b) == \E r \in Removals : Overlap(b, r)
RacedAddition(b, n) ==
    \E a \in made : Adding(a) /\ Overlap(a, b) /\ \E e \in Added(a) : n \in Mentions[e]
ListsAll(b) ==
    /\ unread[b] \subseteq nodes[b]
    /\ \A x \in nodes[b] : \A y \in entities \ nodes[b] :
          GroupOf[x] = GroupOf[y] => RacedAddition(b, y)
Intact(b) ==
    /\ \A A \in clusters[b] \cup unloaded[b] : A # {} /\ A \subseteq entities
    /\ pc[b] = "neighbours" => nodes[b] \subseteq entities
FailsRaced(b) ==
    /\ pc[b] \in Reading => RacedRemoval(b) \/ Intact(b)
    /\ pc[b] = "neighbours" => ListsAll(b)
    /\ \A n \in unknown[b] : RacedAddition(b, n)
    /\ pc[b] = "failed" /\ unknown[b] = {} => RacedRemoval(b)

BuildsInv == \A b \in Builds : FailsRaced(b) /\ (Alone(b) => Covers(b))

LEMMA AloneActs ==
    ASSUME OnceInv, NEW b \in Builds, NEW c \in Call, Moves(c), pc[b] # "start", Alone(b)'
    PROVE  c = b /\ Alone(b)
<1>1. /\ made' = made /\ pc[c] \notin Over /\ pc'[c] # "start" /\ b \in Call /\ c \in made
      /\ \A d \in Call \ {c} : pc'[d] = pc[d] /\ before'[d] = before[d]
      /\ pc[c] # "start" => before' = before
  BY TimePasses, Callers DEF OnceInv, Moves, Whereabouts
<1>2. c = b
  BY <1>1 DEF Alone, OnceInv, Timeline
<1>3. Alone(b)
  <2>1. made \subseteq Call
    BY Callers DEF OnceInv
  <2>2. QED
    BY <1>1, <1>2, <2>1 DEF Alone
<1>4. QED
  BY <1>2, <1>3

(* A build that is alone, from its first step to its last.                 *)
LEMMA CoversNext ==
    ASSUME OnceInv, NEW b \in Builds, Alone(b) => Covers(b), Moves(b),
           EpisodeStepHere(b) \/ CommunityStep(b), pc[b] # "start" => Alone(b)
    PROVE  Covers(b)'
<1>1. /\ b \in Call /\ What[b] = "build" /\ pc \in [Call -> Labels]
      /\ Held /\ ReadsWell(b)
  BY Callers DEF OnceInv, Builds, Whereabouts, ReadsApart
<1>2. pc[b] \notin UpdatingAt
  BY <1>1 DEF OnceInv, Whereabouts, InPlace
<1>3. CASE EpisodeStepHere(b)
  <2>1. pc'[b] = "dead"
    BY <1>1, <1>3, OnlyDies DEF EpisodeStepHere, OnceInv
  <2>2. QED
    BY <2>1 DEF Covers, BuildingAt, Reading
<1>4. CASE RemoveCommunities(b)
  <2>1. /\ communities' = {} /\ pc'[b] = "groups" /\ groups'[b] = Built[b]
        /\ UNCHANGED entities
    BY <1>1, <1>4 DEF RemoveCommunities, Goto, Held, local, graph
  <2>2. QED
    BY <2>1 DEF Covers, Covered, Asked
<1>5. CASE ListGroup(b)
  <2>1. PICK g \in groups[b] : /\ groups' = [groups EXCEPT ![b] = @ \ {g}]
                               /\ nodes' = [nodes EXCEPT ![b] = {n \in entities : GroupOf[n] = g}]
    BY <1>5 DEF ListGroup
  <2>2. groups'[b] = groups[b] \ {g} /\ nodes'[b] = {n \in entities : GroupOf[n] = g}
    BY <1>1, <2>1 DEF Held
  <2>3. /\ UNCHANGED <<entities, communities, clusters, unloaded>>
        /\ pc[b] = "groups" /\ pc'[b] = "neighbours"
    BY <1>1, <1>5 DEF ListGroup, Goto, local, graph
  <2>4. Covers(b)
    BY <2>3
  <2>5. QED
    BY <2>2, <2>3, <2>4 DEF Covers, Covered, BuildingAt, Reading
<1>11. CASE ReadNeighbours(b)
  <2>1. /\ UNCHANGED <<pc, entities, communities, groups, nodes, clusters, unloaded>>
        /\ pc[b] = "neighbours"
    BY <1>11 DEF ReadNeighbours, local, graph
  <2>2. Covers(b)
    BY <2>1
  <2>3. QED
    BY <2>1, <2>2 DEF Covers, Covered
<1>12. CASE Propagate(b)
  <2>1. CASE unknown[b] # {}
    <3>1. pc'[b] = "failed"
      BY <1>1, <1>12, <2>1 DEF Propagate, Goto
    <3>2. QED
      BY <3>1 DEF Covers, BuildingAt, Reading
  <2>2. CASE unknown[b] = {}
    <3>1. PICK P \in Partitions(nodes[b]) : unloaded' = [unloaded EXCEPT ![b] = P]
      BY <1>12, <2>2 DEF Propagate
    <3>2. /\ UNCHANGED <<entities, communities, groups, clusters>> /\ pc[b] = "neighbours"
          /\ pc'[b] = "load" /\ unloaded'[b] = P
      BY <1>1, <1>12, <2>2, <3>1 DEF Propagate, Goto, local, graph, Held
    <3>3. Covers(b) /\ unloaded[b] = {}
      BY <1>1, <3>2 DEF ReadsWell
    <3>4. \A n \in nodes[b] : \E A \in P : n \in A
      BY DEF Partitions
    <3>5. QED
      BY <3>2, <3>3, <3>4 DEF Covers, Covered, BuildingAt, Reading
  <2>3. QED
    BY <2>1, <2>2
<1>13. CASE Load(b)
  <2>1. UNCHANGED <<entities, communities, groups>> /\ pc[b] = "load" /\ Covers(b)
    BY <1>13 DEF Load, local, graph
  <2>2. CASE unloaded[b] = {}
    <3>1. pc'[b] = "groups" /\ UNCHANGED <<unloaded, clusters>>
      BY <1>1, <1>13, <2>2 DEF Load, Goto
    <3>2. QED
      BY <2>1, <2>2, <3>1 DEF Covers, Covered, BuildingAt, Reading
  <2>3. CASE unloaded[b] # {}
    <3>1. PICK A \in unloaded[b] : /\ unloaded' = [unloaded EXCEPT ![b] = @ \ {A}]
                                   /\ clusters' = [clusters EXCEPT ![b] = @ \cup {A \cap entities}]
                                   /\ UNCHANGED pc
      BY <1>13, <2>3 DEF Load
    <3>2. /\ unloaded'[b] = unloaded[b] \ {A}
          /\ clusters'[b] = clusters[b] \cup {A \cap entities}
      BY <1>1, <3>1 DEF Held
    <3>3. ASSUME NEW n \in Covered(b), NEW B \in clusters[b] \cup unloaded[b], n \in B
          PROVE  \E C \in clusters'[b] \cup unloaded'[b] : n \in C
      <4>1. CASE B = A
        <5>1. n \in A \cap entities /\ A \cap entities \in clusters'[b]
          BY <3>2, <3>3, <4>1 DEF Covered
        <5>2. QED
          BY <5>1
      <4>2. CASE B # A
        BY <3>2, <3>3, <4>2
      <4>3. QED
        BY <4>1, <4>2
    <3>4. QED
      BY <2>1, <3>1, <3>3 DEF Covers, Covered, BuildingAt, Reading
  <2>4. QED
    BY <2>2, <2>3
<1>6. CASE Summarize(b)
  <2>1. /\ UNCHANGED <<entities, communities, clusters>> /\ pc[b] = "groups" /\ groups[b] = {}
        /\ pc'[b] \in {"nodes", "failed"}
        /\ unsaved'[b] = UNION {{<<<<b, A>>, n>> : n \in A} : A \in clusters[b]}
    BY <1>1, <1>6 DEF Summarize, Goto, local, graph, Held
  <2>2. Covers(b) /\ unloaded[b] = {}
    BY <1>1, <2>1 DEF ReadsWell
  <2>3. ASSUME NEW n \in Covered(b)
        PROVE  \E A : <<<<b, A>>, n>> \in unsaved'[b] /\ A \in clusters[b]
    <3>1. PICK A \in clusters[b] : n \in A
      BY <2>1, <2>2 DEF Covers, Reading
    <3>2. <<<<b, A>>, n>> \in {<<<<b, A>>, x>> : x \in A}
      BY <3>1
    <3>3. <<<<b, A>>, n>> \in unsaved'[b]
      BY <2>1, <3>1, <3>2
    <3>4. QED
      BY <3>1, <3>3
  <2>4. QED
    BY <2>1, <2>2, <2>3 DEF Covers, Covered, BuildingAt, Reading
<1>7. CASE SaveNode(b)
  <2>1. UNCHANGED <<entities, unsaved, members>> /\ pc[b] = "nodes" /\ Covers(b)
    BY <1>7 DEF SaveNode, local, graph
  <2>2. CASE clusters[b] = {}
    <3>1. pc'[b] = "edges" /\ UNCHANGED <<communities, clusters>>
      BY <1>1, <1>7, <2>2 DEF SaveNode, Goto
    <3>2. QED
      BY <2>1, <2>2, <3>1 DEF Covers, Covered, BuildingAt, Reading
  <2>3. CASE clusters[b] # {}
    <3>1. PICK A \in clusters[b] : /\ communities' = communities \cup {<<b, A>>} /\ UNCHANGED pc
                                   /\ clusters' = [clusters EXCEPT ![b] = @ \ {A}]
      BY <1>7, <2>3 DEF SaveNode
    <3>2. clusters'[b] = clusters[b] \ {A}
      BY <1>1, <3>1 DEF Held
    <3>3. QED
      BY <2>1, <3>1, <3>2 DEF Covers, Covered, BuildingAt, Reading
  <2>4. QED
    BY <2>2, <2>3
<1>8. CASE SaveMember(b)
  <2>1. UNCHANGED <<entities, communities>> /\ pc[b] = "edges" /\ Covers(b) /\ members \subseteq members'
    BY <1>8 DEF SaveMember, SaveEdge, local, graph
  <2>2. CASE unsaved[b] = {}
    <3>1. pc'[b] = "done" /\ UNCHANGED members
      BY <1>1, <1>8, <2>2 DEF SaveMember, Goto
    <3>2. QED
      BY <2>1, <2>2, <3>1 DEF Covers, Covered, BuildingAt, Reading
  <2>3. CASE unsaved[b] # {}
    <3>1. PICK m \in unsaved[b] : /\ SaveEdge(m[1], m[2], b) /\ UNCHANGED pc
                                  /\ unsaved' = [unsaved EXCEPT ![b] = @ \ {m}]
      BY <1>8, <2>3 DEF SaveMember
    <3>2. unsaved'[b] = unsaved[b] \ {m}
      BY <1>1, <3>1 DEF Held
    <3>3. ASSUME NEW n \in Covered(b), NEW k \in communities, <<k, n>> \in unsaved[b]
          PROVE  \/ <<k, n>> \in unsaved'[b]
                 \/ \E x \in members' : x[2] = n
      <4>1. CASE m = <<k, n>>
        <5>1. <<k, n, b>> \in members'
          BY <3>1, <3>3, <4>1 DEF SaveEdge, Covered
        <5>2. QED
          BY <5>1
      <4>2. CASE m # <<k, n>>
        BY <3>2, <3>3, <4>2
      <4>3. QED
        BY <4>1, <4>2
    <3>4. QED
      BY <2>1, <3>1, <3>3 DEF Covers, Covered, BuildingAt, Reading
  <2>4. QED
    BY <2>2, <2>3
<1>9. ~ Determine(b) /\ ~ AddMember(b) /\ ~ SaveCommunity(b)
  BY <1>1, <1>2 DEF Determine, AddMember, SaveCommunity, UpdatingAt
<1>10. QED
  BY <1>3, <1>4, <1>5, <1>6, <1>7, <1>8, <1>9, <1>11, <1>12, <1>13
  DEF CommunityStep

(* An entity comes with an addition and goes with a removal.               *)
LEMMA EntitiesCome ==
    ASSUME Whereabouts, NEW c \in Call, EpisodeStepHere(c) \/ CommunityStep(c),
           NEW n \in entities' \ entities
    PROVE  c \in made /\ pc[c] = "save" /\ Adding(c) /\ \E e \in Added(c) : n \in Mentions[e]
<1>1. EpisodeStepHere(c)
  BY CommunityMoves DEF local, graph
<1>2. Save(c)
  BY <1>1 DEF EpisodeStepHere, EpisodeStep, StoreEpisodes, Resolve, Save, FindSaga, FindPrevious,
     Link, Join, FindEpisode, FindMentioned, Count, Counted, DropFacts, DropEntities, DropEpisode,
     Crash, graph
<1>3. QED
  BY <1>2 DEF Save, Whereabouts, InPlace, AddingAt

LEMMA EntitiesGo ==
    ASSUME Whereabouts, NEW c \in Call, EpisodeStepHere(c) \/ CommunityStep(c),
           ~ (entities \subseteq entities')
    PROVE  c \in Removals /\ pc[c] = "entities"
<1>1. EpisodeStepHere(c)
  BY CommunityMoves DEF local, graph
<1>2. DropEntities(c)
  BY <1>1 DEF EpisodeStepHere, EpisodeStep, StoreEpisodes, Resolve, Save, FindSaga, FindPrevious,
     Link, Join, FindEpisode, FindMentioned, Count, Counted, DropFacts, DropEntities, DropEpisode,
     Crash, graph
<1>3. QED
  BY <1>2 DEF DropEntities, Whereabouts, InPlace, Removing, Removals

(* The steps of other calls.                                               *)
LEMMA FailsBeside ==
    ASSUME OnceInv, NEW b \in Builds, FailsRaced(b), NEW c \in Call \ {b}, Moves(c),
           EpisodeStepHere(c) \/ CommunityStep(c),
           RacedRemoval(b) => RacedRemoval(b)', \A n : RacedAddition(b, n) => RacedAddition(b, n)',
           made' = made, \A d \in Call \ {c} : pc'[d] = pc[d],
           \A d, e \in Call : Overlap(d, e) => Overlap(d, e)'
    PROVE  FailsRaced(b)'
<1>1. b \in Call /\ pc'[b] = pc[b] /\ Removals' = Removals /\ Removals \subseteq Call
  BY Callers DEF OnceInv, Removals
<1>2. UNCHANGED <<groups[b], nodes[b], unread[b], unknown[b], unloaded[b], clusters[b]>>
  BY <1>1, HoldsItsOwn DEF OnceInv
<1>3. pc[b] \in Reading => RacedRemoval(b)' \/ Intact(b)'
  <2> SUFFICES ASSUME pc[b] \in Reading, ~ RacedRemoval(b)' PROVE Intact(b)'
    OBVIOUS
  <2>1. Intact(b)
    BY DEF FailsRaced
  <2>2. entities \subseteq entities'
    <3> SUFFICES ASSUME ~ (entities \subseteq entities') PROVE FALSE
      OBVIOUS
    <3>1. c \in Removals /\ Underway(c)
      BY EntitiesGo DEF OnceInv, Underway, Over
    <3>2. Overlap(b, c)
      BY <1>1, <3>1, Sharing DEF OnceInv, Underway, Reading, Over
    <3>3. QED
      BY <1>1, <3>1, <3>2 DEF RacedRemoval
  <2>3. QED
    BY <1>1, <1>2, <2>1, <2>2 DEF Intact
<1>4. pc[b] = "neighbours" => ListsAll(b)'
  <2> SUFFICES ASSUME pc[b] = "neighbours", NEW x \in nodes[b], NEW y \in entities' \ nodes[b],
                      GroupOf[x] = GroupOf[y]
               PROVE  RacedAddition(b, y)'
    BY <1>2 DEF ListsAll, FailsRaced
  <2>1. CASE y \in entities
    BY <2>1 DEF FailsRaced, ListsAll
  <2>2. CASE y \notin entities
    <3>1. /\ c \in made /\ Underway(c) /\ Adding(c)
          /\ \E e \in Added(c) : y \in Mentions[e]
      BY <2>2, EntitiesCome DEF OnceInv, Underway, Over
    <3>2. Overlap(c, b)
      BY <1>1, <3>1, Sharing DEF OnceInv, Underway, Over
    <3>3. RacedAddition(b, y)
      BY <3>1, <3>2 DEF RacedAddition
    <3>4. QED
      BY <3>3
  <2>3. QED
    BY <2>1, <2>2
<1>5. QED
  BY <1>1, <1>2, <1>3, <1>4 DEF FailsRaced

(* Its own steps.                                                          *)
LEMMA FailsOn ==
    ASSUME OnceInv, NEW b \in Builds, FailsRaced(b), CommunityStep(b),
           RacedRemoval(b) => RacedRemoval(b)', \A n : RacedAddition(b, n) => RacedAddition(b, n)'
    PROVE  FailsRaced(b)'
<1>1. /\ b \in Call /\ What[b] = "build" /\ pc \in [Call -> Labels] /\ Held /\ ReadsWell(b)
      /\ pc[b] \notin UpdatingAt
  BY Callers DEF OnceInv, Builds, Whereabouts, InPlace, ReadsApart
<1>2. UNCHANGED <<entities, listed>>
  BY CommunityMoves, <1>1 DEF OnceInv, local, graph
<1>3. CASE RemoveCommunities(b)
  <2>1. /\ pc[b] = "start" /\ pc'[b] = "groups" /\ UNCHANGED <<clusters, unloaded, unknown>>
    BY <1>1, <1>3 DEF RemoveCommunities, Begins, Goto
  <2>2. QED
    BY <1>1, <2>1 DEF FailsRaced, Intact, ReadsWell
<1>4. CASE ListGroup(b)
  <2>1. PICK g \in groups[b] : nodes' = [nodes EXCEPT ![b] = {n \in entities : GroupOf[n] = g}]
    BY <1>4 DEF ListGroup
  <2>2. nodes'[b] = {n \in entities : GroupOf[n] = g} /\ unread'[b] = nodes'[b]
    BY <1>1, <1>4, <2>1 DEF Held, ListGroup
  <2>3. /\ UNCHANGED <<clusters, unloaded, unknown>>
        /\ pc[b] = "groups" /\ pc'[b] = "neighbours"
    BY <1>1, <1>4 DEF ListGroup, Goto
  <2>4. ListsAll(b)'
    BY <1>2, <2>2 DEF ListsAll
  <2>5. Intact(b) => Intact(b)'
    BY <1>2, <2>2, <2>3 DEF Intact
  <2>6. QED
    BY <2>3, <2>4, <2>5 DEF FailsRaced, Reading
<1>5. CASE ReadNeighbours(b)
  <2>1. PICK n \in unread[b] : /\ unread' = [unread EXCEPT ![b] = @ \ {n}]
                               /\ unknown' = [unknown EXCEPT ![b] = @ \cup (NextTo(n) \ nodes[b])]
    BY <1>5 DEF ReadNeighbours
  <2>2. /\ unread'[b] = unread[b] \ {n}
        /\ unknown'[b] = unknown[b] \cup (NextTo(n) \ nodes[b])
    BY <1>1, <2>1 DEF Held
  <2>3. UNCHANGED <<pc, nodes, clusters, unloaded>> /\ pc[b] = "neighbours"
    BY <1>5 DEF ReadNeighbours
  <2>4. ListsAll(b)
    BY <2>3 DEF FailsRaced
  <2>5. ASSUME NEW m \in NextTo(n) \ nodes[b] PROVE RacedAddition(b, m)
    <3>1. PICK f \in Fact : Joins[f] = {n, m}
      BY DEF NextTo, Facts
    <3>2. GroupOf[n] = GroupOf[m]
      BY <3>1, CommunitiesAssumption
    <3>3. QED
      BY <2>4, <3>2 DEF ListsAll, NextTo
  <2>6. \A m \in unknown'[b] : RacedAddition(b, m)'
    BY <2>2, <2>5 DEF FailsRaced
  <2>7. ListsAll(b)'
    BY <1>2, <2>2, <2>3, <2>4 DEF ListsAll
  <2>8. Intact(b) => Intact(b)'
    BY <1>2, <2>3 DEF Intact
  <2>9. QED
    BY <2>3, <2>6, <2>7, <2>8 DEF FailsRaced
<1>6. CASE Propagate(b)
  <2>1. pc[b] = "neighbours" /\ UNCHANGED <<clusters, unknown>>
    BY <1>6 DEF Propagate
  <2>2. CASE unknown[b] # {}
    <3>1. pc'[b] = "failed"
      BY <1>1, <1>6, <2>2 DEF Propagate, Goto
    <3>2. QED
      BY <2>1, <2>2, <3>1 DEF FailsRaced, Reading
  <2>3. CASE unknown[b] = {}
    <3>1. PICK P \in Partitions(nodes[b]) : unloaded' = [unloaded EXCEPT ![b] = P]
      BY <1>6, <2>3 DEF Propagate
    <3>2. unloaded'[b] = P /\ pc'[b] = "load"
      BY <1>1, <1>6, <2>3, <3>1 DEF Propagate, Goto, Held
    <3>3. \A A \in P : A # {} /\ A \subseteq nodes[b]
      BY DEF Partitions
    <3>4. Intact(b) => Intact(b)'
      BY <1>2, <2>1, <3>2, <3>3 DEF Intact
    <3>5. QED
      BY <2>1, <3>2, <3>4 DEF FailsRaced, Reading
  <2>4. QED
    BY <2>2, <2>3
<1>7. CASE Load(b)
  <2>1. pc[b] = "load" /\ pc'[b] \in {"load", "groups"} /\ UNCHANGED unknown
    BY <1>1, <1>7 DEF Load, Goto
  <2>2. Intact(b) => Intact(b)'
    <3>1. CASE unloaded[b] = {}
      <4>1. UNCHANGED <<unloaded, clusters>>
        BY <1>7, <3>1 DEF Load
      <4>2. QED
        BY <1>2, <2>1, <4>1 DEF Intact
    <3>2. CASE unloaded[b] # {}
      <4>1. PICK A \in unloaded[b] : /\ unloaded' = [unloaded EXCEPT ![b] = @ \ {A}]
                                     /\ clusters' = [clusters EXCEPT ![b] = @ \cup {A \cap entities}]
        BY <1>7, <3>2 DEF Load
      <4>2. /\ unloaded'[b] = unloaded[b] \ {A}
            /\ clusters'[b] = clusters[b] \cup {A \cap entities}
        BY <1>1, <4>1 DEF Held
      <4>3. Intact(b) => A \cap entities = A
        BY DEF Intact
      <4>4. QED
        BY <1>2, <2>1, <4>2, <4>3 DEF Intact
    <3>3. QED
      BY <3>1, <3>2
  <2>3. QED
    BY <2>1, <2>2 DEF FailsRaced, Reading
<1>8. CASE Summarize(b)
  <2>1. /\ pc[b] = "groups" /\ pc'[b] = IF {} \in clusters[b] THEN "failed" ELSE "nodes"
        /\ UNCHANGED unknown
    BY <1>1, <1>8 DEF Summarize, reading, Goto
  <2>2. {} \in clusters[b] => RacedRemoval(b)
    BY <2>1 DEF FailsRaced, Intact, Reading
  <2>3. QED
    BY <2>1, <2>2 DEF FailsRaced, Reading
<1>9. CASE SaveNode(b) \/ SaveMember(b)
  <2>1. pc'[b] \in {"nodes", "edges", "done"} /\ UNCHANGED unknown
    BY <1>1, <1>9 DEF SaveNode, SaveMember, reading, Goto
  <2>2. QED
    BY <2>1 DEF FailsRaced, Reading
<1>10. ~ Determine(b) /\ ~ AddMember(b) /\ ~ SaveCommunity(b)
  BY <1>1 DEF Determine, AddMember, SaveCommunity, UpdatingAt
<1>11. QED
  BY <1>3, <1>4, <1>5, <1>6, <1>7, <1>8, <1>9, <1>10 DEF CommunityStep

LEMMA FailsNext ==
    ASSUME OnceInv, NEW b \in Builds, FailsRaced(b), NEW c \in Call, Moves(c),
           EpisodeStepHere(c) \/ CommunityStep(c)
    PROVE  FailsRaced(b)'
<1>1. /\ Whereabouts' /\ made' = made
      /\ \A d \in Call \ {c} : pc'[d] = pc[d]
      /\ \A d, e \in Call : Overlap(d, e) => Overlap(d, e)'
  BY TimePasses DEF OnceInv
<1>2. /\ b \in Call /\ What[b] = "build" /\ made \subseteq Call
      /\ Removals' = Removals /\ Removals \subseteq Call
  BY <1>1, Callers DEF OnceInv, Builds, Removals
<1>3. RacedRemoval(b) => RacedRemoval(b)'
  BY <1>1, <1>2 DEF RacedRemoval
<1>4. \A n : RacedAddition(b, n) => RacedAddition(b, n)'
  BY <1>1, <1>2 DEF RacedAddition, Adding
<1>5. CASE c # b
  BY <1>1, <1>3, <1>4, <1>5, FailsBeside
<1>6. CASE c = b /\ CommunityStep(b)
  BY <1>3, <1>4, <1>6, FailsOn
<1>7. CASE c = b /\ EpisodeStepHere(b)
  <2>1. pc'[b] = "dead" /\ UNCHANGED unknown
    BY <1>2, <1>7, OnlyDies DEF EpisodeStepHere, reading, OnceInv
  <2>2. QED
    BY <1>4, <2>1 DEF FailsRaced, Reading
<1>8. QED
  BY <1>5, <1>6, <1>7

LEMMA BuildsNext == OnceInv /\ BuildsInv /\ [Next]_vars => BuildsInv'
<1> SUFFICES ASSUME OnceInv, BuildsInv, [Next]_vars PROVE BuildsInv'
  OBVIOUS
<1>1. CASE UNCHANGED vars
  BY <1>1 DEF vars, episodeVars, ends, graph, communityVars, reading, BuildsInv, FailsRaced,
     RacedRemoval, RacedAddition, ListsAll, Intact, Removals, Overlap, Alone, Covers, Covered, Builds
<1>2. ASSUME NEW c \in Call, Moves(c), EpisodeStepHere(c) \/ CommunityStep(c), NEW b \in Builds
      PROVE  FailsRaced(b)' /\ (Alone(b)' => Covers(b)')
  <2>1. FailsRaced(b)'
    BY <1>2, FailsNext DEF BuildsInv
  <2>2. ASSUME Alone(b)' PROVE Covers(b)'
    <3>1. CASE c = b
      <4>1. pc[b] # "start" => Alone(b)
        BY <1>2, <2>2, AloneActs
      <4>2. QED
        BY <1>2, <3>1, <4>1, CoversNext DEF BuildsInv
    <3>2. CASE c # b
      <4>1. pc[b] = "start"
        BY <1>2, <2>2, <3>2, AloneActs
      <4>2. pc'[b] = "start"
        BY <1>2, <3>2, <4>1, TimePasses, Callers DEF OnceInv
      <4>3. QED
        BY <4>2 DEF Covers, BuildingAt, Reading
    <3>3. QED
      BY <3>1, <3>2
  <2>3. QED
    BY <2>1, <2>2
<1>3. ASSUME NEW c \in Call, Moves(c), EpisodeStepHere(c) \/ CommunityStep(c) PROVE BuildsInv'
  <2>1. Builds' = Builds
    BY <1>3 DEF Moves, Builds
  <2>2. QED
    BY <1>2, <1>3, <2>1 DEF BuildsInv
<1>4. QED
  BY <1>1, <1>3, Who

(* BuildsSettle: a build fails only if an episode is added or removed      *)
(* meanwhile that has to do with what it reads, and one that nothing       *)
(* overlaps with covers what it was asked to.  What it listed of a group   *)
(* was all there was of it, and what it has read is there until a removal. *)
(* A call that has ended does nothing, so a build that is alone to its end *)
(* was alone from its start.                                               *)
THEOREM BuildsAreSettled == Spec => []BuildsSettle
<1>1. Init => OnceInv /\ BuildsInv
  <2> SUFFICES ASSUME Init PROVE BuildsInv
    BY OnceInit
  <2>1. /\ Builds \subseteq Call /\ pc = [c \in Call |-> "start"]
        /\ unknown = [c \in Call |-> {}]
    BY OnceInit, Callers DEF OnceInv, Init, EpisodesInit
  <2>2. QED
    BY <2>1 DEF BuildsInv, FailsRaced, Covers, BuildingAt, Reading
<1>2. OnceInv /\ BuildsInv /\ [Next]_vars => OnceInv' /\ BuildsInv'
  BY OnceNext, BuildsNext
<1>3. OnceInv /\ BuildsInv => BuildsSettle
  BY DEF OnceInv, BuildsInv, FailsRaced, RacedRemoval, RacedAddition, Covers, Covered, Alone,
     BuildsSettle, BuildFailsOnlyIfRaced, BuildCovers, Undisturbed, BuildingAt
<1>4. QED
  BY <1>1, <1>2, <1>3, PTL DEF Spec
-----------------------------------------------------------------------------
(* Where an addition is with the episodes it adds, and what it has yet to  *)
(* put in the saga.                                                        *)
Early == {"start", "resolve", "save", "saga", "previous"}
Linking == {"saga", "previous", "link", "join"}
NotYetJoined(c) == pc[c] \in {"start"} \cup AddingAt
SagaTyped ==
    /\ episodes \subseteq Episode /\ has \subseteq Episode /\ next \subseteq Episode \X Episode
    /\ previous \in [Call -> Episode \cup {NoEpisode}] /\ linked \in [Call -> Nat]
    /\ \A c \in made : Adding(c) /\ NotYetJoined(c) =>
          /\ linked[c] < Len(Adds[c])
          /\ pc[c] \in Early =>
                linked[c] = 0 /\ previous[c] = NoEpisode

(* What is linked is new: nothing follows it, and nothing comes before it  *)
(* but what has just been linked to it.                                    *)
Untouched(e) == e \notin has /\ \A p \in next : p[1] # e
LinkedIsNew ==
    \A c \in made : Adding(c) /\ NotYetJoined(c) =>
        \A i \in DOMAIN Adds[c] : i > linked[c] =>
           /\ Untouched(Adds[c][i]) /\ previous[c] # Adds[c][i]
           /\ \A p \in next : p[2] = Adds[c][i] => pc[c] = "join" /\ i = linked[c] + 1

(* Additions follow one another, and none has been saved before: what is   *)
(* given to follow one that is not yet there is given in vain.             *)
OneAdds == \A c, d \in made : Adding(c) /\ Adding(d) /\ Underway(c) /\ Underway(d) => c = d
Unstored(c) == pc[c] = "start" \/ (What[c] = "add" /\ pc[c] = "save")
StoredOnce == \A c \in made : Adding(c) /\ Unstored(c) => Added(c) \cap episodes = {}

OnePredecessor == \A p, q \in next : p[2] = q[2] => p = q
HasFirst(S) == \E e \in S : \A p \in next : p[2] = e => p[1] \notin S
NoCycle == \A S \in SUBSET Episode : S # {} => HasFirst(S)

TreeInv ==
    /\ Whereabouts /\ OneAdds /\ StoredOnce
    /\ SagaTyped /\ LinkedIsNew /\ OnePredecessor /\ NoCycle

LEMMA AddsApart ==
    ASSUME Whereabouts, NEW c \in made, NEW d \in made, NEW i \in DOMAIN Adds[c],
           NEW j \in DOMAIN Adds[d], Adds[c][i] = Adds[d][j]
    PROVE  c = d /\ i = j
<1>1. made \in Scenarios /\ c \in Call /\ d \in Call
  BY Callers DEF Whereabouts
<1>2. CASE c # d
  <2>1. Range(Adds[c]) \cap Range(Adds[d]) = {}
    BY <1>1, <1>2, EpisodesAssumption
  <2>2. Adds[c][i] \in Range(Adds[c]) /\ Adds[d][j] \in Range(Adds[d])
    BY DEF Range
  <2>3. QED
    BY <2>1, <2>2
<1>3. CASE c = d
  BY <1>1, <1>3, EpisodesAssumption
<1>4. QED
  BY <1>2, <1>3

LEMMA AddsTyped ==
    ASSUME Whereabouts, NEW c \in made
    PROVE  /\ c \in Call /\ Adds[c] \in Seq(Episode) /\ DOMAIN Adds[c] = 1..Len(Adds[c])
           /\ Len(Adds[c]) \in Nat /\ \A i \in DOMAIN Adds[c] : Adds[c][i] \in Episode
           /\ Added(c) \subseteq Episode /\ \A i \in DOMAIN Adds[c] : Adds[c][i] \in Added(c)
           /\ Adding(c) => Len(Adds[c]) > 0
<1>1. c \in Call /\ Adds[c] \in Seq(Episode) /\ (Adding(c) => Adds[c] # <<>>)
  BY Callers, EpisodesAssumption DEF Adding
<1>2. QED
  BY <1>1 DEF Added, Range

LEMMA Nobody == Whereabouts => \A c \in Call : CommunityStep(c) => ~ Adding(c)
BY DEF Whereabouts, InPlace, BuildingAt, Reading, UpdatingAt, Adding, CommunityStep,
   RemoveCommunities, ListGroup, ReadNeighbours, Propagate, Load, Summarize, SaveNode, SaveMember,
   Determine, AddMember, SaveCommunity

(* Who begins to add begins alone.                                         *)
LEMMA OneAddsNext ==
    ASSUME OneAdds, Whereabouts, NEW c \in Call, Moves(c), EpisodeStep(c) \/ ~ Adding(c)
    PROVE  OneAdds'
<1>1. made' = made /\ pc \in [Call -> Labels] /\ \A d \in Call \ {c} : pc'[d] = pc[d]
  BY MovesWhereabouts DEF Moves, Whereabouts
<1>2. CASE NoneIsAdding
  <2>1. \A d \in made \ {c} : Adding(d) => ~ Underway(d)'
    BY <1>1, <1>2, Callers DEF NoneIsAdding, Underway
  <2>2. QED
    BY <1>1, <2>1 DEF OneAdds, Adding
<1>3. CASE ~ Adding(c) \/ Underway(c)
  <2>1. \A d \in made : Adding(d) /\ Underway(d)' => Underway(d)
    BY <1>1, <1>3, Callers DEF Underway
  <2>2. QED
    BY <1>1, <2>1 DEF OneAdds, Adding
<1>4. CASE EpisodeStep(c) /\ Adding(c) /\ ~ NoneIsAdding
  <2>1. ~ FindEpisode(c) /\ ~ StoreEpisodes(c)
    BY <1>4 DEF FindEpisode, StoreEpisodes, Adding
  <2>2. Underway(c)
    BY <1>4, <2>1 DEF EpisodeStep, Resolve, Save, FindSaga, FindPrevious, Link, Join,
       FindMentioned, Count, Counted, DropFacts, DropEntities, DropEpisode, Crash, Underway, Over
  <2>3. QED
    BY <1>3, <2>2
<1>5. QED
  BY <1>2, <1>3, <1>4

LEMMA OneAddsKept == Whereabouts /\ OneAdds /\ [Next]_vars => OneAdds'
<1> SUFFICES ASSUME Whereabouts, OneAdds, [Next]_vars PROVE OneAdds'
  OBVIOUS
<1>1. CASE UNCHANGED vars
  BY <1>1 DEF vars, episodeVars, ends, OneAdds, Adding, Underway
<1>2. ASSUME NEW c \in Call, EpisodeStep(c) PROVE OneAdds'
  BY <1>2, EpisodeMoves, OneAddsNext
<1>3. ASSUME NEW c \in Call, CommunityStep(c) PROVE OneAdds'
  BY <1>3, CommunityMoves, Nobody, OneAddsNext
<1>4. QED
  BY <1>1, <1>2, <1>3 DEF Next, EpisodeStepHere

(* An episode comes with the call that adds it.                            *)
LEMMA EpisodesCome ==
    ASSUME Whereabouts, NEW c \in Call, EpisodeStep(c) \/ CommunityStep(c),
           NEW e \in episodes' \ episodes
    PROVE  c \in made /\ Adding(c) /\ e \in Added(c) /\ ~ Unstored(c)'
<1>1. StoreEpisodes(c) \/ Save(c)
  <2>1. ~ CommunityStep(c)
    BY CommunityMoves DEF local, graph
  <2>2. QED
    BY <2>1 DEF EpisodeStep, Resolve, FindSaga, FindPrevious, Link, Join, FindEpisode,
       FindMentioned, Count, Counted, DropFacts, DropEntities, DropEpisode, Crash, graph
<1>2. c \in made /\ Adding(c) /\ pc \in [Call -> Labels]
  BY <1>1 DEF StoreEpisodes, Begins, Save, Adding, Whereabouts, InPlace, AddingAt
<1>3. pc'[c] \in {"resolve", "saga", "done"} /\ e \in Added(c)
  BY <1>1, <1>2 DEF StoreEpisodes, Save, Goto
<1>4. QED
  BY <1>2, <1>3 DEF Unstored

LEMMA StoredOnceNext == Whereabouts /\ StoredOnce /\ [Next]_vars => StoredOnce'
<1> SUFFICES ASSUME Whereabouts, StoredOnce, [Next]_vars PROVE StoredOnce'
  OBVIOUS
<1>1. CASE UNCHANGED vars
  BY <1>1 DEF vars, episodeVars, ends, graph, StoredOnce, Adding, Unstored, Added
<1>2. ASSUME NEW c \in Call, EpisodeStep(c) \/ CommunityStep(c) PROVE StoredOnce'
  <2>1. Moves(c) /\ made' = made
    BY <1>2, EpisodeMoves, CommunityMoves DEF Moves
  <2> SUFFICES ASSUME NEW d \in made, Adding(d), Unstored(d)', NEW e \in Added(d), e \in episodes'
               PROVE  FALSE
    BY <2>1 DEF StoredOnce, Adding, Added
  <2>2. d \in Call
    BY Callers
  <2>3. Unstored(d)
    <3>1. CASE d = c
      <4>1. pc'[c] = "save" /\ What[c] = "add"
        BY <2>1, <3>1 DEF Unstored, Moves, Goto, Whereabouts
      <4>2. pc[c] \in {"start", "resolve", "save"}
        BY <2>1, <4>1 DEF Moves, Goto, Whereabouts
      <4>3. pc[c] # "resolve"
        BY <4>1 DEF Whereabouts, InPlace
      <4>4. QED
        BY <3>1, <4>1, <4>2, <4>3 DEF Unstored
    <3>2. CASE d # c
      BY <2>1, <2>2, <3>2, MovesWhereabouts DEF Unstored
    <3>3. QED
      BY <3>1, <3>2
  <2>4. e \notin episodes
    BY <2>3 DEF StoredOnce
  <2>5. c \in made /\ e \in Added(c) /\ ~ Unstored(c)'
    BY <1>2, <2>4, EpisodesCome
  <2>6. PICK i \in DOMAIN Adds[c], j \in DOMAIN Adds[d] : Adds[c][i] = e /\ Adds[d][j] = e
    BY <2>5 DEF Added, Range
  <2>7. c = d
    BY <2>5, <2>6, AddsApart
  <2>8. QED
    BY <2>5, <2>7
<1>3. QED
  BY <1>1, <1>2 DEF Next, EpisodeStepHere

(* Steps that link nothing.                                                *)
SameStage(d) ==
    \/ pc'[d] = pc[d]
    \/ {pc[d], pc'[d]} \subseteq Early
    \/ pc'[d] \notin {"start"} \cup AddingAt

LEMMA TreeFrame ==
    ASSUME TreeInv, Whereabouts', OneAdds', StoredOnce', made' = made, UNCHANGED <<previous, linked>>,
           episodes' \subseteq Episode, has' \subseteq has, next' \subseteq next,
           \A d \in made : Adding(d) => SameStage(d)
    PROVE  TreeInv'
<1>1. SagaTyped'
  <2>1. \A d \in made : Adding(d) /\ NotYetJoined(d)' =>
          /\ linked[d] < Len(Adds[d])
          /\ pc'[d] \in Early =>
                linked[d] = 0 /\ previous[d] = NoEpisode
    BY DEF TreeInv, SagaTyped, SameStage, NotYetJoined, AddingAt, Early
  <2>2. QED
    BY <2>1 DEF TreeInv, SagaTyped, Adding
<1>2. LinkedIsNew'
  <2> SUFFICES ASSUME NEW c \in made, Adding(c), NotYetJoined(c)', NEW i \in DOMAIN Adds[c],
                      i > linked[c]
               PROVE  /\ Untouched(Adds[c][i])' /\ previous[c] # Adds[c][i]
                      /\ \A p \in next' : p[2] = Adds[c][i] => pc'[c] = "join" /\ i = linked[c] + 1
    BY DEF LinkedIsNew, Adding
  <2>1. NotYetJoined(c) /\ (pc[c] = "join" => pc'[c] = "join")
    BY DEF SameStage, NotYetJoined, AddingAt, Early
  <2>2. QED
    BY <2>1 DEF TreeInv, LinkedIsNew, Untouched
<1>3. OnePredecessor' /\ NoCycle'
  BY DEF TreeInv, OnePredecessor, NoCycle, HasFirst
<1>4. QED
  BY <1>1, <1>2, <1>3 DEF TreeInv

(* An episode that nothing follows can be linked to any other.             *)
LEMMA StaysAcyclic ==
    ASSUME NoCycle, NEW a \in Episode, NEW b \in Episode, a # b, \A p \in next : p[1] # b,
           next' = next \cup {<<a, b>>}
    PROVE  NoCycle'
<1> SUFFICES ASSUME NEW S \in SUBSET Episode, S # {} PROVE HasFirst(S)'
  BY DEF NoCycle
<1>1. CASE S = {b}
  BY <1>1 DEF HasFirst
<1>2. CASE S # {b}
  <2>1. S \ {b} \in SUBSET Episode /\ S \ {b} # {}
    BY <1>2
  <2>2. PICK e \in S \ {b} : \A p \in next : p[2] = e => p[1] \notin S \ {b}
    BY <2>1 DEF NoCycle, HasFirst
  <2>3. QED
    BY <2>2 DEF HasFirst
<1>3. QED
  BY <1>1, <1>2

LEMMA TreeLink ==
    ASSUME TreeInv, NEW c \in Call, Link(c), Whereabouts', OneAdds', StoredOnce',
           \A d \in Call \ {c} : pc'[d] = pc[d]
    PROVE  TreeInv'
<1>1. /\ UNCHANGED <<made, episodes, has, previous, linked>> /\ pc[c] = "link" /\ pc'[c] = "join"
      /\ c \in made /\ Adding(c)
  BY DEF Link, adding, Goto, TreeInv, Whereabouts, InPlace, AddingAt
<1>2. /\ DOMAIN Adds[c] = 1..Len(Adds[c]) /\ Len(Adds[c]) \in Nat /\ linked[c] \in Nat
      /\ linked[c] < Len(Adds[c]) /\ made \subseteq Call
      /\ \A i \in DOMAIN Adds[c] : Adds[c][i] \in Episode
  BY <1>1, AddsTyped, Callers DEF TreeInv, SagaTyped, NotYetJoined, AddingAt, Early
<1>3. linked[c] + 1 \in DOMAIN Adds[c] /\ linked[c] + 1 > linked[c]
  BY <1>2
<1> SUFFICES ASSUME NEW b, b = Now(c), NEW a, a = previous[c] PROVE TreeInv'
  OBVIOUS
<1>4. b = Adds[c][linked[c] + 1] /\ b \in Episode
  BY <1>2, <1>3 DEF Now
<1>5. Untouched(b) /\ a # b /\ \A p \in next : p[2] # b
  BY <1>1, <1>3, <1>4 DEF TreeInv, LinkedIsNew, NotYetJoined, AddingAt, Early
<1>7. next' = next \/ (next' = next \cup {<<a, b>>} /\ a \in Episode /\ a \in episodes)
  BY DEF Link, TreeInv, SagaTyped
<1>8. SagaTyped'
  <2>1. \A d \in made : Adding(d) /\ NotYetJoined(d)' =>
          /\ linked[d] < Len(Adds[d])
          /\ pc'[d] \in Early =>
                linked[d] = 0 /\ previous[d] = NoEpisode
    BY <1>1, <1>2 DEF TreeInv, SagaTyped, NotYetJoined, AddingAt, Early
  <2>2. QED
    BY <1>1, <1>4, <1>7, <2>1 DEF TreeInv, SagaTyped, Adding
<1>9. LinkedIsNew'
  <2> SUFFICES ASSUME NEW d \in made, Adding(d), NotYetJoined(d)', NEW i \in DOMAIN Adds[d],
                      i > linked[d]
               PROVE  /\ Untouched(Adds[d][i])' /\ previous[d] # Adds[d][i]
                      /\ \A p \in next' : p[2] = Adds[d][i] => pc'[d] = "join" /\ i = linked[d] + 1
    BY <1>1 DEF LinkedIsNew, Adding
  <2>1. /\ Untouched(Adds[d][i]) /\ previous[d] # Adds[d][i]
        /\ \A p \in next : p[2] = Adds[d][i] => pc[d] = "join" /\ i = linked[d] + 1
    BY <1>1, <1>2 DEF TreeInv, LinkedIsNew, NotYetJoined, AddingAt, Early
  <2>2. Untouched(Adds[d][i])'
    <3>1. ASSUME a = Adds[d][i], a \in episodes PROVE FALSE
      <4>1. d # c
        BY <2>1, <3>1
      <4>2. pc'[d] = pc[d] /\ ~ Underway(d)
        BY <1>1, <1>2, <4>1 DEF TreeInv, OneAdds, Underway, Over
      <4>3. Unstored(d)
        BY <4>2 DEF NotYetJoined, AddingAt, Underway, Over, Unstored
      <4>4. Adds[d][i] \in Added(d)
        BY AddsTyped DEF TreeInv
      <4>5. QED
        BY <3>1, <4>3, <4>4 DEF TreeInv, StoredOnce
    <3>2. QED
      BY <1>1, <1>7, <2>1, <3>1 DEF Untouched
  <2>3. Adds[d][i] = b => d = c /\ i = linked[c] + 1
    BY <1>1, <1>3, <1>4, AddsApart DEF TreeInv
  <2>4. pc[d] = "join" => pc'[d] = "join"
    BY <1>1, <1>2
  <2>5. QED
    BY <1>1, <1>7, <2>1, <2>2, <2>3, <2>4
<1>10. OnePredecessor'
  BY <1>5, <1>7 DEF TreeInv, OnePredecessor
<1>11. NoCycle'
  <2>1. NoCycle /\ a # b /\ \A p \in next : p[1] # b
    BY <1>5 DEF TreeInv, Untouched
  <2>2. CASE next' = next
    BY <2>1, <2>2 DEF NoCycle, HasFirst
  <2>3. CASE next' = next \cup {<<a, b>>} /\ a \in Episode
    BY <1>4, <2>1, <2>3, StaysAcyclic
  <2>4. QED
    BY <1>7, <2>2, <2>3
<1>12. QED
  BY <1>8, <1>9, <1>10, <1>11 DEF TreeInv

LEMMA TreeJoin ==
    ASSUME TreeInv, NEW c \in Call, Join(c), Whereabouts', OneAdds', StoredOnce',
           \A d \in Call \ {c} : pc'[d] = pc[d]
    PROVE  TreeInv'
<1>1. /\ UNCHANGED <<made, episodes, next>> /\ pc[c] = "join"
      /\ pc'[c] = IF linked[c] + 1 = Len(Adds[c]) THEN "done" ELSE "link"
      /\ c \in made /\ Adding(c)
  BY DEF Join, Goto, TreeInv, Whereabouts, InPlace, AddingAt
<1>2. /\ DOMAIN Adds[c] = 1..Len(Adds[c]) /\ Len(Adds[c]) \in Nat /\ linked[c] \in Nat
      /\ linked[c] < Len(Adds[c]) /\ made \subseteq Call
      /\ \A i \in DOMAIN Adds[c] : Adds[c][i] \in Episode
  BY <1>1, AddsTyped, Callers DEF TreeInv, SagaTyped, NotYetJoined, AddingAt
<1>3. linked[c] + 1 \in DOMAIN Adds[c] /\ linked[c] + 1 > linked[c]
  BY <1>2
<1> SUFFICES ASSUME NEW b, b = Now(c) PROVE TreeInv'
  OBVIOUS
<1>4. b = Adds[c][linked[c] + 1] /\ b \in Episode
  BY <1>2, <1>3 DEF Now
<1>5. /\ has' = has \/ has' = has \cup {b}
      /\ previous' = [previous EXCEPT ![c] = b] /\ linked' = [linked EXCEPT ![c] = linked[c] + 1]
  BY DEF Join
<1>6. /\ previous' \in [Call -> Episode \cup {NoEpisode}] /\ linked' \in [Call -> Nat]
      /\ previous'[c] = b /\ linked'[c] = linked[c] + 1
      /\ \A d \in Call \ {c} : previous'[d] = previous[d] /\ linked'[d] = linked[d]
  BY <1>2, <1>4, <1>5 DEF TreeInv, SagaTyped
<1>7. SagaTyped'
  <2>1. ASSUME NEW d \in made, Adding(d), NotYetJoined(d)'
        PROVE  /\ linked'[d] < Len(Adds[d])
               /\ pc'[d] \in Early =>
                     linked'[d] = 0 /\ previous'[d] = NoEpisode
    <3>1. CASE d = c
      BY <1>1, <1>2, <1>6, <2>1, <3>1 DEF NotYetJoined, AddingAt, Early
    <3>2. CASE d # c
      BY <1>2, <1>6, <2>1, <3>2 DEF TreeInv, SagaTyped, NotYetJoined
    <3>3. QED
      BY <3>1, <3>2
  <2>2. QED
    BY <1>1, <1>4, <1>5, <1>6, <2>1 DEF TreeInv, SagaTyped, Adding
<1>8. LinkedIsNew'
  <2> SUFFICES ASSUME NEW d \in made, Adding(d), NotYetJoined(d)', NEW i \in DOMAIN Adds[d],
                      i > linked'[d]
               PROVE  /\ Untouched(Adds[d][i])' /\ previous'[d] # Adds[d][i]
                      /\ \A p \in next : p[2] # Adds[d][i] \/ (pc'[d] = "join" /\ i = linked'[d] + 1)
    BY <1>1 DEF LinkedIsNew, Adding
  <2>1. NotYetJoined(d) /\ d \in Call
    BY <1>1, <1>2 DEF NotYetJoined, AddingAt
  <2>2. i \in Nat /\ (d = c => i > linked[c] + 1)
    BY <1>6, AddsTyped DEF TreeInv
  <2>3. i > linked[d]
    BY <1>2, <1>6, <2>1, <2>2
  <2>4. /\ Untouched(Adds[d][i]) /\ previous[d] # Adds[d][i]
        /\ \A p \in next : p[2] = Adds[d][i] => pc[d] = "join" /\ i = linked[d] + 1
    BY <2>1, <2>3 DEF TreeInv, LinkedIsNew
  <2>5. Adds[d][i] # b
    <3>1. Adds[d][i] = b => d = c /\ i = linked[c] + 1
      BY <1>1, <1>3, <1>4, AddsApart DEF TreeInv
    <3>2. QED
      BY <1>2, <2>2, <3>1
  <2>6. Untouched(Adds[d][i])' /\ previous'[d] # Adds[d][i]
    <3>1. Adds[d][i] \notin has'
      BY <1>5, <2>4, <2>5 DEF Untouched
    <3>2. previous'[d] # Adds[d][i]
      BY <1>6, <2>1, <2>4, <2>5
    <3>3. QED
      BY <1>1, <2>4, <3>1, <3>2 DEF Untouched
  <2>7. QED
    BY <1>2, <1>6, <2>1, <2>2, <2>4, <2>6
<1>9. OnePredecessor' /\ NoCycle'
  BY <1>1 DEF TreeInv, OnePredecessor, NoCycle, HasFirst
<1>10. QED
  BY <1>7, <1>8, <1>9 DEF TreeInv

LEMMA TreeFindPrevious ==
    ASSUME TreeInv, NEW c \in Call, FindPrevious(c), Whereabouts', OneAdds', StoredOnce',
           \A d \in Call \ {c} : pc'[d] = pc[d]
    PROVE  TreeInv'
<1>1. /\ UNCHANGED <<made, episodes, has, next, linked>> /\ pc[c] = "previous" /\ pc'[c] = "link"
      /\ c \in made /\ Adding(c)
  BY DEF FindPrevious, graph, Goto, TreeInv, Whereabouts, InPlace, AddingAt
<1>2. \/ previous' = previous
      \/ \E e \in has \cup {Given[c]} : previous' = [previous EXCEPT ![c] = e]
  BY DEF FindPrevious, Latest, Candidates
<1>3. /\ previous' \in [Call -> Episode \cup {NoEpisode}]
      /\ \A d \in Call \ {c} : previous'[d] = previous[d]
      /\ previous'[c] \in {previous[c], Given[c]} \cup has
  <2>1. Given[c] \in Episode \cup {NoEpisode}
    BY EpisodesAssumption
  <2>2. previous \in [Call -> Episode \cup {NoEpisode}] /\ has \subseteq Episode
    BY DEF TreeInv, SagaTyped
  <2>3. QED
    BY <1>2, <2>1, <2>2
<1>4. made \subseteq Call
  BY Callers DEF TreeInv
<1>5. SagaTyped'
  <2>1. ASSUME NEW d \in made, Adding(d), NotYetJoined(d)'
        PROVE  /\ linked[d] < Len(Adds[d])
               /\ pc'[d] \in Early =>
                     linked[d] = 0 /\ previous'[d] = NoEpisode
    <3>1. CASE d = c
      BY <1>1, <2>1, <3>1 DEF TreeInv, SagaTyped, NotYetJoined, AddingAt, Early
    <3>2. CASE d # c
      BY <1>3, <1>4, <2>1, <3>2 DEF TreeInv, SagaTyped, NotYetJoined
    <3>3. QED
      BY <3>1, <3>2
  <2>2. QED
    BY <1>1, <1>3, <2>1 DEF TreeInv, SagaTyped, Adding
<1>6. LinkedIsNew'
  <2> SUFFICES ASSUME NEW d \in made, Adding(d), NotYetJoined(d)', NEW i \in DOMAIN Adds[d],
                      i > linked[d]
               PROVE  /\ Untouched(Adds[d][i])' /\ previous'[d] # Adds[d][i]
                      /\ \A p \in next : p[2] = Adds[d][i] => pc'[d] = "join" /\ i = linked[d] + 1
    BY <1>1 DEF LinkedIsNew, Adding
  <2>1. NotYetJoined(d) /\ (pc[d] = "join" => pc'[d] = "join")
    BY <1>1, <1>4 DEF NotYetJoined, AddingAt
  <2>2. /\ Untouched(Adds[d][i]) /\ previous[d] # Adds[d][i]
        /\ \A p \in next : p[2] = Adds[d][i] => pc[d] = "join" /\ i = linked[d] + 1
    BY <2>1 DEF TreeInv, LinkedIsNew
  <2>3. Untouched(Adds[d][i])' /\ previous'[d] # Adds[d][i]
    <3>1. d \in Call /\ Adds[d][i] # Given[d]
      <4>1. d \in Call /\ Adds[d][i] \in Added(d)
        BY AddsTyped DEF TreeInv
      <4>2. QED
        BY <4>1, EpisodesAssumption DEF Added
    <3>2. QED
      BY <1>1, <1>3, <2>2, <3>1 DEF Untouched
  <2>4. QED
    BY <2>1, <2>2, <2>3
<1>7. OnePredecessor' /\ NoCycle'
  BY <1>1 DEF TreeInv, OnePredecessor, NoCycle, HasFirst
<1>8. QED
  BY <1>5, <1>6, <1>7 DEF TreeInv

(* An addition is at a step of Episodes, and of no other.                  *)
LEMMA TreeEpisodes ==
    ASSUME TreeInv, NEW c \in Call, EpisodeStep(c), Whereabouts', OneAdds', StoredOnce',
           made' = made,
           \A d \in Call \ {c} : pc'[d] = pc[d]
    PROVE  TreeInv'
<1>1. CASE Link(c) \/ Join(c) \/ FindPrevious(c)
  BY <1>1, TreeLink, TreeJoin, TreeFindPrevious
<1>2. made \subseteq Call /\ pc \in [Call -> Labels] /\ InPlace(c, pc[c]) /\ episodes \subseteq Episode
  BY Callers DEF TreeInv, Whereabouts, SagaTyped
<1>3. ASSUME UNCHANGED <<previous, linked>>, episodes' \subseteq Episode, has' \subseteq has,
             next' \subseteq next, Adding(c) => SameStage(c)
      PROVE  TreeInv'
  <2>1. \A d \in made : Adding(d) => SameStage(d)
    BY <1>2, <1>3 DEF SameStage
  <2>2. QED
    BY <1>3, <2>1, TreeFrame
<1>4. CASE Resolve(c) \/ FindSaga(c) \/ Crash(c)
  <2>1. UNCHANGED <<previous, linked, episodes, has, next>>
    BY <1>4 DEF Resolve, FindSaga, Crash, graph, adding
  <2>2. SameStage(c)
    BY <1>2, <1>4 DEF Resolve, Begins, FindSaga, Crash, Goto, SameStage, AddingAt, Early
  <2>3. QED
    BY <1>2, <1>3, <2>1, <2>2
<1>5. CASE Save(c)
  <2>1. UNCHANGED <<previous, linked, has, next>> /\ episodes' = episodes \cup Added(c)
    BY <1>5 DEF Save, adding
  <2>2. c \in made /\ Added(c) \subseteq Episode
    BY <1>5, AddsTyped DEF Save, TreeInv, Whereabouts
  <2>3. SameStage(c)
    BY <1>2, <1>5 DEF Save, Goto, SameStage, AddingAt, Early
  <2>4. QED
    BY <1>2, <1>3, <2>1, <2>2, <2>3
<1>6. CASE \/ FindEpisode(c) \/ FindMentioned(c) \/ Count(c) \/ Counted(c) \/ DropFacts(c)
           \/ DropEntities(c) \/ DropEpisode(c)
  <2>1. ~ Adding(c)
    BY <1>2, <1>6 DEF FindEpisode, FindMentioned, Count, Counted, DropFacts, DropEntities,
       DropEpisode, InPlace, Removing, Adding
  <2>2. /\ UNCHANGED <<previous, linked>> /\ episodes' \subseteq episodes
        /\ has' \subseteq has /\ next' \subseteq next
    BY <1>6 DEF FindEpisode, FindMentioned, Count, Counted, DropFacts, DropEntities,
       DropEpisode, graph, adding
  <2>3. QED
    BY <1>2, <1>3, <2>1, <2>2
<1>7. CASE StoreEpisodes(c)
  <2>1. UNCHANGED <<previous, linked, has, next>> /\ episodes' = episodes \cup Added(c)
    BY <1>7 DEF StoreEpisodes, adding
  <2>2. c \in made /\ Added(c) \subseteq Episode
    BY <1>7, AddsTyped DEF StoreEpisodes, Begins, TreeInv
  <2>3. SameStage(c)
    BY <1>2, <1>7 DEF StoreEpisodes, Begins, Goto, SameStage, Early
  <2>4. QED
    BY <1>2, <1>3, <2>1, <2>2, <2>3
<1>8. QED
  BY <1>1, <1>4, <1>5, <1>6, <1>7 DEF EpisodeStep

LEMMA TreeNext == TreeInv /\ [Next]_vars => TreeInv'
<1> SUFFICES ASSUME TreeInv, [Next]_vars PROVE TreeInv'
  OBVIOUS
<1>1. /\ Whereabouts /\ Whereabouts' /\ OneAdds' /\ StoredOnce' /\ made' = made
      /\ made \subseteq Call /\ episodes \subseteq Episode
  BY StepMoves, OneAddsKept, StoredOnceNext, Callers DEF TreeInv, SagaTyped
<1>2. CASE UNCHANGED vars
  <2>1. UNCHANGED <<pc, previous, linked, episodes, has, next>>
    BY <1>2 DEF vars, episodeVars, ends, graph, adding
  <2>2. QED
    BY <1>1, <2>1, TreeFrame DEF SameStage
<1>3. ASSUME NEW c \in Call, EpisodeStep(c) PROVE TreeInv'
  BY <1>1, <1>3, EpisodeMoves, MovesWhereabouts, TreeEpisodes
<1>4. ASSUME NEW c \in Call, CommunityStep(c) PROVE TreeInv'
  <2>1. UNCHANGED local /\ ~ Adding(c) /\ \A d \in Call \ {c} : pc'[d] = pc[d]
    BY <1>1, <1>4, CommunityMoves, MovesWhereabouts, Nobody
  <2>2. UNCHANGED <<previous, linked, episodes, has, next>>
    BY <2>1 DEF local, graph, adding
  <2>3. \A d \in made : Adding(d) => SameStage(d)
    BY <1>1, <2>1 DEF SameStage
  <2>4. QED
    BY <1>1, <2>2, <2>3, TreeFrame
<1>5. QED
  BY <1>2, <1>3, <1>4 DEF Next, EpisodeStepHere

LEMMA TreeInit == Init => TreeInv
<1> SUFFICES ASSUME Init PROVE TreeInv
  OBVIOUS
<1>1. /\ made \in Scenarios /\ pc = [c \in Call |-> "start"] /\ episodes = {} /\ has = {}
      /\ next = {} /\ previous = [c \in Call |-> NoEpisode] /\ linked = [c \in Call |-> 0]
  BY DEF Init, EpisodesInit
<1>2. Whereabouts
  BY <1>1, EpisodesAssumption DEF Whereabouts, InPlace, Labels, AddingAt, Removing,
     BuildingAt, Reading, UpdatingAt
<1>3. SagaTyped
  <2>1. \A c \in made : Adding(c) => Len(Adds[c]) > 0 /\ c \in Call
    BY <1>2, AddsTyped
  <2>2. QED
    BY <1>1, <2>1 DEF SagaTyped
<1>4. LinkedIsNew
  <2>1. \A c \in made : \A i \in DOMAIN Adds[c] : Adds[c][i] \in Episode
    BY <1>2, AddsTyped
  <2>2. QED
    BY <1>1, <2>1, Callers, <1>2, EpisodesAssumption DEF LinkedIsNew, Untouched
<1>5. OnePredecessor /\ NoCycle /\ OneAdds /\ StoredOnce
  BY <1>1, <1>2, Callers DEF OnePredecessor, NoCycle, HasFirst, OneAdds, Underway, StoredOnce
<1>6. QED
  BY <1>2, <1>3, <1>4, <1>5 DEF TreeInv

LEMMA TreeImplies == TreeInv => SagaIsATree
<1> SUFFICES ASSUME TreeInv PROVE SagaIsATree
  OBVIOUS
<1>1. ASSUME NEW e \in Episode PROVE Cardinality(Before(e)) <= 1
  <2>1. \A x, y \in Before(e) : x = y
    BY DEF Before, TreeInv, OnePredecessor
  <2>2. CASE Before(e) = {}
    BY <2>2, FS_EmptySet
  <2>3. CASE Before(e) # {}
    <3>1. PICK x : Before(e) = {x}
      BY <2>1, <2>3
    <3>2. Cardinality(Before(e)) = 1
      BY <3>1, FS_Singleton
    <3>3. QED
      BY <3>2
  <2>4. QED
    BY <2>2, <2>3
<1>2. ASSUME NEW S \in SUBSET Episode, S # {}
      PROVE  \E e \in S : Before(e) \cap S = {}
  <2>1. PICK e \in S : \A p \in next : p[2] = e => p[1] \notin S
    BY <1>2 DEF TreeInv, NoCycle, HasFirst
  <2>2. QED
    BY <2>1 DEF Before
<1>3. QED
  BY <1>1, <1>2 DEF SagaIsATree

(* As long as no addition was late or given another than the last, none    *)
(* was cut short and nothing is removed, each links to the last of the     *)
(* saga.                                                                   *)
Last(c) ==
    IF has = {} THEN previous[c] = NoEpisode
    ELSE previous[c] \in has /\ \A e \in has : ValidAt[e] <= ValidAt[previous[c]]
Chain == {p \in Episode \X Episode : Follows(p[1], p[2])}
Joining == {c \in made : pc[c] = "join" /\ has # {}}
Sound ==
    /\ has \subseteq episodes /\ \A d, e \in has : ValidAt[d] = ValidAt[e] => d = e
    /\ \A c \in made : pc[c] \in Linking => Added(c) \subseteq episodes
    /\ \A c \in made : pc[c] \in {"link", "join"} => Last(c)
    /\ next = Chain \cup {<<previous[c], Now(c)>> : c \in Joining}
Peaceful == ~ late /\ crashes = 0 /\ Removals = {}
LinkInv == /\ crashes \in Nat /\ late \in BOOLEAN
           /\ Peaceful => Sound

LEMMA Lone ==
    ASSUME Whereabouts, OneAdds, NEW c \in Call, pc[c] \in AddingAt
    PROVE  c \in made /\ Adding(c) /\ Underway(c) /\ \A d \in made \ {c} : pc[d] \notin AddingAt
<1>1. c \in made /\ Adding(c) /\ Underway(c)
  BY DEF Whereabouts, InPlace, AddingAt, Underway, Over
<1>2. ASSUME NEW d \in made \ {c}, pc[d] \in AddingAt PROVE FALSE
  <2>1. Adding(d) /\ Underway(d)
    BY <1>2, Callers DEF Whereabouts, InPlace, AddingAt, Underway, Over
  <2>2. QED
    BY <1>1, <2>1 DEF OneAdds
<1>3. QED
  BY <1>1, <1>2

(* Steps that leave the saga alone.                                        *)
LEMMA SoundFrame ==
    ASSUME Sound, made' = made, UNCHANGED <<has, next, previous, linked>>, episodes \subseteq episodes',
           \A d \in made : \/ pc'[d] = pc[d]
                           \/ /\ pc[d] \notin {"link", "join"} /\ pc'[d] \notin {"link", "join"}
                              /\ pc'[d] \in Linking => Added(d) \subseteq episodes'
    PROVE  Sound'
<1>1. Chain' = Chain /\ Joining' = Joining
  BY DEF Chain, Joining, Follows
<1>2. \A c \in made : Now(c)' = Now(c)
  BY DEF Now
<1>3. next' = Chain' \cup {<<previous'[c], Now(c)'>> : c \in Joining'}
  BY <1>1, <1>2 DEF Sound, Joining
<1>4. \A c \in made : pc'[c] \in {"link", "join"} => Last(c)'
  BY DEF Sound, Last
<1>5. \A c \in made : pc'[c] \in Linking => Added(c) \subseteq episodes'
  BY DEF Sound
<1>6. has' \subseteq episodes' /\ \A d, e \in has' : ValidAt[d] = ValidAt[e] => d = e
  BY DEF Sound
<1>7. QED
  BY <1>3, <1>4, <1>5, <1>6 DEF Sound, Added

LEMMA SoundLink ==
    ASSUME TreeInv, OneAdds, Sound, NEW c \in Call, Link(c), made' = made,
           \A d \in Call \ {c} : pc'[d] = pc[d]
    PROVE  Sound'
<1>1. /\ pc[c] = "link" /\ pc'[c] = "join" /\ UNCHANGED <<episodes, has, previous, linked>>
  BY DEF Link, Goto, adding, TreeInv, Whereabouts
<1>2. c \in made /\ Adding(c) /\ made \subseteq Call /\ \A d \in made \ {c} : pc[d] \notin AddingAt
  BY <1>1, Lone, Callers DEF TreeInv, AddingAt
<1>3. Chain' = Chain
  BY <1>1 DEF Chain, Follows
<1>4. Joining = {} /\ Joining' = IF has = {} THEN {} ELSE {c}
  BY <1>1, <1>2 DEF Joining, AddingAt
<1>5. Now(c) \in Added(c) /\ Now(c)' = Now(c)
  <2>1. linked[c] \in Nat /\ linked[c] < Len(Adds[c]) /\ DOMAIN Adds[c] = 1..Len(Adds[c]) /\ Len(Adds[c]) \in Nat
    BY <1>1, <1>2, AddsTyped DEF TreeInv, SagaTyped, NotYetJoined, AddingAt
  <2>2. linked[c] + 1 \in DOMAIN Adds[c]
    BY <2>1
  <2>3. QED
    BY <1>1, <1>2, <2>2, AddsTyped DEF TreeInv, Now
<1>6. Now(c) \in episodes /\ Last(c)
  BY <1>1, <1>2, <1>5 DEF Sound, AddingAt, Linking
<1>7. next' = Chain' \cup {<<previous'[d], Now(d)'>> : d \in Joining'}
  <2>1. CASE has = {}
    <3>1. previous[c] \notin episodes
      BY <1>6, <2>1, EpisodesAssumption DEF Last, TreeInv, SagaTyped
    <3>2. next' = next
      BY <3>1 DEF Link
    <3>3. QED
      BY <1>3, <1>4, <2>1, <3>2 DEF Sound
  <2>2. CASE has # {}
    <3>1. previous[c] \in episodes
      BY <1>6, <2>2 DEF Last, Sound
    <3>2. next' = next \cup {<<previous[c], Now(c)>>}
      BY <1>6, <3>1 DEF Link
    <3>3. next = Chain
      BY <1>4 DEF Sound
    <3>4. {<<previous'[d], Now(d)'>> : d \in Joining'} = {<<previous[c], Now(c)>>}
      BY <1>1, <1>4, <1>5, <2>2
    <3>5. QED
      BY <1>3, <3>2, <3>3, <3>4
  <2>3. QED
    BY <2>1, <2>2
<1>8. \A d \in made : pc'[d] \in {"link", "join"} => Last(d)'
  BY <1>1, <1>2, <1>6 DEF Last, AddingAt
<1>9. \A d \in made : pc'[d] \in Linking => Added(d) \subseteq episodes
  BY <1>1, <1>2 DEF Sound, AddingAt, Linking
<1>10. QED
  BY <1>1, <1>7, <1>8, <1>9 DEF Sound, Added

(* What comes last extends the chain by one.                               *)
LEMMA ChainGrows ==
    ASSUME has \subseteq Episode, NEW b \in Episode, has' = has \cup {b},
           \A e \in has : ValidAt[e] < ValidAt[b],
           \A d, e \in has : ValidAt[d] = ValidAt[e] => d = e,
           NEW a, has # {} => a \in has /\ \A e \in has : ValidAt[e] <= ValidAt[a]
    PROVE  Chain' = Chain \cup {<<a, b>> : x \in has}
<1>1. \A e \in has' : ValidAt[e] \in Nat
  BY EpisodesAssumption
<1>2. ASSUME NEW p \in Chain' PROVE p \in Chain \cup {<<a, b>> : x \in has}
  <2>1. p \in Episode \X Episode /\ Follows(p[1], p[2])'
    BY <1>2 DEF Chain
  <2>2. /\ p[1] \in has' /\ p[2] \in has' /\ ValidAt[p[1]] < ValidAt[p[2]]
        /\ \A x \in has' : ~ (ValidAt[p[1]] < ValidAt[x] /\ ValidAt[x] < ValidAt[p[2]])
    BY <2>1 DEF Follows
  <2>3. p[1] \in has
    BY <1>1, <2>2
  <2>4. CASE p[2] = b
    <3>1. a \in has /\ ~ ValidAt[p[1]] < ValidAt[a] /\ ValidAt[p[1]] <= ValidAt[a]
      BY <2>2, <2>3, <2>4
    <3>2. p[1] = a
      BY <1>1, <2>3, <3>1
    <3>3. QED
      BY <2>1, <2>3, <2>4, <3>2
  <2>5. CASE p[2] # b
    BY <2>1, <2>2, <2>3, <2>5 DEF Chain, Follows
  <2>6. QED
    BY <2>4, <2>5
<1>3. ASSUME NEW p \in Chain PROVE p \in Chain'
  <2>1. /\ p \in Episode \X Episode /\ p[1] \in has /\ p[2] \in has /\ ValidAt[p[1]] < ValidAt[p[2]]
        /\ \A x \in has : ~ (ValidAt[p[1]] < ValidAt[x] /\ ValidAt[x] < ValidAt[p[2]])
    BY <1>3 DEF Chain, Follows
  <2>2. ~ ValidAt[b] < ValidAt[p[2]]
    BY <1>1, <2>1
  <2>3. QED
    BY <2>1, <2>2 DEF Chain, Follows
<1>4. ASSUME has # {} PROVE <<a, b>> \in Chain'
  <2>1. ~ \E x \in has' : ValidAt[a] < ValidAt[x] /\ ValidAt[x] < ValidAt[b]
    BY <1>1, <1>4
  <2>2. QED
    BY <1>4, <2>1 DEF Chain, Follows
<1>5. QED
  BY <1>2, <1>3, <1>4

LEMMA SoundJoin ==
    ASSUME TreeInv, OneAdds, Sound, NEW c \in Call, Join(c), ~ late', made' = made,
           \A d \in Call \ {c} : pc'[d] = pc[d]
    PROVE  Sound'
<1>1. /\ pc[c] = "join" /\ pc'[c] \in {"done", "link"} /\ UNCHANGED <<episodes, next>>
      /\ \A e \in has : ~ ValidAt[Now(c)] <= ValidAt[e]
  BY DEF Join, Goto, TreeInv, Whereabouts
<1>2. c \in made /\ Adding(c) /\ made \subseteq Call /\ \A d \in made \ {c} : pc[d] \notin AddingAt
  BY <1>1, Lone, Callers DEF TreeInv, AddingAt
<1>3. Now(c) \in Added(c) /\ Added(c) \subseteq Episode
  <2>1. linked[c] \in Nat /\ linked[c] < Len(Adds[c]) /\ DOMAIN Adds[c] = 1..Len(Adds[c]) /\ Len(Adds[c]) \in Nat
    BY <1>1, <1>2, AddsTyped DEF TreeInv, SagaTyped, NotYetJoined, AddingAt
  <2>2. linked[c] + 1 \in DOMAIN Adds[c]
    BY <2>1
  <2>3. QED
    BY <1>1, <1>2, <2>2, AddsTyped DEF TreeInv, Now
<1> SUFFICES ASSUME NEW a, a = previous[c], NEW b, b = Now(c) PROVE Sound'
  OBVIOUS
<1>4. b \in episodes /\ b \in Episode /\ Last(c)
  BY <1>1, <1>2, <1>3 DEF Sound, AddingAt, Linking
<1>5. has' = has \cup {b} /\ previous'[c] = b /\ has \subseteq Episode
  BY <1>4 DEF Join, TreeInv, SagaTyped
<1>6. \A e \in has : ValidAt[e] \in Nat /\ ValidAt[b] \in Nat /\ ValidAt[e] < ValidAt[b]
  BY <1>1, <1>4, <1>5, EpisodesAssumption
<1>7. Chain' = Chain \cup {<<a, b>> : x \in has}
  <2>1. has # {} => a \in has /\ \A e \in has : ValidAt[e] <= ValidAt[a]
    BY <1>4 DEF Last
  <2>2. \A d, e \in has : ValidAt[d] = ValidAt[e] => d = e
    BY DEF Sound
  <2>3. QED
    BY <1>4, <1>5, <1>6, <2>1, <2>2, ChainGrows
<1>8. Joining = (IF has = {} THEN {} ELSE {c}) /\ Joining' = {}
  BY <1>1, <1>2 DEF Joining, AddingAt
<1>9. next' = Chain' \cup {<<previous'[d], Now(d)'>> : d \in Joining'}
  <2>1. {<<previous[d], Now(d)>> : d \in Joining} = {<<a, b>> : x \in has}
    BY <1>8
  <2>2. next = Chain'
    BY <1>7, <2>1 DEF Sound
  <2>3. QED
    BY <1>1, <1>8, <2>2
<1>10. \A d \in made : pc'[d] \in {"link", "join"} => Last(d)'
  <2>1. has' # {} /\ b \in has' /\ \A e \in has' : ValidAt[e] <= ValidAt[b]
    BY <1>4, <1>5, <1>6, EpisodesAssumption
  <2>2. Last(c)'
    BY <1>5, <2>1 DEF Last
  <2>3. QED
    BY <1>2, <2>2 DEF AddingAt
<1>11. \A d \in made : pc'[d] \in Linking => Added(d) \subseteq episodes
  BY <1>1, <1>2 DEF Sound, AddingAt, Linking
<1>12. has' \subseteq episodes /\ \A d, e \in has' : ValidAt[d] = ValidAt[e] => d = e
  BY <1>4, <1>5, <1>6 DEF Sound
<1>13. QED
  BY <1>1, <1>9, <1>10, <1>11, <1>12 DEF Sound, Added

LEMMA SoundFindPrevious ==
    ASSUME TreeInv, OneAdds, Sound, NEW c \in Call, FindPrevious(c), ~ late', made' = made,
           \A d \in Call \ {c} : pc'[d] = pc[d]
    PROVE  Sound'
<1>1. pc[c] = "previous" /\ pc'[c] = "link" /\ UNCHANGED <<episodes, has, next>>
  BY DEF FindPrevious, graph, Goto, TreeInv, Whereabouts
<1>2. c \in made /\ Adding(c) /\ made \subseteq Call /\ \A d \in made \ {c} : pc[d] \notin AddingAt
  BY <1>1, Lone, Callers DEF TreeInv, AddingAt
<1>3. Candidates(c) = has
  <2>1. linked[c] = 0 /\ previous[c] = NoEpisode
    BY <1>1, <1>2 DEF TreeInv, SagaTyped, NotYetJoined, AddingAt, Early
  <2>2. ASSUME NEW e \in Added(c) PROVE e \notin has
    <3>1. PICK i \in DOMAIN Adds[c] : e = Adds[c][i]
      BY <2>2 DEF Added, Range
    <3>2. i > linked[c]
      BY <1>2, <2>1, AddsTyped DEF TreeInv
    <3>3. QED
      BY <1>1, <1>2, <3>1, <3>2 DEF TreeInv, LinkedIsNew, NotYetJoined, AddingAt, Early, Untouched
  <2>3. QED
    BY <2>2 DEF Candidates
<1>4. Last(c)'
  <2>4. IsGiven(c) => Given[c] \in Latest(has)
    BY <1>3 DEF FindPrevious
  <2>1. CASE has = {}
    <3>0. ~ IsGiven(c)
      BY <2>1, <2>4 DEF Latest
    <3>1. previous' = previous /\ previous[c] = NoEpisode
      BY <1>1, <1>2, <1>3, <2>1, <3>0 DEF FindPrevious, TreeInv, SagaTyped, NotYetJoined, AddingAt, Early
    <3>2. QED
      BY <1>1, <2>1, <3>1 DEF Last
  <2>2. CASE has # {}
    <3>1. PICK e \in Latest(has) : previous' = [previous EXCEPT ![c] = e]
      BY <1>3, <2>2, <2>4 DEF FindPrevious
    <3>2. previous'[c] = e /\ e \in has /\ \A d \in has : ValidAt[d] <= ValidAt[e]
      BY <3>1 DEF TreeInv, SagaTyped, Latest
    <3>3. QED
      BY <1>1, <2>2, <3>2 DEF Last
  <2>3. QED
    BY <2>1, <2>2
<1>5. Chain' = Chain /\ Joining = {} /\ Joining' = {}
  BY <1>1, <1>2 DEF Chain, Follows, Joining, AddingAt
<1>6. next' = Chain' \cup {<<previous'[d], Now(d)'>> : d \in Joining'}
  BY <1>1, <1>5 DEF Sound
<1>7. \A d \in made : pc'[d] \in {"link", "join"} => Last(d)'
  BY <1>1, <1>2, <1>4 DEF AddingAt
<1>8. \A d \in made : pc'[d] \in Linking => Added(d) \subseteq episodes
  BY <1>1, <1>2 DEF Sound, AddingAt, Linking
<1>9. QED
  BY <1>1, <1>6, <1>7, <1>8 DEF Sound, Added

LEMMA SoundEpisodes ==
    ASSUME TreeInv, OneAdds, Sound, NEW c \in Call, EpisodeStep(c), made' = made, ~ late', crashes \in Nat,
           crashes' = 0, Removals = {}, \A d \in Call \ {c} : pc'[d] = pc[d]
    PROVE  Sound'
<1>1. CASE Link(c) \/ Join(c) \/ FindPrevious(c)
  BY <1>1, SoundLink, SoundJoin, SoundFindPrevious
<1>2. made \subseteq Call /\ InPlace(c, pc[c]) /\ pc \in [Call -> Labels] /\ (pc[c] # "start" => c \in made)
  BY Callers DEF TreeInv, Whereabouts
<1>3. ~ Crash(c)
  BY DEF Crash
<1>4. CASE \/ FindEpisode(c) \/ FindMentioned(c) \/ Count(c) \/ Counted(c) \/ DropFacts(c)
           \/ DropEntities(c) \/ DropEpisode(c)
  <2>1. c \in Removals
    BY <1>2, <1>4 DEF FindEpisode, FindMentioned, Count, Counted, DropFacts, DropEntities,
       DropEpisode, Begins, InPlace, Removing, Removals
  <2>2. QED
    BY <2>1
<1>5. CASE Resolve(c)
  <2>1. /\ UNCHANGED <<episodes, has, next, previous, linked>>
        /\ pc[c] \in {"start", "resolve"} /\ pc'[c] = "save"
    BY <1>2, <1>5 DEF Resolve, Begins, Goto, graph
  <2>2. QED
    BY <1>2, <2>1, SoundFrame DEF Linking
<1>6. CASE Save(c)
  <2>1. UNCHANGED <<has, next, previous, linked>> /\ episodes' = episodes \cup Added(c)
    BY <1>6 DEF Save, adding
  <2>2. pc[c] = "save" /\ pc'[c] \in {"saga", "done"}
    BY <1>2, <1>6 DEF Save, Goto
  <2>3. QED
    BY <1>2, <2>1, <2>2, SoundFrame DEF Linking
<1>7. CASE FindSaga(c)
  <2>1. UNCHANGED <<episodes, has, next, previous, linked>> /\ pc[c] = "saga" /\ pc'[c] = "previous"
    BY <1>2, <1>7 DEF FindSaga, Goto, adding
  <2>2. Added(c) \subseteq episodes
    BY <1>2, <2>1 DEF Sound, AddingAt, Linking
  <2>3. QED
    BY <1>2, <2>1, <2>2, SoundFrame DEF Linking
<1>8. CASE StoreEpisodes(c)
  <2>1. /\ UNCHANGED <<has, next, previous, linked>> /\ episodes' = episodes \cup Added(c)
        /\ pc[c] = "start" /\ pc'[c] = "resolve"
    BY <1>2, <1>8 DEF StoreEpisodes, Begins, Goto, adding
  <2>2. QED
    BY <1>2, <2>1, SoundFrame DEF Linking
<1>9. QED
  BY <1>1, <1>3, <1>4, <1>5, <1>6, <1>7, <1>8 DEF EpisodeStep

LEMMA Worsens ==
    ASSUME NEW c \in Call, EpisodeStep(c), crashes \in Nat, late \in BOOLEAN
    PROVE  crashes' \in Nat /\ late' \in BOOLEAN /\ crashes' >= crashes /\ (late => late')
<1>1. UNCHANGED <<crashes, late>> \/ FindPrevious(c) \/ Join(c) \/ Crash(c)
  BY DEF EpisodeStep, StoreEpisodes, Resolve, Save, FindSaga, Link, FindEpisode, FindMentioned,
     Count, Counted, DropFacts, DropEntities, DropEpisode
<1>2. CASE FindPrevious(c) \/ Join(c)
  <2>1. crashes' = crashes
    BY <1>2 DEF FindPrevious, Join
  <2>2. late' \in BOOLEAN /\ (late => late')
    BY <1>2, Zenon DEF FindPrevious, Join
  <2>3. QED
    BY <2>1, <2>2
<1>3. CASE Crash(c)
  BY <1>3 DEF Crash
<1>4. QED
  BY <1>1, <1>2, <1>3

LEMMA LinkNext == TreeInv /\ LinkInv /\ [Next]_vars => LinkInv'
<1> SUFFICES ASSUME TreeInv, LinkInv, [Next]_vars PROVE LinkInv'
  OBVIOUS
<1>1. Whereabouts /\ made' = made /\ made \subseteq Call /\ OneAdds /\ Removals' = Removals
  BY StepMoves, Callers DEF TreeInv, Removals
<1>2. ASSUME crashes' = crashes, late' = late, Sound => Sound' PROVE LinkInv'
  BY <1>1, <1>2 DEF LinkInv, Peaceful
<1>3. CASE UNCHANGED vars
  <2>1. UNCHANGED <<pc, late, crashes, previous, linked, episodes, has, next>>
    BY <1>3 DEF vars, episodeVars, ends, graph, adding
  <2>2. Sound => Sound'
    BY <1>1, <2>1, SoundFrame
  <2>3. QED
    BY <1>2, <2>1, <2>2
<1>4. ASSUME NEW c \in Call, EpisodeStep(c) PROVE LinkInv'
  <2>1. Moves(c) /\ \A d \in Call \ {c} : pc'[d] = pc[d]
    BY <1>1, <1>4, EpisodeMoves, MovesWhereabouts
  <2>3. crashes' \in Nat /\ late' \in BOOLEAN /\ crashes' >= crashes /\ (late => late') /\ crashes \in Nat
    BY <1>4, Worsens DEF LinkInv
  <2>4. Peaceful' => Peaceful /\ ~ late' /\ crashes' = 0 /\ Removals = {}
    BY <1>1, <2>3 DEF Peaceful
  <2>5. Peaceful' => Sound'
    BY <1>1, <1>4, <2>1, <2>3, <2>4, SoundEpisodes DEF LinkInv
  <2>6. QED
    BY <2>3, <2>5 DEF LinkInv
<1>5. ASSUME NEW c \in Call, CommunityStep(c) PROVE LinkInv'
  <2>1. Moves(c) /\ UNCHANGED local /\ ~ Adding(c) /\ \A d \in Call \ {c} : pc'[d] = pc[d]
    BY <1>1, <1>5, CommunityMoves, MovesWhereabouts, Nobody
  <2>2. UNCHANGED <<late, crashes, previous, linked, episodes, has, next>>
    BY <2>1 DEF local, graph, adding
  <2>4. c \in made => pc[c] \notin AddingAt /\ pc'[c] \notin AddingAt
    BY <1>1, <2>1, MovesWhereabouts DEF Whereabouts, InPlace, Adding
  <2>5. Sound => Sound'
    <3>1. \A d \in made : \/ pc'[d] = pc[d]
                          \/ pc[d] \notin AddingAt /\ pc'[d] \notin AddingAt
      BY <1>1, <2>1, <2>4
    <3>2. QED
      BY <1>1, <2>2, <3>1, SoundFrame DEF AddingAt, Linking
  <2>6. QED
    BY <1>2, <2>2, <2>5
<1>6. QED
  BY <1>3, <1>4, <1>5 DEF Next, EpisodeStepHere

LEMMA LinkInit == Init => LinkInv
<1> SUFFICES ASSUME Init PROVE LinkInv
  OBVIOUS
<1>1. /\ made \in Scenarios /\ pc = [c \in Call |-> "start"] /\ episodes = {} /\ has = {} /\ next = {}
      /\ late = FALSE /\ crashes = 0
  BY DEF Init, EpisodesInit
<1>2. made \subseteq Call
  BY <1>1, EpisodesAssumption
<1>4. Chain = {} /\ Joining = {}
  BY <1>1 DEF Chain, Joining, Follows
<1>5. Sound
  BY <1>1, <1>2, <1>4 DEF Sound, Linking
<1>6. QED
  BY <1>1, <1>5 DEF LinkInv

(* When all is calm nobody is about to join.                               *)
LEMMA LinkImplies == LinkInv => SagaIsLinked
<1> SUFFICES ASSUME LinkInv, Calm, Peaceful PROVE next = Chain
  BY DEF SagaIsLinked, Peaceful, Chain
<1>1. Joining = {}
  BY DEF Calm, Joining, Underway, Over
<1>2. QED
  BY <1>1 DEF LinkInv, Sound

(* SagaInOrder: each episode is linked to the one that was last, or to the *)
(* one its call was given, and additions follow one another.  NEXT_EPISODE *)
(* gives no episode two before it and closes no cycle, whoever dies and    *)
(* whatever is given or removed; and joins consecutive episodes unless one *)
(* was late, given another than the last, removed or cut short.            *)
THEOREM SagaStaysInOrder == Spec => []SagaInOrder
<1>1. Init => TreeInv /\ LinkInv
  BY TreeInit, LinkInit
<1>2. TreeInv /\ LinkInv /\ [Next]_vars => TreeInv' /\ LinkInv'
  BY TreeNext, LinkNext
<1>3. TreeInv /\ LinkInv => SagaInOrder
  BY TreeImplies, LinkImplies DEF SagaInOrder
<1>4. QED
  BY <1>1, <1>2, <1>3, PTL DEF Spec

-----------------------------------------------------------------------------
(* What a removal will delete, and why it may.                             *)
Typed ==
    /\ episodes \subseteq Episode /\ entities \subseteq Entity
    /\ mentions \subseteq Episode \X Entity
    /\ doomed \in [Call -> SUBSET (Entity \cup Fact)]
    /\ uncounted \in [Call -> SUBSET Entity] /\ counted \in [Call -> SUBSET (Episode \X Entity)]

(* A mention that is there, or was when a removal looked, is not added     *)
(* again.                                                                  *)
AddedOnce ==
    \A m \in mentions \cup UNION {counted[c] : c \in Call} :
       \A d \in made : m[1] \in Added(d) => pc[d] \notin {"start", "resolve", "save"}

Twice(c) == \E d \in Removals \ {c} : Gone(d) = Gone(c)
Looked == {"count", "facts", "entities"}

(* An entity that a removal has counted, or will, is mentioned by its own  *)
(* episode and by such as came later.                                      *)
Exact(c, n) == \A m \in mentions : m[2] = n => m[1] = Gone(c) \/ m \notin counted[c]
Foreign(c, n) == \A m \in mentions : m[2] = n => m \notin counted[c]

TakesItsOwn ==
    \A c \in Removals : ~ Twice(c) =>
        /\ pc[c] = "mentioned" => doomed[c] \subseteq Fact
        /\ pc[c] \in Looked => \A n \in doomed[c] \cap Entity : Exact(c, n)
        /\ pc[c] = "count" => \A n \in uncounted[c] :
              <<Gone(c), n>> \in mentions \/ Foreign(c, n)

RemovalInv == Whereabouts /\ Typed /\ AddedOnce /\ TakesItsOwn

(* What steps that do not choose what to remove may do.                    *)
StageKept(c) ==
    /\ pc'[c] = "mentioned" => pc[c] = "mentioned"
    /\ pc'[c] \in Looked => pc[c] \in Looked
    /\ pc'[c] = "count" => pc[c] = "count"

LEMMA OwnKept ==
    ASSUME RemovalInv, UNCHANGED <<made, removing>>,
           \A c \in Call : StageKept(c),
           \A m \in mentions' \ mentions : \A c \in Call : m \notin counted[c],
           \A c \in Removals : ~ Twice(c) /\ pc[c] = "count" =>
              \A n : <<Gone(c), n>> \in mentions \ mentions' =>
                 \A m \in mentions' : m[2] # n
    PROVE  TakesItsOwn'
<1>1. UNCHANGED <<doomed, uncounted, counted>>
  BY DEF removing
<1>2. Removals' = Removals /\ Removals \subseteq Call
  BY EpisodesAssumption DEF Removals, RemovalInv, Whereabouts
<1> SUFFICES ASSUME NEW c \in Removals, ~ Twice(c)
             PROVE  /\ pc'[c] = "mentioned" => doomed[c] \subseteq Fact
                    /\ pc'[c] \in Looked => \A n \in doomed[c] \cap Entity : Exact(c, n)'
                    /\ pc'[c] = "count" => \A n \in uncounted[c] :
                          <<Gone(c), n>> \in mentions' \/ Foreign(c, n)'
  BY <1>1, <1>2 DEF TakesItsOwn, Twice, Looked, Gone
<1>3. StageKept(c)
  BY <1>2
<1>4. ASSUME NEW n \in doomed[c] \cap Entity, pc'[c] \in Looked PROVE Exact(c, n)'
  <2>1. Exact(c, n)
    BY <1>3, <1>4 DEF StageKept, RemovalInv, TakesItsOwn
  <2>2. QED
    BY <1>1, <1>2, <2>1 DEF Exact, Gone
<1>5. ASSUME NEW n \in uncounted[c], pc'[c] = "count"
      PROVE  <<Gone(c), n>> \in mentions' \/ Foreign(c, n)'
  <2>1. pc[c] = "count" /\ (<<Gone(c), n>> \in mentions \/ Foreign(c, n))
    BY <1>3, <1>5 DEF StageKept, RemovalInv, TakesItsOwn
  <2>2. CASE Foreign(c, n)
    BY <1>1, <1>2, <2>2 DEF Foreign
  <2>3. CASE <<Gone(c), n>> \in mentions
    BY <2>1, <2>3 DEF Foreign
  <2>4. QED
    BY <2>1, <2>2, <2>3
<1>6. pc'[c] = "mentioned" => doomed[c] \subseteq Fact
  BY <1>3 DEF StageKept, RemovalInv, TakesItsOwn
<1>7. QED
  BY <1>4, <1>5, <1>6

(* Steps that leave the mentions alone.                                    *)
LEMMA FrameKept ==
    ASSUME RemovalInv, Whereabouts', made' = made, UNCHANGED <<entities, mentions, removing>>,
           episodes' \subseteq Episode, \A c \in Call : StageKept(c),
           \A c \in Call : pc[c] \notin {"start", "resolve", "save"} => pc'[c] \notin {"start", "resolve", "save"}
    PROVE  RemovalInv'
<1>1. TakesItsOwn'
  BY OwnKept
<1>2. made \subseteq Call
  BY EpisodesAssumption DEF RemovalInv, Whereabouts
<1>3. Typed' /\ AddedOnce'
  BY <1>2 DEF RemovalInv, Typed, AddedOnce, removing, Added
<1>4. QED
  BY <1>1, <1>3 DEF RemovalInv

LEMMA SaveKept ==
    ASSUME RemovalInv, NEW c \in Call, Save(c), Whereabouts', \A d \in Call : d # c => pc'[d] = pc[d],
           \A d \in Call : pc[d] \notin {"start", "resolve", "save"} => pc'[d] \notin {"start", "resolve", "save"}
    PROVE  RemovalInv'
<1>1. /\ c \in made /\ pc[c] = "save" /\ UNCHANGED <<made, doomed, uncounted, counted>>
      /\ pc'[c] \in {"saga", "done"}
  BY DEF Save, removing, RemovalInv, Whereabouts, Goto
<1>2. /\ episodes' = episodes \cup Added(c)
      /\ entities' = entities \cup UNION {Mentions[e] : e \in Added(c)}
      /\ mentions' = mentions \cup UNION {{e} \X Mentions[e] : e \in Added(c)}
  BY DEF Save
<1>3. made \subseteq Call /\ Added(c) \subseteq Episode
  BY EpisodesAssumption DEF RemovalInv, Whereabouts, Added, Range
<1>4. \A e \in Added(c) : Mentions[e] \subseteq Entity
  BY <1>3, EpisodesAssumption
<1>5. \A m \in mentions' \ mentions : m[1] \in Added(c) /\ m \in Episode \X Entity
  BY <1>2, <1>3, <1>4
<1>6. Typed'
  BY <1>1, <1>2, <1>3, <1>4, <1>5 DEF RemovalInv, Typed
<1>7. AddedOnce'
  <2>1. ASSUME NEW e \in Added(c), NEW d \in made, e \in Added(d) PROVE d = c
    BY <1>1, <2>1, EpisodesAssumption DEF RemovalInv, Whereabouts, Added
  <2> SUFFICES ASSUME NEW m \in mentions' \cup UNION {counted[d] : d \in Call},
                      NEW d \in made, m[1] \in Added(d)
               PROVE  pc'[d] \notin {"start", "resolve", "save"}
    BY <1>1 DEF AddedOnce, Added
  <2>2. CASE m \in mentions \cup UNION {counted[x] : x \in Call}
    BY <1>3, <2>2 DEF RemovalInv, AddedOnce
  <2>3. CASE m \in mentions' \ mentions
    <3>1. d = c
      BY <1>5, <2>1, <2>3
    <3>2. QED
      BY <1>1, <3>1
  <2>4. QED
    BY <2>2, <2>3
<1>8. \A m \in mentions' \ mentions : \A d \in Call : m \notin counted[d]
  BY <1>1, <1>5 DEF RemovalInv, AddedOnce
<1>9. \A d \in Call : StageKept(d)
  BY <1>1 DEF StageKept, Looked
<1>10. TakesItsOwn'
  BY <1>1, <1>2, <1>8, <1>9, OwnKept DEF removing
<1>11. QED
  BY <1>6, <1>7, <1>10 DEF RemovalInv

(* Deletions: of entities with all their mentions, and of an episode.      *)
LEMMA DropKept ==
    ASSUME RemovalInv, NEW c \in Call, DropEntities(c) \/ DropEpisode(c), Whereabouts',
           \A d \in Call : d # c => pc'[d] = pc[d],
           \A d \in Call : pc[d] \notin {"start", "resolve", "save"} => pc'[d] \notin {"start", "resolve", "save"}
    PROVE  RemovalInv'
<1>1. /\ UNCHANGED <<made, doomed, uncounted, counted>> /\ pc'[c] \in {"episode", "done"}
      /\ episodes' \subseteq episodes /\ entities' \subseteq entities /\ mentions' \subseteq mentions
      /\ c \in Removals /\ pc[c] \in {"entities", "episode"}
  BY DEF DropEntities, DropEpisode, removing, RemovalInv, Whereabouts, InPlace, Goto, Removing, Removals
<1>2. made \subseteq Call
  BY EpisodesAssumption DEF RemovalInv, Whereabouts
<1>3. Typed' /\ AddedOnce'
  BY <1>1, <1>2 DEF RemovalInv, Typed, AddedOnce, Added
<1>4. \A d \in Call : StageKept(d)
  BY <1>1 DEF StageKept, Looked
<1>5. ASSUME NEW d \in Removals, ~ Twice(d), pc[d] = "count",
             NEW n, <<Gone(d), n>> \in mentions \ mentions', NEW m \in mentions', m[2] = n
      PROVE  FALSE
  <2>1. d # c
    BY <1>1, <1>5
  <2>2. CASE DropEntities(c)
    BY <1>5, <2>2 DEF DropEntities
  <2>3. CASE DropEpisode(c)
    <3>1. Gone(d) = Gone(c)
      BY <1>5, <2>3 DEF DropEpisode
    <3>2. QED
      BY <1>1, <1>5, <2>1, <3>1 DEF Twice
  <2>4. QED
    BY <2>2, <2>3
<1>6. TakesItsOwn'
  BY <1>1, <1>4, <1>5, OwnKept DEF removing
<1>7. QED
  BY <1>3, <1>6 DEF RemovalInv

(* The choice: what is first to be listed by facts, mentioned, and         *)
(* mentioned once.                                                         *)
LEMMA FindKept ==
    ASSUME RemovalInv, NEW c \in Call, FindEpisode(c) \/ FindMentioned(c), Whereabouts',
           \A d \in Call : d # c => pc'[d] = pc[d],
           \A d \in Call : pc[d] \notin {"start", "resolve", "save"} => pc'[d] \notin {"start", "resolve", "save"}
    PROVE  RemovalInv'
<1>1. /\ UNCHANGED <<made, episodes, entities, mentions>> /\ made \subseteq Call
      /\ What[c] = "remove"
  BY EpisodesAssumption DEF FindEpisode, FindMentioned, graph, RemovalInv, Whereabouts, InPlace, Removing
<1>2. Removals' = Removals /\ Removals \subseteq Call
  BY <1>1 DEF Removals
<1>3. CASE FindEpisode(c)
  <2>1. /\ UNCHANGED <<uncounted, counted>> /\ pc'[c] \in {"mentioned", "failed"}
        /\ doomed' = [doomed EXCEPT ![c] =
              {f \in Facts \cap stated[Gone(c)] : listed[f][1] = Gone(c)}]
    BY <1>3 DEF FindEpisode, Goto, RemovalInv, Whereabouts
  <2>2. /\ doomed' \in [Call -> SUBSET (Entity \cup Fact)] /\ doomed'[c] \subseteq Fact
        /\ \A d \in Call : d # c => doomed'[d] = doomed[d]
    BY <2>1 DEF RemovalInv, Typed, Facts
  <2>3. Typed' /\ AddedOnce'
    BY <1>1, <2>1, <2>2 DEF RemovalInv, Typed, AddedOnce, Added
  <2>4. ASSUME NEW d \in Removals, ~ Twice(d)
        PROVE  /\ pc'[d] = "mentioned" => doomed'[d] \subseteq Fact
               /\ pc'[d] \in Looked => \A n \in doomed'[d] \cap Entity : Exact(d, n)
               /\ pc'[d] = "count" => \A n \in uncounted[d] :
                     <<Gone(d), n>> \in mentions \/ Foreign(d, n)
    BY <1>2, <2>1, <2>2, <2>4 DEF RemovalInv, TakesItsOwn, Looked
  <2>5. TakesItsOwn'
    BY <1>1, <1>2, <2>1, <2>4 DEF TakesItsOwn, Twice, Looked, Exact, Foreign, Gone
  <2>6. QED
    BY <2>3, <2>5 DEF RemovalInv
<1>4. CASE FindMentioned(c)
  <2>1. /\ doomed' = doomed /\ pc[c] = "mentioned" /\ pc'[c] = "count"
        /\ uncounted' = [uncounted EXCEPT ![c] = {n \in entities : <<Gone(c), n>> \in mentions}]
        /\ counted' = [counted EXCEPT ![c] = mentions]
    BY <1>4 DEF FindMentioned, Goto, RemovalInv, Whereabouts
  <2>2. /\ uncounted' \in [Call -> SUBSET Entity] /\ counted' \in [Call -> SUBSET (Episode \X Entity)]
        /\ uncounted'[c] = {n \in entities : <<Gone(c), n>> \in mentions} /\ counted'[c] = mentions
        /\ \A d \in Call : d # c => uncounted'[d] = uncounted[d] /\ counted'[d] = counted[d]
    BY <2>1 DEF RemovalInv, Typed
  <2>3. Typed' /\ AddedOnce'
    BY <1>1, <2>1, <2>2 DEF RemovalInv, Typed, AddedOnce, Added
  <2>4. Entity \cap Fact = {}
    BY EpisodesAssumption
  <2>5. ASSUME NEW d \in Removals, ~ Twice(d)
        PROVE  /\ pc'[d] = "mentioned" => doomed[d] \subseteq Fact
               /\ pc'[d] \in Looked => \A n \in doomed[d] \cap Entity : Exact(d, n)'
               /\ pc'[d] = "count" => \A n \in uncounted'[d] :
                     <<Gone(d), n>> \in mentions \/ Foreign(d, n)'
    <3>1. CASE d = c
      <4>1. doomed[c] \cap Entity = {}
        BY <2>1, <2>4, <2>5, <3>1 DEF RemovalInv, TakesItsOwn
      <4>2. QED
        BY <2>1, <2>2, <3>1, <4>1
    <3>2. CASE d # c
      <4>1. pc'[d] = pc[d] /\ counted'[d] = counted[d] /\ uncounted'[d] = uncounted[d]
        BY <1>2, <2>2, <3>2
      <4>2. QED
        BY <1>1, <2>5, <4>1 DEF RemovalInv, TakesItsOwn, Looked, Exact, Foreign, Gone
    <3>3. QED
      BY <3>1, <3>2
  <2>6. TakesItsOwn'
    BY <1>1, <1>2, <2>1, <2>5 DEF TakesItsOwn, Twice, Looked, Gone
  <2>7. QED
    BY <2>3, <2>6 DEF RemovalInv
<1>5. QED
  BY <1>3, <1>4

LEMMA OneMention ==
    ASSUME RemovalInv, NEW n, Unshared(n)
    PROVE  \E m : {x \in mentions : x[2] = n} = {m}
<1>1. IsFiniteSet(Episode \X Entity)
  BY EpisodesAssumption, FS_Product
<1>2. {x \in mentions : x[2] = n} \in SUBSET (Episode \X Entity)
  BY DEF RemovalInv, Typed
<1>3. IsFiniteSet({x \in mentions : x[2] = n})
  BY <1>1, <1>2, FS_Subset
<1>4. Cardinality({x \in mentions : x[2] = n}) = 1
  BY DEF Unshared
<1>5. QED
  BY <1>3, <1>4, FS_Singleton

LEMMA CountKept ==
    ASSUME RemovalInv, NEW c \in Call, Count(c), Whereabouts'
    PROVE  RemovalInv'
<1>1. /\ UNCHANGED <<made, pc, episodes, entities, mentions, counted>> /\ made \subseteq Call
      /\ What[c] = "remove" /\ pc[c] = "count"
  BY EpisodesAssumption DEF Count, graph, RemovalInv, Whereabouts, InPlace, Removing
<1>2. Removals' = Removals /\ Removals \subseteq Call
  BY <1>1 DEF Removals
<1>3. PICK n \in uncounted[c] :
          /\ uncounted' = [uncounted EXCEPT ![c] = @ \ {n}]
          /\ doomed' = [doomed EXCEPT ![c] = IF Unshared(n) THEN @ \cup {n} ELSE @]
  BY DEF Count
<1>4. n \in Entity
  BY DEF RemovalInv, Typed
<1>5. /\ uncounted' \in [Call -> SUBSET Entity] /\ doomed' \in [Call -> SUBSET (Entity \cup Fact)]
      /\ \A d \in Call : uncounted'[d] \subseteq uncounted[d]
      /\ \A d \in Call : d # c => doomed'[d] = doomed[d]
      /\ doomed'[c] = doomed[c] \/ (Unshared(n) /\ doomed'[c] = doomed[c] \cup {n})
  BY <1>3, <1>4 DEF RemovalInv, Typed
<1>6. Typed' /\ AddedOnce'
  BY <1>1, <1>5 DEF RemovalInv, Typed, AddedOnce, Added
<1>7. ASSUME c \in Removals, ~ Twice(c), Unshared(n) PROVE Exact(c, n)
  <2>1. CASE Foreign(c, n)
    BY <2>1 DEF Foreign, Exact
  <2>2. CASE <<Gone(c), n>> \in mentions
    <3>1. PICK m : {x \in mentions : x[2] = n} = {m}
      BY <1>7, OneMention
    <3>2. \A x \in mentions : x[2] = n => x = <<Gone(c), n>>
      BY <2>2, <3>1
    <3>3. QED
      BY <3>2 DEF Exact
  <2>3. QED
    BY <1>1, <1>7, <2>1, <2>2 DEF RemovalInv, TakesItsOwn
<1>8. ASSUME NEW d \in Removals, ~ Twice(d)
      PROVE  /\ pc[d] = "mentioned" => doomed'[d] \subseteq Fact
             /\ pc[d] \in Looked => \A x \in doomed'[d] \cap Entity : Exact(d, x)
             /\ pc[d] = "count" => \A x \in uncounted'[d] :
                   <<Gone(d), x>> \in mentions \/ Foreign(d, x)
  <2>1. /\ pc[d] = "mentioned" => doomed[d] \subseteq Fact
        /\ pc[d] \in Looked => \A x \in doomed[d] \cap Entity : Exact(d, x)
        /\ pc[d] = "count" => \A x \in uncounted[d] :
              <<Gone(d), x>> \in mentions \/ Foreign(d, x)
    BY <1>8 DEF RemovalInv, TakesItsOwn
  <2>2. CASE d = c
    BY <1>1, <1>2, <1>5, <1>7, <1>8, <2>1, <2>2
  <2>3. CASE d # c
    BY <1>2, <1>5, <2>1, <2>3
  <2>4. QED
    BY <2>2, <2>3
<1>9. TakesItsOwn'
  BY <1>1, <1>2, <1>8 DEF TakesItsOwn, Twice, Looked, Exact, Foreign, Gone
<1>10. QED
  BY <1>6, <1>9 DEF RemovalInv

LEMMA EpisodeStepKept ==
    ASSUME RemovalInv, NEW c \in Call, EpisodeStep(c), Whereabouts',
           \A d \in Call : d # c => pc'[d] = pc[d],
           \A d \in Call : pc[d] \notin {"start", "resolve", "save"} => pc'[d] \notin {"start", "resolve", "save"}
    PROVE  RemovalInv'
<1>1. CASE Save(c)
  BY <1>1, SaveKept
<1>2. CASE DropEntities(c) \/ DropEpisode(c)
  BY <1>2, DropKept
<1>3. CASE FindEpisode(c) \/ FindMentioned(c)
  BY <1>3, FindKept
<1>4. CASE Count(c)
  BY <1>4, CountKept
<1>5. ASSUME UNCHANGED <<made, entities, mentions, removing>>, episodes' \subseteq Episode, StageKept(c)
      PROVE  RemovalInv'
  <2>1. \A d \in Call : StageKept(d)
    BY <1>5 DEF StageKept
  <2>2. QED
    BY <1>5, <2>1, FrameKept
<1>6. pc \in [Call -> Labels] /\ episodes \subseteq Episode
  BY DEF RemovalInv, Whereabouts, Typed
<1>7. CASE Resolve(c)
  BY <1>5, <1>6, <1>7 DEF Resolve, Goto, graph, StageKept, Looked
<1>8. CASE FindSaga(c) \/ Link(c)
  BY <1>5, <1>6, <1>8 DEF FindSaga, Link, Goto, StageKept, Looked
<1>9. CASE FindPrevious(c)
  BY <1>5, <1>6, <1>9 DEF FindPrevious, Goto, graph, StageKept, Looked
<1>10. CASE Join(c)
  <2>1. UNCHANGED <<made, episodes, entities, mentions, removing>> /\ pc'[c] \in {"done", "link"}
    BY <1>6, <1>10 DEF Join, Goto
  <2>2. QED
    BY <1>5, <1>6, <2>1 DEF StageKept, Looked
<1>11. CASE Counted(c)
  BY <1>5, <1>6, <1>11 DEF Counted, Goto, graph, StageKept, Looked
<1>12. CASE DropFacts(c)
  BY <1>5, <1>6, <1>12 DEF DropFacts, Goto, StageKept, Looked
<1>13. CASE Crash(c)
  BY <1>5, <1>6, <1>13 DEF Crash, Goto, graph, StageKept, Looked
<1>14. CASE StoreEpisodes(c)
  <2>1. episodes' \subseteq Episode
    <3>1. Added(c) \subseteq Episode
      BY EpisodesAssumption DEF Added, Range
    <3>2. QED
      BY <1>6, <1>14, <3>1 DEF StoreEpisodes
  <2>2. UNCHANGED <<made, entities, mentions, removing>> /\ StageKept(c)
    BY <1>6, <1>14 DEF StoreEpisodes, Goto, StageKept, Looked
  <2>3. QED
    BY <1>5, <2>1, <2>2
<1>15. QED
  BY <1>1, <1>2, <1>3, <1>4, <1>7, <1>8, <1>9, <1>10, <1>11, <1>12, <1>13, <1>14 DEF EpisodeStep

LEMMA RemovalInit == Init => RemovalInv
<1> SUFFICES ASSUME Init PROVE RemovalInv
  OBVIOUS
<1>1. /\ made \in Scenarios /\ pc = [c \in Call |-> "start"]
      /\ episodes = {} /\ entities = AtStart /\ mentions = {}
      /\ doomed = [c \in Call |-> {}] /\ uncounted = [c \in Call |-> {}]
      /\ counted = [c \in Call |-> {}]
  BY DEF Init, EpisodesInit
<1>2. made \subseteq Call /\ AtStart \subseteq Entity
  BY <1>1, EpisodesAssumption
<1>3. Whereabouts
  BY <1>1 DEF Whereabouts, InPlace, Labels, AddingAt, Removing, BuildingAt, Reading, UpdatingAt
<1>4. Typed /\ AddedOnce
  BY <1>1, <1>2 DEF Typed, AddedOnce
<1>5. TakesItsOwn
  BY <1>1, <1>2 DEF TakesItsOwn, Looked, Removals
<1>6. QED
  BY <1>3, <1>4, <1>5 DEF RemovalInv

LEMMA RemovalNext == RemovalInv /\ [Next]_vars => RemovalInv'
<1> SUFFICES ASSUME RemovalInv, [Next]_vars PROVE RemovalInv'
  OBVIOUS
<1>1. /\ Whereabouts' /\ made' = made /\ Whereabouts
      /\ \A c \in Call : pc[c] \notin {"start", "resolve", "save"} => pc'[c] \notin {"start", "resolve", "save"}
  BY StepMoves DEF RemovalInv
<1>2. CASE UNCHANGED vars
  <2>1. episodes' \subseteq Episode
    BY <1>2 DEF vars, episodeVars, graph, RemovalInv, Typed
  <2>2. QED
    BY <1>1, <1>2, <2>1, FrameKept DEF vars, episodeVars, graph, ends, StageKept
<1>3. ASSUME NEW c \in Call, EpisodeStep(c) PROVE RemovalInv'
  <2>1. \A d \in Call : d # c => pc'[d] = pc[d]
    BY <1>1, <1>3, EpisodeMoves, MovesWhereabouts
  <2>2. QED
    BY <1>1, <1>3, <2>1, EpisodeStepKept
<1>4. ASSUME NEW c \in Call, CommunityStep(c) PROVE RemovalInv'
  <2>1. Moves(c) /\ UNCHANGED local /\ pc'[c] \notin Removing
    BY <1>1, <1>4, CommunityMoves
  <2>2. \A d \in Call \ {c} : pc'[d] = pc[d]
    BY <1>1, <2>1, MovesWhereabouts
  <2>3. \A d \in Call : StageKept(d)
    BY <2>1, <2>2 DEF StageKept, Looked, Removing
  <2>4. UNCHANGED <<entities, mentions, removing>> /\ episodes' \subseteq Episode
    BY <2>1 DEF local, graph, RemovalInv, Typed
  <2>5. QED
    BY <1>1, <2>3, <2>4, FrameKept
<1>5. QED
  BY <1>2, <1>3, <1>4 DEF Next, EpisodeStepHere

LEMMA RemovalImplies == RemovalInv => OnlyUnmentionedDropped
<1> SUFFICES ASSUME RemovalInv, NEW c \in Removals, pc[c] = "entities",
                    NEW m \in mentions, m[2] \in doomed[c], ~ Twice(c)
             PROVE  m[1] = Gone(c) \/ m \notin counted[c]
  BY DEF OnlyUnmentionedDropped, Twice
<1>1. m[2] \in Entity
  BY DEF RemovalInv, Typed
<1>2. Exact(c, m[2])
  BY <1>1 DEF RemovalInv, TakesItsOwn, Looked
<1>3. QED
  BY <1>2 DEF Exact

(* The first part of RemovalExact: remove_episode takes an entity from     *)
(* another episode only if the mention was saved after it had looked for   *)
(* its own, or two calls remove the same episode.                          *)
THEOREM RemovalTakesItsOwn == Spec => []OnlyUnmentionedDropped
<1>1. QED
  BY RemovalInit, RemovalNext, RemovalImplies, PTL DEF Spec

-----------------------------------------------------------------------------
(* StatedBy: an addition has a fact list episodes of its own that state    *)
(* it.                                                                     *)
LEMMA LeastNat ==
    ASSUME NEW T \in SUBSET Nat, T # {}
    PROVE  \E x \in T : \A y \in T : x <= y
<1> DEFINE R == {ss \in Nat \X Nat : ss[1] < ss[2]}
<1>1. IsWellFoundedOn(R, Nat)
  BY NatLessThanWellFounded DEF OpToRel
<1>2. PICK x \in T : \A y \in T : <<y, x>> \notin R
  <2> HIDE DEF R
  <2>1. QED
    BY <1>1, WFMin
<1>3. ASSUME NEW y \in T, ~ (x <= y) PROVE FALSE
  <2>1. x \in Nat /\ y \in Nat
    OBVIOUS
  <2>2. <<y, x>> \in R
    BY <1>3, <2>1
  <2>3. QED
    BY <1>2, <2>2
<1>4. QED
  BY <1>3

Stating(c, f, g, i) ==
    IF i = 0 THEN <<>>
    ELSE IF f \in States[Adds[c][i]] THEN Append(g[i - 1], Adds[c][i]) ELSE g[i - 1]
Goes(c, f, g, n) == \A i \in 0..n : g[i] = Stating(c, f, g, i)
Its(c, f, s) ==
    s \in Seq(Episode) /\ (s # <<>> => s[1] \in Added(c) /\ f \in States[s[1]])

LEMMA OneStated ==
    ASSUME NEW c \in Call, NEW f, NEW i \in 1..Len(Adds[c]), NEW g, Its(c, f, g[i - 1])
    PROVE  Its(c, f, Stating(c, f, g, i))
<1>1. Adds[c] \in Seq(Episode) /\ Adds[c][i] \in Episode /\ Adds[c][i] \in Added(c) /\ i # 0
  BY EpisodesAssumption DEF Added, Range
<1> SUFFICES ASSUME NEW e \in Episode, e = Adds[c][i], NEW s, s = g[i - 1]
             PROVE  Its(c, f, Stating(c, f, g, i))
  BY <1>1
<1>2. CASE f \notin States[e]
  BY <1>1, <1>2 DEF Stating
<1>3. CASE f \in States[e]
  <2>1. Stating(c, f, g, i) = Append(s, e) /\ s \in Seq(Episode)
    BY <1>1, <1>3 DEF Stating, Its
  <2>2. Append(s, e) \in Seq(Episode) /\ Append(s, e)[1] = IF s = <<>> THEN e ELSE s[1]
    BY <2>1
  <2>3. QED
    BY <1>1, <1>3, <2>1, <2>2 DEF Its
<1>4. QED
  BY <1>2, <1>3

LEMMA StatedInTurn ==
    ASSUME NEW c \in Call, NEW f
    PROVE  \E g : g = [i \in 0..Len(Adds[c]) |-> Stating(c, f, g, i)]
<1> DEFINE N == Len(Adds[c])
           Bad == {n \in 0..N : \A g : g = [i \in 0..n |-> g[i]] => ~ Goes(c, f, g, n)}
<1>1. N \in Nat
  BY EpisodesAssumption
<1>2. N \notin Bad
  <2>1. SUFFICES ASSUME Bad # {} PROVE FALSE
    OBVIOUS
  <2>2. PICK n \in Bad : \A m \in Bad : n <= m
    <3>1. Bad \in SUBSET Nat
      OBVIOUS
    <3> HIDE DEF Bad
    <3>2. QED
      BY <2>1, <3>1, LeastNat
  <2>3. n # 0
    <3>1. Goes(c, f, [i \in 0..0 |-> <<>>], 0)
      BY DEF Goes, Stating
    <3>2. [i \in 0..0 |-> <<>>] = [i \in 0..0 |-> [j \in 0..0 |-> <<>>][i]]
      OBVIOUS
    <3>3. QED
      BY <3>1, <3>2
  <2>4. n \in 1..N /\ n - 1 \in 0..N /\ n - 1 \notin Bad
    BY <1>1, <2>2, <2>3
  <2>5. PICK g : g = [i \in 0..n - 1 |-> g[i]] /\ Goes(c, f, g, n - 1)
    BY <2>4
  <2> DEFINE k == [i \in 0..n |-> IF i = n THEN Stating(c, f, g, n) ELSE g[i]]
  <2>6. ASSUME NEW i \in 0..n PROVE k[i] = Stating(c, f, k, i)
    <3>1. CASE i = n
      <4>1. k[n] = Stating(c, f, g, n) /\ k[n - 1] = g[n - 1]
        BY <2>4
      <4>2. Stating(c, f, k, n) = Stating(c, f, g, n)
        <5> HIDE DEF k
        <5>1. QED
          BY <4>1 DEF Stating
      <4>3. QED
        BY <3>1, <4>1, <4>2
    <3>2. CASE i # n
      <4>1. i \in 0..n - 1 /\ (i # 0 => i - 1 \in 0..n /\ i - 1 # n)
        BY <2>4, <3>2
      <4>2. k[i] = g[i] /\ (i # 0 => k[i - 1] = g[i - 1]) /\ g[i] = Stating(c, f, g, i)
        BY <2>5, <3>2, <4>1 DEF Goes
      <4>3. Stating(c, f, k, i) = Stating(c, f, g, i)
        <5> HIDE DEF k
        <5>1. QED
          BY <4>2 DEF Stating
      <4>4. QED
        BY <4>2, <4>3
    <3>3. QED
      BY <3>1, <3>2
  <2>7. Goes(c, f, k, n)
    <3> HIDE DEF k
    <3>1. QED
      BY <2>6 DEF Goes
  <2>8. k = [i \in 0..n |-> k[i]]
    OBVIOUS
  <2> HIDE DEF k
  <2>9. QED
    BY <2>2, <2>7, <2>8
<1>3. PICK g : g = [i \in 0..N |-> g[i]] /\ Goes(c, f, g, N)
  BY <1>1, <1>2
<1>4. [i \in 0..N |-> g[i]] = [i \in 0..N |-> Stating(c, f, g, i)]
  BY <1>3 DEF Goes
<1>5. QED
  BY <1>3, <1>4

LEMMA StatedByIts ==
    ASSUME NEW c \in Call, NEW f
    PROVE  Its(c, f, StatedBy(c, f))
<1> DEFINE N == Len(Adds[c])
           so == CHOOSE g : g = [i \in 0..N |-> Stating(c, f, g, i)]
           Bad == {i \in 0..N : ~ Its(c, f, so[i])}
<1>1. N \in Nat
  BY EpisodesAssumption
<1>2. StatedBy(c, f) = so[N]
  BY DEF StatedBy, Stating
<1>3. so = [i \in 0..N |-> Stating(c, f, so, i)]
  <2> HIDE DEF N
  <2>1. QED
    BY StatedInTurn DEF N
<1> HIDE DEF so
<1>4. SUFFICES ASSUME Bad # {} PROVE FALSE
  BY <1>1, <1>2
<1>5. PICK n \in Bad : \A m \in Bad : n <= m
  <2>1. Bad \in SUBSET Nat
    OBVIOUS
  <2> HIDE DEF Bad
  <2>2. QED
    BY <1>4, <2>1, LeastNat
<1>6. n \in 0..N /\ so[n] = Stating(c, f, so, n) /\ ~ Its(c, f, so[n])
  BY <1>3, <1>5
<1>7. n # 0
  BY <1>6 DEF Stating, Its
<1>8. n \in 1..N /\ n - 1 \in 0..N /\ n - 1 \notin Bad
  BY <1>1, <1>5, <1>6, <1>7
<1>9. Its(c, f, so[n - 1])
  BY <1>8
<1>10. QED
  BY <1>6, <1>8, <1>9, OneStated

-----------------------------------------------------------------------------
(* As long as no removal overlaps with another call and nobody died: an    *)
(* entity has a mention for as long as it is there, and what a removal is  *)
(* about to take the last mention from it will delete; a fact has the      *)
(* episode it came from, which notes it, or was added in bulk.             *)
Serial == crashes = 0 /\ \A c \in Removals : \A d \in made \ {c} : ~ Overlap(c, d)
Bulk(e) == \E c \in made : What[c] = "addBulk" /\ e \in Added(c)

Mentioned(n) == \E m \in mentions : m[2] = n
Elsewhere(c, n) == \E m \in mentions : m[2] = n /\ m[1] # Gone(c)
ToDelete(c, n) == \/ pc[c] \in Looked /\ n \in doomed[c]
                  \/ pc[c] = "count" /\ n \in uncounted[c]
KeepsOthers(c) ==
    pc[c] \in Looked \cup {"episode"} =>
       \A n \in entities : <<Gone(c), n>> \in mentions => Elsewhere(c, n) \/ ToDelete(c, n)

Sourced(f) == Bulk(listed[f][1]) \/ (listed[f][1] \in episodes /\ f \in stated[listed[f][1]])
FromGone(c, f) == listed[f][1] = Gone(c) /\ ~ Bulk(Gone(c))
KeepsFacts(c) ==
    \A f \in Facts : FromGone(c, f) =>
       /\ pc[c] \in {"mentioned", "count", "facts"} => f \in doomed[c]
       /\ pc[c] \notin {"entities", "episode"}

Left ==
    /\ mentions \subseteq episodes \X entities
    /\ \A n \in entities \ AtStart : Mentioned(n)
    /\ \A f \in Facts : Sourced(f)
    /\ \A c \in Removals : KeepsOthers(c) /\ KeepsFacts(c)
    /\ \A c \in made : pc[c] = "save" => found[c] = listed
ListsTyped ==
    /\ listed \in [Fact -> Seq(Episode)] /\ found \in [Call -> [Fact -> Seq(Episode)]]
    /\ stated \in [Episode -> SUBSET Fact]
LeftInv == ListsTyped /\ (Serial => Left)

LEMMA ListsNext == Whereabouts /\ ListsTyped /\ [Next]_vars => ListsTyped'
<1> SUFFICES ASSUME Whereabouts, ListsTyped, [Next]_vars PROVE ListsTyped'
  OBVIOUS
<1>1. ASSUME UNCHANGED <<listed, found, stated>> PROVE ListsTyped'
  BY <1>1 DEF ListsTyped
<1>2. CASE UNCHANGED vars
  BY <1>1, <1>2 DEF vars, episodeVars, graph, adding
<1>3. ASSUME NEW c \in Call, CommunityStep(c) PROVE ListsTyped'
  BY <1>1, <1>3, CommunityMoves DEF local, graph, adding
<1>4. ASSUME NEW c \in Call, EpisodeStep(c) PROVE ListsTyped'
  <2>1. CASE Resolve(c)
    BY <2>1 DEF Resolve, graph, ListsTyped
  <2>2. CASE Save(c)
    <3>1. \A f : StatedBy(c, f) \in Seq(Episode)
      BY StatedByIts DEF Its
    <3>2. \A f \in Fact : /\ listed[f] \in Seq(Episode) /\ found[c][f] \in Seq(Episode)
                          /\ found[c][f] \o StatedBy(c, f) \in Seq(Episode)
      BY <3>1 DEF ListsTyped
    <3>3. listed' \in [Fact -> Seq(Episode)]
      BY <2>2, <3>2 DEF Save
    <3>4. stated' \in [Episode -> SUBSET Fact]
      BY <2>2, EpisodesAssumption DEF Save, ListsTyped
    <3>5. found' = found
      BY <2>2 DEF Save, adding
    <3>6. QED
      BY <3>3, <3>4, <3>5 DEF ListsTyped
  <2>3. CASE DropFacts(c) \/ DropEntities(c)
    <3>1. UNCHANGED <<found, stated>>
      BY <2>3 DEF DropFacts, DropEntities, adding
    <3>2. <<>> \in Seq(Episode)
      OBVIOUS
    <3>3. listed' \in [Fact -> Seq(Episode)]
      BY <2>3, <3>2 DEF DropFacts, DropEntities, ListsTyped
    <3>4. QED
      BY <3>1, <3>3 DEF ListsTyped
  <2>4. CASE DropEpisode(c)
    BY <2>4 DEF DropEpisode, adding, ListsTyped
  <2>5. CASE StoreEpisodes(c) \/ FindSaga(c) \/ FindPrevious(c) \/ Link(c) \/ Join(c) \/ FindEpisode(c)
             \/ FindMentioned(c) \/ Count(c) \/ Counted(c) \/ Crash(c)
    BY <1>1, <2>5 DEF StoreEpisodes, FindSaga, FindPrevious, Link, Join, FindEpisode, FindMentioned, Count, Counted,
       Crash, graph, adding
  <2>6. QED
    BY <1>4, <2>1, <2>2, <2>3, <2>4, <2>5 DEF EpisodeStep
<1>5. QED
  BY <1>2, <1>3, <1>4 DEF Next, EpisodeStepHere

(* Beside a removal nothing is underway.                                   *)
LEMMA SerialAlone ==
    ASSUME Whereabouts, Timeline, NEW c \in Call, Moves(c), Serial'
    PROVE  /\ c \in made
           /\ \A d \in made \ {c} : c \in Removals \/ d \in Removals => ~ Underway(d)
<1>1. /\ Whereabouts' /\ Timeline' /\ made' = made /\ Removals' = Removals /\ made \subseteq Call
      /\ \A d \in Call \ {c} : pc'[d] = pc[d] /\ before'[d] = before[d]
      /\ pc[c] \notin Over /\ pc'[c] # "start"
  BY TimePasses, Callers DEF Removals
<1>2. c \in made
  BY <1>1 DEF Moves, Whereabouts
<1>3. ASSUME NEW d \in made \ {c}, c \in Removals \/ d \in Removals, Underway(d) PROVE FALSE
  <2>1. c \notin before'[d] /\ d \notin before'[c] /\ pc'[d] # "start"
    BY <1>1, <1>3 DEF Timeline, Underway
  <2>2. Overlap(c, d)' /\ Overlap(d, c)'
    BY <1>1, <2>1 DEF Overlap
  <2>3. QED
    BY <1>1, <1>2, <1>3, <2>2 DEF Serial
<1>4. QED
  BY <1>2, <1>3

(* Steps that leave the graph alone but for the saga and new episodes.     *)
LEMMA LeftFrame ==
    ASSUME Left, made' = made, UNCHANGED <<entities, mentions, listed, stated, removing>>,
           episodes \subseteq episodes',
           \A d \in made : pc'[d] = "save" => (pc[d] = "save" /\ found'[d] = found[d]) \/ found'[d] = listed,
           \A d \in Removals : pc'[d] = pc[d]
    PROVE  Left'
<1>1. UNCHANGED <<doomed, uncounted>> /\ Removals' = Removals /\ Facts' = Facts
  BY DEF removing, Removals, Facts
<1>2. \A n : Mentioned(n)' = Mentioned(n) /\ \A e : Bulk(e)' = Bulk(e)
  BY DEF Mentioned, Bulk, Added
<1>3. \A f : Sourced(f) => Sourced(f)'
  BY <1>2 DEF Sourced
<1>4. ASSUME NEW d \in Removals PROVE KeepsOthers(d)' /\ KeepsFacts(d)'
  <2>1. KeepsOthers(d) /\ KeepsFacts(d) /\ pc'[d] = pc[d]
    BY DEF Left
  <2>2. KeepsOthers(d)'
    BY <1>1, <2>1 DEF KeepsOthers, Elsewhere, ToDelete, Gone
  <2>3. KeepsFacts(d)'
    BY <1>1, <1>2, <2>1 DEF KeepsFacts, FromGone, Gone
  <2>4. QED
    BY <2>2, <2>3
<1>5. QED
  BY <1>1, <1>2, <1>3, <1>4 DEF Left

(* Steps of a removal, and of an addition beside no removal.               *)
LEMMA LeftAlone ==
    ASSUME made' = made, NEW c \in made, made \subseteq Call, \A d \in Call \ {c} : pc'[d] = pc[d],
           \A d \in made \ {c} : d \in Removals => ~ Underway(d),
           \A d \in made \ {c} : pc[d] # "save", pc'[c] # "save",
           mentions' \subseteq episodes' \X entities',
           \A n \in entities' \ AtStart : Mentioned(n)',
           \A f \in Facts' : Sourced(f)',
           c \in Removals => KeepsOthers(c)' /\ KeepsFacts(c)'
    PROVE  Left'
<1>1. ASSUME NEW d \in Removals PROVE KeepsOthers(d)' /\ KeepsFacts(d)'
  <2>1. CASE d = c
    BY <2>1
  <2>2. CASE d # c
    <3>1. d \in made \ {c} /\ pc'[d] = pc[d] /\ ~ Underway(d)
      BY <2>2 DEF Removals
    <3>2. pc'[d] \in Over \cup {"start"}
      BY <3>1 DEF Underway
    <3>3. QED
      BY <3>2 DEF KeepsOthers, KeepsFacts, Looked, Over
  <2>3. QED
    BY <2>1, <2>2
<1>2. \A d \in made : pc'[d] # "save"
  OBVIOUS
<1>3. Removals' = Removals
  BY DEF Removals
<1>4. QED
  BY <1>1, <1>2, <1>3 DEF Left

(* remove_episode: what it finds, what it deletes.                         *)
LEMMA LeftFinds ==
    ASSUME Left, Typed, ListsTyped, Whereabouts, NEW c \in made, c \in Removals, made' = made, made \subseteq Call,
           FindEpisode(c) \/ FindMentioned(c) \/ Counted(c), \A d \in Call \ {c} : pc'[d] = pc[d],
           \A d \in made \ {c} : ~ Underway(d)
    PROVE  Left'
<1>1. /\ UNCHANGED <<episodes, entities, mentions, listed, stated>>
      /\ pc'[c] \in {"mentioned", "failed", "count", "facts"}
  BY DEF FindEpisode, FindMentioned, Counted, graph, Goto, Whereabouts
<1>2. Facts' = Facts /\ \A f : Sourced(f)' = Sourced(f) /\ FromGone(c, f)' = FromGone(c, f)
  BY <1>1 DEF Facts, Sourced, FromGone, Bulk, Added, Gone
<1>3. \A n : Mentioned(n)' = Mentioned(n) /\ Elsewhere(c, n)' = Elsewhere(c, n)
  BY <1>1 DEF Mentioned, Elsewhere, Gone
<1>4. KeepsOthers(c) /\ KeepsFacts(c)
  BY DEF Left
<1>5. KeepsOthers(c)' /\ KeepsFacts(c)'
  <2>1. CASE FindEpisode(c)
    <3>1. pc'[c] \in {"mentioned", "failed"} /\ doomed' = [doomed EXCEPT ![c] =
              {f \in Facts \cap stated[Gone(c)] : listed[f][1] = Gone(c)}]
      BY <2>1 DEF FindEpisode, Goto, Whereabouts
    <3>2. \A f \in Facts : FromGone(c, f) => f \in doomed'[c]
      BY <3>1 DEF Left, FromGone, Sourced, Typed
    <3>3. KeepsFacts(c)'
      BY <1>2, <3>1, <3>2 DEF KeepsFacts
    <3>4. KeepsOthers(c)'
      BY <3>1 DEF KeepsOthers, Looked
    <3>5. QED
      BY <3>3, <3>4
  <2>2. CASE FindMentioned(c)
    <3>1. /\ pc[c] = "mentioned" /\ pc'[c] = "count" /\ doomed' = doomed
          /\ uncounted' = [uncounted EXCEPT ![c] = {n \in entities : <<Gone(c), n>> \in mentions}]
      BY <2>2 DEF FindMentioned, Goto, Whereabouts
    <3>2. uncounted'[c] = {n \in entities : <<Gone(c), n>> \in mentions}
      BY <3>1 DEF Typed
    <3>3. KeepsOthers(c)'
      BY <1>1, <3>1, <3>2 DEF KeepsOthers, ToDelete, Gone
    <3>4. KeepsFacts(c)'
      BY <1>2, <1>4, <3>1 DEF KeepsFacts
    <3>5. QED
      BY <3>3, <3>4
  <2>3. CASE Counted(c)
    <3>1. pc[c] = "count" /\ pc'[c] = "facts" /\ UNCHANGED <<doomed, uncounted>> /\ uncounted[c] = {}
      BY <2>3 DEF Counted, Goto, Whereabouts, removing
    <3>2. KeepsOthers(c)'
      BY <1>1, <1>3, <1>4, <3>1 DEF KeepsOthers, ToDelete, Looked, Gone
    <3>3. KeepsFacts(c)'
      BY <1>2, <1>4, <3>1 DEF KeepsFacts
    <3>4. QED
      BY <3>2, <3>3
  <2>4. QED
    BY <2>1, <2>2, <2>3
<1>6. \A d \in made \ {c} : pc[d] # "save"
  BY DEF Underway, Over
<1>7. QED
  BY <1>1, <1>2, <1>3, <1>5, <1>6, LeftAlone DEF Left

LEMMA LeftCounts ==
    ASSUME Left, RemovalInv, NEW c \in made, c \in Removals, made' = made, made \subseteq Call,
           Count(c), \A d \in Call \ {c} : pc'[d] = pc[d], \A d \in made \ {c} : ~ Underway(d)
    PROVE  Left'
<1>1. UNCHANGED <<episodes, entities, mentions, listed, stated, pc>> /\ pc[c] = "count"
  BY DEF Count, graph
<1>2. Facts' = Facts /\ \A f : Sourced(f)' = Sourced(f) /\ FromGone(c, f)' = FromGone(c, f)
  BY <1>1 DEF Facts, Sourced, FromGone, Bulk, Added, Gone
<1>3. \A n : Mentioned(n)' = Mentioned(n) /\ Elsewhere(c, n)' = Elsewhere(c, n)
  BY <1>1 DEF Mentioned, Elsewhere, Gone
<1>4. KeepsOthers(c) /\ KeepsFacts(c)
  BY DEF Left
<1>5. PICK n \in uncounted[c] :
          /\ uncounted' = [uncounted EXCEPT ![c] = @ \ {n}]
          /\ doomed' = [doomed EXCEPT ![c] = IF Unshared(n) THEN @ \cup {n} ELSE @]
  BY DEF Count
<1>6. /\ uncounted'[c] = uncounted[c] \ {n} /\ doomed[c] \subseteq doomed'[c]
      /\ Unshared(n) => n \in doomed'[c]
  BY <1>5 DEF RemovalInv, Typed
<1>7. ASSUME <<Gone(c), n>> \in mentions, ~ Unshared(n) PROVE Elsewhere(c, n)
  <2>1. ASSUME ~ Elsewhere(c, n) PROVE FALSE
    <3>1. \A m \in mentions : m[2] = n => m = <<Gone(c), n>>
      BY <2>1 DEF Elsewhere, RemovalInv, Typed
    <3>2. {m \in mentions : m[2] = n} = {<<Gone(c), n>>}
      BY <1>7, <3>1
    <3>3. Cardinality({m \in mentions : m[2] = n}) = 1
      BY <3>2, FS_Singleton
    <3>4. QED
      BY <1>7, <3>3 DEF Unshared
  <2>2. QED
    BY <2>1
<1>8. KeepsOthers(c)'
  <2> SUFFICES ASSUME NEW x \in entities, <<Gone(c), x>> \in mentions, ~ Elsewhere(c, x)
               PROVE  x \in doomed'[c] \/ x \in uncounted'[c]
    BY <1>1, <1>3 DEF KeepsOthers, ToDelete, Looked, Gone
  <2>1. x \in doomed[c] \/ x \in uncounted[c]
    BY <1>1, <1>4 DEF KeepsOthers, ToDelete, Looked
  <2>2. QED
    BY <1>6, <1>7, <2>1
<1>9. KeepsFacts(c)'
  BY <1>1, <1>2, <1>4, <1>6 DEF KeepsFacts
<1>10. \A d \in made \ {c} : pc[d] # "save"
  BY DEF Underway, Over
<1>11. QED
  BY <1>1, <1>2, <1>3, <1>8, <1>9, <1>10, LeftAlone DEF Left

LEMMA LeftDrops ==
    ASSUME Left, Typed, ListsTyped, Whereabouts, NEW c \in made, c \in Removals, made' = made, made \subseteq Call,
           DropFacts(c) \/ DropEntities(c) \/ DropEpisode(c), \A d \in Call \ {c} : pc'[d] = pc[d],
           \A d \in made \ {c} : ~ Underway(d)
    PROVE  Left'
<1>1. KeepsOthers(c) /\ KeepsFacts(c)
  BY DEF Left
<1>2. \A e : Bulk(e)' = Bulk(e)
  BY DEF Bulk, Added
<1>3. \A d \in made \ {c} : pc[d] # "save"
  BY DEF Underway, Over
<1>4. CASE DropFacts(c)
  <2>1. /\ UNCHANGED <<episodes, entities, mentions, stated, doomed, uncounted>>
        /\ listed' = [f \in Fact |-> IF f \in doomed[c] THEN <<>> ELSE listed[f]]
        /\ pc[c] = "facts" /\ pc'[c] = "entities"
    BY <1>4 DEF DropFacts, Goto, Whereabouts, removing
  <2>2. \A f \in Facts' : f \in Facts /\ listed'[f] = listed[f] /\ f \notin doomed[c]
    BY <2>1 DEF Facts
  <2>3. \A f \in Facts' : Sourced(f)'
    BY <1>2, <2>1, <2>2 DEF Left, Sourced
  <2>4. \A n : Mentioned(n)' = Mentioned(n) /\ Elsewhere(c, n)' = Elsewhere(c, n)
    BY <2>1 DEF Mentioned, Elsewhere, Gone
  <2>5. KeepsOthers(c)'
    BY <1>1, <2>1, <2>4 DEF KeepsOthers, ToDelete, Looked, Gone
  <2>6. \A f \in Facts' : ~ FromGone(c, f)'
    <3>1. \A f \in Facts : FromGone(c, f) => f \in doomed[c]
      BY <1>1, <2>1 DEF KeepsFacts
    <3>2. QED
      BY <1>2, <2>2, <3>1 DEF FromGone, Gone
  <2>7. KeepsFacts(c)'
    BY <2>6 DEF KeepsFacts
  <2>8. QED
    BY <1>3, <2>1, <2>3, <2>4, <2>5, <2>7, LeftAlone DEF Left
<1>5. CASE DropEntities(c)
  <2>1. /\ UNCHANGED <<episodes, stated, doomed, uncounted>>
        /\ entities' = entities \ doomed[c] /\ mentions' = {m \in mentions : m[2] \notin doomed[c]}
        /\ listed' = [f \in Fact |-> IF Joins[f] \cap doomed[c] # {} THEN <<>> ELSE listed[f]]
        /\ pc[c] = "entities" /\ pc'[c] = "episode"
    BY <1>5 DEF DropEntities, Goto, Whereabouts, removing
  <2>2. \A f \in Facts' : f \in Facts /\ listed'[f] = listed[f]
    BY <2>1 DEF Facts
  <2>3. \A f \in Facts' : Sourced(f)'
    BY <1>2, <2>1, <2>2 DEF Left, Sourced
  <2>4. mentions' \subseteq episodes' \X entities'
    BY <2>1 DEF Left
  <2>5. \A n \in entities' \ AtStart : Mentioned(n)'
    BY <2>1 DEF Left, Mentioned
  <2>6. KeepsOthers(c)'
    <3>1. ASSUME NEW n \in entities', <<Gone(c), n>> \in mentions' PROVE Elsewhere(c, n)'
      <4>1. Elsewhere(c, n)
        BY <1>1, <2>1, <3>1 DEF KeepsOthers, ToDelete, Looked
      <4>2. QED
        BY <2>1, <3>1, <4>1 DEF Elsewhere, Gone
    <3>2. QED
      BY <3>1 DEF KeepsOthers, Gone
  <2>7. KeepsFacts(c)'
    <3>1. \A f \in Facts : ~ FromGone(c, f)
      BY <1>1, <2>1 DEF KeepsFacts
    <3>2. \A f \in Facts' : ~ FromGone(c, f)'
      BY <1>2, <2>2, <3>1 DEF FromGone, Gone
    <3>3. QED
      BY <3>2 DEF KeepsFacts
  <2>8. QED
    BY <1>3, <2>1, <2>3, <2>4, <2>5, <2>6, <2>7, LeftAlone
<1>6. CASE DropEpisode(c)
  <2>1. /\ UNCHANGED <<entities, listed>> /\ episodes' = episodes \ {Gone(c)}
        /\ mentions' = {m \in mentions : m[1] # Gone(c)}
        /\ stated' = [stated EXCEPT ![Gone(c)] = {}]
        /\ pc[c] = "episode" /\ pc'[c] = "done"
    BY <1>6 DEF DropEpisode, Goto, Whereabouts
  <2>2. mentions' \subseteq episodes' \X entities'
    BY <2>1 DEF Left
  <2>3. ASSUME NEW n \in entities' \ AtStart PROVE Mentioned(n)'
    <3>1. PICK m \in mentions : m[2] = n
      BY <2>1 DEF Left, Mentioned
    <3>2. CASE m[1] # Gone(c)
      BY <2>1, <3>1, <3>2 DEF Mentioned
    <3>3. CASE m[1] = Gone(c)
      <4>1. m = <<Gone(c), n>>
        BY <3>1, <3>3 DEF Typed
      <4>2. Elsewhere(c, n)
        BY <1>1, <2>1, <4>1 DEF KeepsOthers, ToDelete, Looked
      <4>3. QED
        BY <2>1, <4>2 DEF Elsewhere, Mentioned
    <3>4. QED
      BY <3>2, <3>3
  <2>4. ASSUME NEW f \in Facts' PROVE Sourced(f)'
    <3>1. f \in Facts /\ Sourced(f) /\ ~ FromGone(c, f)
      BY <1>1, <2>1 DEF Facts, Left, KeepsFacts
    <3>2. CASE Bulk(listed[f][1])
      BY <1>2, <2>1, <3>2 DEF Sourced
    <3>3. CASE ~ Bulk(listed[f][1])
      <4>1. listed[f][1] \in episodes /\ f \in stated[listed[f][1]] /\ listed[f][1] # Gone(c)
        BY <3>1, <3>3 DEF Sourced, FromGone
      <4>2. stated'[listed[f][1]] = stated[listed[f][1]]
        BY <2>1, <4>1 DEF ListsTyped, Typed
      <4>3. QED
        BY <2>1, <4>1, <4>2 DEF Sourced
    <3>4. QED
      BY <3>2, <3>3
  <2>5. KeepsOthers(c)' /\ KeepsFacts(c)'
    BY <2>1 DEF KeepsOthers, KeepsFacts, Looked
  <2>6. QED
    BY <1>3, <2>1, <2>2, <2>3, <2>4, <2>5, LeftAlone
<1>7. QED
  BY <1>4, <1>5, <1>6

(* Beside no removal, and no other addition, what is saved was read just   *)
(* now: a fact keeps where it came from, or comes from what is added.      *)
LEMMA LeftSaves ==
    ASSUME Left, RemovalInv, ListsTyped, StoredOnce, NEW c \in made, Save(c), made' = made, made \subseteq Call,
           \A d \in Call \ {c} : pc'[d] = pc[d], \A d \in made \ {c} : pc[d] # "save",
           \A d \in made \ {c} : d \in Removals => ~ Underway(d)
    PROVE  Left'
<1>1. /\ pc[c] = "save" /\ pc'[c] \in {"saga", "done"} /\ Adding(c) /\ c \notin Removals
      /\ found[c] = listed /\ Added(c) \subseteq Episode
  BY AddsTyped DEF Save, Goto, RemovalInv, Whereabouts, InPlace, AddingAt, Adding, Removals, Left
<1>2. /\ episodes' = episodes \cup Added(c)
      /\ entities' = entities \cup UNION {Mentions[e] : e \in Added(c)}
      /\ mentions' = mentions \cup UNION {{e} \X Mentions[e] : e \in Added(c)}
      /\ listed' = [f \in Fact |-> IF StatedBy(c, f) = <<>> THEN listed[f]
                                   ELSE listed[f] \o StatedBy(c, f)]
      /\ stated' = [e \in Episode |-> IF e \in Added(c) /\ What[c] = "add"
                                      THEN States[e] ELSE stated[e]]
  BY <1>1 DEF Save
<1>3. mentions' \subseteq episodes' \X entities'
  <2>1. \A e \in Added(c) : {e} \X Mentions[e] \subseteq episodes' \X entities'
    BY <1>2
  <2>2. mentions \subseteq episodes' \X entities'
    BY <1>2 DEF Left
  <2>3. QED
    BY <1>2, <2>1, <2>2
<1>4. ASSUME NEW n \in entities' \ AtStart PROVE Mentioned(n)'
  <2>1. CASE n \in entities
    BY <1>2, <2>1 DEF Left, Mentioned
  <2>2. CASE n \notin entities
    <3>1. PICK e \in Added(c) : n \in Mentions[e]
      BY <1>2, <2>2
    <3>2. <<e, n>> \in mentions'
      BY <1>2, <3>1
    <3>3. QED
      BY <3>2 DEF Mentioned
  <2>3. QED
    BY <2>1, <2>2
<1>5. \A e : Bulk(e)' = Bulk(e)
  BY DEF Bulk, Added
<1>6. ASSUME NEW f \in Facts, listed'[f][1] = listed[f][1] PROVE Sourced(f)'
  <2>1. CASE Bulk(listed[f][1])
    BY <1>5, <1>6, <2>1 DEF Sourced
  <2>2. CASE ~ Bulk(listed[f][1])
    <3>1. listed[f][1] \in episodes /\ f \in stated[listed[f][1]]
      BY <2>2 DEF Left, Sourced
    <3>2. What[c] = "add" => listed[f][1] \notin Added(c)
      BY <1>1, <3>1 DEF StoredOnce, Unstored
    <3>3. listed[f][1] \in Episode
      BY <3>1 DEF RemovalInv, Typed
    <3>4. QED
      BY <1>2, <1>6, <3>1, <3>2, <3>3 DEF Sourced
  <2>3. QED
    BY <2>1, <2>2
<1>7. ASSUME NEW f \in Facts' PROVE Sourced(f)'
  <2>1. f \in Fact /\ listed[f] \in Seq(Episode) /\ listed'[f] # <<>>
    BY <1>7 DEF Facts, ListsTyped
  <2>2. Its(c, f, StatedBy(c, f))
    BY <1>1, StatedByIts
  <2> SUFFICES ASSUME NEW old, old = listed[f], NEW new, new = StatedBy(c, f) PROVE Sourced(f)'
    OBVIOUS
  <2>3. /\ listed'[f] = IF new = <<>> THEN old ELSE old \o new
        /\ old \in Seq(Episode) /\ new \in Seq(Episode)
    BY <1>2, <2>1, <2>2 DEF Its
  <2>4. CASE old # <<>>
    <3>1. (old \o new)[1] = old[1]
      BY <2>3, <2>4
    <3>2. f \in Facts /\ listed'[f][1] = listed[f][1]
      BY <2>1, <2>3, <2>4, <3>1 DEF Facts
    <3>3. QED
      BY <1>6, <3>2
  <2>5. CASE old = <<>>
    <3>1. new # <<>> /\ (old \o new)[1] = new[1]
      BY <2>1, <2>3, <2>5
    <3>2. listed'[f][1] = new[1] /\ new[1] \in Added(c) /\ f \in States[new[1]]
      BY <2>2, <2>3, <3>1 DEF Its
    <3>3. CASE What[c] = "addBulk"
      BY <3>2, <3>3 DEF Sourced, Bulk, Added
    <3>4. CASE What[c] = "add"
      BY <1>1, <1>2, <3>2, <3>4 DEF Sourced
    <3>5. QED
      BY <1>1, <3>3, <3>4 DEF Adding
  <2>6. QED
    BY <2>4, <2>5
<1>8. QED
  BY <1>1, <1>3, <1>4, <1>7, LeftAlone

LEMMA LeftEpisodes ==
    ASSUME Left, ListsTyped, OnceInv, RemovalInv, OneAdds, StoredOnce, crashes \in Nat,
           NEW c \in Call, EpisodeStep(c), Moves(c), Serial'
    PROVE  Left'
<1>1. /\ Whereabouts /\ Typed /\ made' = made /\ made \subseteq Call /\ c \in made
      /\ pc \in [Call -> Labels] /\ InPlace(c, pc[c])
      /\ \A d \in Call \ {c} : pc'[d] = pc[d]
      /\ \A d \in made \ {c} : c \in Removals \/ d \in Removals => ~ Underway(d)
  BY TimePasses, SerialAlone, Callers DEF OnceInv, RemovalInv, Whereabouts
<1>2. ~ Crash(c)
  BY DEF Crash, Serial
<1>3. CASE \/ FindEpisode(c) \/ FindMentioned(c) \/ Count(c) \/ Counted(c) \/ DropFacts(c)
           \/ DropEntities(c) \/ DropEpisode(c)
  <2>1. c \in Removals
    BY <1>1, <1>3 DEF FindEpisode, FindMentioned, Count, Counted, DropFacts, DropEntities,
       DropEpisode, InPlace, Removing, Removals
  <2>2. \A d \in made \ {c} : ~ Underway(d)
    BY <1>1, <2>1
  <2>3. QED
    BY <1>1, <1>3, <2>1, <2>2, LeftFinds, LeftCounts, LeftDrops
<1>4. CASE Save(c)
  <2>1. \A d \in made \ {c} : pc[d] # "save"
    BY <1>1, <1>4, Lone DEF Save, AddingAt
  <2>2. QED
    BY <1>1, <1>4, <2>1, LeftSaves
<1>5. CASE StoreEpisodes(c) \/ Resolve(c) \/ FindSaga(c) \/ FindPrevious(c) \/ Link(c) \/ Join(c)
  <2>1. UNCHANGED <<entities, mentions, listed, stated, removing>> /\ episodes \subseteq episodes'
    BY <1>5 DEF StoreEpisodes, Resolve, FindSaga, FindPrevious, Link, Join, graph
  <2>2. c \notin Removals
    BY <1>1, <1>5 DEF StoreEpisodes, Resolve, FindSaga, FindPrevious, Link, Join, InPlace, AddingAt, Adding, Removals
  <2>3. pc'[c] = "save" => found'[c] = listed
    BY <1>1, <1>5 DEF StoreEpisodes, Resolve, FindSaga, FindPrevious, Link, Join, Goto, ListsTyped
  <2>4. \A d \in made \ {c} : pc'[d] = "save" => found'[d] = found[d]
    BY <1>1, <1>5 DEF StoreEpisodes, Resolve, FindSaga, FindPrevious, Link, Join, adding, ListsTyped
  <2>5. \A d \in made : pc'[d] = "save" => (pc[d] = "save" /\ found'[d] = found[d]) \/ found'[d] = listed
    BY <1>1, <2>3, <2>4
  <2>6. \A d \in Removals : pc'[d] = pc[d]
    BY <1>1, <2>2, Callers
  <2>7. QED
    BY <1>1, <2>1, <2>5, <2>6, LeftFrame
<1>6. QED
  BY <1>2, <1>3, <1>4, <1>5 DEF EpisodeStep

LEMMA LeftNext ==
    ASSUME OnceInv, TreeInv, LinkInv, RemovalInv, LeftInv, [Next]_vars
    PROVE  LeftInv'
<1>1. ListsTyped'
  BY ListsNext DEF LeftInv, OnceInv
<1>2. Whereabouts /\ made' = made /\ made \subseteq Call /\ Removals' = Removals /\ Removals \subseteq Call
  BY StepMoves, Callers DEF OnceInv, Removals
<1>3. CASE UNCHANGED vars
  <2>1. /\ UNCHANGED <<episodes, entities, mentions, listed, stated, removing, found, pc, before, crashes>>
    BY <1>3 DEF vars, episodeVars, graph, ends, adding
  <2>2. Serial' => Serial
    BY <1>2, <2>1 DEF Serial, Overlap
  <2>3. Left => Left'
    BY <1>2, <2>1, LeftFrame
  <2>4. QED
    BY <1>1, <2>2, <2>3 DEF LeftInv
<1>4. ASSUME NEW c \in Call, Moves(c), crashes' = 0 => crashes = 0, Serial' PROVE Serial
  <2>1. \A d, e \in Call : Overlap(d, e) => Overlap(d, e)'
    BY <1>4, TimePasses DEF OnceInv
  <2>2. QED
    BY <1>2, <1>4, <2>1 DEF Serial
<1>5. ASSUME NEW c \in Call, EpisodeStep(c), Serial' PROVE Left'
  <2>1. Moves(c) /\ crashes \in Nat /\ crashes' \in Nat /\ crashes' >= crashes
    BY <1>2, <1>5, EpisodeMoves, Worsens DEF LinkInv
  <2>2. Left
    BY <1>4, <1>5, <2>1 DEF LeftInv
  <2>3. QED
    BY <1>5, <2>1, <2>2, LeftEpisodes DEF LeftInv, TreeInv
<1>6. ASSUME NEW c \in Call, CommunityStep(c), Serial' PROVE Left'
  <2>1. Moves(c) /\ UNCHANGED local /\ pc'[c] \notin Removing /\ ~ Adding(c)
    BY <1>2, <1>6, CommunityMoves, Nobody
  <2>2. UNCHANGED <<episodes, entities, mentions, listed, stated, removing, found, crashes>>
    BY <2>1 DEF local, graph, adding
  <2>3. Left
    BY <1>4, <1>6, <2>1, <2>2 DEF LeftInv
  <2>4. Whereabouts' /\ \A d \in Call \ {c} : pc'[d] = pc[d]
    BY <1>2, <2>1, MovesWhereabouts
  <2>5. c \notin Removals
    BY <1>2, <1>6 DEF CommunityStep, RemoveCommunities, ListGroup, ReadNeighbours, Propagate, Load,
       Summarize, SaveNode, SaveMember, Determine, AddMember, SaveCommunity, Removals, Whereabouts,
       InPlace, BuildingAt, Reading, UpdatingAt
  <2>6. pc'[c] # "save"
    BY <2>1, <2>4 DEF Whereabouts, InPlace, AddingAt
  <2>7. QED
    BY <1>2, <2>2, <2>3, <2>4, <2>5, <2>6, LeftFrame
<1>7. QED
  BY <1>1, <1>3, <1>5, <1>6 DEF Next, EpisodeStepHere, LeftInv

LEMMA LeftInit == Init => LeftInv
<1> SUFFICES ASSUME Init PROVE LeftInv
  OBVIOUS
<1>1. /\ made \in Scenarios /\ pc = [c \in Call |-> "start"]
      /\ episodes = {} /\ entities = AtStart /\ mentions = {} /\ listed = [f \in Fact |-> <<>>]
      /\ stated = [e \in Episode |-> {}] /\ found = [c \in Call |-> [f \in Fact |-> <<>>]]
  BY DEF Init, EpisodesInit, NoFacts
<1>2. made \subseteq Call /\ <<>> \in Seq(Episode)
  BY <1>1, EpisodesAssumption
<1>3. ListsTyped
  BY <1>1, <1>2 DEF ListsTyped
<1>4. Facts = {}
  BY <1>1 DEF Facts
<1>5. \A c \in made : pc[c] = "start"
  BY <1>1, <1>2
<1>6. \A c \in Removals : KeepsOthers(c) /\ KeepsFacts(c)
  BY <1>4, <1>5 DEF KeepsOthers, KeepsFacts, Looked, Removals
<1>7. Left
  BY <1>1, <1>4, <1>5, <1>6 DEF Left
<1>8. QED
  BY <1>3, <1>7 DEF LeftInv

LEMMA LeftImplies == LeftInv => NothingLeftBehind
<1> SUFFICES ASSUME Left
             PROVE  /\ \A n \in entities \ AtStart : \E e \in episodes : <<e, n>> \in mentions
                    /\ \A f \in Facts : \/ listed[f][1] \in episodes
                                        \/ \E c \in made : What[c] = "addBulk" /\ listed[f][1] \in Added(c)
  BY DEF NothingLeftBehind, LeftInv, Serial
<1>1. ASSUME NEW n \in entities \ AtStart PROVE \E e \in episodes : <<e, n>> \in mentions
  <2>1. PICK m \in mentions : m[2] = n
    BY DEF Left, Mentioned
  <2>2. m[1] \in episodes /\ m = <<m[1], n>>
    BY <2>1 DEF Left
  <2>3. QED
    BY <2>2
<1>2. QED
  BY <1>1 DEF Left, Sourced, Bulk

(* RemovalExact: remove_episode takes what is the episode's own and        *)
(* nothing that another one mentions but by a race; and when all is calm   *)
(* it has left nothing behind, unless calls overlapped or a client died.   *)
THEOREM RemovalIsExact == Spec => []RemovalExact
<1>1. Init => OnceInv /\ TreeInv /\ LinkInv /\ RemovalInv /\ LeftInv
  BY OnceInit, TreeInit, LinkInit, RemovalInit, LeftInit
<1>2. /\ OnceInv /\ TreeInv /\ LinkInv /\ RemovalInv /\ LeftInv /\ [Next]_vars
      => OnceInv' /\ TreeInv' /\ LinkInv' /\ RemovalInv' /\ LeftInv'
  BY OnceNext, TreeNext, LinkNext, RemovalNext, LeftNext
<1>3. RemovalInv /\ LeftInv => RemovalExact
  BY RemovalImplies, LeftImplies DEF RemovalExact
<1>4. QED
  BY <1>1, <1>2, <1>3, PTL DEF Spec
=============================================================================
