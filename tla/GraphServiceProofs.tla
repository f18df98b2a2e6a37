------------------------- MODULE GraphServiceProofs -------------------------
(***************************************************************************)
(* Proofs about GraphService for every set of jobs, groups and requests.   *)
(***************************************************************************)
EXTENDS GraphService, SequenceTheorems, TLAPS

(* The specification without its fairness.  What is safe is so by the      *)
(* steps alone, and therefore in whatever takes no others: the lemmas in   *)
(* -Safely say this, and the theorems repeat it of the specification.      *)
GSSafety == GSInit /\ [][GSNext]_gsVars

(* Accepting a body of messages, whatever it is.                           *)
LEMMA AddMessagesTyped ==
    ASSUME GSTypeOK, NEW b \in Seq(Job), AddMessages(b)
    PROVE  GSTypeOK'
<1> USE GraphServiceAssumption
<1> DEFINE rank(j) == CHOOSE i \in DOMAIN b : b[i] = j
<1>1. Len(b) \in Nat
  OBVIOUS
<1>2. \A j \in Range(b) : rank(j) \in Nat
  BY <1>1 DEF Range
<1>3. ticket' = [j \in Job |-> IF j \in Range(b) THEN issued + rank(j) ELSE ticket[j]]
  BY DEF AddMessages
<1> HIDE DEF rank
<1>4. ticket' \in [Job -> Nat]
  BY <1>2, <1>3 DEF GSTypeOK
<1>5. queue' \in Seq(Job) /\ issued' \in Nat
  BY <1>1 DEF AddMessages, GSTypeOK
<1>6. QED
  BY <1>4, <1>5 DEF AddMessages, GSTypeOK, graphVars, Node

(* Every step keeps the state well typed.                                  *)
LEMMA TypeStep ==
    ASSUME GSTypeOK, [GSNext]_gsVars
    PROVE  GSTypeOK'
<1> USE GraphServiceAssumption
<1>1. CASE \E b \in Batches : AddMessages(b)
  <2>1. PICK b \in Batches : AddMessages(b)  BY <1>1
  <2>2. b \in Seq(Job)  OBVIOUS
  <2>3. QED  BY <2>1, <2>2, AddMessagesTyped
<1>2. CASE StartJob
  <2>1. context' \in SUBSET Precedes(Head(queue))
    BY <1>2 DEF StartJob, Latest
  <2>2. context' \subseteq Job
    BY <2>1 DEF Precedes, GSTypeOK
  <2>3. QED
    BY <1>2, <2>2 DEF StartJob, Running, GSTypeOK, graphVars, histVars, Node
<1>3. CASE ResolveNode \/ ResolveFact
  <2>1. CASE ResolveNode
    BY <2>1 DEF ResolveNode, Running, GSTypeOK, graphVars, histVars, Node
  <2>2. CASE ResolveFact
    <3>1. saving' \subseteq Job \X Node
      BY <2>2 DEF ResolveFact, Running, GSTypeOK, Node
    <3>2. QED
      BY <2>2, <3>1 DEF ResolveFact, Running, GSTypeOK, graphVars, histVars, Node
  <2>3. QED  BY <1>3, <2>1, <2>2
<1>4. CASE CommitEpisode
  BY <1>4 DEF CommitEpisode, NoteRace, NodeGroup, Running, GSTypeOK, Node
<1>5. CASE FinishJob
  BY <1>5 DEF FinishJob, NextJob, GSTypeOK, graphVars, histVars, Node
<1>6. CASE FailJob
  BY <1>6 DEF FailJob, NextJob, Running, GSTypeOK, graphVars, Node
<1>7. CASE \E g \in Group : AddEntityNode(g)
  BY <1>7 DEF AddEntityNode, NoteRace, workerVars, GSTypeOK, Node
<1>8. CASE \E j \in Job : DeleteEpisode(j)
  BY <1>8 DEF DeleteEpisode, RemoveEpisodes, workerVars, GSTypeOK, Node
<1>9. CASE \E n \in Node : DeleteNode(n)
  BY <1>9 DEF DeleteNode, RemoveNodes, workerVars, histVars, GSTypeOK, Node
<1>10. CASE \E f \in facts : DeleteEntityEdge(f)
  BY <1>10 DEF DeleteEntityEdge, workerVars, histVars, GSTypeOK, Node
<1>11. CASE Clear
  BY <1>11 DEF Clear, workerVars, histVars, GSTypeOK, Node
<1>12. CASE \E d \in DeleteCall, g \in Group : BeginDelete(d, g)
  <2>1. PICK d \in DeleteCall, g \in Group : BeginDelete(d, g)  BY <1>12
  <2>2. [Idle EXCEPT !.phase = "edges", !.group = {g}] \in DeleteState
    BY DEF Idle, DeleteState, Reading
  <2>3. QED
    BY <2>1, <2>2 DEF BeginDelete, workerVars, graphVars, histVars, GSTypeOK, Node
<1>13. CASE \E d \in DeleteCall : DeleteStep(d)
  <2>1. PICK d \in DeleteCall : DeleteStep(d)  BY <1>13
  <2>2. del[d] \in DeleteState  BY DEF GSTypeOK
  <2>3. CASE ReadEdges(d)
    BY <2>2, <2>3 DEF ReadEdges, DeleteState, Reading, workerVars, graphVars, histVars, GSTypeOK, Node
  <2>4. CASE ReadNodes(d)
    BY <2>2, <2>4 DEF ReadNodes, DeleteState, Reading, workerVars, graphVars, histVars, GSTypeOK, Node
  <2>5. CASE ReadEpisodes(d)
    BY <2>2, <2>5 DEF ReadEpisodes, DeleteState, Reading, workerVars, graphVars, histVars, GSTypeOK, Node
  <2>6. CASE DeleteOneEdge(d)
    <3>1. del' \in [DeleteCall -> DeleteState]
      <4>1. PICK x : del' = [del EXCEPT ![d].facts = @ \ {x}]
        BY <2>6 DEF DeleteOneEdge
      <4>2. [del[d] EXCEPT !.facts = @ \ {x}] \in DeleteState
        BY <2>2 DEF DeleteState
      <4>3. QED
        BY <4>1, <4>2 DEF GSTypeOK
    <3>2. QED
      BY <2>6, <3>1 DEF DeleteOneEdge, workerVars, histVars, GSTypeOK, Node
  <2>7. CASE DeleteOneNode(d)
    <3>1. del' \in [DeleteCall -> DeleteState]
      <4>1. PICK x : del' = [del EXCEPT ![d].nodes = @ \ {x}]
        BY <2>7 DEF DeleteOneNode
      <4>2. [del[d] EXCEPT !.nodes = @ \ {x}] \in DeleteState
        BY <2>2 DEF DeleteState
      <4>3. QED
        BY <4>1, <4>2 DEF GSTypeOK
    <3>2. QED
      BY <2>7, <3>1 DEF DeleteOneNode, RemoveNodes, workerVars, histVars, GSTypeOK, Node
  <2>8. CASE DeleteOneEpisode(d)
    <3>1. del' \in [DeleteCall -> DeleteState]
      <4>1. PICK x : del' = [del EXCEPT ![d].episodes = @ \ {x}]
        BY <2>8 DEF DeleteOneEpisode
      <4>2. [del[d] EXCEPT !.episodes = @ \ {x}] \in DeleteState
        BY <2>2 DEF DeleteState
      <4>3. QED
        BY <4>1, <4>2 DEF GSTypeOK
    <3>2. QED
      BY <2>8, <3>1 DEF DeleteOneEpisode, RemoveEpisodes, workerVars, histVars, GSTypeOK, Node
  <2>9. CASE FinishDelete(d)
    BY <2>2, <2>9 DEF FinishDelete, DeleteState, workerVars, graphVars, histVars, GSTypeOK, Node
  <2>10. CASE FailDelete(d)
    BY <2>2, <2>10 DEF FailDelete, Idle, DeleteState, workerVars, graphVars, histVars, GSTypeOK, Node
  <2>11. QED
    BY <2>1, <2>3, <2>4, <2>5, <2>6, <2>7, <2>8, <2>9, <2>10 DEF DeleteStep
<1>14. ASSUME LoseQueue, del' \in [DeleteCall -> DeleteState]
       PROVE  GSTypeOK'
  <2>1. lost' \subseteq Job
    BY <1>14 DEF LoseQueue, Running, Range, GSTypeOK
  <2>2. crashes' \in 0..MaxCrashes
    BY <1>14 DEF LoseQueue, GSTypeOK
  <2>3. /\ running' = FALSE /\ queue' = <<>> /\ current' = NoJob
        /\ phase' = "waiting" /\ context' = {} /\ target' = NoJob /\ saving' = {}
        /\ UNCHANGED <<episodes, nodes, mentions, facts, ticket, issued, log,
                       failed, raced, revived, detached>>
    BY <1>14 DEF LoseQueue, NextJob, graphVars
  <2>4. queue' \in Seq(Job)
    BY <2>3
  <2>5. /\ running' \in BOOLEAN
        /\ current' \in Job \cup {NoJob}
        /\ phase' = "waiting" <=> current' = NoJob
    BY <2>3
  <2>6. context' \subseteq Job /\ target' \in Node \cup {NoJob} /\ saving' \subseteq Job \X Node
    BY <2>3
  <2>7. QED
    BY <1>14, <2>1, <2>2, <2>3, <2>4, <2>5, <2>6 DEF GSTypeOK, Node
<1>15. CASE Stop \/ Crash
  <2>1. CASE Stop
    BY <2>1, <1>14 DEF Stop, GSTypeOK
  <2>2. CASE Crash
    <3>1. del' \in [DeleteCall -> DeleteState]
      BY <2>2 DEF Crash, Idle, DeleteState, GSTypeOK
    <3>2. QED
      BY <2>2, <3>1, <1>14 DEF Crash
  <2>3. QED
    BY <1>15, <2>1, <2>2
<1>16. CASE Start
  BY <1>16 DEF Start, workerVars, graphVars, histVars, GSTypeOK, Node
<1>17. CASE UNCHANGED gsVars
  BY <1>17 DEF gsVars, workerVars, graphVars, histVars, GSTypeOK
<1>18. QED
  BY <1>1, <1>2, <1>3, <1>4, <1>5, <1>6, <1>7, <1>8, <1>9, <1>10, <1>11, <1>12,
     <1>13, <1>15, <1>16, <1>17 DEF GSNext, WorkerStep

LEMMA TypeSafely == GSSafety => []GSTypeOK
<1>1. GSInit => GSTypeOK
  BY GraphServiceAssumption DEF GSInit, GSTypeOK, Idle, DeleteState, Node
<1>2. GSTypeOK /\ [GSNext]_gsVars => GSTypeOK'
  BY TypeStep
<1>3. QED
  BY <1>1, <1>2, PTL DEF GSSafety

(* The state always has the shape the type invariant describes.            *)
THEOREM TypeCorrect == GSSpec => []GSTypeOK
  BY TypeSafely, PTL DEF GSSpec, GSSafety
-----------------------------------------------------------------------------
(***************************************************************************)
(* Order.  InOrder is not inductive: it says nothing of the jobs that are  *)
(* still to be committed.  Ranked adds that the tickets also grow along    *)
(* the queue, and that the job in hand stands between log and queue.       *)
(***************************************************************************)
Ranked ==
    /\ \A j \in Job : ticket[j] <= issued
    /\ \A j \in Range(queue) \cup Range(log) \cup Uncommitted : ticket[j] > 0
    /\ \A i, k \in DOMAIN queue : i < k => ticket[queue[i]] < ticket[queue[k]]
    /\ InOrder
    /\ \A j \in Range(log), k \in Range(queue) \cup Uncommitted : ticket[j] < ticket[k]
    /\ \A j \in Uncommitted, k \in Range(queue) : ticket[j] < ticket[k]

(* What the sequence operators of the model do to the set of elements.     *)
LEMMA RangeInSet ==
    ASSUME NEW S, NEW s \in Seq(S)
    PROVE  Range(s) \subseteq S
BY DEF Range

LEMMA RangeConcat ==
    ASSUME NEW S, NEW s \in Seq(S), NEW t \in Seq(S)
    PROVE  Range(s \o t) = Range(s) \cup Range(t)
<1>1. \A x \in Range(s \o t) : x \in Range(s) \cup Range(t)
  BY DEF Range
<1>2. ASSUME NEW x \in Range(s) PROVE x \in Range(s \o t)
  <2>1. PICK i \in DOMAIN s : s[i] = x  BY DEF Range
  <2>2. i \in DOMAIN (s \o t) /\ (s \o t)[i] = x  BY <2>1
  <2>3. QED  BY <2>2 DEF Range
<1>3. ASSUME NEW x \in Range(t) PROVE x \in Range(s \o t)
  <2>1. PICK i \in DOMAIN t : t[i] = x  BY DEF Range
  <2>2. Len(s) + i \in DOMAIN (s \o t) /\ (s \o t)[Len(s) + i] = x  BY <2>1
  <2>3. QED  BY <2>2 DEF Range
<1>4. QED  BY <1>1, <1>2, <1>3

LEMMA RangeAppend ==
    ASSUME NEW S, NEW s \in Seq(S), NEW x \in S
    PROVE  Range(Append(s, x)) = Range(s) \cup {x}
<1>1. \A y \in Range(Append(s, x)) : y \in Range(s) \cup {x}
  BY DEF Range
<1>2. ASSUME NEW y \in Range(s) PROVE y \in Range(Append(s, x))
  <2>1. PICK i \in DOMAIN s : s[i] = y  BY DEF Range
  <2>2. i \in DOMAIN Append(s, x) /\ Append(s, x)[i] = y  BY <2>1
  <2>3. QED  BY <2>2 DEF Range
<1>3. x \in Range(Append(s, x))
  <2>1. Len(s) + 1 \in DOMAIN Append(s, x) /\ Append(s, x)[Len(s) + 1] = x  OBVIOUS
  <2>2. QED  BY <2>1 DEF Range
<1>4. QED  BY <1>1, <1>2, <1>3

LEMMA RangeHeadTail ==
    ASSUME NEW S, NEW s \in Seq(S), s # <<>>
    PROVE  /\ Head(s) \in S /\ Tail(s) \in Seq(S)
           /\ Range(s) = {Head(s)} \cup Range(Tail(s))
<1>1. Head(s) = s[1] /\ 1 \in DOMAIN s /\ Head(s) \in S /\ Tail(s) \in Seq(S)
  OBVIOUS
<1>2. \A x \in Range(Tail(s)) : x \in Range(s)
  BY DEF Range
<1>3. ASSUME NEW x \in Range(s), x # Head(s) PROVE x \in Range(Tail(s))
  <2>1. PICK i \in DOMAIN s : s[i] = x  BY DEF Range
  <2>2. i # 1  BY <1>1, <1>3, <2>1
  <2>3. i - 1 \in DOMAIN Tail(s) /\ Tail(s)[i - 1] = x  BY <2>1, <2>2
  <2>4. QED  BY <2>3 DEF Range
<1>4. Head(s) \in Range(s)
  BY <1>1 DEF Range
<1>5. QED  BY <1>1, <1>2, <1>3, <1>4

(* The tickets that a request adds, and what it leaves alone.              *)
LEMMA NewTickets ==
    ASSUME GSTypeOK, NEW b \in Batches, AddMessages(b)
    PROVE  /\ b \in Seq(Job) /\ Len(b) \in Nat
           /\ \A i \in DOMAIN b : ticket[b[i]] = 0 /\ ticket'[b[i]] = issued + i
           /\ \A j \in Job \ Range(b) : ticket'[j] = ticket[j]
<1>1. b \in Seq(Job) /\ Len(b) \in Nat
  BY GraphServiceAssumption
<1>2. \A i, k \in DOMAIN b : i # k => b[i] # b[k]
  BY GraphServiceAssumption
<1> DEFINE rank(j) == CHOOSE i \in DOMAIN b : b[i] = j
<1>3. ticket' = [j \in Job |-> IF j \in Range(b) THEN issued + rank(j) ELSE ticket[j]]
  BY DEF AddMessages
<1>4. ASSUME NEW i \in DOMAIN b PROVE b[i] \in Range(b) /\ b[i] \in Job /\ rank(b[i]) = i
  BY <1>1, <1>2 DEF Range
<1> HIDE DEF rank
<1>5. \A i \in DOMAIN b : ticket'[b[i]] = issued + i
  BY <1>3, <1>4
<1>6. \A i \in DOMAIN b : ticket[b[i]] = 0
  BY <1>4 DEF AddMessages
<1>7. QED
  BY <1>1, <1>3, <1>5, <1>6

(* Whatever leaves queue, worker and log alone leaves Ranked alone.        *)
LEMMA RankedFrame ==
    ASSUME Ranked, UNCHANGED <<queue, current, phase, ticket, issued, log>>
    PROVE  Ranked'
BY DEF Ranked, InOrder, Uncommitted, Range

(* Every step keeps the jobs ranked.                                       *)
LEMMA RankedStep ==
    ASSUME GSTypeOK, GSTypeOK', Ranked, [GSNext]_gsVars
    PROVE  Ranked'
<1>1. ASSUME NEW b \in Batches, AddMessages(b) PROVE Ranked'
  <2>1. /\ b \in Seq(Job) /\ Len(b) \in Nat
        /\ \A i \in DOMAIN b : ticket[b[i]] = 0 /\ ticket'[b[i]] = issued + i
        /\ \A j \in Job \ Range(b) : ticket'[j] = ticket[j]
    BY <1>1, NewTickets
  <2>2. /\ queue' = queue \o b /\ issued' = issued + Len(b) /\ log' = log
        /\ Uncommitted' = Uncommitted
    BY <1>1 DEF AddMessages, Uncommitted
  <2>3. /\ queue \in Seq(Job) /\ log \in Seq(Job) /\ Uncommitted \subseteq Job
        /\ Range(queue) \subseteq Job /\ Range(log) \subseteq Job
        /\ issued \in Nat /\ ticket \in [Job -> Nat] /\ ticket' \in [Job -> Nat]
    BY RangeInSet DEF GSTypeOK, Uncommitted, Running
  <2>4. \A j \in Range(b) : ticket[j] = 0 /\ ticket'[j] > issued /\ ticket'[j] <= issued'
    BY <2>1, <2>2, <2>3 DEF Range
  <2>5. Range(queue') = Range(queue) \cup Range(b)
    BY <2>1, <2>2, <2>3, RangeConcat
  <2>6. \A j \in Range(queue) \cup Range(log) \cup Uncommitted : ticket'[j] = ticket[j]
    BY <2>1, <2>3, <2>4 DEF Ranked
  <2>7. \A j \in Job : ticket'[j] <= issued'
    <3>1. ASSUME NEW j \in Job \ Range(b) PROVE ticket'[j] <= issued'
      BY <2>1, <2>2, <2>3 DEF Ranked
    <3>2. QED  BY <2>4, <3>1
  <2>8. \A j \in Range(queue') \cup Range(log') \cup Uncommitted' : ticket'[j] > 0
    BY <2>1, <2>2, <2>3, <2>4, <2>5, <2>6, RangeInSet DEF Ranked
  <2>9. \A i, k \in DOMAIN queue' : i < k => ticket'[queue'[i]] < ticket'[queue'[k]]
    <3> SUFFICES ASSUME NEW i \in DOMAIN queue', NEW k \in DOMAIN queue', i < k
                 PROVE  ticket'[queue'[i]] < ticket'[queue'[k]]
      OBVIOUS
    <3>1. /\ i \in Nat /\ k \in Nat /\ i >= 1 /\ k <= Len(queue) + Len(b)
          /\ Len(queue) \in Nat
      BY <2>1, <2>2, <2>3
    <3>2. CASE k <= Len(queue)
      <4>1. i \in DOMAIN queue /\ k \in DOMAIN queue
        BY <2>3, <3>1, <3>2
      <4>2. queue'[i] = queue[i] /\ queue'[k] = queue[k]
        BY <2>1, <2>2, <2>3, <4>1
      <4>3. queue[i] \in Range(queue) /\ queue[k] \in Range(queue)
        BY <4>1 DEF Range
      <4>4. QED  BY <2>6, <4>1, <4>2, <4>3 DEF Ranked
    <3>3. CASE i <= Len(queue) /\ k > Len(queue)
      <4>1. i \in DOMAIN queue /\ k - Len(queue) \in DOMAIN b
        BY <2>1, <2>3, <3>1, <3>3
      <4>2. queue'[i] = queue[i] /\ queue'[k] = b[k - Len(queue)]
        BY <2>1, <2>2, <2>3, <3>1, <3>3, <4>1
      <4>3. queue[i] \in Range(queue) /\ b[k - Len(queue)] \in Range(b)
        BY <4>1 DEF Range
      <4>4. ticket'[queue[i]] <= issued
        BY <2>3, <2>6, <4>3 DEF Ranked
      <4>5. ticket'[b[k - Len(queue)]] = issued + (k - Len(queue)) /\ k - Len(queue) >= 1
        BY <2>1, <4>1
      <4>6. ticket'[queue[i]] \in Nat
        BY <2>3, <4>3
      <4>7. QED  BY <2>3, <3>1, <4>2, <4>4, <4>5, <4>6
    <3>4. CASE i > Len(queue)
      <4>1. i - Len(queue) \in DOMAIN b /\ k - Len(queue) \in DOMAIN b
        BY <2>1, <2>3, <3>1, <3>4
      <4>2. /\ queue'[i] = b[i - Len(queue)]
            /\ queue'[k] = b[k - Len(queue)]
        <5>1. queue'[i] = b[i - Len(queue)]
          BY <2>1, <2>2, <2>3, <3>1, <3>4, <4>1
        <5>2. queue'[k] = b[k - Len(queue)]
          BY <2>1, <2>2, <2>3, <3>1, <3>4, <4>1
        <5>3. QED  BY <5>1, <5>2
      <4>3. /\ ticket'[b[i - Len(queue)]] = issued + (i - Len(queue))
            /\ ticket'[b[k - Len(queue)]] = issued + (k - Len(queue))
        BY <2>1, <4>1
      <4>4. QED  BY <2>3, <3>1, <4>2, <4>3
    <3>5. QED  BY <3>1, <3>2, <3>3, <3>4
  <2>10. InOrder'
    BY <2>2, <2>6 DEF Ranked, InOrder, Range
  <2>11. \A j \in Range(log'), k \in Range(queue') \cup Uncommitted' : ticket'[j] < ticket'[k]
    <3>1. \A j \in Range(log) : ticket'[j] <= issued /\ ticket'[j] \in Nat
      BY <2>3, <2>6 DEF Ranked
    <3>2. \A k \in Range(b) : ticket'[k] > issued /\ ticket'[k] \in Nat
      BY <2>1, <2>3, <2>4, RangeInSet
    <3>3. QED  BY <2>2, <2>3, <2>5, <2>6, <3>1, <3>2 DEF Ranked
  <2>12. \A j \in Uncommitted', k \in Range(queue') : ticket'[j] < ticket'[k]
    <3>1. \A j \in Uncommitted : ticket'[j] <= issued /\ ticket'[j] \in Nat
      BY <2>3, <2>6 DEF Ranked
    <3>2. \A k \in Range(b) : ticket'[k] > issued /\ ticket'[k] \in Nat
      BY <2>1, <2>3, <2>4, RangeInSet
    <3>3. QED  BY <2>2, <2>3, <2>5, <2>6, <3>1, <3>2 DEF Ranked
  <2>13. QED
    BY <2>7, <2>8, <2>9, <2>10, <2>11, <2>12 DEF Ranked
<1>2. CASE StartJob
  <2>1. /\ Head(queue) \in Job /\ Tail(queue) \in Seq(Job)
        /\ Range(queue) = {Head(queue)} \cup Range(Tail(queue))
    BY <1>2, RangeHeadTail DEF StartJob, GSTypeOK
  <2>2. /\ queue' = Tail(queue) /\ Uncommitted' = {Head(queue)} /\ log' = log
        /\ ticket' = ticket /\ issued' = issued /\ Uncommitted = {}
    BY <1>2 DEF StartJob, histVars, Uncommitted, Running
  <2>3. queue \in Seq(Job) /\ queue # <<>>
    BY <1>2 DEF StartJob, GSTypeOK
  <2>4. \A i \in DOMAIN queue' : i + 1 \in DOMAIN queue /\ queue'[i] = queue[i + 1] /\ 1 < i + 1
    BY <2>2, <2>3
  <2>5. \A i, k \in DOMAIN queue' : i < k => ticket'[queue'[i]] < ticket'[queue'[k]]
    <3>1. \A i, k \in DOMAIN queue' : i < k => i + 1 < k + 1
      BY <2>2, <2>3
    <3>2. QED  BY <2>2, <2>4, <3>1 DEF Ranked
  <2>6. \A j \in Uncommitted', k \in Range(queue') : ticket'[j] < ticket'[k]
    <3>1. Head(queue) = queue[1] /\ 1 \in DOMAIN queue
      BY <2>3
    <3>2. ASSUME NEW k \in Range(queue') PROVE ticket[Head(queue)] < ticket[k]
      <4>1. PICK i \in DOMAIN queue' : queue'[i] = k  BY DEF Range
      <4>2. QED  BY <2>4, <3>1, <4>1 DEF Ranked
    <3>3. QED  BY <2>2, <3>2
  <2>7. QED
    BY <2>1, <2>2, <2>5, <2>6 DEF Ranked, InOrder
<1>3. CASE CommitEpisode
  <2>1. /\ current \in Job /\ Uncommitted = {current} /\ Uncommitted' = {}
        /\ log' = Append(log, current) /\ log \in Seq(Job)
        /\ queue' = queue /\ ticket' = ticket /\ issued' = issued
    BY <1>3 DEF CommitEpisode, GSTypeOK, Uncommitted, Running
  <2>2. Range(log') = Range(log) \cup {current}
    BY <2>1, RangeAppend
  <2>3. \A i \in DOMAIN log' : \/ i \in DOMAIN log /\ log'[i] = log[i]
                               \/ i = Len(log) + 1 /\ log'[i] = current
    BY <2>1
  <2>4. InOrder'
    <3> SUFFICES ASSUME NEW i \in DOMAIN log', NEW k \in DOMAIN log', i < k
                 PROVE  ticket[log'[i]] < ticket[log'[k]]
      BY <2>1 DEF InOrder
    <3>1. i \in DOMAIN log /\ log'[i] = log[i] /\ log[i] \in Range(log)
      BY <2>1, <2>3 DEF Range
    <3>2. QED  BY <2>1, <2>3, <3>1 DEF Ranked, InOrder
  <2>5. QED
    BY <2>1, <2>2, <2>4 DEF Ranked
<1>4. CASE FailJob \/ FinishJob
  <2>1. Uncommitted' = {} /\ UNCHANGED <<queue, ticket, issued, log>>
    BY <1>4 DEF FailJob, FinishJob, NextJob, Uncommitted, Running, histVars
  <2>2. QED
    BY <2>1 DEF Ranked, InOrder
<1>5. CASE ResolveNode \/ ResolveFact
  <2>1. Uncommitted' = Uncommitted /\ UNCHANGED <<queue, ticket, issued, log>>
    BY <1>5 DEF ResolveNode, ResolveFact, Uncommitted, Running, histVars
  <2>2. QED
    BY <2>1 DEF Ranked, InOrder
<1>6. CASE Stop \/ Crash
  <2>1. /\ queue' = <<>> /\ Uncommitted' = {} /\ UNCHANGED <<ticket, issued, log>>
    BY <1>6 DEF Stop, Crash, LoseQueue, NextJob, Uncommitted, Running
  <2>2. Range(queue') = {} /\ DOMAIN queue' = {}
    BY <2>1 DEF Range
  <2>3. QED
    BY <2>1, <2>2 DEF Ranked, InOrder
<1>7. ASSUME NEW d \in DeleteCall, DeleteStep(d) PROVE Ranked'
  BY <1>7, RankedFrame DEF DeleteStep, ReadEdges, ReadNodes, ReadEpisodes, DeleteOneEdge,
     DeleteOneNode, DeleteOneEpisode, FinishDelete, FailDelete, workerVars, histVars
<1>8. CASE \/ \E g \in Group : AddEntityNode(g)
           \/ \E j \in Job : DeleteEpisode(j)
           \/ \E n \in Node : DeleteNode(n)
           \/ \E f \in facts : DeleteEntityEdge(f)
           \/ \E d \in DeleteCall, g \in Group : BeginDelete(d, g)
           \/ Clear \/ Start
  BY <1>8, RankedFrame DEF AddEntityNode, DeleteEpisode, DeleteNode, DeleteEntityEdge,
     BeginDelete, Clear, Start, workerVars, histVars
<1>9. CASE UNCHANGED gsVars
  BY <1>9, RankedFrame DEF gsVars, workerVars, histVars
<1>10. QED
  BY <1>1, <1>2, <1>3, <1>4, <1>5, <1>6, <1>7, <1>8, <1>9 DEF GSNext, WorkerStep

LEMMA OrderSafely == GSSafety => []InOrder
<1>1. GSInit => Ranked
  BY GraphServiceAssumption DEF GSInit, Ranked, InOrder, Uncommitted, Running, Range
<1>2. GSTypeOK /\ GSTypeOK' /\ Ranked /\ [GSNext]_gsVars => Ranked'
  BY RankedStep
<1>3. Ranked => InOrder
  BY DEF Ranked
<1>4. QED
  BY TypeSafely, <1>1, <1>2, <1>3, PTL DEF GSSafety

(* Episodes are committed in the order in which their messages were        *)
(* accepted.                                                               *)
THEOREM CommitsInOrder == GSSpec => []InOrder
  BY OrderSafely, PTL DEF GSSpec, GSSafety
-----------------------------------------------------------------------------
(* Every step keeps the accepted messages accounted for.  That queue, job  *)
(* in hand and log are apart, and the log free of repetition, follows from *)
(* their ranks.                                                            *)
Apart ==
    /\ Range(queue) \cap (Uncommitted \cup Range(log)) = {}
    /\ Uncommitted \cap Range(log) = {}
    /\ \A i, k \in DOMAIN log : log[i] = log[k] => i = k

Places == Range(queue) \cup Uncommitted \cup Range(log)

LEMMA AccountedSplit ==
    Accounted <=> /\ Apart
                  /\ {j \in Job : ticket[j] > 0} = Places \cup failed \cup lost
                  /\ Places \cap (failed \cup lost) = {}
                  /\ failed \cap lost = {}
BY DEF Accounted, Apart, Places

LEMMA AccountedStep ==
    ASSUME GSTypeOK, GSTypeOK', Ranked, Ranked', Accounted, [GSNext]_gsVars
    PROVE  Accounted'
<1> DEFINE Known == {j \in Job : ticket[j] > 0}
           Kept  == /\ Known = Places \cup failed \cup lost
                    /\ Places \cap (failed \cup lost) = {}
                    /\ failed \cap lost = {}
<1>1. Apart'
  <2>1. \A j \in (Range(queue) \cup Range(log) \cup Uncommitted)' : ticket'[j] \in Nat
    BY RangeInSet DEF GSTypeOK, Uncommitted, Running
  <2>2. \A i, k \in DOMAIN log' : log'[i] = log'[k] => i = k
    <3> SUFFICES ASSUME NEW i \in DOMAIN log', NEW k \in DOMAIN log', log'[i] = log'[k], i < k
                 PROVE  FALSE
      BY DEF GSTypeOK
    <3>1. ticket'[log'[i]] < ticket'[log'[k]] /\ ticket'[log'[k]] \in Nat
      BY <2>1 DEF Ranked, InOrder, Range
    <3>2. QED  BY <3>1
  <2>3. QED
    BY <2>1, <2>2 DEF Apart, Ranked
<1>2. SUFFICES Kept'
  BY <1>1 DEF Accounted, Apart, Places
<1>3. Kept
  BY AccountedSplit
<1>4. /\ queue \in Seq(Job) /\ log \in Seq(Job)
      /\ ticket \in [Job -> Nat] /\ ticket' \in [Job -> Nat]
  BY DEF GSTypeOK
<1>5. ASSUME NEW b \in Batches, AddMessages(b) PROVE Kept'
  <2>1. /\ b \in Seq(Job) /\ issued \in Nat
        /\ \A i \in DOMAIN b : ticket[b[i]] = 0 /\ ticket'[b[i]] = issued + i
        /\ \A j \in Job \ Range(b) : ticket'[j] = ticket[j]
    BY <1>5, NewTickets DEF GSTypeOK
  <2>2. Range(b) \subseteq Job /\ \A j \in Range(b) : ticket[j] = 0 /\ ticket'[j] > 0
    BY <2>1, RangeInSet DEF Range
  <2>3. Known' = Known \cup Range(b) /\ Known \cap Range(b) = {}
    BY <1>4, <2>1, <2>2
  <2>4. Places' = Places \cup Range(b) /\ failed' = failed /\ lost' = lost
    BY <1>4, <1>5, <2>1, RangeConcat DEF AddMessages, Places, Uncommitted
  <2>5. QED
    BY <1>3, <2>3, <2>4
<1>6. CASE StartJob
  <2>1. Range(queue) = {Head(queue)} \cup Range(Tail(queue))
    BY <1>4, <1>6, RangeHeadTail DEF StartJob
  <2>2. Places' = Places /\ UNCHANGED <<ticket, failed, lost>>
    BY <1>6, <2>1 DEF StartJob, histVars, Places, Uncommitted, Running
  <2>3. QED
    BY <1>3, <2>2
<1>7. CASE CommitEpisode
  <2>1. Range(log') = Range(log) \cup {current}
    BY <1>4, <1>7, RangeAppend DEF CommitEpisode, GSTypeOK
  <2>2. Places' = Places /\ UNCHANGED <<ticket, failed, lost>>
    BY <1>7, <2>1 DEF CommitEpisode, Places, Uncommitted, Running
  <2>3. QED
    BY <1>3, <2>2
<1>8. CASE FailJob
  <2>1. /\ Uncommitted = {current} /\ Uncommitted' = {} /\ failed' = failed \cup {current}
        /\ UNCHANGED <<queue, log, ticket, lost>>
    BY <1>8 DEF FailJob, NextJob, Uncommitted, Running
  <2>2. current \notin Range(queue) \cup Range(log)
    BY <2>1, AccountedSplit DEF Apart
  <2>3. QED
    BY <1>3, <2>1, <2>2 DEF Places
<1>9. CASE FinishJob \/ ResolveNode \/ ResolveFact
  <2>1. Uncommitted' = Uncommitted /\ UNCHANGED <<queue, log, ticket, failed, lost>>
    BY <1>9 DEF FinishJob, NextJob, ResolveNode, ResolveFact, Uncommitted, Running, histVars
  <2>2. QED
    BY <1>3, <2>1 DEF Places
<1>10. CASE Stop \/ Crash
  <2>1. /\ queue' = <<>> /\ Uncommitted' = {} /\ lost' = lost \cup Range(queue) \cup Uncommitted
        /\ UNCHANGED <<log, ticket, failed>>
    BY <1>10 DEF Stop, Crash, LoseQueue, NextJob, Uncommitted, Running
  <2>2. Range(queue') = {}
    BY <2>1 DEF Range
  <2>3. QED
    BY <1>3, <2>1, <2>2, AccountedSplit DEF Places, Apart
<1>11. ASSUME UNCHANGED <<queue, current, phase, ticket, log, failed, lost>> PROVE Kept'
  <2>1. Places' = Places
    BY <1>11 DEF Places, Uncommitted
  <2>2. QED  BY <1>3, <1>11, <2>1
<1>12. ASSUME NEW d \in DeleteCall, DeleteStep(d) PROVE Kept'
  BY <1>11, <1>12 DEF DeleteStep, ReadEdges, ReadNodes, ReadEpisodes, DeleteOneEdge,
     DeleteOneNode, DeleteOneEpisode, FinishDelete, FailDelete, workerVars, histVars
<1>13. CASE \/ \E g \in Group : AddEntityNode(g)
            \/ \E j \in Job : DeleteEpisode(j)
            \/ \E n \in Node : DeleteNode(n)
            \/ \E f \in facts : DeleteEntityEdge(f)
            \/ \E d \in DeleteCall, g \in Group : BeginDelete(d, g)
            \/ Clear \/ Start
  BY <1>11, <1>13 DEF AddEntityNode, DeleteEpisode, DeleteNode, DeleteEntityEdge,
     BeginDelete, Clear, Start, workerVars, histVars
<1>14. CASE UNCHANGED gsVars
  BY <1>11, <1>14 DEF gsVars, workerVars, histVars
<1>15. QED
  BY <1>5, <1>6, <1>7, <1>8, <1>9, <1>10, <1>12, <1>13, <1>14 DEF GSNext, WorkerStep

LEMMA AccountedSafely == GSSafety => []Accounted
<1>1. GSInit => GSTypeOK /\ Ranked /\ Accounted
  <2>1. GSInit => Ranked
    BY GraphServiceAssumption DEF GSInit, Ranked, InOrder, Uncommitted, Running, Range
  <2>2. GSInit => Accounted
    BY GraphServiceAssumption DEF GSInit, Accounted, Uncommitted, Running, Range
  <2>3. GSInit => GSTypeOK
    BY GraphServiceAssumption DEF GSInit, GSTypeOK, Idle, DeleteState, Node
  <2>4. QED  BY <2>1, <2>2, <2>3
<1>2. GSTypeOK /\ Ranked /\ Accounted /\ [GSNext]_gsVars => (GSTypeOK /\ Ranked /\ Accounted)'
  BY TypeStep, RankedStep, AccountedStep
<1>3. QED
  BY <1>1, <1>2, PTL DEF GSSafety

(* An accepted message is in exactly one place: waiting, in the worker's   *)
(* hands, committed, failed or lost.                                       *)
THEOREM AcceptedAccounted == GSSpec => []Accounted
  BY AccountedSafely, PTL DEF GSSpec, GSSafety
-----------------------------------------------------------------------------
(***************************************************************************)
(* Refinement: every step of the graph service is a step of the lossy FIFO *)
(* or leaves it alone.                                                     *)
(***************************************************************************)
LEMMA FifoStep ==
    ASSUME GSTypeOK, GSTypeOK', Accounted, [GSNext]_gsVars
    PROVE  [Fifo!Next]_(Fifo!fifoVars)
<1> DEFINE Acc == {j \in Job : ticket[j] > 0}
           hand == IF phase \in Running THEN <<current>> ELSE <<>>
<1>1. /\ queue \in Seq(Job) /\ log \in Seq(Job) /\ hand \in Seq(Job)
      /\ ticket \in [Job -> Nat] /\ ticket' \in [Job -> Nat]
  BY DEF GSTypeOK, Running
<1>2. ASSUME Pending' = Pending, UNCHANGED <<ticket, log>>
      PROVE  [Fifo!Next]_(Fifo!fifoVars)
  BY <1>2 DEF Fifo!fifoVars
<1>3. ASSUME NEW b \in Batches, AddMessages(b)
      PROVE  [Fifo!Next]_(Fifo!fifoVars)
  <2>1. /\ b \in Seq(Job) /\ issued \in Nat
        /\ \A i \in DOMAIN b : ticket[b[i]] = 0 /\ ticket'[b[i]] = issued + i
        /\ \A j \in Job \ Range(b) : ticket'[j] = ticket[j]
    BY <1>3, NewTickets DEF GSTypeOK
  <2>2. Range(b) \subseteq Job /\ \A j \in Range(b) : ticket[j] = 0 /\ ticket'[j] > 0
    BY <2>1, RangeInSet DEF Range
  <2>3. Range(b) \cap Acc = {} /\ Acc' = Acc \cup Range(b)
    BY <1>1, <2>1, <2>2
  <2>4. Pending' = Pending \o b
    <3>1. hand' = hand /\ queue' = queue \o b
      BY <1>3 DEF AddMessages
    <3>2. Pending = hand \o queue /\ Pending' = hand' \o queue'
      BY DEF Pending
    <3>3. queue \in Seq(Job) /\ hand \in Seq(Job) /\ b \in Seq(Job)
      BY <1>1, <2>1
    <3> HIDE DEF hand
    <3>4. (hand \o queue) \o b = hand \o (queue \o b)
      BY ONLY <3>3, ConcatAssociative, SMT
    <3>5. QED  BY <3>1, <3>2, <3>4
  <2>5. log' = log
    BY <1>3 DEF AddMessages
  <2>6. Fifo!Accept(b)
    BY <2>3, <2>4, <2>5 DEF Fifo!Accept, Fifo!Range, Range
  <2>7. QED  BY <2>6 DEF Fifo!Next
<1>4. CASE StartJob
  <2>1. Pending = queue /\ Pending' = <<Head(queue)>> \o Tail(queue)
    <3>1. hand = <<>> /\ hand' = <<Head(queue)>> /\ queue' = Tail(queue)
      BY <1>4 DEF StartJob, Running
    <3>2. QED  BY <1>1, <3>1, ConcatEmptySeq DEF Pending
  <2>2. <<Head(queue)>> \o Tail(queue) = queue
    BY <1>1, <1>4 DEF StartJob
  <2>3. QED  BY <1>2, <1>4, <2>1, <2>2 DEF StartJob, histVars
<1>5. ASSUME phase \in Running, phase' \notin Running, queue' = queue
      PROVE  Pending # <<>> /\ Head(Pending) = current /\ Pending' = Tail(Pending)
  <2>1. Pending = <<current>> \o queue /\ Pending' = <<>> \o queue
    BY <1>5 DEF Pending
  <2>2. current \in Job
    BY <1>5 DEF GSTypeOK, Running
  <2>3. <<>> \o queue = queue
    BY <1>1, ConcatEmptySeq
  <2>4. <<current>> \o queue # <<>> /\ Head(<<current>> \o queue) = current
    BY <1>1, <2>2
  <2>5. Tail(<<current>> \o queue) = queue
    BY <1>1, <2>2
  <2>6. QED  BY <2>1, <2>3, <2>4, <2>5
<1>6. CASE CommitEpisode
  <2>1. Pending # <<>> /\ Head(Pending) = current /\ Pending' = Tail(Pending)
    BY <1>5, <1>6 DEF CommitEpisode, Running
  <2>2. Fifo!Deliver
    BY <1>6, <2>1 DEF CommitEpisode, Fifo!Deliver
  <2>3. QED  BY <2>2 DEF Fifo!Next
<1>7. CASE FailJob
  <2>1. Pending # <<>> /\ Head(Pending) = current /\ Pending' = Tail(Pending)
    BY <1>5, <1>7 DEF FailJob, NextJob, Running
  <2>2. Fifo!Drop
    BY <1>7, <2>1 DEF FailJob, Fifo!Drop
  <2>3. QED  BY <2>2 DEF Fifo!Next
<1>8. CASE FinishJob \/ ResolveNode \/ ResolveFact
  <2>1. Pending' = Pending /\ UNCHANGED <<ticket, log>>
    BY <1>8 DEF FinishJob, ResolveNode, ResolveFact, NextJob, Pending, Running, histVars
  <2>2. QED  BY <1>2, <2>1
<1>9. CASE Stop \/ Crash
  <2>1. Pending' = <<>> /\ UNCHANGED <<ticket, log>>
    <3>1. /\ queue' = <<>> /\ phase' \notin Running /\ UNCHANGED <<ticket, log>>
      BY <1>9 DEF Stop, Crash, LoseQueue, NextJob, Running
    <3>2. Pending' = <<>> \o <<>>
      BY <3>1 DEF Pending
    <3>3. QED  BY <3>1, <3>2
  <2>2. Fifo!LoseAll
    BY <2>1 DEF Fifo!LoseAll
  <2>3. QED  BY <2>2 DEF Fifo!Next
<1>10. ASSUME UNCHANGED <<queue, current, phase, ticket, log>>
       PROVE  [Fifo!Next]_(Fifo!fifoVars)
  <2>1. Pending' = Pending  BY <1>10 DEF Pending
  <2>2. QED  BY <1>2, <1>10, <2>1
<1>11. ASSUME NEW d \in DeleteCall, DeleteStep(d) PROVE [Fifo!Next]_(Fifo!fifoVars)
  BY <1>10, <1>11 DEF DeleteStep, ReadEdges, ReadNodes, ReadEpisodes, DeleteOneEdge,
     DeleteOneNode, DeleteOneEpisode, FinishDelete, FailDelete, workerVars, histVars
<1>12. CASE \/ \E g \in Group : AddEntityNode(g)
            \/ \E j \in Job : DeleteEpisode(j)
            \/ \E n \in Node : DeleteNode(n)
            \/ \E f \in facts : DeleteEntityEdge(f)
            \/ \E d \in DeleteCall, g \in Group : BeginDelete(d, g)
            \/ Clear \/ Start
  BY <1>10, <1>12 DEF AddEntityNode, DeleteEpisode, DeleteNode, DeleteEntityEdge,
     BeginDelete, Clear, Start, workerVars, histVars
<1>13. CASE UNCHANGED gsVars
  BY <1>10, <1>13 DEF gsVars, workerVars, histVars
<1>14. QED
  BY <1>3, <1>4, <1>6, <1>7, <1>8, <1>9, <1>11, <1>12, <1>13 DEF GSNext, WorkerStep

LEMMA FifoSafely == GSSafety => Fifo!Init /\ [][Fifo!Next]_(Fifo!fifoVars)
<1>1. GSInit => Fifo!Init
  <2> SUFFICES ASSUME GSInit PROVE Fifo!Init
    OBVIOUS
  <2>1. {j \in Job : ticket[j] > 0} = {}  BY DEF GSInit
  <2>2. Pending = <<>> \o <<>>  BY DEF GSInit, Pending, Running
  <2>3. QED  BY <2>1, <2>2 DEF GSInit, Fifo!Init
<1>2. GSTypeOK /\ GSTypeOK' /\ Accounted /\ [GSNext]_gsVars => [Fifo!Next]_(Fifo!fifoVars)
  BY FifoStep
<1>3. QED
  BY TypeSafely, AccountedSafely, <1>1, <1>2, PTL DEF GSSafety

(* The queue and its worker implement the lossy FIFO, but for its          *)
(* fairness.                                                               *)
THEOREM RefinesFifo == GSSpec => Fifo!Init /\ [][Fifo!Next]_(Fifo!fifoVars)
  BY FifoSafely, PTL DEF GSSpec, GSSafety
-----------------------------------------------------------------------------
(***************************************************************************)
(* Deletions.  What a deletion has read it will delete, and what was       *)
(* written since belongs to a group that is noted as raced.                *)
(***************************************************************************)
(* The worker never joins what is of two groups.                           *)
OfOneGroup ==
    /\ phase \in {"resolved", "related"} => NodeGroup(target) = GroupOf[current]
    /\ phase = "related" => \A f \in saving :
          GroupOf[f[1]] = GroupOf[current] /\ NodeGroup(f[2]) = GroupOf[f[1]]
    /\ \A f \in facts : NodeGroup(f[2]) = GroupOf[f[1]]

LEMMA OneGroupStep ==
    ASSUME GSTypeOK, GSTypeOK', OfOneGroup, [GSNext]_gsVars
    PROVE  OfOneGroup'
<1>1. ASSUME facts' \subseteq facts, UNCHANGED <<phase, target, current, saving>>
      PROVE  OfOneGroup'
  BY <1>1 DEF OfOneGroup
<1>2. ASSUME facts' \subseteq facts, phase' \in {"waiting", "started"}  PROVE OfOneGroup'
  BY <1>2 DEF OfOneGroup
<1>3. CASE ResolveNode
  <2>1. current \in Job /\ current \notin Group
    BY <1>3, GraphServiceAssumption DEF ResolveNode, GSTypeOK
  <2>2. NodeGroup(target') = GroupOf[current]
    BY <1>3, <2>1 DEF ResolveNode, NodeGroup
  <2>3. phase' = "resolved" /\ UNCHANGED <<current, saving, facts>>
    BY <1>3 DEF ResolveNode, graphVars
  <2>4. QED  BY <2>2, <2>3 DEF OfOneGroup, NodeGroup
<1>4. CASE ResolveFact
  <2>1. NodeGroup(target) = GroupOf[current] /\ phase' = "related"
        /\ UNCHANGED <<current, target, facts>>
    BY <1>4 DEF ResolveFact, OfOneGroup, graphVars
  <2>2. PICK fact \in {<<current, target>>} \cup {f \in facts : f[2] = target},
             invalidated \in SUBSET {f \in facts : GroupOf[f[1]] = GroupOf[current]} :
             saving' = {fact} \cup invalidated
    BY <1>4 DEF ResolveFact
  <2>3. GroupOf[fact[1]] = GroupOf[current] /\ NodeGroup(fact[2]) = GroupOf[fact[1]]
    BY <2>1, <2>2 DEF OfOneGroup
  <2>4. \A f \in invalidated :
           GroupOf[f[1]] = GroupOf[current] /\ NodeGroup(f[2]) = GroupOf[f[1]]
    BY <2>2 DEF OfOneGroup
  <2>5. \A f \in saving' :
           GroupOf[f[1]] = GroupOf[current] /\ NodeGroup(f[2]) = GroupOf[f[1]]
    BY <2>2, <2>3, <2>4
  <2>6. QED  BY <2>1, <2>5 DEF OfOneGroup, NodeGroup
<1>5. CASE CommitEpisode
  <2>1. phase = "related" /\ phase' = "saved" /\ facts' \subseteq facts \cup saving
    BY <1>5 DEF CommitEpisode
  <2>2. QED  BY <2>1 DEF OfOneGroup
<1>6. CASE \/ StartJob \/ FinishJob \/ FailJob \/ LoseQueue
  <2>1. facts' \subseteq facts /\ phase' \in {"waiting", "started"}
    BY <1>6 DEF StartJob, FinishJob, FailJob, LoseQueue, NextJob, graphVars
  <2>2. QED  BY <1>2, <2>1
<1>7. ASSUME NEW d \in DeleteCall, DeleteStep(d)  PROVE OfOneGroup'
  <2>1. facts' \subseteq facts /\ UNCHANGED <<phase, target, current, saving>>
    BY <1>7 DEF DeleteStep, ReadEdges, ReadNodes, ReadEpisodes, DeleteOneEdge,
       DeleteOneNode, DeleteOneEpisode, FinishDelete, FailDelete, RemoveNodes,
       workerVars, graphVars
  <2>2. QED  BY <1>1, <2>1
<1>8. CASE \/ \E b \in Batches : AddMessages(b)
           \/ \E g \in Group : AddEntityNode(g)
           \/ \E j \in Job : DeleteEpisode(j)
           \/ \E n \in Node : DeleteNode(n)
           \/ \E f \in facts : DeleteEntityEdge(f)
           \/ Clear \/ Start
  BY <1>1, <1>8 DEF AddMessages, AddEntityNode, DeleteEpisode, DeleteNode, DeleteEntityEdge,
     RemoveNodes, Clear, Start, workerVars, graphVars
<1>9. ASSUME NEW d \in DeleteCall, NEW g \in Group, BeginDelete(d, g)  PROVE OfOneGroup'
  BY <1>1, <1>9 DEF BeginDelete, workerVars, graphVars
<1>10. CASE UNCHANGED gsVars
  BY <1>1, <1>10 DEF gsVars, workerVars, graphVars
<1>11. CASE Stop \/ Crash
  <2>1. LoseQueue
    BY <1>11, Zenon DEF Stop, Crash
  <2>2. QED  BY <1>6, <2>1
<1>12. QED
  BY <1>3, <1>4, <1>5, <1>6, <1>7, <1>8, <1>9, <1>10, <1>11 DEF GSNext, WorkerStep

(* What deletion d has not read is not there, but for raced groups.        *)
Swept(d) ==
    /\ del[d].phase \in {"nodes", "episodes", "deleting"} =>
          \A f \in facts : GroupOf[f[1]] \in del[d].group \ raced => f \in del[d].facts
    /\ del[d].phase \in {"episodes", "deleting"} =>
          \A n \in nodes : NodeGroup(n) \in del[d].group \ raced => n \in del[d].nodes
    /\ del[d].phase = "deleting" =>
          \A e \in episodes : GroupOf[e] \in del[d].group \ raced => e \in del[d].episodes
    /\ \A e \in del[d].episodes : GroupOf[e] \in del[d].group

(* A step that writes to the groups G at most leaves swept what it notes.  *)
LEMMA SweptFrame ==
    ASSUME NEW d \in DeleteCall, Swept(d), del'[d] = del[d], raced \subseteq raced',
           NEW G,
           \A g \in G : Deleting(d, g) => g \in raced',
           \A f \in facts' \ facts : GroupOf[f[1]] \in G,
           \A n \in nodes' \ nodes : NodeGroup(n) \in G,
           \A e \in episodes' \ episodes : GroupOf[e] \in G
    PROVE  Swept(d)'
<1>1. \A n : NodeGroup(n)' = NodeGroup(n)
  BY DEF NodeGroup
<1>2. del[d].phase \in {"nodes", "episodes", "deleting"} =>
         \A f \in facts' : GroupOf[f[1]] \in del[d].group \ raced' => f \in del[d].facts
  BY DEF Swept, Deleting, Reading
<1>3. del[d].phase \in {"episodes", "deleting"} =>
         \A n \in nodes' : NodeGroup(n) \in del[d].group \ raced' => n \in del[d].nodes
  BY DEF Swept, Deleting, Reading
<1>4. del[d].phase = "deleting" =>
         \A e \in episodes' : GroupOf[e] \in del[d].group \ raced' => e \in del[d].episodes
  BY DEF Swept, Deleting, Reading
<1>5. \A e \in del[d].episodes : GroupOf[e] \in del[d].group
  BY DEF Swept
<1>6. QED
  BY <1>1, <1>2, <1>3, <1>4, <1>5 DEF Swept

(* What a deletion's step leaves alone.                                    *)
LEMMA DeleteStepFrame ==
    ASSUME GSTypeOK, NEW d \in DeleteCall, DeleteStep(d)
    PROVE  /\ facts' \subseteq facts /\ nodes' \subseteq nodes /\ episodes' \subseteq episodes
           /\ UNCHANGED <<raced, revived, detached, phase, current, context, log>>
           /\ \A c \in DeleteCall \ {d} : del'[c] = del[c]
<1>1. facts' \subseteq facts /\ nodes' \subseteq nodes /\ episodes' \subseteq episodes
  BY DEF DeleteStep, ReadEdges, ReadNodes, ReadEpisodes, DeleteOneEdge, DeleteOneNode,
     DeleteOneEpisode, FinishDelete, FailDelete, RemoveNodes, RemoveEpisodes, graphVars
<1>2. UNCHANGED <<raced, revived, detached, phase, current, context, log>>
  BY DEF DeleteStep, ReadEdges, ReadNodes, ReadEpisodes, DeleteOneEdge, DeleteOneNode,
     DeleteOneEpisode, FinishDelete, FailDelete, histVars, workerVars
<1>3. \E x : del' = [del EXCEPT ![d] = x]
  BY Zenon DEF DeleteStep, ReadEdges, ReadNodes, ReadEpisodes, DeleteOneEdge, DeleteOneNode,
     DeleteOneEpisode, FinishDelete, FailDelete
<1>4. \A c \in DeleteCall \ {d} : del'[c] = del[c]
  BY <1>3 DEF GSTypeOK
<1>5. QED  BY <1>1, <1>2, <1>4

(* A deletion's own step keeps it swept.                                   *)
LEMMA SweptOwn ==
    ASSUME GSTypeOK, NEW d \in DeleteCall, DeleteStep(d), Swept(d)
    PROVE  Swept(d)'
<1>0. /\ del \in [DeleteCall -> DeleteState] /\ del[d] \in DeleteState /\ raced' = raced
      /\ \A n : NodeGroup(n)' = NodeGroup(n)
  BY DeleteStepFrame DEF GSTypeOK, NodeGroup
<1>1. CASE ReadEdges(d)
  <2>1. del'[d] = [del[d] EXCEPT !.phase = "nodes",
                                 !.facts = {f \in facts : GroupOf[f[1]] \in del[d].group}]
        /\ facts' = facts
    BY <1>0, <1>1 DEF ReadEdges, graphVars
  <2>2. QED  BY <1>0, <2>1 DEF Swept, DeleteState
<1>2. CASE ReadNodes(d)
  <2>1. del'[d] = [del[d] EXCEPT !.phase = "episodes",
                                 !.nodes = {n \in nodes : NodeGroup(n) \in del[d].group}]
        /\ del[d].phase = "nodes" /\ UNCHANGED <<facts, nodes>>
    BY <1>0, <1>2 DEF ReadNodes, graphVars
  <2>2. QED  BY <1>0, <2>1 DEF Swept, DeleteState
<1>3. CASE ReadEpisodes(d)
  <2>1. del'[d] = [del[d] EXCEPT !.phase = "deleting",
                                 !.episodes = {e \in episodes : GroupOf[e] \in del[d].group}]
        /\ del[d].phase = "episodes" /\ UNCHANGED <<facts, nodes, episodes>>
    BY <1>0, <1>3 DEF ReadEpisodes, graphVars
  <2>2. QED  BY <1>0, <2>1 DEF Swept, DeleteState
<1>4. CASE DeleteOneEdge(d)
  <2>1. PICK f \in del[d].facts : /\ facts' = facts \ {f}
                                  /\ del' = [del EXCEPT ![d].facts = @ \ {f}]
    BY <1>4 DEF DeleteOneEdge
  <2>2. del'[d] = [del[d] EXCEPT !.facts = @ \ {f}] /\ UNCHANGED <<nodes, episodes>>
    BY <1>0, <1>4, <2>1 DEF DeleteOneEdge
  <2>3. QED  BY <1>0, <2>1, <2>2 DEF Swept, DeleteState
<1>5. CASE DeleteOneNode(d)
  <2>1. PICK n \in del[d].nodes : /\ RemoveNodes({n})
                                  /\ del' = [del EXCEPT ![d].nodes = @ \ {n}]
    BY <1>5 DEF DeleteOneNode
  <2>2. del'[d] = [del[d] EXCEPT !.nodes = @ \ {n}] /\ episodes' = episodes
        /\ facts' \subseteq facts /\ nodes' = nodes \ {n}
    BY <1>0, <1>5, <2>1 DEF DeleteOneNode, RemoveNodes
  <2>3. QED  BY <1>0, <2>1, <2>2 DEF Swept, DeleteState
<1>6. CASE DeleteOneEpisode(d)
  <2>1. PICK e \in del[d].episodes : /\ RemoveEpisodes({e})
                                     /\ del' = [del EXCEPT ![d].episodes = @ \ {e}]
    BY <1>6 DEF DeleteOneEpisode
  <2>2. del'[d] = [del[d] EXCEPT !.episodes = @ \ {e}] /\ UNCHANGED <<facts, nodes>>
        /\ episodes' = episodes \ {e}
    BY <1>0, <1>6, <2>1 DEF DeleteOneEpisode, RemoveEpisodes
  <2>3. QED  BY <1>0, <2>1, <2>2 DEF Swept, DeleteState
<1>7. CASE FinishDelete(d)
  <2>1. del'[d] = [del[d] EXCEPT !.phase = "done"]
    BY <1>0, <1>7 DEF FinishDelete
  <2>2. QED  BY <1>0, <2>1 DEF Swept, DeleteState
<1>8. CASE FailDelete(d)
  <2>1. del'[d].phase = "failed" /\ del'[d].episodes = {}
    BY <1>0, <1>8 DEF FailDelete, Idle
  <2>2. QED  BY <2>1 DEF Swept
<1>9. QED
  BY <1>1, <1>2, <1>3, <1>4, <1>5, <1>6, <1>7, <1>8 DEF DeleteStep

LEMMA SweptStep ==
    ASSUME GSTypeOK, GSTypeOK', OfOneGroup, NEW d \in DeleteCall, Swept(d), [GSNext]_gsVars
    PROVE  Swept(d)'
<1>1. ASSUME facts' \subseteq facts, nodes' \subseteq nodes, episodes' \subseteq episodes,
             UNCHANGED <<raced, del>>
      PROVE  Swept(d)'
  BY <1>1, SweptFrame
<1>2. ASSUME NEW c \in DeleteCall, DeleteStep(c)  PROVE Swept(d)'
  <2>1. CASE c = d
    BY <1>2, <2>1, SweptOwn
  <2>2. CASE c # d
    <3>1. /\ facts' \subseteq facts /\ nodes' \subseteq nodes /\ episodes' \subseteq episodes
          /\ raced' = raced /\ del'[d] = del[d]
      BY <1>2, <2>2, DeleteStepFrame
    <3>2. QED  BY <3>1, SweptFrame
  <2>3. QED  BY <2>1, <2>2
<1>3. CASE CommitEpisode
  <2>1. /\ phase = "related" /\ facts' \ facts \subseteq saving
        /\ nodes' = nodes \cup {target} /\ episodes' = episodes \cup {current}
        /\ del' = del
    BY <1>3 DEF CommitEpisode
  <2>2. raced' = IF \E c \in DeleteCall : Deleting(c, GroupOf[current])
                 THEN raced \cup {GroupOf[current]} ELSE raced
    BY <1>3 DEF CommitEpisode, NoteRace
  <2>3. \A f \in facts' \ facts : GroupOf[f[1]] \in {GroupOf[current]}
    BY <2>1 DEF OfOneGroup
  <2>4. \A n \in nodes' \ nodes : NodeGroup(n) \in {GroupOf[current]}
    BY <2>1 DEF OfOneGroup
  <2>5. \A e \in episodes' \ episodes : GroupOf[e] \in {GroupOf[current]}
    BY <2>1
  <2>6. \A g \in {GroupOf[current]} : Deleting(d, g) => g \in raced'
    BY <2>2
  <2>7. raced \subseteq raced'
    BY <2>2
  <2>8. del'[d] = del[d]
    BY <2>1
  <2>9. QED  BY <2>3, <2>4, <2>5, <2>6, <2>7, <2>8, SweptFrame
<1>4. ASSUME NEW g \in Group, AddEntityNode(g)  PROVE Swept(d)'
  <2>1. /\ nodes' = nodes \cup {g} /\ UNCHANGED <<facts, episodes, del>>
        /\ raced' = IF \E c \in DeleteCall : Deleting(c, g) THEN raced \cup {g} ELSE raced
    BY <1>4 DEF AddEntityNode, NoteRace
  <2>2. \A n \in nodes' \ nodes : NodeGroup(n) \in {g}
    BY <2>1 DEF NodeGroup
  <2>3. \A h \in {g} : Deleting(d, h) => h \in raced'
    BY <2>1
  <2>4. raced \subseteq raced' /\ del'[d] = del[d]
    BY <2>1
  <2>5. QED  BY <2>1, <2>2, <2>3, <2>4, SweptFrame
<1>5. ASSUME NEW c \in DeleteCall, NEW g \in Group, BeginDelete(c, g)  PROVE Swept(d)'
  <2>1. UNCHANGED <<facts, nodes, episodes, raced>> /\ del[c].phase = "idle"
        /\ del' = [del EXCEPT ![c] = [Idle EXCEPT !.phase = "edges", !.group = {g}]]
    BY <1>5, Zenon DEF BeginDelete, graphVars, histVars
  <2>2. CASE c = d
    <3>1. del'[d].phase = "edges" /\ del'[d].episodes = {}
      BY <2>1, <2>2 DEF GSTypeOK, Idle
    <3>2. QED  BY <3>1 DEF Swept
  <2>3. CASE c # d
    <3>1. del'[d] = del[d]
      BY <2>1, <2>3 DEF GSTypeOK
    <3>2. QED  BY <2>1, <3>1, SweptFrame
  <2>4. QED  BY <2>2, <2>3
<1>6. CASE Crash
  <2>1. UNCHANGED <<facts, nodes, episodes, raced>>
    BY <1>6, Zenon DEF Crash, LoseQueue, graphVars
  <2>2. CASE del[d].phase \in Reading \cup {"deleting"}
    <3>1. del'[d] = [Idle EXCEPT !.phase = "failed", !.group = del[d].group]
      BY <1>6, <2>2, Zenon DEF Crash
    <3>2. del'[d].phase = "failed" /\ del'[d].episodes = {}
      BY <3>1 DEF Idle
    <3>3. QED  BY <3>2 DEF Swept
  <2>3. CASE del[d].phase \notin Reading \cup {"deleting"}
    <3>1. del'[d] = del[d]
      BY <1>6, <2>3, Zenon DEF Crash
    <3>2. QED  BY <2>1, <3>1, SweptFrame
  <2>4. QED  BY <2>2, <2>3
<1>7. CASE \/ \E b \in Batches : AddMessages(b)
           \/ StartJob \/ ResolveNode \/ ResolveFact \/ FinishJob \/ FailJob
           \/ Stop \/ Start
  BY <1>1, <1>7 DEF AddMessages, StartJob, ResolveNode, ResolveFact, FinishJob, FailJob,
     NextJob, Stop, LoseQueue, Start, graphVars, histVars
<1>8. CASE \/ \E j \in Job : DeleteEpisode(j)
           \/ \E n \in Node : DeleteNode(n)
           \/ \E f \in facts : DeleteEntityEdge(f)
           \/ Clear
  BY <1>1, <1>8 DEF DeleteEpisode, DeleteNode, DeleteEntityEdge, RemoveNodes, RemoveEpisodes,
     Clear, histVars
<1>9. CASE UNCHANGED gsVars
  BY <1>1, <1>9 DEF gsVars, graphVars, histVars
<1>10. QED
  BY <1>2, <1>3, <1>4, <1>5, <1>6, <1>7, <1>8, <1>9 DEF GSNext, WorkerStep

DeletionInv == GSTypeOK /\ OfOneGroup /\ \A d \in DeleteCall : Swept(d)

LEMMA DeletionAlways == GSSafety => []DeletionInv
<1>1. GSInit => DeletionInv
  <2>1. GSInit => GSTypeOK
    BY GraphServiceAssumption DEF GSInit, GSTypeOK, Idle, DeleteState, Node
  <2>2. GSInit => OfOneGroup
    BY DEF GSInit, OfOneGroup
  <2>3. ASSUME GSInit, NEW d \in DeleteCall  PROVE Swept(d)
    <3>1. del[d].phase = "idle" /\ del[d].episodes = {}
      BY <2>3 DEF GSInit, Idle
    <3>2. QED  BY <3>1 DEF Swept
  <2>4. QED  BY <2>1, <2>2, <2>3 DEF DeletionInv
<1>2. DeletionInv /\ [GSNext]_gsVars => DeletionInv'
  <2> SUFFICES ASSUME DeletionInv, [GSNext]_gsVars  PROVE DeletionInv'
    OBVIOUS
  <2>1. GSTypeOK /\ GSTypeOK' /\ OfOneGroup /\ OfOneGroup'
    BY TypeStep, OneGroupStep DEF DeletionInv
  <2>2. \A d \in DeleteCall : Swept(d)'
    BY <2>1, SweptStep DEF DeletionInv
  <2>3. QED  BY <2>1, <2>2 DEF DeletionInv
<1>3. QED  BY <1>1, <1>2, PTL DEF GSSafety

LEMMA CleanlySafely == GSSafety => CleanDelete
<1>1. ASSUME DeletionInv, NEW d \in DeleteCall, FinishDelete(d),
             NEW g \in del[d].group \ raced
      PROVE  /\ \A e \in episodes : GroupOf[e] # g
             /\ \A n \in nodes : NodeGroup(n) # g
             /\ \A f \in facts : GroupOf[f[1]] # g
  <2>1. /\ del[d].phase = "deleting"
        /\ del[d].facts = {} /\ del[d].nodes = {} /\ del[d].episodes = {}
    BY <1>1 DEF FinishDelete
  <2>2. Swept(d)
    BY <1>1 DEF DeletionInv
  <2>3. QED  BY <2>1, <2>2 DEF Swept
<1>2. DeletionInv => [\A d \in DeleteCall : FinishDelete(d) =>
          \A g \in del[d].group \ raced :
              /\ \A e \in episodes : GroupOf[e] # g
              /\ \A n \in nodes : NodeGroup(n) # g
              /\ \A f \in facts : GroupOf[f[1]] # g]_gsVars
  BY <1>1
<1>3. QED  BY <1>2, DeletionAlways, PTL DEF CleanDelete

(* DELETE /group answers only when nothing of the group is left, unless a  *)
(* write to the group overlapped with it.                                  *)
THEOREM DeletesCleanly == GSSpec => CleanDelete
  BY CleanlySafely, PTL DEF GSSpec, GSSafety
-----------------------------------------------------------------------------
(* A deletion reaches the episode of a fact only after the fact.           *)
LEMMA SourcesStep ==
    ASSUME DeletionInv, DeletionInv', FactsHaveSources, [GSNext]_gsVars
    PROVE  FactsHaveSources'
<1>1. ASSUME facts' \subseteq facts, raced \subseteq raced', revived \subseteq revived',
             episodes \cup detached \subseteq episodes' \cup detached'
      PROVE  FactsHaveSources'
  BY <1>1 DEF FactsHaveSources
<1>2. CASE CommitEpisode
  <2>1. /\ episodes \cup {current} = episodes' /\ detached' = detached
        /\ revived' = revived \cup {f \in facts' \ facts : f[1] # current}
    BY <1>2 DEF CommitEpisode
  <2>2. raced \subseteq raced'
    BY <1>2 DEF CommitEpisode, NoteRace
  <2>3. QED  BY <2>1, <2>2 DEF FactsHaveSources
<1>3. ASSUME NEW d \in DeleteCall, DeleteStep(d)  PROVE FactsHaveSources'
  <2>0. /\ facts' \subseteq facts /\ UNCHANGED <<raced, revived, detached>>
    BY <1>3, DeleteStepFrame DEF DeletionInv
  <2>1. CASE DeleteOneEpisode(d)
    <3>1. PICK e \in del[d].episodes : episodes' = episodes \ {e}
      BY <2>1 DEF DeleteOneEpisode, RemoveEpisodes
    <3>2. del[d].phase = "deleting" /\ del[d].facts = {} /\ Swept(d)
      BY <2>1 DEF DeleteOneEpisode, DeletionInv
    <3>3. GroupOf[e] \in del[d].group
      BY <3>2 DEF Swept
    <3>4. \A f \in facts : f[1] = e => GroupOf[e] \in raced
      BY <3>2, <3>3 DEF Swept
    <3>5. QED  BY <2>0, <3>1, <3>4 DEF FactsHaveSources
  <2>2. CASE ~ DeleteOneEpisode(d)
    <3>1. episodes' = episodes
      BY <1>3, <2>2 DEF DeleteStep, ReadEdges, ReadNodes, ReadEpisodes, DeleteOneEdge,
         DeleteOneNode, FinishDelete, FailDelete, graphVars
    <3>2. QED  BY <1>1, <2>0, <3>1
  <2>3. QED  BY <2>1, <2>2
<1>4. CASE \/ StartJob \/ ResolveNode \/ ResolveFact \/ FinishJob \/ FailJob \/ Start
           \/ \E b \in Batches : AddMessages(b)
  BY <1>1, <1>4 DEF AddMessages, StartJob, ResolveNode, ResolveFact, FinishJob, FailJob,
     NextJob, Start, graphVars, histVars
<1>5. CASE Stop \/ Crash
  <2>1. LoseQueue
    BY <1>5, Zenon DEF Stop, Crash
  <2>2. QED  BY <1>1, <2>1 DEF LoseQueue, graphVars
<1>6. CASE \/ \E g \in Group : AddEntityNode(g)
           \/ \E j \in Job : DeleteEpisode(j)
           \/ \E n \in Node : DeleteNode(n)
           \/ \E f \in facts : DeleteEntityEdge(f)
  BY <1>1, <1>6 DEF AddEntityNode, NoteRace, DeleteEpisode, DeleteNode, DeleteEntityEdge,
     RemoveNodes, RemoveEpisodes, histVars
<1>7. CASE Clear
  BY <1>7 DEF Clear, FactsHaveSources
<1>8. ASSUME NEW d \in DeleteCall, NEW g \in Group, BeginDelete(d, g)
      PROVE  FactsHaveSources'
  BY <1>1, <1>8 DEF BeginDelete, graphVars, histVars
<1>9. CASE UNCHANGED gsVars
  BY <1>1, <1>9 DEF gsVars, graphVars, histVars
<1>10. QED
  BY <1>2, <1>3, <1>4, <1>5, <1>6, <1>7, <1>8, <1>9 DEF GSNext, WorkerStep

LEMMA SourcesSafely == GSSafety => []FactsHaveSources
<1>1. GSInit => FactsHaveSources
  BY DEF GSInit, FactsHaveSources
<1>2. QED
  BY <1>1, DeletionAlways, SourcesStep, PTL DEF GSSafety

(* A fact never outlives the episode it came from, wherever a deletion     *)
(* stops, but for the exceptions that the property names.                  *)
THEOREM FactsKeepSources == GSSpec => []FactsHaveSources
  BY SourcesSafely, PTL DEF GSSpec, GSSafety
-----------------------------------------------------------------------------
(* Until it commits, the worker knows the latest of what its group has: no *)
(* other episode is written meanwhile, and what it read is not read again. *)
ContextComplete == phase \in Running =>
    \A e \in Precedes(current) \ context : NoRoomFor(e, context)

LEMMA ContextStep ==
    ASSUME GSTypeOK, ContextComplete, [GSNext]_gsVars
    PROVE  ContextComplete'
<1>1. ASSUME episodes' \subseteq episodes, UNCHANGED <<current, context>>,
             phase' \in Running => phase \in Running
      PROVE  ContextComplete'
  <2>1. Precedes(current)' \subseteq Precedes(current)
    BY <1>1 DEF Precedes
  <2>2. QED  BY <1>1, <2>1 DEF ContextComplete, NoRoomFor
<1>2. ASSUME phase' \notin Running  PROVE ContextComplete'
  BY <1>2 DEF ContextComplete
<1>3. CASE StartJob
  <2>1. /\ current' = Head(queue) /\ episodes' = episodes
        /\ context' \in Latest(Precedes(Head(queue)))
    BY <1>3 DEF StartJob, graphVars
  <2>2. Precedes(current)' = Precedes(Head(queue))
    BY <2>1 DEF Precedes
  <2>3. QED  BY <2>1, <2>2 DEF ContextComplete, Latest, NoRoomFor
<1>4. CASE ResolveNode \/ ResolveFact
  BY <1>1, <1>4 DEF ResolveNode, ResolveFact, Running, graphVars
<1>5. CASE CommitEpisode \/ FinishJob \/ FailJob
  BY <1>2, <1>5 DEF CommitEpisode, FinishJob, FailJob, NextJob, Running
<1>6. CASE Stop \/ Crash
  <2>1. LoseQueue
    BY <1>6, Zenon DEF Stop, Crash
  <2>2. QED  BY <1>2, <2>1 DEF LoseQueue, NextJob, Running
<1>7. ASSUME NEW d \in DeleteCall, DeleteStep(d)  PROVE ContextComplete'
  BY <1>1, <1>7, DeleteStepFrame
<1>8. CASE \/ \E b \in Batches : AddMessages(b)
           \/ \E g \in Group : AddEntityNode(g)
           \/ \E j \in Job : DeleteEpisode(j)
           \/ \E n \in Node : DeleteNode(n)
           \/ \E f \in facts : DeleteEntityEdge(f)
           \/ Clear \/ Start
  BY <1>1, <1>8 DEF AddMessages, AddEntityNode, DeleteEpisode, DeleteNode, DeleteEntityEdge,
     RemoveEpisodes, Clear, Start, workerVars, graphVars
<1>9. ASSUME NEW d \in DeleteCall, NEW g \in Group, BeginDelete(d, g)
      PROVE  ContextComplete'
  BY <1>1, <1>9 DEF BeginDelete, workerVars, graphVars
<1>10. CASE UNCHANGED gsVars
  BY <1>1, <1>10 DEF gsVars, workerVars, graphVars
<1>11. QED
  BY <1>3, <1>4, <1>5, <1>6, <1>7, <1>8, <1>9, <1>10 DEF GSNext, WorkerStep

LEMMA ContextSafely == GSSafety => SequentialContext
<1>1. GSInit => ContextComplete
  BY DEF GSInit, ContextComplete, Running
<1>2. ContextComplete => [CommitEpisode =>
          \A e \in Precedes(current) \ context : NoRoomFor(e, context)]_gsVars
  BY DEF ContextComplete, CommitEpisode, Running
<1>3. QED
  BY <1>1, <1>2, TypeSafely, ContextStep, PTL DEF GSSafety, SequentialContext

(* Every episode is built from the latest of what was committed before it  *)
(* in its group, is dated no later and is still there.                     *)
THEOREM ContextSequential == GSSpec => SequentialContext
  BY ContextSafely, PTL DEF GSSpec, GSSafety

LEMMA ForGoodSafely == GSSafety => DeletedStaysDeleted
<1>1. ASSUME GSTypeOK, Accounted, [GSNext]_gsVars
      PROVE  \A j \in Range(log) : j \notin episodes => j \notin episodes'
  <2>1. CASE CommitEpisode
    <3>1. episodes' = episodes \cup {current} /\ current \in Uncommitted
      BY <2>1 DEF CommitEpisode, Uncommitted, Running
    <3>2. Uncommitted \cap Range(log) = {}
      BY <1>1, AccountedSplit DEF Apart
    <3>3. QED  BY <3>1, <3>2
  <2>2. CASE Stop \/ Crash
    <3>1. LoseQueue
      BY <2>2, Zenon DEF Stop, Crash
    <3>2. QED  BY <3>1 DEF LoseQueue, graphVars
  <2>3. ASSUME NEW d \in DeleteCall, DeleteStep(d)  PROVE episodes' \subseteq episodes
    BY <1>1, <2>3, DeleteStepFrame
  <2>4. CASE \/ StartJob \/ ResolveNode \/ ResolveFact \/ FinishJob \/ FailJob
             \/ \E b \in Batches : AddMessages(b)
             \/ \E g \in Group : AddEntityNode(g)
             \/ \E j \in Job : DeleteEpisode(j)
             \/ \E n \in Node : DeleteNode(n)
             \/ \E f \in facts : DeleteEntityEdge(f)
             \/ Clear \/ Start
    BY <2>4 DEF StartJob, ResolveNode, ResolveFact, FinishJob, FailJob, AddMessages,
       AddEntityNode, DeleteEpisode, DeleteNode, DeleteEntityEdge, RemoveEpisodes, Clear,
       Start, graphVars
  <2>5. ASSUME NEW d \in DeleteCall, NEW g \in Group, BeginDelete(d, g)
        PROVE  episodes' = episodes
    BY <2>5 DEF BeginDelete, graphVars
  <2>6. CASE UNCHANGED gsVars
    BY <2>6 DEF gsVars, graphVars
  <2>7. QED
    BY <1>1, <2>1, <2>2, <2>3, <2>4, <2>5, <2>6 DEF GSNext, WorkerStep
<1>2. GSTypeOK /\ Accounted /\ [GSNext]_gsVars =>
          [\A j \in Range(log) : j \notin episodes => j \notin episodes']_gsVars
  BY <1>1
<1>3. QED
  BY <1>2, TypeSafely, AccountedSafely, PTL DEF GSSafety, DeletedStaysDeleted

(* An episode that was committed and deleted is never committed again:     *)
(* the job in hand is not in the log.                                      *)
THEOREM DeletedForGood == GSSpec => DeletedStaysDeleted
  BY ForGoodSafely, PTL DEF GSSpec, GSSafety
=============================================================================
