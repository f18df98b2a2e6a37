--------------------------- MODULE McpQueueProofs ---------------------------
(***************************************************************************)
(* Proofs about McpQueue for every set of episodes and groups.             *)
(***************************************************************************)
EXTENDS McpQueue, SequenceTheorems, TLAPS

LEMMA AppendRange ==
    ASSUME NEW S, NEW s \in Seq(S), NEW x \in S
    PROVE  x \in Range(Append(s, x)) /\ Range(s) \subseteq Range(Append(s, x))
<1>1. /\ Append(s, x) \in Seq(S)
      /\ Len(s) + 1 \in DOMAIN Append(s, x) /\ Append(s, x)[Len(s) + 1] = x
      /\ \A i \in DOMAIN s : i \in DOMAIN Append(s, x) /\ Append(s, x)[i] = s[i]
  OBVIOUS
<1>2. QED  BY <1>1 DEF Range

(* Moving an element over the end of a sequence.                           *)
LEMMA AppendConcat ==
    ASSUME NEW s \in Seq(Job), NEW t \in Seq(Job), NEW x \in Job
    PROVE  Append(s \o t, x) = s \o Append(t, x)
<1>1. /\ <<x>> \in Seq(Job) /\ s \o t \in Seq(Job)
      /\ Append(s \o t, x) = (s \o t) \o <<x>> /\ Append(t, x) = t \o <<x>>
  OBVIOUS
<1>2. QED  BY <1>1, ConcatAssociative

LEMMA ShiftHead ==
    ASSUME NEW S, NEW s \in Seq(S), NEW t \in Seq(S), t # <<>>
    PROVE  Append(s, Head(t)) \o Tail(t) = s \o t
<1>1. /\ Head(t) \in S /\ Tail(t) \in Seq(S) /\ <<Head(t)>> \in Seq(S)
  OBVIOUS
<1>2. Append(s, Head(t)) = s \o <<Head(t)>> /\ <<Head(t)>> \o Tail(t) = t
  BY <1>1
<1>3. (s \o <<Head(t)>>) \o Tail(t) = s \o (<<Head(t)>> \o Tail(t))
  BY <1>1, ConcatAssociative
<1>4. QED  BY <1>2, <1>3

(* Every step keeps the state well typed.                                  *)
LEMMA TypeStep == TypeOK /\ [Next]_vars => TypeOK'
<1> SUFFICES ASSUME TypeOK, [Next]_vars PROVE TypeOK'
  OBVIOUS
<1> USE McpQueueAssumption
<1>1. ASSUME NEW j \in Job, AddEpisodeTask(j) PROVE TypeOK'
  <2>1. /\ queue' \in [Group -> Seq(Job)] /\ added' \in [Group -> Seq(Job)]
        /\ UNCHANGED <<flag, hand, taken, settled>> /\ crowded' \subseteq Group
    BY <1>1 DEF AddEpisodeTask, TypeOK
  <2>2. /\ worker' \in [Job -> {"none", "created", "begun", "ended"}]
        /\ \A w \in Job \ {j} : worker'[w] = worker[w]
    BY <1>1 DEF AddEpisodeTask, TypeOK
  <2>3. worker[j] = "none" /\ hand[j] = {}
    BY <1>1 DEF AddEpisodeTask, TypeOK
  <2>4. /\ j \in Range(added'[GroupOf[j]])
        /\ \A g \in Group : Range(added[g]) \subseteq Range(added'[g])
    BY <1>1, AppendRange DEF AddEpisodeTask, TypeOK
  <2>5. ASSUME NEW w \in Job
        PROVE  /\ hand'[w] # {} => worker'[w] = "begun"
               /\ worker'[w] # "none" => w \in Range(added'[GroupOf[w]])
    BY <2>1, <2>2, <2>3, <2>4 DEF TypeOK
  <2>6. QED
    BY <2>1, <2>2, <2>5 DEF TypeOK
<1>2. ASSUME NEW w \in Job, Begin(w) PROVE TypeOK'
  BY <1>2 DEF Begin, Raise, TypeOK
<1>3. ASSUME NEW w \in Job, Take(w) PROVE TypeOK'
  <2>1. First(queue[GroupOf[w]]) \in Job /\ Rest(queue[GroupOf[w]]) \in Seq(Job)
    BY <1>3 DEF Take, First, Rest, TypeOK
  <2>2. queue' \in [Group -> Seq(Job)] /\ taken' \in [Group -> Seq(Job)]
    BY <1>3, <2>1 DEF Take, TypeOK
  <2>3. hand' \in [Job -> SUBSET Job] /\ \A v \in Job : hand'[v] # {} => worker[v] = "begun"
    BY <1>3, <2>1 DEF Take, TypeOK
  <2>4. QED
    BY <1>3, <2>2, <2>3 DEF Take, TypeOK
<1>4. ASSUME NEW w \in Job, Finish(w) \/ Cancel(w) PROVE TypeOK'
  <2>1. /\ hand' \in [Job -> SUBSET Job] /\ hand'[w] = {}
        /\ \A v \in Job \ {w} : hand'[v] = hand[v]
        /\ settled' \subseteq Job
    <3>1. /\ hand' = [hand EXCEPT ![w] = {}] /\ hand \in [Job -> SUBSET Job]
          /\ settled' = settled \cup hand[w] /\ settled \subseteq Job
      BY <1>4 DEF Finish, Cancel, Lower, Settle, TypeOK
    <3>2. QED  BY <3>1
  <2>2. CASE Finish(w)
    BY <2>1, <2>2 DEF Finish, Settle, TypeOK
  <2>3. CASE Cancel(w)
    <3>1. /\ worker' \in [Job -> {"none", "created", "begun", "ended"}]
          /\ \A v \in Job \ {w} : worker'[v] = worker[v]
          /\ flag' \in [Group -> BOOLEAN] /\ worker[w] # "none"
      BY <2>3 DEF Cancel, Lower, Settle, TypeOK
    <3>2. QED
      BY <2>1, <2>3, <3>1 DEF Cancel, Lower, Settle, TypeOK
  <2>4. QED  BY <1>4, <2>2, <2>3
<1>5. CASE UNCHANGED vars
  BY <1>5 DEF vars, TypeOK
<1>6. QED
  BY <1>1, <1>2, <1>3, <1>4, <1>5 DEF Next, WorkerStep

(* The state of the queues keeps its shape.                                *)
THEOREM QueuesTyped == Spec => []TypeOK
<1>1. Init => TypeOK
  BY McpQueueAssumption DEF Init, TypeOK
<1>2. QED
  BY <1>1, TypeStep, PTL DEF Spec

(* Whatever is added is taken in that order, by whichever worker.          *)
THEOREM EpisodesTakenInOrder == Spec => []TakenInOrder
<1>1. Init => TakenInOrder
  BY DEF Init, TakenInOrder
<1>2. ASSUME TypeOK, TakenInOrder, [Next]_vars PROVE TakenInOrder'
  <2> USE McpQueueAssumption
  <2>1. ASSUME NEW j \in Job, AddEpisodeTask(j), NEW g \in Group
        PROVE  added'[g] = taken'[g] \o queue'[g]
    <3>1. CASE g = GroupOf[j]
      <4>1. /\ added'[g] = Append(added[g], j) /\ queue'[g] = Append(queue[g], j)
            /\ taken'[g] = taken[g] /\ added[g] = taken[g] \o queue[g]
        BY <1>2, <2>1, <3>1 DEF AddEpisodeTask, TypeOK, TakenInOrder
      <4>2. taken[g] \in Seq(Job) /\ queue[g] \in Seq(Job)
        BY <1>2 DEF TypeOK
      <4>3. Append(taken[g] \o queue[g], j) = taken[g] \o Append(queue[g], j)
        BY <2>1, <4>2, AppendConcat
      <4>4. QED  BY <4>1, <4>3
    <3>2. CASE g # GroupOf[j]
      BY <1>2, <2>1, <3>2 DEF AddEpisodeTask, TypeOK, TakenInOrder
    <3>3. QED  BY <3>1, <3>2
  <2>2. ASSUME NEW w \in Job, Take(w), NEW g \in Group
        PROVE  added'[g] = taken'[g] \o queue'[g]
    <3>1. CASE g = GroupOf[w]
      <4>1. /\ queue[g] # <<>> /\ queue[g] \in Seq(Job) /\ taken[g] \in Seq(Job)
            /\ taken'[g] = Append(taken[g], Head(queue[g])) /\ queue'[g] = Tail(queue[g])
            /\ added'[g] = added[g] /\ added[g] = taken[g] \o queue[g]
        BY <1>2, <2>2, <3>1 DEF Take, First, Rest, TypeOK, TakenInOrder
      <4>2. Append(taken[g], Head(queue[g])) \o Tail(queue[g]) = taken[g] \o queue[g]
        BY <4>1, ShiftHead
      <4>3. QED  BY <4>1, <4>2
    <3>2. CASE g # GroupOf[w]
      BY <1>2, <2>2, <3>2 DEF Take, TypeOK, TakenInOrder
    <3>3. QED  BY <3>1, <3>2
  <2>3. ASSUME UNCHANGED <<added, taken, queue>> PROVE TakenInOrder'
    BY <1>2, <2>3 DEF TakenInOrder
  <2>4. QED
    BY <1>2, <2>1, <2>2, <2>3
    DEF Next, WorkerStep, Begin, Finish, Cancel, vars, TakenInOrder
<1>3. QED
  BY <1>1, <1>2, QueuesTyped, PTL DEF Spec

(* While the flag is up there is a worker to take what is added.           *)
THEOREM FlagNeverLies == Spec => []FlagTruthful
<1>1. Init => FlagTruthful
  BY DEF Init, FlagTruthful
<1>2. ASSUME TypeOK, TypeOK', FlagTruthful, [Next]_vars PROVE FlagTruthful'
  <2> USE McpQueueAssumption
  <2> SUFFICES ASSUME NEW g \in Group, flag'[g]
               PROVE  \E w \in Workers(g) : worker'[w] = "begun"
    BY DEF FlagTruthful, Workers
  <2>1. ASSUME NEW j \in Job, AddEpisodeTask(j)
        PROVE  \E w \in Workers(g) : worker'[w] = "begun"
    <3>1. flag[g]
      BY <2>1 DEF AddEpisodeTask
    <3>2. PICK w \in Workers(g) : worker[w] = "begun"
      BY <1>2, <3>1 DEF FlagTruthful
    <3>3. GroupOf[j] = g => worker' = worker
      BY <2>1, <3>1 DEF AddEpisodeTask
    <3>4. GroupOf[j] # g => w # j
      BY <3>2 DEF Workers
    <3>5. worker'[w] = "begun"
      BY <1>2, <2>1, <3>2, <3>3, <3>4 DEF AddEpisodeTask, TypeOK, Workers
    <3>6. QED  BY <3>2, <3>5
  <2>2. ASSUME NEW v \in Job, Begin(v)
        PROVE  \E w \in Workers(g) : worker'[w] = "begun"
    <3>1. worker'[v] = "begun" /\ \A w \in Job : worker[w] = "begun" => worker'[w] = "begun"
      BY <1>2, <2>2 DEF Begin, Raise, TypeOK
    <3>2. CASE g = GroupOf[v]
      BY <3>1, <3>2 DEF Workers
    <3>3. CASE g # GroupOf[v]
      <4>1. flag[g]
        BY <1>2, <2>2, <3>3 DEF Begin, Raise, TypeOK
      <4>2. QED  BY <1>2, <3>1, <4>1 DEF FlagTruthful, Workers
    <3>4. QED  BY <3>2, <3>3
  <2>3. ASSUME NEW v \in Job, Cancel(v)
        PROVE  \E w \in Workers(g) : worker'[w] = "begun"
    <3>1. g # GroupOf[v] /\ flag[g]
      BY <1>2, <2>3 DEF Cancel, Lower, Settle, TypeOK
    <3>2. PICK w \in Workers(g) : worker[w] = "begun"
      BY <1>2, <3>1 DEF FlagTruthful
    <3>3. w # v /\ worker'[w] = "begun"
      BY <1>2, <2>3, <3>1, <3>2 DEF Cancel, Lower, Settle, Workers, TypeOK
    <3>4. QED  BY <3>2, <3>3
  <2>4. ASSUME UNCHANGED <<flag, worker>>
        PROVE  \E w \in Workers(g) : worker'[w] = "begun"
    BY <1>2, <2>4 DEF FlagTruthful
  <2>5. QED
    BY <1>2, <2>1, <2>2, <2>3, <2>4 DEF Next, WorkerStep, Take, Finish, vars
<1>3. QED
  BY <1>1, <1>2, QueuesTyped, PTL DEF Spec
-----------------------------------------------------------------------------
(***************************************************************************)
(* That a group has one worker is inductive only together with what the    *)
(* flag says: while it is down, no worker has begun.                       *)
(***************************************************************************)
Orderly ==
    /\ OneWorkerUnlessCrowded
    /\ \A g \in Group \ crowded :
          ~flag[g] => \A w \in Workers(g) : worker[w] # "begun"

LEMMA OrderlyStep == TypeOK /\ TypeOK' /\ Orderly /\ [Next]_vars => Orderly'
<1> SUFFICES ASSUME TypeOK, TypeOK', Orderly, [Next]_vars PROVE Orderly'
  OBVIOUS
<1> USE McpQueueAssumption
<1> DEFINE One(g) == \A v, w \in Workers(g) : Alive(v) /\ Alive(w) => v = w
           Down(g) == ~flag[g] => \A w \in Workers(g) : worker[w] # "begun"
<1>1. crowded \subseteq crowded'
  BY DEF Next, WorkerStep, AddEpisodeTask, Begin, Take, Finish, Cancel, vars
<1> SUFFICES ASSUME NEW g \in Group, g \notin crowded'
             PROVE  One(g)' /\ Down(g)'
  BY DEF Orderly, OneWorkerUnlessCrowded
<1>2. One(g) /\ Down(g)
  BY <1>1 DEF Orderly, OneWorkerUnlessCrowded
<1>3. ASSUME UNCHANGED flag, \A w \in Workers(g) : worker'[w] = worker[w]
      PROVE  One(g)' /\ Down(g)'
  BY <1>2, <1>3 DEF Alive, Workers
<1>4. ASSUME NEW j \in Job, AddEpisodeTask(j) PROVE One(g)' /\ Down(g)'
  <2>1. CASE g # GroupOf[j] \/ flag[g]
    BY <1>3, <1>4, <2>1 DEF AddEpisodeTask, Workers, TypeOK
  <2>2. CASE g = GroupOf[j] /\ ~flag[g]
    <3>1. \A w \in Workers(g) : worker[w] # "created" /\ worker[w] # "begun"
      BY <1>2, <1>4, <2>2 DEF AddEpisodeTask
    <3>2. worker' = [worker EXCEPT ![j] = "created"] /\ flag' = flag
      BY <1>4, <2>2 DEF AddEpisodeTask
    <3>3. \A w \in Workers(g) : /\ worker'[w] # "begun"
                                /\ w # j => worker'[w] # "created"
      BY <3>1, <3>2 DEF Workers, TypeOK
    <3>4. QED  BY <3>3 DEF Alive
  <2>3. QED  BY <2>1, <2>2
<1>5. ASSUME NEW w \in Job, Begin(w) PROVE One(g)' /\ Down(g)'
  <2>1. CASE g = GroupOf[w]
    <3>1. flag'[g] /\ \A v \in Workers(g) : Alive(v)' => Alive(v)
      BY <1>5, <2>1 DEF Begin, Raise, Alive, Workers, TypeOK
    <3>2. QED  BY <1>2, <3>1 DEF Workers
  <2>2. CASE g # GroupOf[w]
    <3>1. flag'[g] = flag[g] /\ \A v \in Workers(g) : worker'[v] = worker[v]
      BY <1>5, <2>2 DEF Begin, Raise, Workers, TypeOK
    <3>2. QED  BY <1>2, <3>1 DEF Alive, Workers
  <2>3. QED  BY <2>1, <2>2
<1>6. ASSUME NEW w \in Job, Cancel(w) PROVE One(g)' /\ Down(g)'
  BY <1>2, <1>6 DEF Cancel, Lower, Settle, Alive, Workers, TypeOK
<1>7. ASSUME UNCHANGED <<flag, worker>> PROVE One(g)' /\ Down(g)'
  BY <1>3, <1>7
<1>8. QED
  BY <1>4, <1>5, <1>6, <1>7 DEF Next, WorkerStep, Take, Finish, vars

(* A group has one worker at most unless something was added to it before  *)
(* a new worker had begun: the only way to a second one.                   *)
THEOREM OneWorker == Spec => []OneWorkerUnlessCrowded
<1>1. Init => Orderly
  BY DEF Init, Orderly, OneWorkerUnlessCrowded, Alive, Workers
<1>2. Orderly => OneWorkerUnlessCrowded
  BY DEF Orderly
<1>3. QED
  BY <1>1, <1>2, QueuesTyped, OrderlyStep, PTL DEF Spec
-----------------------------------------------------------------------------
(***************************************************************************)
(* That what is taken is in one hand needs to know where everything is: in *)
(* the queue once, in no hand and unsettled; or taken, before or in hand.  *)
(***************************************************************************)
RangesAt(g) ==
    /\ \A j \in Range(queue[g]) \cup Range(taken[g]) : j \in Range(added[g])
    /\ \A j \in Range(added[g]) : GroupOf[j] = g

WaitingAt(g) ==
    /\ \A i, k \in DOMAIN queue[g] : queue[g][i] = queue[g][k] => i = k
    /\ \A j \in Range(queue[g]) : j \notin settled /\ \A w \in Job : j \notin hand[w]

TakenAt(g) ==
    \A j \in Range(taken[g]) :
        /\ j \in settled <=> \A w \in Job : j \notin hand[w]
        /\ \A v, w \in Job : j \in hand[v] /\ j \in hand[w] => v = w

Settled == \A j \in settled : j \in Range(taken[GroupOf[j]])
Held == \A w \in Job : \A j \in hand[w] : j \in Range(taken[GroupOf[j]])

Placed ==
    /\ \A g \in Group : RangesAt(g) /\ WaitingAt(g) /\ TakenAt(g)
    /\ Settled /\ Held

LEMMA AppendIs ==
    ASSUME NEW s \in Seq(Job), NEW x \in Job
    PROVE  /\ Range(Append(s, x)) = Range(s) \cup {x}
           /\ (x \notin Range(s) /\ (\A i, k \in DOMAIN s : s[i] = s[k] => i = k)
               => \A i, k \in DOMAIN Append(s, x) :
                     Append(s, x)[i] = Append(s, x)[k] => i = k)
<1>1. /\ DOMAIN Append(s, x) = 1..Len(s) + 1 /\ DOMAIN s = 1..Len(s) /\ Len(s) \in Nat
      /\ Append(s, x)[Len(s) + 1] = x /\ \A i \in 1..Len(s) : Append(s, x)[i] = s[i]
  OBVIOUS
<1>2. \A i \in 1..Len(s) + 1 : i \in 1..Len(s) \/ i = Len(s) + 1
  BY <1>1
<1>3. QED  BY <1>1, <1>2 DEF Range

LEMMA SequenceIn ==
    ASSUME NEW g \in Group, NEW f \in [Group -> Seq(Job)]
    PROVE  Range(f[g]) \subseteq Job
<1>1. f[g] \in Seq(Job)  OBVIOUS
<1>2. \A i \in DOMAIN f[g] : f[g][i] \in Job  BY <1>1
<1>3. QED  BY <1>2 DEF Range

LEMMA HeadTailIs ==
    ASSUME NEW s \in Seq(Job), s # <<>>
    PROVE  /\ Head(s) \in Range(s) /\ Range(Tail(s)) \subseteq Range(s)
           /\ ((\A i, k \in DOMAIN s : s[i] = s[k] => i = k)
               => /\ Head(s) \notin Range(Tail(s))
                  /\ \A i, k \in DOMAIN Tail(s) : Tail(s)[i] = Tail(s)[k] => i = k)
<1>1. /\ DOMAIN s = 1..Len(s) /\ Len(s) \in Nat /\ Len(s) >= 1
      /\ DOMAIN Tail(s) = 1..Len(s) - 1 /\ Head(s) = s[1]
      /\ \A i \in 1..Len(s) - 1 : Tail(s)[i] = s[i + 1] /\ i + 1 \in 1..Len(s) /\ i + 1 # 1
  OBVIOUS
<1>2. \A i, k \in 1..Len(s) - 1 : i + 1 = k + 1 => i = k
  BY <1>1
<1>3. Head(s) \in Range(s) /\ Range(Tail(s)) \subseteq Range(s)
  BY <1>1 DEF Range
<1>4. ASSUME \A i, k \in DOMAIN s : s[i] = s[k] => i = k
      PROVE  /\ Head(s) \notin Range(Tail(s))
             /\ \A i, k \in DOMAIN Tail(s) : Tail(s)[i] = Tail(s)[k] => i = k
  <2>1. 1 \in DOMAIN s  BY <1>1
  <2>2. Head(s) \notin Range(Tail(s))
    BY <1>1, <1>4, <2>1 DEF Range
  <2>3. ASSUME NEW i \in DOMAIN Tail(s), NEW k \in DOMAIN Tail(s), Tail(s)[i] = Tail(s)[k]
        PROVE  i = k
    BY <1>1, <1>2, <1>4, <2>3
  <2>4. QED  BY <2>2, <2>3
<1>5. QED  BY <1>3, <1>4

LEMMA PlacedAdd ==
    ASSUME TypeOK, Placed, NEW j \in Job, AddEpisodeTask(j)
    PROVE  Placed'
<1> USE McpQueueAssumption
<1> DEFINE h == GroupOf[j]
<1>1. h \in Group  OBVIOUS
<1>2. /\ queue' = [queue EXCEPT ![h] = Append(@, j)] /\ added' = [added EXCEPT ![h] = Append(@, j)]
      /\ UNCHANGED <<hand, taken, settled>> /\ j \notin Range(added[h])
      /\ queue \in [Group -> Seq(Job)] /\ added \in [Group -> Seq(Job)]
  BY DEF AddEpisodeTask, TypeOK
<1>3. /\ \A g \in Group \ {h} : queue'[g] = queue[g] /\ added'[g] = added[g]
      /\ queue'[h] = Append(queue[h], j) /\ added'[h] = Append(added[h], j)
      /\ queue[h] \in Seq(Job) /\ added[h] \in Seq(Job)
  BY <1>1, <1>2
<1>4. j \notin Range(queue[h]) /\ \A g \in Group : j \notin Range(taken[g])
  BY <1>1, <1>2 DEF Placed, RangesAt
<1>5. j \notin settled /\ \A w \in Job : j \notin hand[w]
  BY <1>1, <1>4 DEF Placed, Settled, Held
<1>6. /\ Range(queue'[h]) = Range(queue[h]) \cup {j} /\ Range(added'[h]) = Range(added[h]) \cup {j}
      /\ \A i, k \in DOMAIN queue'[h] : queue'[h][i] = queue'[h][k] => i = k
  <2>1. \A i, k \in DOMAIN queue[h] : queue[h][i] = queue[h][k] => i = k
    BY <1>1 DEF Placed, WaitingAt
  <2>2. Range(Append(queue[h], j)) = Range(queue[h]) \cup {j}
    BY <1>3, AppendIs
  <2>3. Range(Append(added[h], j)) = Range(added[h]) \cup {j}
    BY <1>3, AppendIs
  <2>4. \A i, k \in DOMAIN Append(queue[h], j) :
           Append(queue[h], j)[i] = Append(queue[h], j)[k] => i = k
    <3> HIDE DEF h
    <3>1. QED  BY <1>3, <1>4, <2>1, AppendIs
  <2>5. QED  BY <1>3, <2>2, <2>3, <2>4
<1>7. ASSUME NEW g \in Group PROVE RangesAt(g)'
  BY <1>1, <1>2, <1>3, <1>6 DEF Placed, RangesAt
<1>8. ASSUME NEW g \in Group PROVE WaitingAt(g)'
  <2>1. /\ \A i, k \in DOMAIN queue[g] : queue[g][i] = queue[g][k] => i = k
        /\ \A y \in Range(queue[g]) : y \notin settled /\ \A w \in Job : y \notin hand[w]
    BY DEF Placed, WaitingAt
  <2>2. CASE g = h
    <3>1. \A y \in Range(queue'[h]) : y \in Range(queue[h]) \/ y = j
      BY <1>6
    <3>2. \A y \in Range(queue'[g]) : y \notin settled' /\ \A w \in Job : y \notin hand'[w]
      BY <1>2, <1>5, <2>1, <2>2, <3>1
    <3>3. QED  BY <1>6, <2>2, <3>2 DEF WaitingAt
  <2>3. CASE g # h
    <3>1. queue'[g] = queue[g]  BY <1>3, <2>3
    <3>2. QED  BY <1>2, <2>1, <3>1 DEF WaitingAt
  <2>4. QED  BY <2>2, <2>3
<1>9. ASSUME NEW g \in Group PROVE TakenAt(g)'
  BY <1>2 DEF Placed, TakenAt
<1>10. QED  BY <1>2, <1>7, <1>8, <1>9 DEF Placed, Settled, Held

LEMMA PlacedTake ==
    ASSUME TypeOK, Placed, NEW w \in Job, Take(w)
    PROVE  Placed'
<1> USE McpQueueAssumption
<1> DEFINE h == GroupOf[w]
           x == Head(queue[h])
<1>1. h \in Group  OBVIOUS
<1>2. /\ hand' = [hand EXCEPT ![w] = {x}] /\ hand \in [Job -> SUBSET Job] /\ hand[w] = {}
      /\ queue' = [queue EXCEPT ![h] = Tail(@)] /\ taken' = [taken EXCEPT ![h] = Append(@, x)]
      /\ UNCHANGED <<added, settled>> /\ queue[h] # <<>>
      /\ queue \in [Group -> Seq(Job)] /\ taken \in [Group -> Seq(Job)]
  BY DEF Take, First, Rest, TypeOK
<1>3. /\ \A g \in Group \ {h} : queue'[g] = queue[g] /\ taken'[g] = taken[g]
      /\ queue'[h] = Tail(queue[h]) /\ taken'[h] = Append(taken[h], x)
      /\ queue[h] \in Seq(Job) /\ taken[h] \in Seq(Job) /\ x \in Job
  BY <1>1, <1>2
<1>4. /\ x \in Range(queue[h]) /\ Range(queue'[h]) \subseteq Range(queue[h])
      /\ x \notin Range(queue'[h])
      /\ \A i, k \in DOMAIN queue'[h] : queue'[h][i] = queue'[h][k] => i = k
  <2>1. \A i, k \in DOMAIN queue[h] : queue[h][i] = queue[h][k] => i = k
    BY <1>1 DEF Placed, WaitingAt
  <2>2. queue[h] \in Seq(Job) /\ queue[h] # <<>> /\ queue'[h] = Tail(queue[h])
    BY <1>2, <1>3
  <2> HIDE DEF h
  <2>3. Head(queue[h]) \in Range(queue[h]) /\ Range(Tail(queue[h])) \subseteq Range(queue[h])
    BY <2>2, HeadTailIs
  <2>4. /\ Head(queue[h]) \notin Range(Tail(queue[h]))
        /\ \A i, k \in DOMAIN Tail(queue[h]) : Tail(queue[h])[i] = Tail(queue[h])[k] => i = k
    BY <2>1, <2>2, HeadTailIs
  <2>5. QED  BY <2>2, <2>3, <2>4
<1>5. Range(taken'[h]) = Range(taken[h]) \cup {x}
  BY <1>3, AppendIs
<1>6. x \notin settled /\ (\A v \in Job : x \notin hand[v]) /\ GroupOf[x] = h
  BY <1>1, <1>4 DEF Placed, WaitingAt, RangesAt
<1>7. \A v \in Job, y \in Job : y \in hand'[v] <=> (y \in hand[v] \/ (v = w /\ y = x))
  BY <1>2
<1>8. ASSUME NEW g \in Group PROVE RangesAt(g)'
  <2>1. RangesAt(g)  BY DEF Placed
  <2>2. CASE g = h
    <3>1. /\ \A y \in Range(queue'[g]) \cup Range(taken'[g]) :
                 y \in Range(queue[g]) \cup Range(taken[g])
      BY <1>4, <1>5, <2>2
    <3>2. QED  BY <1>2, <2>1, <3>1 DEF RangesAt
  <2>3. CASE g # h
    <3>1. queue'[g] = queue[g] /\ taken'[g] = taken[g]  BY <1>3, <2>3
    <3>2. QED  BY <1>2, <2>1, <3>1 DEF RangesAt
  <2>4. QED  BY <2>2, <2>3
<1>9. \A g \in Group : /\ \A y \in Range(queue[g]) : y \in Job /\ GroupOf[y] = g
                       /\ \A y \in Range(taken[g]) : y \in Job /\ GroupOf[y] = g
  <2> SUFFICES ASSUME NEW g \in Group
               PROVE  /\ \A y \in Range(queue[g]) : y \in Job /\ GroupOf[y] = g
                      /\ \A y \in Range(taken[g]) : y \in Job /\ GroupOf[y] = g
    OBVIOUS
  <2>1. Range(queue[g]) \subseteq Job /\ Range(taken[g]) \subseteq Job
    BY <1>2, SequenceIn
  <2>2. QED  BY <2>1 DEF Placed, RangesAt
<1>10. ASSUME NEW g \in Group PROVE WaitingAt(g)'
  <2>1. \A y \in Range(queue'[g]) : y \in Range(queue[g]) /\ y # x
    BY <1>3, <1>4, <1>6, <1>9
  <2>2. \A i, k \in DOMAIN queue'[g] : queue'[g][i] = queue'[g][k] => i = k
    BY <1>3, <1>4 DEF Placed, WaitingAt
  <2>3. \A y \in Range(queue'[g]) : y \notin settled' /\ \A v \in Job : y \notin hand'[v]
    BY <1>2, <1>7, <1>9, <2>1 DEF Placed, WaitingAt
  <2>4. QED  BY <2>2, <2>3 DEF WaitingAt
<1>11. ASSUME NEW g \in Group PROVE TakenAt(g)'
  <2> SUFFICES ASSUME NEW y \in Range(taken'[g])
               PROVE  /\ y \in settled <=> \A v \in Job : y \notin hand'[v]
                      /\ \A u, v \in Job : y \in hand'[u] /\ y \in hand'[v] => u = v
    BY <1>2 DEF TakenAt
  <2>1. CASE y = x
    BY <1>3, <1>6, <1>7, <2>1
  <2>2. CASE y # x
    <3>1. y \in Range(taken[g]) /\ y \in Job
      BY <1>3, <1>5, <1>9, <2>2
    <3>2. \A v \in Job : y \in hand'[v] <=> y \in hand[v]
      BY <1>7, <2>2, <3>1
    <3>3. QED  BY <3>1, <3>2 DEF Placed, TakenAt
  <2>3. QED  BY <2>1, <2>2
<1>12. Settled'
  <2>1. \A g \in Group : Range(taken[g]) \subseteq Range(taken'[g])
    BY <1>3, <1>5
  <2>2. \A y \in settled : y \in Job  BY DEF TypeOK
  <2>3. QED  BY <1>2, <2>1, <2>2 DEF Placed, Settled
<1>13. Held'
  <2>1. \A g \in Group : Range(taken[g]) \subseteq Range(taken'[g])
    BY <1>3, <1>5
  <2>2. \A v \in Job : \A y \in hand'[v] : y \in Job
    BY <1>2, <1>3
  <2>3. ASSUME NEW v \in Job, NEW y \in hand'[v] PROVE y \in Range(taken'[GroupOf[y]])
    BY <1>1, <1>5, <1>6, <1>7, <2>1, <2>2, <2>3 DEF Placed, Held
  <2>4. QED  BY <2>3 DEF Held
<1>14. QED  BY <1>8, <1>10, <1>11, <1>12, <1>13 DEF Placed

LEMMA PlacedSettle ==
    ASSUME TypeOK, Placed, NEW w \in Job, Settle(w), UNCHANGED <<queue, added, taken>>
    PROVE  Placed'
<1> USE McpQueueAssumption
<1>1. /\ hand' = [hand EXCEPT ![w] = {}] /\ hand \in [Job -> SUBSET Job]
      /\ settled' = settled \cup hand[w]
  BY DEF Settle, TypeOK
<1>2. \A v \in Job : \A y : y \in hand'[v] <=> y \in hand[v] /\ v # w
  BY <1>1
<1>3. ASSUME NEW g \in Group PROVE RangesAt(g)'
  BY DEF Placed, RangesAt
<1>4. ASSUME NEW g \in Group PROVE WaitingAt(g)'
  BY <1>1, <1>2 DEF Placed, WaitingAt
<1>5. ASSUME NEW g \in Group PROVE TakenAt(g)'
  <2> SUFFICES ASSUME NEW y \in Range(taken[g])
               PROVE  /\ y \in settled' <=> \A v \in Job : y \notin hand'[v]
                      /\ \A u, v \in Job : y \in hand'[u] /\ y \in hand'[v] => u = v
    BY DEF TakenAt
  <2>1. /\ y \in settled <=> \A v \in Job : y \notin hand[v]
        /\ \A u, v \in Job : y \in hand[u] /\ y \in hand[v] => u = v
    BY DEF Placed, TakenAt
  <2>2. QED  BY <1>1, <1>2, <2>1
<1>6. Settled'  BY <1>1 DEF Placed, Settled, Held
<1>7. Held'  BY <1>2 DEF Placed, Held
<1>8. QED  BY <1>3, <1>4, <1>5, <1>6, <1>7 DEF Placed

(* What a worker has taken is processed by that worker and no other, and   *)
(* is not forgotten, with however many workers for a group.                *)
THEOREM TakenOnce == Spec => []InOneHand
<1>1. Init => Placed
  BY McpQueueAssumption DEF Init, Placed, RangesAt, WaitingAt, TakenAt, Settled, Held, Range
<1>2. ASSUME TypeOK, Placed, [Next]_vars PROVE Placed'
  <2>1. ASSUME UNCHANGED <<queue, hand, added, taken, settled>> PROVE Placed'
    BY <1>2, <2>1 DEF Placed, RangesAt, WaitingAt, TakenAt, Settled, Held
  <2>2. ASSUME NEW w \in Job, Finish(w) \/ Cancel(w) PROVE Placed'
    BY <1>2, <2>2, PlacedSettle DEF Finish, Cancel
  <2>3. QED
    BY <1>2, <2>1, <2>2, PlacedAdd, PlacedTake DEF Next, WorkerStep, Begin, vars
<1>3. Placed => InOneHand
  BY DEF Placed, TakenAt, InOneHand
<1>4. QED
  BY <1>1, <1>2, <1>3, QueuesTyped, PTL DEF Spec
=============================================================================
