--------------------------- MODULE MCOpenContext ---------------------------
(* OpenContext for TLC.  A thread t1 of the user u1, and a user u2 of whom *)
(* batches have an item; each configuration picks the requests that meet.  *)
EXTENDS OpenContext, TLC

CONSTANTS j1, j2, j3, j4, j5, t1, u1, u2,
          post, retry, batch, lone, newThread, againThread, dropThread, newUser, dropUser

MCKind == [r \in Request |->
    CASE r \in {post, retry} -> "addMessages"
      [] r \in {batch, lone} -> "addBatch"
      [] r \in {newThread, againThread} -> "createThread"
      [] r = dropThread -> "deleteThread"
      [] r = newUser    -> "createUser"
      [] r = dropUser   -> "deleteUser"]

MCSubject == [r \in Request |-> IF r \in {newUser, dropUser} THEN u2 ELSE t1]
MCOwner   == [r \in Request |-> u1]
MCDeletes == Request \cap {dropThread, dropUser}

(* Retry: both requests carry the uuids 1 and 2, in opposite orders, so    *)
(* that each can stop the other.                                           *)
RetryBody == [r \in Request |-> CASE r = post  -> <<j1, j2>>
                                  [] r = retry -> <<j3, j4>>
                                  [] OTHER     -> <<>>]
RetryUuid == j1 :> 1 @@ j2 :> 2 @@ j3 :> 2 @@ j4 :> 1
RetryGroupOf == [j \in Job |-> t1]
RetryRole    == j1 :> "user" @@ j2 :> "moderator" @@ j3 :> "assistant" @@ j4 :> "user"
MCIgnoreRoles == [r \in Request |-> IF r = retry THEN {"assistant"} ELSE {}]
RetryBatches == {<<j1, j2>>, <<j4>>}

RetryTogether == {Request}

(* Threads: a thread that is created, written to, deleted and created      *)
(* again, nothing telling the two creations apart; or a batch of three     *)
(* items, the second without a group, beside the creation of the user that *)
(* the third is about; or a batch of one item, beside the creation and the *)
(* deletion of its user.                                                   *)
ThreadTogether == {{post, dropThread, newThread, againThread},
                   {batch, newUser}, {lone, newUser, dropUser}}
Creations == Permutations({newThread, againThread})
ThreadBody == [r \in Request |-> CASE r = post  -> <<j1>>
                                   [] r = batch -> <<j2, j3, j4>>
                                   [] r = lone  -> <<j5>>
                                   [] OTHER     -> <<>>]
ThreadGroupOf == j1 :> t1 @@ j2 :> t1 @@ j3 :> t1 @@ j4 :> u2 @@ j5 :> u2
ThreadBatches == {<<j1>>, <<j2>>, <<j4>>, <<j5>>}

SameDate == [j \in Job |-> 1]
AnyRole  == [j \in Job |-> "user"]
OwnUuid  == [j \in Job |-> j]
=============================================================================
