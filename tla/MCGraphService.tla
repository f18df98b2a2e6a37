--------------------------- MODULE MCGraphService ---------------------------
(* GraphService for TLC.  MCWorker: three messages of one thread, two of   *)
(* them posted by one request and dated the wrong way round; a job reads   *)
(* one earlier episode.  MCDeletion: two messages posted apart, against a  *)
(* deletion of the thread's group.                                         *)
EXTENDS GraphService, TLC

CONSTANTS j1, j2, j3, t1

OneGroup   == [j \in Job |-> t1]

Dates      == j1 :> 2 @@ j2 :> 1 @@ j3 :> 2
TwoBatches == {<<j1, j2>>, <<j3>>}

SameDate   == [j \in Job |-> 1]
SingleJobs == {<<j>> : j \in Job}
=============================================================================
