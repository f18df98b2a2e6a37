---------------------------- MODULE MCBulkDedup ----------------------------
(* BulkDedup for TLC: two episodes of two entities; the first states one   *)
(* fact, the second two of the same entities.  The graph has two namesakes *)
(* that the extracted entities may turn out to be.                         *)
EXTENDS BulkDedup, TLC

CONSTANTS a1, b1, a2, b2, g1, g2, A, B, C, D

Entities == <<a1, b1, a2, b2>>
Owner == a1 :> 1 @@ b1 :> 1 @@ a2 :> 2 @@ b2 :> 2
States == <<1, 2, 2>>
Subject == <<a1, a2, a2>>
Object == <<b1, b2, b2>>
(* B is like A and more like C; A and C are not alike.                     *)
Closeness == [p \in Name \X Name |->
    IF p[1] = p[2] THEN 3 ELSE IF p \in {<<A, B>>, <<B, A>>} THEN 1
    ELSE IF p \in {<<B, C>>, <<C, B>>} THEN 2 ELSE 0]
Namings == {h \in [Node -> Name] :
    h[g1] = B /\ h[g2] = B /\ h[b2] = D
    /\ h[a1] \in {A, B} /\ h[b1] \in {C, D} /\ h[a2] \in {C, D}}
Texts == {<<1, 1, 3>>, <<1, 2, 3>>}
=============================================================================
