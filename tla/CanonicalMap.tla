---------------------------- MODULE CanonicalMap ----------------------------
(***************************************************************************)
(* What _build_directed_uuid_map promises: the pairs (duplicate,           *)
(* canonical) are applied in the order in which they were found, and each  *)
(* makes all that stood for the same node as its first element stand for   *)
(* the node that its second element stands for.                            *)
(***************************************************************************)
EXTENDS Sequences

CONSTANT Node

VARIABLES
    pairs,        \* the pairs that are left
    canonical     \* the node that each node stands for

vars == <<pairs, canonical>>

Itself == [x \in Node |-> x]
Redirect(f, s, t) == [x \in Node |-> IF f[x] = f[s] THEN f[t] ELSE f[x]]

Init == pairs \in Seq(Node \X Node) /\ canonical = Itself

(* More pairs are found: all are, before the first is applied.             *)
Find ==
    /\ canonical = Itself
    /\ pairs' \in Seq(Node \X Node)
    /\ UNCHANGED canonical

Apply ==
    /\ pairs # <<>>
    /\ canonical' = Redirect(canonical, pairs[1][1], pairs[1][2])
    /\ pairs' = Tail(pairs)

Next == Find \/ Apply
Spec == Init /\ [][Next]_vars
=============================================================================
