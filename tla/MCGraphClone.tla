----------------------------- MODULE MCGraphClone -----------------------------
(* BackendRows and GraphClone for TLC.  r1 is a row of each kind in turn;  *)
(* src is a graph of two entities and a fact, to which the worker may add  *)
(* an entity with a fact, or a fact alone, until there is more of both     *)
(* than can be listed; dst is the graph it is cloned to.                   *)
EXTENDS GraphClone

CONSTANTS p1, p2, drop, create, createDst, put1, put2, clone1, clone2, dropDst, dropSrc, write,
          write2, r1, src, dst, f, g, n1, n2, n3, e1, e2, e3

MCOp == [q \in Request |->
    CASE q \in {p1, p2} -> "patch"
      [] q \in {drop, dropDst, dropSrc} -> "delete"
      [] q \in {create, createDst} -> "create"
      [] q \in {put1, put2} -> "put"
      [] q \in {write, write2} -> "write"
      [] OTHER -> "clone"]
MCRowOf == [q \in Request |-> IF q \in {clone1, clone2, createDst, dropDst} THEN dst
                              ELSE IF q \in {dropSrc, write, write2} THEN src ELSE r1]
MCSets == [q \in Request |-> IF q = p1 THEN {f} ELSE IF q = p2 THEN {g} ELSE {}]

KindIs(k) == [r \in Row |-> IF r = r1 THEN k ELSE "graph"]
Made(k, requests) == [kind |-> KindIs(k), made |-> requests]
MCScenarios ==
    {Made(k, {p1, p2, drop, create}) : k \in {"user", "template", "graph"}} \cup
    {Made("message", {p1, p2}), Made("graph", {put1, put2}),
     Made("graph", {clone1, clone2, dropDst}), Made("graph", {clone1, dropSrc, dropDst}),
     Made("graph", {clone1, createDst, dropDst}), Made("graph", {clone1, write, write2})}

Subject == [e \in Fact |-> IF e = e2 THEN n3 ELSE n1]
Object  == [e \in Fact |-> n2]
=============================================================================
