---------------------------- MODULE MCCommunities ----------------------------
(* Episodes and Communities for TLC: each scenario is a handful of calls.  *)
EXTENDS Communities

CONSTANTS add0, add1, add2, add3, add4, add5, bulk, remove0, again0, remove1, remove2,
          buildAll, buildOne, buildNew, upN, upM, upM2,
          e0, e1, e2, e3, e4, e5, n, m, o, near, far, f, h

MCWhat == [c \in Call |->
    CASE c \in {add0, add1, add2, add3, add4, add5} -> "add"
      [] c = bulk -> "addBulk"
      [] c \in {remove0, again0, remove1, remove2} -> "remove"
      [] c \in {buildAll, buildOne, buildNew} -> "build"
      [] OTHER -> "update"]
MCAdds == [c \in Call |->
    CASE c = add0 -> <<e0>> [] c = add1 -> <<e1>> [] c = add2 -> <<e2>>
      [] c = add3 -> <<e3>> [] c = add4 -> <<e4>> [] c = add5 -> <<e5>>
      [] c = bulk -> <<e3, e2>> [] OTHER -> <<>>]
MCRemoves == [c \in Call |->
    IF c \in {remove0, again0} THEN e0 ELSE IF c = remove2 THEN e2 ELSE e1]

(* Three episodes mention n and m and state f, and only e1 states h too;   *)
(* e0 and e5 are in no saga; e3 comes before e2, and e4 with e1.           *)
MCMentions == [e \in Episode |-> IF e \in {e0, e1, e2} THEN {n, m} ELSE {n}]
MCStates == [e \in Episode |-> IF e = e1 THEN {f, h} ELSE IF e \in {e0, e2} THEN {f} ELSE {}]
MCJoins == [x \in Fact |-> {n, m}]
MCValidAt == [e \in Episode |-> IF e = e3 THEN 2 ELSE IF e = e2 THEN 3 ELSE 1]

MCGiven == [c \in Call |-> IF c = add2 THEN e1 ELSE NoEpisode]
MCGroupOf == [x \in Entity |-> IF x = o THEN far ELSE near]
MCBuilt == [c \in Call |-> IF c = buildAll THEN {near, far} ELSE {near}]
MCOf == [c \in Call |-> IF c \in {upM, upM2} THEN m ELSE n]

MCScenarios == {
    {add1, add2, add3, add4}, {add1, bulk, add4}, {add1, bulk, remove1},
    {add0, bulk, remove2},
    {add0, add5, remove0, again0}, {add1, add2, remove1, remove2},
    {add0, buildAll, buildOne}, {add0, buildOne, buildNew, upM}, {add0, buildAll, upN, upM},
    {add0, buildOne, upM, upM2}, {add0, remove0, buildAll, upN},
    {add0, remove0, buildOne, upM}, {add5, add0, buildOne}}
=============================================================================
