---------------------------- MODULE FactValidity ----------------------------
(***************************************************************************)
(* What graphiti_core does to the validity windows of facts: every fact an *)
(* episode yields is resolved against facts that a search found, may turn  *)
(* out to repeat one of them, and may contradict others, whose windows or  *)
(* whose own window it closes.  The facts of one episode are resolved side *)
(* by side, each on copies of its own, and saved together.                 *)
(*                                                                         *)
(* The search and the language model choose freely what is found, repeated *)
(* and contradicted.                                                       *)
(***************************************************************************)
EXTENDS Naturals

CONSTANTS
    MaxFacts,     \* bound on the facts ever created
    MaxPerEpisode, \* bound on the facts of one episode
    MaxTime,      \* bound on the dates in facts
    Never,        \* a date that is not given
    Window        \* the windows <<valid_at, invalid_at>> of extracted facts

ASSUME FactValidityAssumption ==
    MaxFacts \in Nat /\ MaxPerEpisode \in Nat /\ MaxTime \in Nat /\ Never \notin Nat
    /\ Window \subseteq ((0..MaxTime) \cup {Never}) \X ((0..MaxTime) \cup {Never})

Fact == 1..MaxFacts
Date == (0..MaxTime) \cup {Never}
Edge == [valid : Date, invalid : Date, expired : BOOLEAN]

VARIABLES
    stored,       \* the facts in the graph
    resolved,     \* resolved_edges of the running episode
    invalidated,  \* its invalidated_edges
    made,         \* the number of facts created so far
    done,         \* the number of facts of the episode resolved so far
    torn,         \* history: facts that two resolutions of the episode hold
    met,          \* history: contradictions found by the episode
    conflicts     \* history: contradictions found by the episodes before

vars == <<stored, resolved, invalidated, made, done, torn, met, conflicts>>

(* A fact as extract_edges makes it.                                       *)
Extracted == {[valid |-> w[1], invalid |-> w[2], expired |-> FALSE] : w \in Window}

Empty == [f \in {} |-> Never]

(* f with the facts of g that it lacks.                                    *)
Over(f, g) ==
    [x \in DOMAIN f \cup DOMAIN g |-> IF x \in DOMAIN f THEN f[x] ELSE g[x]]

Init ==
    /\ stored = Empty /\ resolved = Empty /\ invalidated = Empty
    /\ made = 0 /\ done = 0 /\ torn = {} /\ met = {} /\ conflicts = {}
-----------------------------------------------------------------------------
Earlier(s, t) == s # Never /\ t # Never /\ s < t
NotAfter(s, t) == s # Never /\ t # Never /\ s <= t

(* One is over before the other begins.                                    *)
Apart(e, f) == NotAfter(e.invalid, f.valid) \/ NotAfter(f.invalid, e.valid)

(* An end that is known makes a fact expired.                              *)
Ended(e) == [e EXCEPT !.expired = @ \/ e.invalid # Never]

(* Mutant: the candidates are not sorted.                                  *)
SupersededByAny(e, C) ==
    LET later == {c \in C : Earlier(e.valid, c.valid)}
    IN  IF e.expired \/ later = {} THEN e
        ELSE [e EXCEPT !.invalid = (CHOOSE c \in later : \A d \in later : d.valid <= c.valid).valid,
                       !.expired = TRUE]

(* Mutant: a candidate that begins with the new fact ends it too.          *)
SupersededAtStart(e, C) ==
    LET later == {c \in C : NotAfter(e.valid, c.valid)}
    IN  IF e.expired \/ later = {} THEN e
        ELSE [e EXCEPT !.invalid = (CHOOSE c \in later : \A d \in later : c.valid <= d.valid).valid,
                       !.expired = TRUE]

(* The new fact ends where the first of the later candidates begins.       *)
Superseded(e, C) ==
    LET later == {c \in C : Earlier(e.valid, c.valid)}
    IN  IF e.expired \/ later = {} THEN e
        ELSE [e EXCEPT !.invalid = (CHOOSE c \in later : \A d \in later : c.valid <= d.valid).valid,
                       !.expired = TRUE]

(* Mutant: facts that were over already are closed again.                  *)
ContradictedEvenOver(c, e) == Earlier(c.valid, e.valid)

(* Mutant: a candidate that begins with e is closed too.                   *)
ContradictedAtStart(c, e) == ~Apart(c, e) /\ NotAfter(c.valid, e.valid)

(* resolve_edge_contradictions: a candidate that begins before e and runs  *)
(* into it ends where e begins.                                            *)
Contradicted(c, e) == ~Apart(c, e) /\ Earlier(c.valid, e.valid)

Closed(c, e) == [c EXCEPT !.invalid = e.valid, !.expired = TRUE]

(* The contradictions that resolving e against C can settle.               *)
Settled(id, e, C) ==
    {<<id, c>> : c \in {k \in C :
        \/ Earlier(stored[k].valid, e.valid)
        \/ e.invalid = Never /\ Earlier(e.valid, stored[k].valid)}}

(* One resolution: fact id, extracted or repeated, is e; its candidates    *)
(* are the facts C.                                                        *)
Write(id, e, C) ==
    LET Cs    == {stored[c] : c \in C \ {id}}
        new   == Superseded(Ended(e), Cs)
        hit   == {c \in C \ {id} : Contradicted(stored[c], new)}
    IN  /\ resolved' = Over([f \in {id} |-> new], resolved)
        /\ invalidated' = Over([c \in hit |-> Closed(stored[c], new)], invalidated)
        /\ torn' = torn \cup (({id} \cup hit) \cap (DOMAIN resolved \cup DOMAIN invalidated))
        /\ met' = met \cup Settled(id, e, C \ {id})
        /\ UNCHANGED <<stored, conflicts>>

Another == done < MaxPerEpisode /\ done' = done + 1

(* The search finds nothing: the fact is new and stays as it is.           *)
KeepExtracted(e) ==
    /\ Another /\ made < MaxFacts
    /\ made' = made + 1
    /\ resolved' = Over([f \in {made + 1} |-> e], resolved)
    /\ UNCHANGED <<stored, invalidated, torn, met, conflicts>>

(* The same text is there already.                                         *)
Repeat(id) ==
    /\ Another /\ id \in DOMAIN stored
    /\ resolved' = Over([f \in {id} |-> stored[id]], resolved)
    /\ torn' = torn \cup ({id} \cap (DOMAIN resolved \cup DOMAIN invalidated))
    /\ UNCHANGED <<stored, invalidated, made, met, conflicts>>

(* A new fact, of which the language model says that it contradicts C.     *)
ResolveNew(e, C) ==
    /\ Another /\ made < MaxFacts /\ stored # Empty
    /\ made' = made + 1
    /\ Write(made + 1, e, C)

(* The language model says that the fact is id again: id is resolved in    *)
(* its place.                                                              *)
ResolveDuplicate(id, C) ==
    /\ Another /\ id \in DOMAIN stored
    /\ Write(id, stored[id], C)
    /\ UNCHANGED made

(* entity_edges = resolved_edges + invalidated_edges, saved one by one.    *)
SaveEpisode ==
    /\ done > 0
    /\ stored' = Over(invalidated, Over(resolved, stored))
    /\ conflicts' = conflicts \cup {p \in met : p[1] \notin torn /\ p[2] \notin torn}
    /\ resolved' = Empty /\ invalidated' = Empty /\ done' = 0 /\ torn' = {} /\ met' = {}
    /\ UNCHANGED made

Next ==
    \/ \E e \in Extracted : KeepExtracted(e)
    \/ \E id \in Fact : Repeat(id)
    \/ \E e \in Extracted, C \in SUBSET DOMAIN stored : ResolveNew(e, C)
    \/ \E id \in Fact, C \in SUBSET DOMAIN stored : ResolveDuplicate(id, C)
    \/ SaveEpisode

Spec == Init /\ [][Next]_vars
-----------------------------------------------------------------------------
(* Shape of the state.  A fact that is invalidated was in the graph.       *)
TypeOK ==
    /\ made \in 0..MaxFacts /\ done \in 0..MaxPerEpisode
    /\ stored \in [DOMAIN stored -> Edge] /\ DOMAIN stored \subseteq 1..made
    /\ resolved \in [DOMAIN resolved -> Edge] /\ DOMAIN resolved \subseteq 1..made
    /\ invalidated \in [DOMAIN invalidated -> Edge]
    /\ DOMAIN invalidated \subseteq DOMAIN stored
    /\ torn \subseteq Fact
    /\ met \subseteq Fact \X Fact /\ conflicts \subseteq Fact \X Fact

(* Two facts that were found to contradict each other are never valid at   *)
(* the same time from then on, whatever later episodes do with either:     *)
(* provided both have a start, the later one or an open one gave way (see  *)
(* Settled), and no other fact of the same episode held one of them too.   *)
ContradictionsApart ==
    \A p \in conflicts : Apart(stored[p[1]], stored[p[2]])

(* The window of f holds some time: it is open on a side, or ends after it *)
(* begins.                                                                 *)
Lasts(f) == f.valid = Never \/ f.invalid = Never \/ f.valid < f.invalid

(* e is f with its window left as it is or cut short, but not to nothing.  *)
Narrower(e, f) ==
    /\ e.valid = f.valid
    /\ f.invalid # Never => NotAfter(e.invalid, f.invalid)
    /\ Lasts(f) => Lasts(e)

(* Facts leave the graph only by deletion.  Resolution never moves a start,*)
(* never takes an end away or moves it later, and never empties a window   *)
(* that held some time: an open window [3, ...) is closed later than at 3, *)
(* so a fact that begins with the one contradicting it stays open.         *)
WindowsOnlyShrink ==
    [][\A f \in DOMAIN stored :
          f \in DOMAIN stored' /\ Narrower(stored'[f], stored[f])]_vars

(* A fact marked expired has an end, so that a reader who leaves out        *)
(* expired facts never leaves out one that is still valid.                  *)
ExpiredHaveEnds ==
    \A f \in DOMAIN stored : stored[f].expired => stored[f].invalid # Never
=============================================================================
