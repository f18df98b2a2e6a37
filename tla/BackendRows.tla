----------------------------- MODULE BackendRows -----------------------------
(***************************************************************************)
(* The rows of Postgres that the backend's handlers change by reading,     *)
(* changing a copy and writing all of it back: users, messages, context    *)
(* templates, graph records; and the row of the entity types, which is     *)
(* deleted and inserted again.  Every request is a handler of its own, and *)
(* no handler uses a transaction.                                          *)
(*                                                                         *)
(* A value is the request that set it.  A statement can fail, executed or  *)
(* not: the client goes away, or the connection is lost.                   *)
(***************************************************************************)
EXTENDS Naturals, FiniteSets

CONSTANTS
    Request,      \* the requests that clients make of the backend
    Op,           \* what each does
    RowOf,        \* the row it is about, by the id in its path
    Sets,         \* the fields that a PATCH sets
    Row, Field,
    Existing,     \* the rows there are at the start
    Scenarios,    \* what the rows are, and the requests made of them
    Nobody,       \* set what was there at the start
    MaxFaults     \* bound on failing statements and on crashes

Kinds == {"user", "message", "template", "graph"}

(* No handler deletes a row of messages, and none creates one alone.       *)
ASSUME RowsAssumption ==
    /\ Op \in [Request -> {"patch", "delete", "create", "put", "clone", "write"}]
    /\ RowOf \in [Request -> Row] /\ Sets \in [Request -> SUBSET Field]
    /\ Existing \subseteq Row
    /\ Scenarios \subseteq [kind : [Row -> Kinds], made : SUBSET Request]
    /\ \A s \in Scenarios : \A q \in s.made :
          Op[q] \in {"delete", "create"} => s.kind[RowOf[q]] # "message"
    /\ Nobody \notin Request /\ MaxFaults \in Nat

VARIABLES
    kind,         \* what the rows are
    made,         \* the requests that are made
    rows,         \* the tables; life "deleted" is a row with deleted_at set
    types,        \* the row of entity_types: the PUT it comes from, or {}
    pc,           \* where each handler is
    copy,         \* the row as a handler read it
    reply,        \* the HTTP status it answered with, 0 before that
    before,       \* the requests that had ended when it began
    applied,      \* the requests whose write has changed a table
    faults

rowVars == <<kind, made, rows, types, pc, copy, reply, before, applied, faults>>

(* uuid, the primary key, is new with every insertion.                     *)
RowRecord == [life : {"absent", "live", "deleted"}, uuid : Nat,
              value : [Field -> Request \cup {Nobody}]]

RowsInit ==
    /\ \E s \in Scenarios : kind = s.kind /\ made = s.made
    /\ rows = [r \in Row |-> [life |-> IF r \in Existing THEN "live" ELSE "absent",
                              uuid |-> 0, value |-> [f \in Field |-> Nobody]]]
    /\ types = {Nobody}
    /\ pc = [q \in Request |-> "start"]
    /\ copy = [q \in Request |-> rows[RowOf[q]]]
    /\ reply = [q \in Request |-> 0]
    /\ before = [q \in Request |-> {}]
    /\ applied = {}
    /\ faults = 0
-----------------------------------------------------------------------------
RowKind(q) == kind[RowOf[q]]

Fault == faults < MaxFaults /\ faults' = faults + 1

(* How a statement can end: executed or not, with an error or without.     *)
Statement(executed, err) ==
    \/ executed /\ ~err /\ UNCHANGED faults
    \/ err /\ Fault

Over == {"done", "dead"}
Begin(q) == before' = [before EXCEPT ![q] = {p \in Request : pc[p] \in Over}]
Goto(q, label) == pc' = [pc EXCEPT ![q] = label] /\ UNCHANGED reply
Answer(q, status) ==
    /\ pc' = [pc EXCEPT ![q] = "done"]
    /\ reply' = [reply EXCEPT ![q] = status]
Apply(q, r, row) == rows' = [rows EXCEPT ![r] = row] /\ applied' = applied \cup {q}
Skip == UNCHANGED <<rows, applied>>

(* SELECT of the row; soft-deleted ones do not count.                      *)
Select(q) ==
    /\ q \in made /\ pc[q] = "start"
    /\ \/ Op[q] = "patch"
       \/ Op[q] = "delete" /\ RowKind(q) # "template"
    /\ Begin(q)
    /\ \E executed, err \in BOOLEAN :
          /\ Statement(executed, err)
          /\ IF err \/ rows[RowOf[q]].life # "live"
             THEN Answer(q, 404) /\ UNCHANGED copy
             ELSE /\ Goto(q, IF Op[q] = "patch" THEN "write" ELSE "group")
                  /\ copy' = [copy EXCEPT ![q] = rows[RowOf[q]]]
    /\ UNCHANGED <<kind, made, rows, types, applied>>

(* WherePK, and deleted_at IS NULL for the models with soft_delete.        *)
HitsById(q) == rows[RowOf[q]].life = "live"              \* mutant: by the id
HitsDeleted(q) == rows[RowOf[q]].life # "absent"         \* mutant: deleted ones too
                  /\ rows[RowOf[q]].uuid = copy[q].uuid
Hits(q) == rows[RowOf[q]].life = "live" /\ rows[RowOf[q]].uuid = copy[q].uuid

MergedFresh(q) == [f \in Field |-> Nobody]               \* mutant: a field is lost
Merged(q) == [f \in Field |-> IF f \in Sets[q] THEN q ELSE copy[q].value[f]]

(* What PATCH answers to an error: nothing is said of graphs and templates.*)
UpdateFailedQuietly(q) == 200                            \* mutant
UpdateFailed(q) == IF RowKind(q) \in {"user", "message"} THEN 500 ELSE 200

(* UPDATE of every column but the key from the copy, deleted_at included.  *)
Update(q) ==
    /\ pc[q] = "write"
    /\ \E executed, err \in BOOLEAN :
          /\ Statement(executed, err)
          /\ IF executed /\ Hits(q)
             THEN Apply(q, RowOf[q], [rows[RowOf[q]] EXCEPT !.life = copy[q].life,
                                                            !.value = Merged(q)])
             ELSE Skip
          /\ Answer(q, IF err THEN UpdateFailed(q) ELSE 200)
    /\ UNCHANGED <<kind, made, types, copy, before>>

Removed(q) ==
    [rows[RowOf[q]] EXCEPT !.life = IF RowKind(q) = "user" THEN "deleted" ELSE "absent"]

Reaches(q) == IF RowKind(q) = "template" THEN rows[RowOf[q]].life = "live" ELSE Hits(q)

(* DELETE: a user is marked; a graph is removed, and an error ignored; a   *)
(* template is removed by its id, without having been read.                *)
Remove(q) ==
    /\ \/ pc[q] = "remove" /\ UNCHANGED before
       \/ /\ q \in made /\ pc[q] = "start" /\ Op[q] = "delete" /\ RowKind(q) = "template"
          /\ Begin(q)
    /\ \E executed, err \in BOOLEAN :
          /\ Statement(executed, err)
          /\ IF executed /\ Reaches(q)
             THEN Apply(q, RowOf[q], Removed(q))
             ELSE Skip
          /\ Answer(q, IF err /\ RowKind(q) # "graph" THEN 500 ELSE 200)
    /\ UNCHANGED <<kind, made, types, copy>>

(* The id is unique, soft-deleted rows included.                           *)
InsertsAlways(q) == TRUE                                 \* mutant
Inserts(q) == rows[RowOf[q]].life = "absent"

(* INSERT of a new row; any error is taken for a conflict.                 *)
Insert(q, ok) ==
    \E executed, err \in BOOLEAN :
       LET row == [life |-> "live", uuid |-> rows[RowOf[q]].uuid + 1,
                   value |-> [f \in Field |-> q]] IN
       /\ Statement(executed, err)
       /\ IF executed /\ Inserts(q)
          THEN Apply(q, RowOf[q], row) /\ copy' = [copy EXCEPT ![q] = row]
          ELSE Skip /\ UNCHANGED copy
       /\ IF err \/ ~Inserts(q) THEN Answer(q, 400) ELSE ok

(* A user and a graph also get an entity of their own.                     *)
Create(q) ==
    /\ q \in made /\ pc[q] = "start" /\ Op[q] = "create"
    /\ Begin(q)
    /\ Insert(q, IF RowKind(q) \in {"user", "graph"} THEN Goto(q, "entity") ELSE Answer(q, 200))
    /\ UNCHANGED <<kind, made, types>>

(* Mutant: the old row is not found.                                       *)
DeleteTypesMissed(q) ==
    /\ q \in made /\ pc[q] = "start" /\ Op[q] = "put"
    /\ Begin(q) /\ Goto(q, "types")
    /\ UNCHANGED <<kind, made, rows, types, copy, applied, faults>>

(* putEntityTypes: an error of the first statement is ignored.             *)
DeleteTypes(q) ==
    /\ q \in made /\ pc[q] = "start" /\ Op[q] = "put"
    /\ Begin(q)
    /\ \E executed, err \in BOOLEAN :
          /\ Statement(executed, err)
          /\ types' = IF executed THEN {} ELSE types
    /\ Goto(q, "types")
    /\ UNCHANGED <<kind, made, rows, copy, applied>>

(* Mutant: a request that was overtaken cleans up after itself.            *)
InsertTypesOrClean(q) ==
    /\ pc[q] = "types"
    /\ \E executed, err \in BOOLEAN :
          /\ Statement(executed, err)
          /\ types' = IF types = {} /\ executed THEN {q} ELSE {}
          /\ applied' = IF executed /\ types = {} THEN applied \cup {q} ELSE applied
          /\ Answer(q, IF err \/ types # {} THEN 500 ELSE 200)
    /\ UNCHANGED <<kind, made, rows, copy, before>>

(* The project is unique: INSERT fails when another request was faster.    *)
InsertTypes(q) ==
    /\ pc[q] = "types"
    /\ \E executed, err \in BOOLEAN :
          /\ Statement(executed, err)
          /\ IF executed /\ types = {}
             THEN types' = {q} /\ applied' = applied \cup {q}
             ELSE UNCHANGED <<types, applied>>
          /\ Answer(q, IF err \/ types # {} THEN 500 ELSE 200)
    /\ UNCHANGED <<kind, made, rows, copy, before>>

(* The backend process dies with its handlers.                             *)
Crash ==
    /\ Fault
    /\ pc' = [q \in Request |-> IF pc[q] \in {"start", "done"} THEN pc[q] ELSE "dead"]
    /\ UNCHANGED <<kind, made, rows, types, copy, reply, before, applied>>

RowsStep(q) ==
    \/ Select(q) \/ Update(q) \/ Remove(q) \/ Create(q)
    \/ DeleteTypes(q) \/ InsertTypes(q)
-----------------------------------------------------------------------------
RowsTypeOK ==
    /\ kind \in [Row -> Kinds] /\ made \subseteq Request
    /\ rows \in [Row -> RowRecord] /\ copy \in [Request -> RowRecord]
    /\ types \subseteq Request \cup {Nobody}
    /\ reply \in [Request -> {0, 200, 400, 404, 500}]
    /\ before \in [Request -> SUBSET Request]
    /\ applied \subseteq Request
    /\ faults \in 0..MaxFaults

(* A PATCH with an old copy brings no deleted row back: a soft-deleted row *)
(* stays deleted, and a removed one comes back only as a new one.          *)
StaysDeleted ==
    [][\A r \in Row : rows[r].life # "live" /\ rows'[r].life = "live" =>
          rows[r].life = "absent" /\ rows'[r].uuid > rows[r].uuid]_rowVars

(* A row that was created again shows nothing of what was read from or     *)
(* written to the one before it.                                           *)
NothingInherited ==
    \A r \in Row : \A f \in Field : rows[r].value[f] \in Request =>
        copy[rows[r].value[f]].uuid = rows[r].uuid

(* What a PATCH has written is still there as long as its row is, unless   *)
(* another request set the same field or overlapped with it: requests that *)
(* are made one after the other lose nothing.                              *)
LostOnlyIfOverlapped ==
    \A q \in applied : Op[q] = "patch" => \A f \in Sets[q] :
        \/ ~ Hits(q)
        \/ rows[RowOf[q]].value[f] = q
        \/ \E p \in applied \ {q} :
              RowOf[p] = RowOf[q] /\ Op[p] = "patch" /\ (f \in Sets[p] \/ q \notin before[p])

(* A PATCH answered with 200 has been written, unless its row was gone by  *)
(* then or the error of the statement was ignored.                         *)
AnsweredMeansWritten ==
    \A q \in Request : Op[q] = "patch" /\ reply[q] = 200 =>
        \/ q \in applied \/ ~ Hits(q)
        \/ faults > 0 /\ RowKind(q) \in {"template", "graph"}

(* A PATCH is kept, and touches no row but the one it read.                *)
PatchesKept == NothingInherited /\ LostOnlyIfOverlapped /\ AnsweredMeansWritten

Puts == {q \in made : Op[q] = "put"}

(* However PUTs of the entity types meet, one of them stays: there are     *)
(* none only while a PUT is under way, or after a statement or the backend *)
(* failed.                                                                 *)
TypesKept ==
    types = {} => \/ faults > 0
                  \/ \E q \in Puts : pc[q] = "types"

(* A PUT answered with 500 without a fault was overtaken by another one,   *)
(* whose types are there: it does not leave the old ones.                  *)
RefusedPutWasOvertaken ==
    \A q \in Puts : reply[q] = 500 /\ faults = 0 =>
        /\ \E p \in Puts \cap applied : p # q /\ p \notin before[q]
        /\ Nobody \notin types

(* PUTs of the entity types meet without harm.                             *)
PutsSettle == TypesKept /\ RefusedPutWasOvertaken
=============================================================================
