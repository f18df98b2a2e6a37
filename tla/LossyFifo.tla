------------------------------ MODULE LossyFifo ------------------------------
(***************************************************************************)
(* What POST /messages promises its callers: accepted messages are worked  *)
(* off one at a time, first in first out, at most once each.  Delivery is  *)
(* not promised: a message may be dropped when its turn comes, and all the *)
(* pending ones may be lost together, but none is left waiting for ever.   *)
(***************************************************************************)
EXTENDS Naturals, Sequences, Functions

CONSTANTS Item, Bodies

VARIABLES accepted, pending, delivered
fifoVars == <<accepted, pending, delivered>>

Init == accepted = {} /\ pending = <<>> /\ delivered = <<>>

Accept(body) ==
    /\ Range(body) \cap accepted = {}
    /\ accepted' = accepted \cup Range(body)
    /\ pending' = pending \o body
    /\ UNCHANGED delivered

Deliver ==
    /\ pending # <<>>
    /\ delivered' = Append(delivered, Head(pending))
    /\ pending' = Tail(pending)
    /\ UNCHANGED accepted

Drop ==
    /\ pending # <<>>
    /\ pending' = Tail(pending)
    /\ UNCHANGED <<accepted, delivered>>

LoseAll ==
    /\ pending' = <<>>
    /\ UNCHANGED <<accepted, delivered>>

Next == (\E body \in Bodies : Accept(body)) \/ Deliver \/ Drop \/ LoseAll

Spec == Init /\ [][Next]_fifoVars /\ WF_fifoVars(Deliver \/ Drop)
=============================================================================
