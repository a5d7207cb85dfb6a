------------------------------ MODULE OrderLife ------------------------------
(***************************************************************************)
(* What execution promises about an order, without calls, tasks or         *)
(* crashes: the stage its journal shows only moves along the edges below,  *)
(* and a position's close is published as a trade at most once, after the  *)
(* journal has the order as closed.                                        *)
(***************************************************************************)
EXTENDS Naturals

CONSTANT Orders

VARIABLES stage,      \* the stage of each order on disk
          published   \* the trades published for each order

Edges ==
    {<<"none", "sending">>,
     <<"sending", "pending">>, <<"sending", "open">>, <<"sending", "rejected">>,
     <<"pending", "open">>, <<"pending", "cancelled">>, <<"pending", "expired">>,
     <<"open", "closed">>}

Init ==
    /\ stage = [o \in Orders |-> "none"]
    /\ published = [o \in Orders |-> 0]

(* One write of the journal: each order stays or takes one edge. *)
Advance ==
    /\ stage' \in [Orders -> {e[1] : e \in Edges} \union {e[2] : e \in Edges}]
    /\ \A o \in Orders : stage'[o] = stage[o] \/ <<stage[o], stage'[o]>> \in Edges
    /\ UNCHANGED published

(* One flush of the outbox. *)
Publish ==
    /\ \A o \in Orders : published'[o] # published[o] =>
          stage[o] = "closed" /\ published[o] = 0 /\ published'[o] = 1
    /\ published' \in [Orders -> 0..1]
    /\ UNCHANGED stage

Next == Advance \/ Publish

Spec == Init /\ [][Next]_<<stage, published>>
=============================================================================
