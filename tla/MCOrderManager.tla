--------------------------- MODULE MCOrderManager ---------------------------
(* OrderManager for TLC: a market order m1 and a resting order p1. *)
EXTENDS OrderManager

CONSTANTS m1, p1

BothDecisions == <<m1, p1>>

(* The same decision twice: the second is what a replay of the first looks like. *)
RestingDecisions == <<p1, p1>>
MarketDecisions == <<m1, m1>>
=============================================================================
