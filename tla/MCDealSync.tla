----------------------------- MODULE MCDealSync -----------------------------
(* DealSync for TLC.  No property tells the callers of sync_deals apart. *)
EXTENDS DealSync

CONSTANTS c1, c2

Callers == Permutations(Tasks)
=============================================================================
