------------------------------ MODULE CostModel ------------------------------
(***************************************************************************)
(* The calibration of the backtest's costs (learning/costs.py), as the     *)
(* demo runs it every week: a model that is dearer or equal is in force at *)
(* once, one that is cheaper in a market waits for fills and for weeks of  *)
(* the same.                                                               *)
(*                                                                         *)
(* The cost of a market is one number, the mean spread over the hours seen *)
(* with the slippage, and None where no quote was seen.  The fills of the  *)
(* execution log only grow in number; the quotes start from nothing at a   *)
(* restart, and a market can have none when the week is over.              *)
(***************************************************************************)
EXTENDS Integers, Sequences, FiniteSetsExt

CONSTANTS Markets, Costs,   \* Costs: what the cost of a market may be, numbers
          Gaps, None,   \* the markets that may have no quote when the week is over
          MinFills, Weeks,  \* MIN_FILLS, WEEKS_OF_EVIDENCE
          MaxWeeks, MaxFills    \* bounds

VARIABLES fills,    \* the fills of each market in the execution log
          registry  \* cost_registry.jsonl: each calibration, newest last

vars == <<fills, registry>>

-----------------------------------------------------------------------------
(* CostRegistry.active: the newest version that was activated. *)
ActiveAt(reg) == {i \in DOMAIN reg : reg[i].status = "active"}
Active(reg) == reg[Max(ActiveAt(reg))]

(* The markets in which the new costs are below those in force: a market either knows nothing of does not count. *)
Cheaper(cost, active) == {s \in Markets : cost[s] # None /\ active.cost[s] # None /\ cost[s] < active.cost[s]}

(* The versions that wait, counted back from the newest, with the new one. *)
Streak(reg) == IF ActiveAt(reg) = {} THEN Len(reg) + 1 ELSE Len(reg) - Max(ActiveAt(reg)) + 1

(* decide: the asymmetric rule. *)
Decide(cost, count, reg) ==
    IF ActiveAt(reg) = {} THEN "active"
    ELSE LET cheaper == Cheaper(cost, Active(reg)) IN
         IF \/ cheaper = {}
            \/ (\A s \in cheaper : count[s] >= MinFills) /\ Streak(reg) >= Weeks
         THEN "active" ELSE "pending"

-----------------------------------------------------------------------------
Init == fills = [s \in Markets |-> 0] /\ registry = <<>>

(* A week: the order manager logs fills with their slippage, then calibrate_costs calibrates, decides and records. *)
Calibrate(cost, more) ==
    /\ Len(registry) < MaxWeeks
    /\ fills' = [s \in Markets |-> IF s \in more /\ fills[s] < MaxFills THEN fills[s] + 1 ELSE fills[s]]
    /\ registry' = Append(registry, [cost |-> cost, fills |-> fills', status |-> Decide(cost, fills', registry)])

Next ==
    \E cost \in [Markets -> Costs \union {None}], more \in SUBSET Markets :
        /\ \A s \in Markets \ Gaps : cost[s] # None
        /\ Calibrate(cost, more)

Spec == Init /\ [][Next]_vars

-----------------------------------------------------------------------------
(* The type invariant. *)
CostTypeOK ==
    /\ fills \in [Markets -> 0..MaxFills]
    /\ Len(registry) <= MaxWeeks
    /\ \A i \in DOMAIN registry :
          /\ registry[i].cost \in [Markets -> Costs \union {None}] /\ registry[i].fills \in [Markets -> 0..MaxFills]
          /\ registry[i].status \in {"active", "pending"}

(* The version in force before version i. *)
InForce(i) == Max({j \in 1..(i - 1) : registry[j].status = "active"})

(* costs.py: once a market is in the model in force, it gets cheaper only with its fills, after Weeks calibrations in a
   row of which each was cheaper in some market; a version that is nowhere cheaper is in force at once; and over the
   whole history a market gets cheaper in no other way than this, unless a version in force had no number for it. *)
CheaperWaits ==
    \A i \in DOMAIN registry : i > 1 =>
        LET v == registry[i]
            before == registry[InForce(i)]
        IN  /\ \A s \in Markets : (v.status = "active" /\ Cheaper(v.cost, before) # {}) =>
                  /\ s \in Cheaper(v.cost, before) => v.fills[s] >= MinFills
                  /\ i - InForce(i) >= Weeks
                  /\ \A j \in (InForce(i) + 1)..i : Cheaper(registry[j].cost, before) # {}
            /\ v.status = "pending" => Cheaper(v.cost, before) # {}
            /\ \A j \in 1..(i - 1), s \in Markets :
                  /\ v.status = "active" /\ registry[j].status = "active"
                  /\ registry[j].cost[s] # None /\ v.cost[s] # None /\ v.cost[s] < registry[j].cost[s]
                  => \/ \E k \in (j + 1)..i : registry[k].status = "active" /\ registry[k].fills[s] >= MinFills
                                                /\ k - InForce(k) >= Weeks
                     \/ \E k \in j..i : registry[k].status = "active" /\ registry[k].cost[s] = None
=============================================================================
