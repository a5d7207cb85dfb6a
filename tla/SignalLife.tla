----------------------------- MODULE SignalLife -----------------------------
(***************************************************************************)
(* What the trading path promises about a signal, without streams, readers *)
(* or restarts: one proposal, an approval of no more than was proposed,    *)
(* and at most one order at the broker, of an approval.                    *)
(***************************************************************************)
EXTENDS Naturals

CONSTANTS Signals, Lots   \* the lots an order may have: a set of positive numbers

VARIABLES proposed,   \* the intents published for each signal: the lots asked for
          approved,   \* the lots of the approvals signed for each signal
          entered     \* the lots of the orders each signal has sent to the broker

Init ==
    /\ proposed = [s \in Signals |-> {}]
    /\ approved = [s \in Signals |-> {}]
    /\ entered = [s \in Signals |-> <<>>]

Propose(s) ==
    /\ \E lots \in Lots : proposed' = [proposed EXCEPT ![s] = @ \union {lots}]
    /\ UNCHANGED <<approved, entered>>

(* An intent that is delivered again gets one more decision. *)
Approve(s) ==
    /\ \E asked \in proposed[s] : \E lots \in {l \in Lots : l <= asked} : approved' = [approved EXCEPT ![s] = @ \union {lots}]
    /\ UNCHANGED <<proposed, entered>>

Enter(s) ==
    /\ entered[s] = <<>>
    /\ \E lots \in approved[s] : entered' = [entered EXCEPT ![s] = <<lots>>]
    /\ UNCHANGED <<proposed, approved>>

Next == \E s \in Signals : Propose(s) \/ Approve(s) \/ Enter(s)

Spec == Init /\ [][Next]_<<proposed, approved, entered>>
=============================================================================
