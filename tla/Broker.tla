------------------------------- MODULE Broker -------------------------------
(***************************************************************************)
(* The broker behind execution's BrokerAdapter, as execution/fake.py has   *)
(* it: the tickets that carry a client order id, the deals they leave, and *)
(* what a call of the adapter does to them.  A hedging account: every      *)
(* placement is a ticket of its own.                                       *)
(*                                                                         *)
(* The ticket <<o, k>> is the one the k-th attempt to send order o makes.  *)
(* A ticket that rests as an order and one that is a position keep the     *)
(* same name, so that a position knows the order it came from.             *)
(***************************************************************************)
EXTENDS Naturals, Sequences, FiniteSets

CONSTANTS Orders,      \* client order ids, one per intent
          Resting,     \* the orders whose entry is a limit or a stop order
          Timed,       \* the resting orders that carry an expiry
          MaxSl,       \* stop levels 1..MaxSl, tighter is larger; 0 is no stop
          MaxLost,     \* bound: calls whose request or answer is lost
          MaxRefused   \* bound: stops dropped at a fill, refused modify and close

ASSUME BrokerAssumption ==
    /\ Resting \subseteq Orders
    /\ Timed \subseteq Resting
    /\ MaxSl \in Nat \ {0}
    /\ MaxLost \in Nat
    /\ MaxRefused \in Nat

VARIABLES ticket,   \* what the broker holds under each ticket
          deals,    \* the deal log, oldest first
          due,      \* the orders whose expiry time has passed
          lost,     \* calls lost so far
          refused   \* refusals so far

brokerVars == <<ticket, deals, due, lost, refused>>

Attempts == 1..2
Tickets == Orders \X Attempts

TicketStates == {"none", "order", "position", "closed", "gone"}
Live == {"order", "position"}

BrokerTypeOK ==
    /\ ticket \in [Tickets -> [st : TicketStates, sl : 0..MaxSl]]
    /\ deals \in Seq([tk : Tickets, entry : {"in", "out"}])
    /\ due \in SUBSET Timed
    /\ lost \in 0..MaxLost
    /\ refused \in 0..MaxRefused

BrokerInit ==
    /\ ticket = [i \in Tickets |-> [st |-> "none", sl |-> 0]]
    /\ deals = <<>>
    /\ due = {}
    /\ lost = 0
    /\ refused = 0

Refuse == refused < MaxRefused /\ refused' = refused + 1

(***************************************************************************)
(* Answers.  A read answers with the tickets it saw and their stops, and   *)
(* with the length of the deal log; "lost" is BrokerUnavailableError.      *)
(***************************************************************************)
Answer(s, saw, n) == [st |-> s, saw |-> saw, n |-> n]
Ack  == Answer("ok", {}, 0)
Nack == Answer("nack", {}, 0)
Lost == Answer("lost", {}, 0)
NoAnswer == Answer("none", {}, 0)

Held(s) == {<<i, ticket[i].sl>> : i \in {j \in Tickets : ticket[j].st = s}}

(* fake.py _open, _close: the ticket changes and its deal is logged. *)
OpenAs(i, sl) ==
    /\ ticket' = [ticket EXCEPT ![i] = [st |-> "position", sl |-> sl]]
    /\ deals' = Append(deals, [tk |-> i, entry |-> "in"])

CloseAt(i) ==
    /\ ticket' = [ticket EXCEPT ![i] = [st |-> "closed", sl |-> 0]]
    /\ deals' = Append(deals, [tk |-> i, entry |-> "out"])

(* A fill comes with the stop that was attached, or without it: ignore_sl_on_fill. *)
Fill(i, sl) ==
    \/ OpenAs(i, sl) /\ UNCHANGED refused
    \/ OpenAs(i, 0) /\ Refuse

Place(i, sl, ans) ==
    \/ /\ ans = Nack                \* invalid price, stops or volume
       /\ UNCHANGED <<ticket, deals, refused>>
    \/ /\ ans = Ack
       /\ i[1] \in Resting
       /\ ticket' = [ticket EXCEPT ![i] = [st |-> "order", sl |-> sl]]
       /\ UNCHANGED <<deals, refused>>
    \/ /\ ans = Ack
       /\ i[1] \notin Resting
       /\ Fill(i, sl)

Modify(i, sl, ans) ==
    \/ /\ ans = Ack
       /\ ticket[i].st = "position"
       /\ ticket' = [ticket EXCEPT ![i].sl = sl]
       /\ UNCHANGED <<deals, refused>>
    \/ /\ ans = Nack
       /\ ticket[i].st = "position"
       /\ Refuse
       /\ UNCHANGED <<ticket, deals>>
    \/ /\ ans = Nack
       /\ ticket[i].st # "position"
       /\ UNCHANGED <<ticket, deals, refused>>

Cancel(i, ans) ==
    \/ /\ ans = Ack
       /\ ticket[i].st = "order"
       /\ ticket' = [ticket EXCEPT ![i] = [st |-> "gone", sl |-> 0]]
       /\ UNCHANGED <<deals, refused>>
    \/ /\ ans = Nack
       /\ ticket[i].st # "order"
       /\ UNCHANGED <<ticket, deals, refused>>

ClosePosition(i, ans) ==
    \/ /\ ans = Ack
       /\ ticket[i].st = "position"
       /\ CloseAt(i)
       /\ UNCHANGED refused
    \/ /\ ans = Nack
       /\ ticket[i].st = "position"
       /\ Refuse
       /\ UNCHANGED <<ticket, deals>>
    \/ /\ ans = Nack
       /\ ticket[i].st # "position"
       /\ UNCHANGED <<ticket, deals, refused>>

Answers(op) ==
    CASE op = "open_positions" -> {Answer("ok", Held("position"), 0)}
      [] op = "pending_orders" -> {Answer("ok", Held("order"), 0)}
      [] op = "deals" -> {Answer("ok", {}, Len(deals))}
      [] OTHER -> {Ack, Nack}

(* What one call of the adapter does and answers when it reaches the broker. *)
Apply(op, i, sl, ans) ==
    \/ op = "place" /\ Place(i, sl, ans)
    \/ op = "modify" /\ Modify(i, sl, ans)
    \/ op = "cancel" /\ Cancel(i, ans)
    \/ op = "close" /\ ClosePosition(i, ans)
    \/ /\ op \in {"open_positions", "pending_orders", "deals"}
       /\ ans \in Answers(op)
       /\ UNCHANGED <<ticket, deals, refused>>

-----------------------------------------------------------------------------
(***************************************************************************)
(* What the market and the clock do by themselves.                         *)
(***************************************************************************)
(* fake.py _trigger_orders: the price reaches a resting order. *)
Trigger(i) ==
    /\ ticket[i].st = "order"
    /\ Fill(i, ticket[i].sl)
    /\ UNCHANGED <<due, lost>>

(* fake.py _trigger_stops: the price reaches a stop or a target. *)
StopOut(i) ==
    /\ ticket[i].st = "position"
    /\ CloseAt(i)
    /\ UNCHANGED <<due, lost, refused>>

(* The order's expires_at passes... *)
Elapse(o) ==
    /\ o \in Timed \ due
    /\ \E k \in Attempts : ticket[<<o, k>>].st # "none"
    /\ due' = due \union {o}
    /\ UNCHANGED <<ticket, deals, lost, refused>>

(* ...and the broker drops what still rests (fake.py _expire_orders). *)
Expire(i) ==
    /\ ticket[i].st = "order"
    /\ i[1] \in due
    /\ ticket' = [ticket EXCEPT ![i] = [st |-> "gone", sl |-> 0]]
    /\ UNCHANGED <<deals, due, lost, refused>>

BrokerNext ==
    \/ \E i \in Tickets : Trigger(i) \/ StopOut(i) \/ Expire(i)
    \/ \E o \in Orders : Elapse(o)
=============================================================================
